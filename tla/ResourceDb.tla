----------------------------- MODULE ResourceDb -----------------------------
(***************************************************************************)
(* The resources the VFM keeps in its SQLite database, and the threads     *)
(* that write and read them without a transaction.  A processor that       *)
(* receives a solicitation enters the host's I/O module (add_io_module).   *)
(* A thread per API client creates and edits vadapters and vfabrics and    *)
(* brings them online.                                                     *)
(*                                                                         *)
(* A step is one SQL statement; SQLite makes a statement atomic and        *)
(* refuses a second row with the same id, and nothing more: foreign keys   *)
(* are declared but not enforced.  Rows are never deleted.                 *)
(***************************************************************************)
EXTENDS Integers, FiniteSets

CONSTANTS Processors,       \* threads that run start_processor
          Macs,             \* MACs of the hosts' I/O modules
          Clients,          \* threads that run process_client_request
          NoMac,
          Protocols,        \* values of a vfabric's protocol column
          InitialDbs,       \* databases the VFM may be started with
          MaxRequests,      \* requests of each client
          MaxRef,           \* largest id a request refers to
          ConstraintError   \* what vfmdb_execute_query returns when a row
                            \* is refused: 1 with SQLite 3.3.6, else 19

VFM_PROTOCOL_EN == 1
VFM_PROTOCOL_FC == 2

ASSUME ThreadsAssumption == Processors \cap Clients = {}
ASSUME ErrorAssumption   == ConstraintError \in Nat \ {0}
ASSUME BoundAssumption   == MaxRequests \in Nat /\ MaxRef \in Nat
ASSUME ProtocolsAssumption == {VFM_PROTOCOL_EN, VFM_PROTOCOL_FC} \subseteq Protocols

VPS_SUCCESS == 0
VFM_ERROR_IOMODULE == -1
VFM_ERROR_VFABRIC  == -2
VPS_DBERROR == -3

VARIABLES
    vfm_io_module_attr,     \* rows [id, mac]
    vfm_vadapter_attr,      \* rows [id, name, io_module_id, vfabric_id]
    vfm_vfabric_attr,       \* rows [id, name, protocol]
    handler,                \* what each processor is doing
    request,                \* what each client's thread is doing
    served,                 \* requests each client has had answered
    replies,                \* history: the answers, see Answer
    advertised,             \* history: MACs sent a unicast advertisement
    crashed                 \* a bad pointer was followed, or a heap overrun
                            \* has ended the VFM

tables == <<vfm_io_module_attr, vfm_vadapter_attr, vfm_vfabric_attr>>
vars == <<tables, handler, request, served, replies, advertised, crashed>>

Ids(table) == {row.id : row \in table}
MaxId(table) == CHOOSE i \in Ids(table) : \A j \in Ids(table) : j <= i

(* Seeded fault: the id is advanced by two. *)
NextId_Twice(table) == IF table = {} THEN 1 ELSE MaxId(table) + 2

(* generate_*_id: select max(id), plus one; 1 when the table is empty. *)
NextId(table) == IF table = {} THEN 1 ELSE MaxId(table) + 1

(* insert: the primary key decides. *)
Insert(table, row) == IF row.id \in Ids(table) THEN table ELSE table \cup {row}
InsertError(table, row) ==
    IF row.id \in Ids(table) THEN ConstraintError ELSE VPS_SUCCESS

Waiting == [pc |-> "wait"]

Init ==
    /\ \E db \in InitialDbs :
          /\ vfm_io_module_attr = db.io_modules
          /\ vfm_vadapter_attr = db.vadapters
          /\ vfm_vfabric_attr = db.vfabrics
    /\ handler = [p \in Processors |-> Waiting]
    /\ request = [c \in Clients |-> Waiting]
    /\ served = [c \in Clients |-> 0]
    /\ replies = {}
    /\ advertised = {}
    /\ crashed = FALSE

-----------------------------------------------------------------------------
(* decide_packet on a solicitation: add_en_io_module_to_db, add_io_module. *)

ApiUnchanged ==
    UNCHANGED <<vfm_vadapter_attr, vfm_vfabric_attr, request, served,
                replies, advertised, crashed>>

Solicitation(p, mac) ==
    /\ ~crashed
    /\ handler[p] = Waiting
    /\ handler' = [handler EXCEPT ![p] = [pc |-> "by_mac", mac |-> mac]]
    /\ UNCHANGED vfm_io_module_attr
    /\ ApiUnchanged

(* Seeded fault: the module is not looked for. *)
LookUpMac_Never(p) ==
    /\ ~crashed
    /\ handler[p].pc = "by_mac"
    /\ Cardinality(vfm_io_module_attr) < 4
    /\ handler' = [handler EXCEPT ![p] =
                      [pc |-> "max", mac |-> handler[p].mac]]
    /\ UNCHANGED vfm_io_module_attr
    /\ ApiUnchanged

(* get_iomodule_by_mac: a module that is known is not entered again. *)
LookUpMac(p) ==
    /\ ~crashed
    /\ handler[p].pc = "by_mac"
    /\ handler' = [handler EXCEPT ![p] =
          IF \E row \in vfm_io_module_attr : row.mac = handler[p].mac
            THEN Waiting
            ELSE [pc |-> "max", mac |-> handler[p].mac]]
    /\ UNCHANGED vfm_io_module_attr
    /\ ApiUnchanged

MaxIoModule(p) ==
    /\ ~crashed
    /\ handler[p].pc = "max"
    /\ handler' = [handler EXCEPT ![p] =
          [pc |-> "insert", mac |-> handler[p].mac,
           id |-> NextId(vfm_io_module_attr)]]
    /\ UNCHANGED vfm_io_module_attr
    /\ ApiUnchanged

(* The error of a refused row is logged; nobody tries again. *)
InsertIoModule(p) ==
    /\ ~crashed
    /\ handler[p].pc = "insert"
    /\ vfm_io_module_attr' = Insert(vfm_io_module_attr,
          [id |-> handler[p].id, mac |-> handler[p].mac])
    /\ handler' = [handler EXCEPT ![p] = Waiting]
    /\ ApiUnchanged

-----------------------------------------------------------------------------
(* API requests.  Each client's thread serves one at a time. *)

FipUnchanged == UNCHANGED <<vfm_io_module_attr, handler>>

Name(c) == <<c, served[c] + 1>>

Accept(c, req) ==
    /\ ~crashed
    /\ request[c] = Waiting
    /\ served[c] < MaxRequests
    /\ request' = [request EXCEPT ![c] = req]
    /\ FipUnchanged
    /\ UNCHANGED <<vfm_vadapter_attr, vfm_vfabric_attr, served, replies,
                   advertised, crashed>>

(* Reply value v to the request. *)
AnswerOnline(c, op, v, active, failed) ==
    /\ request' = [request EXCEPT ![c] = Waiting]
    /\ served' = [served EXCEPT ![c] = @ + 1]
    /\ replies' = replies \cup
          {[name |-> Name(c), op |-> op, value |-> v, active |-> active,
            failed |-> failed]}

Answer(c, op, v) == AnswerOnline(c, op, v, {}, {})

At(c, where) == ~crashed /\ request[c].pc = where

(* process_vfm_create_vadpter, process_vfm_create_vfabric *)

CreateVadapter(c) == Accept(c, [pc |-> "va_max"])
CreateVfabric(c, protocol) ==
    Accept(c, [pc |-> "vf_max", protocol |-> protocol])

MaxVadapter(c) ==
    /\ At(c, "va_max")
    /\ request' = [request EXCEPT ![c] =
          [pc |-> "va_insert", id |-> NextId(vfm_vadapter_attr)]]
    /\ FipUnchanged
    /\ UNCHANGED <<vfm_vadapter_attr, vfm_vfabric_attr, served, replies,
                   advertised, crashed>>

(* Seeded fault: the error is returned whatever it is. *)
InsertVadapter_AlwaysError(c) ==
    LET row == [id |-> request[c].id, name |-> Name(c), io_module_id |-> 0,
                vfabric_id |-> 0]
        err == InsertError(vfm_vadapter_attr, row)
    IN  /\ At(c, "va_insert")
        /\ vfm_vadapter_attr' = Insert(vfm_vadapter_attr, row)
        /\ Answer(c, "create_vadapter", err)
        /\ FipUnchanged
        /\ UNCHANGED <<vfm_vfabric_attr, advertised, crashed>>

(* io_module_id and vfabric_id are null until they are edited. *)
InsertVadapter(c) ==
    LET row == [id |-> request[c].id, name |-> Name(c), io_module_id |-> 0,
                vfabric_id |-> 0]
        err == InsertError(vfm_vadapter_attr, row)
    IN  /\ At(c, "va_insert")
        /\ vfm_vadapter_attr' = Insert(vfm_vadapter_attr, row)
        /\ Answer(c, "create_vadapter",
                  IF err = VPS_SUCCESS THEN row.id ELSE err)
        /\ FipUnchanged
        /\ UNCHANGED <<vfm_vfabric_attr, advertised, crashed>>

MaxVfabric(c) ==
    /\ At(c, "vf_max")
    /\ request' = [request EXCEPT ![c] =
          [pc |-> "vf_insert", protocol |-> request[c].protocol,
           id |-> NextId(vfm_vfabric_attr)]]
    /\ FipUnchanged
    /\ UNCHANGED <<vfm_vadapter_attr, vfm_vfabric_attr, served, replies,
                   advertised, crashed>>

(* What vpsdb_add_resource returns is not looked at. *)
InsertVfabric(c) ==
    LET row == [id |-> request[c].id, name |-> Name(c),
                protocol |-> request[c].protocol]
    IN  /\ At(c, "vf_insert")
        /\ vfm_vfabric_attr' = Insert(vfm_vfabric_attr, row)
        /\ Answer(c, "create_vfabric", row.id)
        /\ FipUnchanged
        /\ UNCHANGED <<vfm_vadapter_attr, advertised, crashed>>

(* process_vfm_edit_vadpter: one update statement sets the columns of the  *)
(* bitmask; whether a row has the id, and whether what it now refers to    *)
(* exists, does not matter.  The columns that no property reads are left   *)
(* out.  With an empty bitmask (EditNothing) the statement "update ... set"*)
(* is prepared all the same, and refused.                                  *)
EditVadapter(c, id, column, v) ==
    /\ ~crashed
    /\ request[c] = Waiting
    /\ served[c] < MaxRequests
    /\ vfm_vadapter_attr' =
          {IF row.id = id THEN [row EXCEPT ![column] = v] ELSE row :
              row \in vfm_vadapter_attr}
    /\ Answer(c, "edit_vadapter", VPS_SUCCESS)
    /\ FipUnchanged
    /\ UNCHANGED <<vfm_vfabric_attr, advertised, crashed>>

(* process_vfm_edit_vfabric: as above, but an empty bitmask succeeds.      *)
EditVfabric(c, id, protocol) ==
    /\ ~crashed
    /\ request[c] = Waiting
    /\ served[c] < MaxRequests
    /\ vfm_vfabric_attr' =
          {IF row.id = id THEN [row EXCEPT !.protocol = protocol] ELSE row :
              row \in vfm_vfabric_attr}
    /\ Answer(c, "edit_vfabric", VPS_SUCCESS)
    /\ FipUnchanged
    /\ UNCHANGED <<vfm_vadapter_attr, advertised, crashed>>

EditNothing(c) ==
    /\ ~crashed
    /\ request[c] = Waiting
    /\ served[c] < MaxRequests
    /\ \/ Answer(c, "edit_vadapter", VPS_DBERROR)
       \/ Answer(c, "edit_vfabric", VPS_SUCCESS)
    /\ FipUnchanged
    /\ UNCHANGED <<vfm_vadapter_attr, vfm_vfabric_attr, advertised, crashed>>

(* process_vfm_edit_en_attr: an update of vfm_vadapter_en_attr, whose      *)
(* columns no property reads; it is refused without columns.               *)
EditEnAttr(c) ==
    /\ ~crashed
    /\ request[c] = Waiting
    /\ served[c] < MaxRequests
    /\ \E err \in {VPS_SUCCESS, VPS_DBERROR} : Answer(c, "edit_en_attr", err)
    /\ FipUnchanged
    /\ UNCHANGED <<vfm_vadapter_attr, vfm_vfabric_attr, advertised, crashed>>

-----------------------------------------------------------------------------
(* process_vfm_vadapter_online and process_vfm_vfabric_online.  Both run   *)
(* __vadapter_online, once or for every vadapter of the vfabric: todo is   *)
(* the vadapters left; active and failed are a history of those that were  *)
(* activated or not.                                                       *)

Online(op, todo, active, failed) ==
    [pc |-> "online", op |-> op, todo |-> todo, active |-> active,
     failed |-> failed, io_module_id |-> 0, vfabric_id |-> 0, mac |-> NoMac]

VadapterOnline(c, id) ==
    Accept(c, Online("vadapter_online", {id}, {}, {}))

(* The vfabric's vadapters are selected once, at the start. *)
VfabricOnline(c, id) ==
    LET mine == {row \in vfm_vadapter_attr : row.vfabric_id = id}
    IN  Accept(c, IF mine = {}
                    THEN [pc |-> "no_vadapter"]
                    ELSE Online("vfabric_online", Ids(mine), {}, {}))

NoVadapter(c) ==
    /\ At(c, "no_vadapter")
    /\ Answer(c, "vfabric_online", VFM_ERROR_VFABRIC)
    /\ FipUnchanged
    /\ UNCHANGED <<vfm_vadapter_attr, vfm_vfabric_attr, advertised, crashed>>

First(todo) == CHOOSE i \in todo : \A j \in todo : i <= j

(* Seeded fault: the vfabric's answer is that nothing failed. *)
Returns_Success(c, err) ==
    LET r      == request[c]
        id     == First(r.todo)
        active == IF err = VPS_SUCCESS THEN r.active \cup {id} ELSE r.active
        failed == IF err = VPS_SUCCESS THEN r.failed ELSE r.failed \cup {id}
    IN  IF r.todo # {id}
          THEN /\ request' = [request EXCEPT ![c] =
                                 Online(r.op, r.todo \ {id}, active, failed)]
               /\ UNCHANGED <<served, replies>>
          ELSE AnswerOnline(c, r.op, VPS_SUCCESS, active, failed)

(* __vadapter_online returns err.  A vfabric goes on with the next         *)
(* vadapter and forgets the error of this one; the reply for a vadapter is *)
(* an err that nothing was assigned to.                                    *)
Returns(c, err) ==
    LET r      == request[c]
        id     == First(r.todo)
        active == IF err = VPS_SUCCESS THEN r.active \cup {id} ELSE r.active
        failed == IF err = VPS_SUCCESS THEN r.failed ELSE r.failed \cup {id}
    IN  IF r.todo # {id}
          THEN /\ request' = [request EXCEPT ![c] =
                                 Online(r.op, r.todo \ {id}, active, failed)]
               /\ UNCHANGED <<served, replies>>
          ELSE AnswerOnline(c, r.op,
                  IF r.op = "vadapter_online" THEN VPS_SUCCESS ELSE err,
                  active, failed)

OnlineUnchanged ==
    /\ FipUnchanged
    /\ UNCHANGED <<vfm_vadapter_attr, vfm_vfabric_attr>>

(* select the vadapter, then its I/O module, then its vfabric. *)
SelectVadapter(c) ==
    /\ At(c, "online")
    /\ \/ \E row \in vfm_vadapter_attr :
             /\ row.id = First(request[c].todo)
             /\ request' = [request EXCEPT
                   ![c].pc = "io_module",
                   ![c].io_module_id = row.io_module_id,
                   ![c].vfabric_id = row.vfabric_id]
             /\ UNCHANGED <<served, replies>>
       \/ /\ First(request[c].todo) \notin Ids(vfm_vadapter_attr)
          /\ Returns(c, VFM_ERROR_IOMODULE)
    /\ OnlineUnchanged
    /\ UNCHANGED <<advertised, crashed>>

SelectIoModule(c) ==
    /\ At(c, "io_module")
    /\ \/ \E row \in vfm_io_module_attr :
             /\ row.id = request[c].io_module_id
             /\ request' = [request EXCEPT ![c].pc = "vfabric",
                                           ![c].mac = row.mac]
             /\ UNCHANGED <<served, replies>>
       \/ /\ request[c].io_module_id \notin Ids(vfm_io_module_attr)
          /\ Returns(c, VFM_ERROR_IOMODULE)
    /\ OnlineUnchanged
    /\ UNCHANGED <<advertised, crashed>>

(* The count tested is that of the I/O module, so it is not noticed that   *)
(* process_vfabric has entered nothing: without a row the array of         *)
(* pointers is null, and for a row that is neither EN nor FC its only      *)
(* element is uninitialised, and may happen to be readable.  When it has   *)
(* entered a vfabric that vadapters are attached to, it has written their  *)
(* ids behind the block (ProcessVadapterId of Inventory), which may end    *)
(* the VFM, too.                                                           *)
SelectVfabric(c) ==
    LET found == {row \in vfm_vfabric_attr : row.id = request[c].vfabric_id}
        entered == {row \in found :
                      row.protocol \in {VFM_PROTOCOL_EN, VFM_PROTOCOL_FC}}
        overrun == \E row \in vfm_vadapter_attr :
                      row.vfabric_id = request[c].vfabric_id
    IN  /\ At(c, "vfabric")
        /\ \/ /\ found # {}
              /\ request' = [request EXCEPT ![c].pc = "advertise"]
              /\ UNCHANGED crashed
           \/ /\ entered = {} \/ overrun
              /\ crashed' = TRUE
              /\ UNCHANGED request
        /\ OnlineUnchanged
        /\ UNCHANGED <<served, replies, advertised>>

(* The gateway is selected and not used; the advertisement goes to the MAC *)
(* of the I/O module.                                                      *)
Advertise(c) ==
    /\ At(c, "advertise")
    /\ advertised' = advertised \cup {request[c].mac}
    /\ Returns(c, VPS_SUCCESS)
    /\ OnlineUnchanged
    /\ UNCHANGED crashed

-----------------------------------------------------------------------------
Discovery(p) ==
    \/ \E mac \in Macs : Solicitation(p, mac)
    \/ LookUpMac(p)
    \/ MaxIoModule(p)
    \/ InsertIoModule(p)

Refs == 1..MaxRef

Api(c) ==
    \/ CreateVadapter(c) \/ MaxVadapter(c) \/ InsertVadapter(c)
    \/ \E protocol \in Protocols : CreateVfabric(c, protocol)
    \/ MaxVfabric(c) \/ InsertVfabric(c)
    \/ \E id, v \in Refs, column \in {"io_module_id", "vfabric_id"} :
          EditVadapter(c, id, column, v)
    \/ \E id \in Refs, protocol \in Protocols : EditVfabric(c, id, protocol)
    \/ EditNothing(c)
    \/ EditEnAttr(c)
    \/ \E id \in Refs : VadapterOnline(c, id) \/ VfabricOnline(c, id)
    \/ NoVadapter(c)
    \/ SelectVadapter(c) \/ SelectIoModule(c) \/ SelectVfabric(c)
    \/ Advertise(c)

Next ==
    \/ \E p \in Processors : Discovery(p)
    \/ \E c \in Clients : Api(c)

Spec == Init /\ [][Next]_vars

-----------------------------------------------------------------------------
(* Rows of an earlier run of the VFM have names of no client's. *)
OldNames == {"old"} \X Nat
Names == (Clients \X Nat) \cup OldNames

(* Types of the rows: ids are never negative, and only MACs of hosts are   *)
(* entered and advertised to.                                              *)
TypeOK ==
    /\ vfm_io_module_attr \subseteq [id : Nat, mac : Macs]
    /\ vfm_vadapter_attr \subseteq
          [id : Nat, name : Names, io_module_id : Nat, vfabric_id : Nat]
    /\ vfm_vfabric_attr \subseteq
          [id : Nat, name : Names, protocol : Protocols]
    /\ served \in [Clients -> 0..MaxRequests]
    /\ advertised \subseteq Macs
    /\ crashed \in BOOLEAN

(* max(id) + 1 without a transaction: two threads may read the same        *)
(* maximum, but then the second insert is refused, and no id is ever       *)
(* skipped or given to two rows.                                           *)
Dense(table) ==
    /\ Ids(table) = 1..Cardinality(table)
    /\ \A r, s \in table : r.id = s.id => r = s

IdsDense == /\ Dense(vfm_io_module_attr)
            /\ Dense(vfm_vadapter_attr)
            /\ Dense(vfm_vfabric_attr)

(* Looking a MAC up and entering it are separate statements, so a MAC can  *)
(* be entered twice; it is entered at most once by every processor.        *)
RowsOf(table, mac) == {row \in table : row.mac = mac}

MacRowsBounded ==
    \A mac \in Macs : Cardinality(RowsOf(vfm_io_module_attr, mac))
                         <= Cardinality(Processors)

(* The database a VFM is started with is one that an earlier run, with no  *)
(* more processors, can have left: nothing but this program writes it.     *)
ASSUME OldNamesAssumption == "old" \notin Clients
ASSUME ProcessorsAssumption == IsFiniteSet(Processors)
ASSUME InitialDbsAssumption ==
    \A db \in InitialDbs :
        /\ db.io_modules \subseteq [id : Nat, mac : Macs]
        /\ db.vadapters \subseteq
              [id : Nat, name : OldNames, io_module_id : Nat, vfabric_id : Nat]
        /\ db.vfabrics \subseteq
              [id : Nat, name : OldNames, protocol : Protocols]
        /\ \A table \in {db.io_modules, db.vadapters, db.vfabrics} :
              IsFiniteSet(table) /\ Dense(table)
        /\ \A mac \in Macs : Cardinality(RowsOf(db.io_modules, mac))
                                <= Cardinality(Processors)

(* Whoever created a row was told its id. *)
CreatedIsReported ==
    \A m \in replies :
        /\ m.op = "create_vadapter" =>
              \A row \in vfm_vadapter_attr :
                  row.name = m.name => row.id = m.value
        /\ m.op = "create_vfabric" =>
              \A row \in vfm_vfabric_attr :
                  row.name = m.name => row.id = m.value

(* vfmapi_vfabric.c: "This call will return the vfabric id of the newly    *)
(* created V_Fabric."                                                      *)
CreateReturnsOwnId ==
    \A m \in replies : m.op = "create_vfabric" =>
        \E row \in vfm_vfabric_attr : row.name = m.name /\ row.id = m.value

(* The answer to vfabric_online is the error of its last vadapter only:    *)
(* success still means that some vadapter was activated, and an error that *)
(* some vadapter was not, or that there was none.                          *)
OnlineReported ==
    \A m \in replies : m.op = "vfabric_online" =>
        /\ m.value = VPS_SUCCESS => m.active # {}
        /\ m.value # VPS_SUCCESS => m.active = {} \/ m.failed # {}

-----------------------------------------------------------------------------
(* The inductive invariant. *)

(* What a processor and a client's thread keep between two statements. *)
Handlers ==
    {Waiting} \cup [pc : {"by_mac", "max"}, mac : Macs]
              \cup [pc : {"insert"}, mac : Macs, id : Nat]

OnlineRequests(pcs, macs) ==
    [pc : pcs, op : {"vadapter_online", "vfabric_online"},
     todo : (SUBSET Nat) \ {{}}, active : SUBSET Nat, failed : SUBSET Nat,
     io_module_id : Nat, vfabric_id : Nat, mac : macs]

Requests ==
    {Waiting} \cup [pc : {"va_max", "no_vadapter"}]
              \cup [pc : {"va_insert"}, id : Nat]
              \cup [pc : {"vf_max"}, protocol : Protocols]
              \cup [pc : {"vf_insert"}, protocol : Protocols, id : Nat]
              \cup OnlineRequests({"online", "io_module"}, Macs \cup {NoMac})
              \cup OnlineRequests({"vfabric", "advertise"}, Macs)

ThreadsOK ==
    /\ handler \in [Processors -> Handlers]
    /\ request \in [Clients -> Requests]
    /\ \A c \in Clients : request[c] # Waiting => served[c] < MaxRequests

TablesFinite == /\ IsFiniteSet(vfm_io_module_attr)
                /\ IsFiniteSet(vfm_vadapter_attr)
                /\ IsFiniteSet(vfm_vfabric_attr)

(* An id that was chosen and not yet inserted is at most the next one: the *)
(* table may have grown since, but nothing shrinks it.                     *)
ChosenIds ==
    /\ \A p \in Processors : handler[p].pc = "insert" =>
          handler[p].id \in 1..(Cardinality(vfm_io_module_attr) + 1)
    /\ \A c \in Clients :
          /\ request[c].pc = "va_insert" =>
                request[c].id \in 1..(Cardinality(vfm_vadapter_attr) + 1)
          /\ request[c].pc = "vf_insert" =>
                request[c].id \in 1..(Cardinality(vfm_vfabric_attr) + 1)

(* Those that looked a MAC up, did not find it, and have not entered it.   *)
Entering(mac) == {p \in Processors : /\ handler[p].pc \in {"max", "insert"}
                                     /\ handler[p].mac = mac}

MacRowsPaidFor ==
    \A mac \in Macs :
        Cardinality(RowsOf(vfm_io_module_attr, mac))
            + Cardinality(Entering(mac)) <= Cardinality(Processors)

(* A name that a row or a reply has is that of a request answered already, *)
(* or of an earlier run.                                                   *)
Answered(name) == name[1] \in Clients => name[2] <= served[name[1]]

NamesFresh ==
    /\ \A m \in replies : m.name \in Names /\ Answered(m.name)
    /\ \A row \in vfm_vadapter_attr : Answered(row.name)
    /\ \A row \in vfm_vfabric_attr : Answered(row.name)

IInv == /\ TypeOK
        /\ ThreadsOK
        /\ TablesFinite
        /\ IdsDense
        /\ ChosenIds
        /\ MacRowsPaidFor
        /\ NamesFresh
        /\ CreatedIsReported
        /\ OnlineReported
=============================================================================
