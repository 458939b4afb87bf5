------------------------------- MODULE PyApi -------------------------------
(***************************************************************************)
(* The Python module "vfm": a call takes a dictionary, turns it into an    *)
(* attribute structure and a bitmask, calls the client library, and turns  *)
(* the answer into a dictionary or raises an exception.  Programs call it  *)
(* side by side; each is served by a thread of the VFM (module Inventory). *)
(* The structure on the wrapper's stack is never initialised.              *)
(*                                                                         *)
(* A program that writes is served in one step here, as its update is one  *)
(* statement; how ids are generated is in module ResourceDb, how a call    *)
(* and its answer travel in module ApiSession.                             *)
(***************************************************************************)
EXTENDS Inventory

CONSTANTS Arguments,        \* [isdict, dict]: what the programs pass, by kind
          Unreadable,       \* a value of the wrong Python type
          Garbage,          \* what an attribute never set may hold
          MaxQueries,       \* calls that a thread serves step by step, and
          MaxUpdates,       \* the other calls, of all programs together
          MaxRows           \* rows of a table

ASSUME MaxAssumption == {MaxQueries, MaxUpdates, MaxRows} \subseteq Nat

VARIABLES program,          \* the call of each program
          queries,          \* how many of these calls
          updates           \* have been made

vars == <<inventoryVars, program, queries, updates>>

Init ==
    /\ InitInventory
    /\ program = [t \in Threads |-> Idle]
    /\ queries = 0
    /\ updates = 0

-----------------------------------------------------------------------------
(* The keys each parser looks for, in its order.  The names and            *)
(* descriptions, which restrict a query like an id does, are left out.     *)

VadapterKeys == <<"id", "protocol", "running_mode", "vfabric_id">>

VfabricKeys == <<"id", "protocol", "running_mode", "primary_gateway",
                 "backup_gateway", "auto_failover">>

BridgeKeys == <<"id", "running_mode", "vfm_guid">>

Keys(kind) ==
    CASE kind = "vadapter" -> VadapterKeys
      [] kind = "vfabric" -> VfabricKeys
      [] kind = "bridge" -> BridgeKeys

UnreadableAt(kind, dict) ==
    {i \in DOMAIN Keys(kind) :
        /\ Keys(kind)[i] \in DOMAIN dict
        /\ dict[Keys(kind)[i]] = Unreadable}

(* The first value of the wrong type ends the parsing, and the call goes   *)
(* on with what was read.                                                  *)
KeysRead(kind, dict) ==
    {Keys(kind)[i] : i \in {j \in DOMAIN Keys(kind) :
        /\ Keys(kind)[j] \in DOMAIN dict
        /\ \A u \in UnreadableAt(kind, dict) : j < u}}

(* Of the parsers only that of the vfabrics raises an exception. *)
ParseRaises(kind, dict) == kind = "vfabric" /\ UnreadableAt(kind, dict) # {}

(* validate_dictionary raises one for what is no dictionary, in which then *)
(* no key is found.  An inventory called with no argument, or with more    *)
(* than one, goes on in the same way.                                      *)
Raised(kind, arg) == ~arg.isdict \/ ParseRaises(kind, arg.dict)

(* auto_failover has no bit. *)
Bits(kind, arg) == KeysRead(kind, arg.dict) \ {"auto_failover"}

Value(kind, arg, key, garbage) ==
    IF key \in KeysRead(kind, arg.dict) THEN arg.dict[key] ELSE garbage

(* The attributes that a query compares. *)
AttrOf(kind, arg, garbage) ==
    LET bits == Bits(kind, arg)
    IN  [key \in bits \cup (IF "primary_gateway" \in bits
                              THEN {"backup_gateway"} ELSE {}) |->
            Value(kind, arg, key, garbage)]

-----------------------------------------------------------------------------
(* A wrapper returns result; exception tells whether one is set.  NULL is  *)
(* no dictionary.                                                          *)
Null == [null |-> TRUE]

Returned(op, arg, result, exception) ==
    [pc |-> "returned", op |-> op, arg |-> arg, result |-> result,
     exception |-> exception]

(* A program that has died. *)
Ended == [pc |-> "ended"]

MayCall(t) == ~crashed /\ program[t].pc \notin {"waiting", "ended"}

(* A call that is answered in the same step. *)
Answer(t, answer) ==
    /\ updates < MaxUpdates
    /\ updates' = updates + 1
    /\ program' = [program EXCEPT ![t] = answer]
    /\ serving' = [serving EXCEPT ![t] = Idle]
    /\ UNCHANGED queries

Unwritten == UNCHANGED <<tables, span, crashed>>

(* A call that a thread of the VFM serves step by step. *)
Wait(t, op, arg) ==
    /\ queries < MaxQueries
    /\ queries' = queries + 1
    /\ program' = [program EXCEPT ![t] =
                      [pc |-> "waiting", op |-> op, arg |-> arg]]
    /\ UNCHANGED updates

(* create_connection or process_request fails: every wrapper raises,       *)
(* whatever it was given.                                                  *)
CallFails(t) ==
    /\ MayCall(t)
    /\ Answer(t, Returned("failed", [isdict |-> TRUE, dict |-> <<>>],
                          Null, TRUE))
    /\ Unwritten

(* A call other than an inventory, with no argument or with more than one: *)
(* validate_dictionary returns a null pointer, in which the wrapper then   *)
(* looks for its keys.  No request is sent.                                *)
UnparsedCall(t) ==
    /\ MayCall(t)
    /\ Answer(t, Ended)
    /\ Unwritten

-----------------------------------------------------------------------------
(* The inventories: get_vadapter_data, get_vfabric_data, get_bridge_data.  *)

SelectInventory(t, kind, arg, garbage) ==
    /\ MayCall(t)
    /\ Wait(t, kind, arg)
    /\ Begin(t, kind, Bits(kind, arg), AttrOf(kind, arg, garbage))

(* The attributes of its protocol are a dictionary of their own. *)
ProtocolAttrs(protocol) ==
    CASE protocol = VFM_PROTOCOL_EN -> {"en_attr"}
      [] protocol = VFM_PROTOCOL_FC -> {"fc_attr"}
      [] OTHER -> {}

VadapterDictionary(e) == [row |-> e.row, attrs |-> ProtocolAttrs(e.row.protocol)]

VfabricDictionary(e) ==
    [row |-> e.row, attrs |-> ProtocolAttrs(e.row.protocol),
     num_vadapter_id |-> Len(e.ids), vadapter_id |-> e.ids]

BdDictionary(e) ==
    [row |-> e.row, num_gw_modules |-> Len(e.ids), gw_module_index |-> e.ids]

InnerDictionary(kind, e) ==
    CASE kind = "vadapter" -> VadapterDictionary(e)
      [] kind = "vfabric" -> VfabricDictionary(e)
      [] kind = "bridge" -> BdDictionary(e)

(* The result is keyed by id: a later entry replaces an earlier one. *)
ResultDictionary(kind, entries) ==
    [id \in {e.row.id : e \in ToSet(entries)} |->
        InnerDictionary(kind,
           entries[SelectLastInSeq(entries, LAMBDA e : e.row.id = id)])]

(* Seeded fault: no exception when there are no records. *)
InventoryReturns_Silent(t) ==
    LET s       == serving[t]
        entries == UnmarshallResponse(s.kind,
                      MarshallResponse(s.kind, s.entries, s.size))
        p       == program[t]
    IN  /\ At(t, "reply")
        /\ s.kind # "online"
        /\ program' = [program EXCEPT ![t] = Returned(p.op, p.arg,
              IF entries = <<>> THEN Null
              ELSE [dictionary |-> ResultDictionary(s.kind, entries)],
              Raised(p.op, p.arg))]
        /\ serving' = [serving EXCEPT ![t].pc = "done"]
        /\ Unwritten
        /\ UNCHANGED <<queries, updates>>

(* No records is an exception too. *)
InventoryReturns(t) ==
    LET s       == serving[t]
        entries == UnmarshallResponse(s.kind,
                      MarshallResponse(s.kind, s.entries, s.size))
        p       == program[t]
    IN  /\ At(t, "reply")
        /\ s.kind # "online"
        /\ program' = [program EXCEPT ![t] = Returned(p.op, p.arg,
              IF entries = <<>> THEN Null
              ELSE [dictionary |-> ResultDictionary(s.kind, entries)],
              entries = <<>> \/ Raised(p.op, p.arg))]
        /\ serving' = [serving EXCEPT ![t].pc = "done"]
        /\ Unwritten
        /\ UNCHANGED <<queries, updates>>

-----------------------------------------------------------------------------
(* The calls that write.  What is not in the dictionary, or comes after a  *)
(* value of the wrong type, is whatever the structure holds.  An insert    *)
(* leaves the vfabric of a vadapter, and the gateways of a vfabric, null.  *)

IdDictionary(id) == [id |-> id]

NextId(table) == 1 + Max({0} \cup {row.id : row \in table})

VadapterCreate(t, arg, garbage) ==
    LET row == [id |-> NextId(vfm_vadapter_attr), vfabric_id |-> NULL,
                protocol |-> Value("vadapter", arg, "protocol", garbage)]
    IN  /\ MayCall(t)
        /\ row.id <= MaxRows
        /\ Answer(t, Returned("vadapter", arg, IdDictionary(row.id),
                              Raised("vadapter", arg)))
        /\ Write(vfm_vadapter_attr \cup {row}, vfm_vfabric_attr)

VfabricCreate(t, arg, garbage) ==
    LET row == [id |-> NextId(vfm_vfabric_attr),
                primary_gateway |-> NULL, backup_gateway |-> NULL,
                protocol |-> Value("vfabric", arg, "protocol", garbage)]
    IN  /\ MayCall(t)
        /\ row.id <= MaxRows
        /\ Answer(t, Returned("vfabric", arg, IdDictionary(row.id),
                              Raised("vfabric", arg)))
        /\ Write(vfm_vadapter_attr, vfm_vfabric_attr \cup {row})

(* update ... set columns where id = ... *)
Updated(rows, id, columns, arg) ==
    {IF row.id # id THEN row
     ELSE [c \in DOMAIN row |-> IF c \in columns THEN arg.dict[c] ELSE row[c]] :
        row \in rows}

(* An update of no column is refused. *)
VadapterEdit(t, arg, garbage) ==
    LET id      == Value("vadapter", arg, "id", garbage)
        columns == Bits("vadapter", arg) \cap {"protocol", "vfabric_id"}
        error   == columns = {}
    IN  /\ MayCall(t)
        /\ Answer(t, Returned("vadapter", arg,
                        IF error THEN Null ELSE IdDictionary(id),
                        error \/ Raised("vadapter", arg)))
        /\ Write(Updated(vfm_vadapter_attr, id, columns, arg),
                 vfm_vfabric_attr)

VfabricEdit(t, arg, garbage) ==
    LET id      == Value("vfabric", arg, "id", garbage)
        columns == Bits("vfabric", arg)
                      \cap {"protocol", "primary_gateway", "backup_gateway"}
    IN  /\ MayCall(t)
        /\ Answer(t, Returned("vfabric", arg, IdDictionary(id),
                              Raised("vfabric", arg)))
        /\ Write(vfm_vadapter_attr,
                 Updated(vfm_vfabric_attr, id, columns, arg))

-----------------------------------------------------------------------------
(* The online calls read the id themselves, and raise when they cannot.    *)

IdUnreadable(arg) == "id" \in DOMAIN arg.dict /\ arg.dict.id = Unreadable
IdGiven(arg) == IF "id" \in DOMAIN arg.dict THEN arg.dict.id ELSE 0

(* What __vadapter_online returns is not passed on, so that the call never *)
(* fails; for a vadapter that has an I/O module it comes to the select of  *)
(* the vfabric.                                                            *)
VadapterOnline(t, arg) ==
    /\ MayCall(t)
    /\ \/ /\ IdUnreadable(arg)
          /\ Answer(t, Returned("online", arg, Null, TRUE))
          /\ Unwritten
       \/ /\ ~IdUnreadable(arg)
          /\ Answer(t, Returned("online", arg, IdDictionary(IdGiven(arg)),
                                ~arg.isdict))
          /\ Unwritten
       \/ \E row \in vfm_vadapter_attr :
             /\ ~IdUnreadable(arg)
             /\ row.id = IdGiven(arg)
             /\ Wait(t, "online", arg)
             /\ Begin(t, "online", {"id"}, [id |-> Structure(row).vfabric_id])

VadapterOnlineReturns(t) ==
    LET p == program[t]
    IN  /\ At(t, "reply")
        /\ serving[t].kind = "online"
        /\ program' = [program EXCEPT ![t] = Returned(p.op, p.arg,
                          IdDictionary(IdGiven(p.arg)), ~p.arg.isdict)]
        /\ serving' = [serving EXCEPT ![t].pc = "done"]
        /\ Unwritten
        /\ UNCHANGED <<queries, updates>>

(* An error of the vfabric's answer (module ResourceDb) is raised. *)
VfabricOnline(t, arg) ==
    /\ MayCall(t)
    /\ \E error \in BOOLEAN :
          /\ IdUnreadable(arg) => error
          /\ Answer(t, Returned("online", arg,
                          IF error THEN Null ELSE IdDictionary(IdGiven(arg)),
                          error \/ ~arg.isdict))
    /\ Unwritten

-----------------------------------------------------------------------------
Call(t) ==
    \/ \E kind \in {"vadapter", "vfabric", "bridge"} :
          \E arg \in Arguments[kind], garbage \in Garbage :
             SelectInventory(t, kind, arg, garbage)
    \/ \E arg \in Arguments["vadapter"], garbage \in Garbage :
          VadapterCreate(t, arg, garbage) \/ VadapterEdit(t, arg, garbage)
    \/ \E arg \in Arguments["vfabric"], garbage \in Garbage :
          VfabricCreate(t, arg, garbage) \/ VfabricEdit(t, arg, garbage)
    \/ \E arg \in Arguments["vadapter"] : VadapterOnline(t, arg)
    \/ \E arg \in Arguments["vfabric"] : VfabricOnline(t, arg)
    \/ CallFails(t) \/ UnparsedCall(t)

Next ==
    \E t \in Threads :
       \/ Call(t)
       \/ Serve(t) /\ UNCHANGED <<program, queries, updates>>
       \/ InventoryReturns(t)
       \/ VadapterOnlineReturns(t)

Spec == Init /\ [][Next]_vars

-----------------------------------------------------------------------------
(* An inventory query that has returned, whose memory is intact and whose  *)
(* statements all succeeded. *)
Answered(t) ==
    /\ program[t].pc = "returned"
    /\ serving[t].pc = "done"
    /\ serving[t].kind # "online"
    /\ ~serving[t].overrun
    /\ ~serving[t].failed

Result(t) == IF program[t].result = Null THEN <<>> ELSE program[t].result.dictionary

OfKind(kind, rows) ==
    LET column == CASE kind = "vadapter" -> "vfabric_id"
                    [] kind = "vfabric" -> "primary_gateway"
                    [] kind = "bridge" -> "vfm_guid"
    IN  {row \in rows : column \in DOMAIN row}

(* The row has the values that were read from the dictionary. *)
Has(t, row, keys) ==
    \A key \in keys \cap KeysRead(serving[t].kind, program[t].arg.dict) :
       row[key] = program[t].arg.dict[key]

(* The server does not restrict a query by the protocol or the backup      *)
(* gateway of a vfabric. *)
Restricted(kind, row) ==
    DOMAIN row \ (IF kind = "vfabric" THEN {"protocol", "backup_gateway"}
                  ELSE {})

(* What the where clauses cannot find, and the callbacks do not enter: a   *)
(* bridge by its vfm_guid alone, a vfabric by its primary gateway alone,   *)
(* a vfabric that is neither EN nor FC, and a row by the 0 that is shown   *)
(* for a column that is null.                                              *)
Unfindable(t, row) ==
    LET read == KeysRead(serving[t].kind, program[t].arg.dict)
        compared == IF "primary_gateway" \in read THEN read
                    ELSE read \ {"backup_gateway"}
    IN  \/ \E key \in compared \cap DOMAIN row : row[key] = NULL
        \/ serving[t].kind = "bridge" /\ "vfm_guid" \in read /\ "id" \notin read
        \/ serving[t].kind = "vfabric" /\ "primary_gateway" \in read
           /\ "backup_gateway" \notin read
        \/ serving[t].kind = "vfabric"
           /\ row.protocol \notin {VFM_PROTOCOL_EN, VFM_PROTOCOL_FC}

(* What a program is shown is what the database held: every item of the    *)
(* dictionary shows a row that was in the table, in that version, at some  *)
(* moment of the query and that has what was asked for, and every row      *)
(* that is shown as what was asked for and stayed as it was throughout is  *)
(* an item unless it is Unfindable, however the statements of the query    *)
(* interleave with those of other threads, and through packing and         *)
(* unpacking.                                                              *)
InventoryExact ==
    \A t \in Threads :
       Answered(t) =>
          LET s == serving[t]
          IN  /\ \A id \in DOMAIN Result(t) :
                    /\ Result(t)[id].row.id = id
                    /\ \E row \in OfKind(s.kind, span[t].ever) :
                          /\ Result(t)[id].row = Structure(row)
                          /\ Has(t, row, Restricted(s.kind, row))
              /\ \A row \in OfKind(s.kind, span[t].kept) :
                    /\ Has(t, Structure(row), DOMAIN row)
                    /\ ~Unfindable(t, row)
                    => row.id \in DOMAIN Result(t)

(* The vadapter ids listed for a vfabric are vadapters that were attached  *)
(* to it at some moment of the query; a place nothing was written to is    *)
(* shown only when rows changed or the offset was not 0; and when neither  *)
(* happened the list is exactly the attached vadapters, each once          *)
(* (process_vfabric's count, process_vadapter_id, process_vfabric_data).   *)
IdsAttached ==
    \A t \in Threads :
       Answered(t) /\ serving[t].kind = "vfabric" =>
          \A id \in DOMAIN Result(t) :
             LET listed == Result(t)[id].vadapter_id
                 IdsIn(rows) ==
                    {row.id : row \in {r \in OfKind("vadapter", rows) :
                                          r.vfabric_id = id}}
             IN  /\ ToSet(listed) \subseteq IdsIn(span[t].ever) \cup {Unset}
                 /\ Unset \in ToSet(listed) =>
                       ~Undisturbed(t) \/ serving[t].shifted
                 /\ Undisturbed(t) /\ ~serving[t].shifted =>
                       /\ ToSet(listed) = IdsIn(span[t].kept)
                       /\ Len(listed) = Cardinality(ToSet(listed))

(* "On failure, it will return NULL and throw the relevant Python          *)
(* exception" (pyapi_vadapter.c, pyapi_vfabric.c, pyapi_bridge.c): NULL    *)
(* never comes without one.  The converse fails only where a parser or     *)
(* validate_dictionary has raised it and the call went on; and a vfabric   *)
(* call that raises nothing has read every key it was given.               *)
ExceptionExplained ==
    \A t \in Threads :
       program[t].pc = "returned" =>
          LET p == program[t]
          IN  /\ p.result = Null => p.exception
              /\ p.exception /\ p.result # Null =>
                    \/ ~p.arg.isdict
                    \/ p.op = "vfabric" /\ UnreadableAt(p.op, p.arg.dict) # {}
              /\ ~p.exception /\ p.op = "vfabric" =>
                    DOMAIN p.arg.dict \cap ToSet(VfabricKeys)
                       \subseteq KeysRead(p.op, p.arg.dict)

-----------------------------------------------------------------------------
(* What these properties rest on: an invariant that every step keeps.      *)

Fields == {"pc", "kind", "bits", "attr", "room", "cursor", "entries", "size",
           "row", "ids", "pos", "inner", "shifted", "overrun", "failed"}

Modules == UNION {ToSet(row.gw_modules) : row \in vfm_bridge_device}

(* What the ids of an entry are. *)
Cells(kind) == IF kind = "bridge" THEN Modules ELSE Nat \cup {Unset}

Structures(rows) == {Structure(row) : row \in rows}

(* A thread in the middle of a query. *)
Serving(t) == serving[t].pc \notin {"idle", "done"}

TablesOK ==
    /\ IsTable(vfm_vadapter_attr, VadapterColumns)
    /\ IsTable(vfm_vfabric_attr, VfabricColumns)
    /\ IsTable(vfm_bridge_device, BridgeColumns)
    /\ \A row \in vfm_vadapter_attr \cup vfm_vfabric_attr : row.id # 0
    /\ \A row \in vfm_bridge_device : row.gw_modules \in Seq(ToSet(row.gw_modules))

(* Which statement belongs to which query, and what it works on. *)
QueryOK(t) ==
    LET s == serving[t]
    IN  /\ DOMAIN s = Fields
        /\ s.kind \in {"vadapter", "vfabric", "online", "bridge"}
        /\ s.pc \in {"count", "row", "ids", "bridges", "reply", "done"}
        /\ s.pc = "count" => s.kind = "vadapter"
        /\ s.pc = "row" => s.kind # "bridge"
        /\ s.pc = "ids" => s.kind \in {"vfabric", "online"}
        /\ s.pc = "bridges" => s.kind = "bridge"
        /\ s.pc \in {"count", "bridges"} => s.entries = <<>> /\ s.cursor = 0
        /\ s.cursor \in Nat
        /\ s.size \in Nat
        /\ s.entries \in Seq([row : Structures(span[t].ever),
                              ids : Seq(Cells(s.kind))])
        /\ s.kind = "vadapter" =>
              /\ s.size = 3 * Len(s.entries)
              /\ \A i \in DOMAIN s.entries : s.entries[i].ids = <<>>
        /\ s.pc = "ids" =>
              /\ s.row \in Structures(OfKind("vfabric", span[t].ever))
              /\ s.ids \in Seq(Nat \cup {Unset})
              /\ s.pos \in Nat
              /\ s.inner \in Nat

(* The call that the thread serves. *)
Asked(t) ==
    LET s == serving[t]
        p == program[t]
    IN  Serving(t) =>
          /\ p.op = s.kind
          /\ s.kind # "online" =>
                /\ s.bits = Bits(s.kind, p.arg)
                /\ \A c \in s.bits : s.attr[c] = p.arg.dict[c]

Spanned(t) ==
    Serving(t) =>
       /\ span[t].kept \subseteq Rows
       /\ Rows \subseteq span[t].ever
       /\ \A row \in span[t].ever :
             DOMAIN row \in {VadapterColumns, VfabricColumns, BridgeColumns}

(* The size is that of the entries. *)
Packed(t) ==
    LET s == serving[t]
    IN  s.pc # "bridges" =>
           Len(MarshallResponse(s.kind, s.entries, s.size))
              = MarshalledLength(s.kind, s.size)

(* The structure is that of a row that the where clause finds. *)
Matches(structure, kind, bits, attr, ever) ==
    \E row \in OfKind(kind, ever) :
       /\ structure = Structure(row)
       /\ Where(kind, bits, attr, row)

(* What is entered was selected. *)
Found(t) ==
    LET s == serving[t]
        found(structure) ==
           Matches(structure, s.kind, s.bits, s.attr, span[t].ever)
    IN  Serving(t) /\ s.kind # "online" =>
           /\ \A i \in DOMAIN s.entries : found(s.entries[i].row)
           /\ s.pc = "ids" => found(s.row)

(* A row that stays in the table is entered, or will be. *)
Complete(t) ==
    LET s == serving[t]
    IN  Serving(t) /\ s.kind # "online" /\ ~s.failed /\ s.pc # "bridges" =>
           \A row \in OfKind(s.kind, span[t].kept) :
              Where(s.kind, s.bits, s.attr, row) =>
                 \/ s.pc # "reply" /\ row.id > s.cursor
                 \/ s.pc = "ids" /\ s.row = Structure(row)
                 \/ s.kind = "vfabric"
                    /\ row.protocol \notin {VFM_PROTOCOL_EN, VFM_PROTOCOL_FC}
                 \/ \E i \in DOMAIN s.entries : s.entries[i].row.id = row.id

(* A vadapter query has room for the rows it has yet to enter. *)
Roomy(t) ==
    LET s == serving[t]
    IN  /\ s.overrun => ~Undisturbed(t) \/ s.shifted \/ s.kind = "online"
        /\ s.pc = "row" /\ s.kind = "vadapter" /\ Undisturbed(t) =>
              /\ s.room = Cardinality(Selected(t))
              /\ Len(s.entries)
                    = Cardinality({row \in Selected(t) : row.id <= s.cursor})

(* The ids of the vadapters that rows attaches to a vfabric. *)
IdsIn(rows, vfabric_id) ==
    {row.id : row \in {r \in OfKind("vadapter", rows) :
                          r.vfabric_id = vfabric_id}}

(* ids lists what is attached to the vfabric. *)
Lists(t, ids, vfabric_id) ==
    /\ ToSet(ids) \subseteq IdsIn(span[t].ever, vfabric_id) \cup {Unset}
    /\ ~serving[t].failed /\ Undisturbed(t) /\ ~serving[t].shifted =>
          /\ ToSet(ids) = IdsIn(span[t].kept, vfabric_id)
          /\ Len(ids) = Cardinality(ToSet(ids))

Listed(t) ==
    LET s == serving[t]
        before == {row \in Attached(s.row.id) : row.id <= s.inner}
    IN  Serving(t) /\ s.kind = "vfabric" =>
           /\ \A i \in DOMAIN s.entries :
                 Lists(t, s.entries[i].ids, s.entries[i].row.id)
           /\ s.pc = "ids" =>
                 /\ ToSet(s.ids)
                       \subseteq IdsIn(span[t].ever, s.row.id) \cup {Unset}
                 /\ Undisturbed(t) /\ ~s.shifted =>
                       /\ Len(s.ids) = Cardinality(Attached(s.row.id))
                       /\ s.pos = Cardinality(before)
                       /\ {s.ids[i] : i \in 1..s.pos} = {row.id : row \in before}

ThreadOK(t) ==
    /\ QueryOK(t)
    /\ Asked(t)
    /\ Spanned(t)
    /\ Packed(t)
    /\ Found(t)
    /\ Complete(t)
    /\ Roomy(t)
    /\ Listed(t)

IInv ==
    /\ TablesOK
    /\ DOMAIN serving = Threads /\ DOMAIN span = Threads
    /\ DOMAIN program = Threads
    /\ \A t \in Threads : serving[t].pc = "idle" \/ ThreadOK(t)
    /\ InventoryExact
    /\ IdsAttached
    /\ ExceptionExplained
=============================================================================
