----------------------------- MODULE Inventory -----------------------------
(***************************************************************************)
(* How the VFM answers an inventory query.  A thread per client selects    *)
(* the rows, one sqlite3_step at a time, and its callback writes each row  *)
(* into memory that was sized by an earlier statement; the other threads   *)
(* write to the same tables, on the same connection and without a          *)
(* transaction, between any two steps.  The result is packed into a        *)
(* message of TLVs and unpacked by the client library.                     *)
(*                                                                         *)
(* Memory and messages are counted in cells: the two words of a TLV        *)
(* header, a count, a structure and an id are one cell each.  A row has    *)
(* the columns that decide what is selected, where it is written and how   *)
(* it is unpacked; the other attributes are copied along with them.  A     *)
(* column that no insert and no update has set is null: no where clause    *)
(* finds it by a value, and a structure has 0 for it.                      *)
(***************************************************************************)
EXTENDS Integers, FiniteSets, SequencesExt

CONSTANTS Threads,          \* threads that run process_client_request
          Offsets,          \* what vfm_rsc.count, never initialised, holds
          Unset,            \* what a cell holds that nothing was written to
          NULL,             \* what a column holds that nothing has set
          InitialDbs        \* databases the VFM may be started with

ASSUME OffsetsAssumption == Offsets \subseteq Nat /\ Offsets # {}
ASSUME UnsetAssumption == Unset \notin Nat
ASSUME NULLAssumption == NULL \notin Nat

(* A table: id is its primary key. *)
VadapterColumns == {"id", "protocol", "vfabric_id"}
VfabricColumns == {"id", "protocol", "primary_gateway", "backup_gateway"}
BridgeColumns == {"id", "vfm_guid", "gw_modules"}

IsTable(rows, columns) ==
    /\ IsFiniteSet(rows)
    /\ \A row \in rows : DOMAIN row = columns /\ row.id \in Nat
    /\ \A row, other \in rows : row.id = other.id => row = other

(* generate_vadapter_id and generate_vfabric_id begin with 1. *)
ASSUME InitialDbsAssumption ==
    \A db \in InitialDbs :
        /\ IsTable(db.vadapters, VadapterColumns)
        /\ IsTable(db.vfabrics, VfabricColumns)
        /\ IsTable(db.bridges, BridgeColumns)
        /\ \A row \in db.vadapters \cup db.vfabrics : row.id # 0
        /\ \A row \in db.bridges : row.gw_modules \in Seq(ToSet(row.gw_modules))

VFM_PROTOCOL_EN == 1
VFM_PROTOCOL_FC == 2
TLV_INT == "int"
TLV_VFABRIC_ATTR == "vfabric_attr"
TLV_BD_ATTR == "bd_attr"

VARIABLES
    vfm_vadapter_attr,      \* rows [id, protocol, vfabric_id]
    vfm_vfabric_attr,       \* rows [id, protocol, primary_gateway,
                            \*       backup_gateway]
    vfm_bridge_device,      \* rows [id, vfm_guid, gw_modules]; id is the guid
    serving,                \* the query each thread is serving
    span,                   \* history: what the tables held during it
    crashed                 \* a wild pointer was followed

tables == <<vfm_vadapter_attr, vfm_vfabric_attr, vfm_bridge_device>>
inventoryVars == <<tables, serving, span, crashed>>

Table(kind) ==
    CASE kind = "vadapter" -> vfm_vadapter_attr
      [] kind \in {"vfabric", "online"} -> vfm_vfabric_attr
      [] kind = "bridge" -> vfm_bridge_device

Rows == vfm_vadapter_attr \cup vfm_vfabric_attr \cup vfm_bridge_device

Idle == [pc |-> "idle"]
NoSpan == [ever |-> {}, kept |-> {}]

InitInventory ==
    /\ \E db \in InitialDbs :
          /\ vfm_vadapter_attr = db.vadapters
          /\ vfm_vfabric_attr = db.vfabrics
          /\ vfm_bridge_device = db.bridges
    /\ serving = [t \in Threads |-> Idle]
    /\ span = [t \in Threads |-> NoSpan]
    /\ crashed = FALSE

At(t, where) == ~crashed /\ serving[t].pc = where

-----------------------------------------------------------------------------
(* The where clauses: bits are the attributes whose bit of the bitmask is  *)
(* set, attr their values.  The other bits do not restrict the query.      *)

(* SQL's "=": null is equal to nothing, to 0 neither. *)
Equals(column, value) == column # NULL /\ column = value

VadapterWhere(bits, attr, row) ==
    \A c \in bits \cap {"id", "protocol", "vfabric_id"} : Equals(row[c], attr[c])

(* The bit of the primary gateway adds a condition on the backup gateway   *)
(* too; the bit of the backup gateway, and of the protocol, none.          *)
VfabricWhere(bits, attr, row) ==
    /\ "id" \in bits => row.id = attr.id
    /\ "primary_gateway" \in bits =>
          /\ Equals(row.primary_gateway, attr.primary_gateway)
          /\ Equals(row.backup_gateway, attr.backup_gateway)

(* vfm_guid is compared with parameter 2, and the first value bound is     *)
(* parameter 1: alone it is compared with null.                            *)
BridgeWhere(bits, attr, row) ==
    /\ "id" \in bits => row.id = attr.id
    /\ "vfm_guid" \in bits => "id" \in bits /\ Equals(row.vfm_guid, attr.vfm_guid)

Where(kind, bits, attr, row) ==
    CASE kind = "vadapter" -> VadapterWhere(bits, attr, row)
      [] kind \in {"vfabric", "online"} -> VfabricWhere(bits, attr, row)
      [] kind = "bridge" -> BridgeWhere(bits, attr, row)

Selected(t) ==
    {row \in Table(serving[t].kind) :
        Where(serving[t].kind, serving[t].bits, serving[t].attr, row)}

(* sqlite3_step: the first row after the cursor, as the table is now;      *)
(* empty when there is none.                                               *)
NextRow(rows, cursor) ==
    LET later == {row \in rows : row.id > cursor}
    IN  {row \in later : \A other \in later : row.id <= other.id}

-----------------------------------------------------------------------------
(* process_row hands a null column over as "", of which atoi makes 0. *)
Structure(row) == [c \in DOMAIN row |-> IF row[c] = NULL THEN 0 ELSE row[c]]

(* A query: room is what was allocated for, entries what was written.      *)
Query(kind, bits, attr) ==
    [pc      |-> CASE kind = "vadapter" -> "count"
                   [] kind = "bridge" -> "bridges"
                   [] OTHER -> "row",
     kind    |-> kind, bits |-> bits, attr |-> attr,
     room    |-> 0, cursor |-> 0, entries |-> <<>>, size |-> 0,
     row     |-> Unset, ids |-> <<>>, pos |-> 0, inner |-> 0,
     shifted |-> FALSE, overrun |-> FALSE, failed |-> FALSE]

Begin(t, kind, bits, attr) ==
    /\ serving' = [serving EXCEPT ![t] = Query(kind, bits, attr)]
    /\ span' = [span EXCEPT ![t] = [ever |-> Rows, kept |-> Rows]]
    /\ UNCHANGED <<tables, crashed>>

Step(t, next) ==
    /\ serving' = [serving EXCEPT ![t] = next]
    /\ UNCHANGED <<tables, span>>

(* populate_vadapter_information: the block is sized by a count ...        *)
Count(t) ==
    /\ At(t, "count")
    /\ Step(t, [serving[t] EXCEPT !.pc = "row",
                                  !.room = Cardinality(Selected(t))])
    /\ UNCHANGED crashed

(* Seeded fault: the first entry is written after a gap. *)
ProcessVadapterInventory_FromOne(t) ==
    LET s == serving[t]
    IN  /\ At(t, "row")
        /\ s.kind = "vadapter"
        /\ \E row \in NextRow(Selected(t), s.cursor) :
              Step(t, [s EXCEPT
                 !.cursor  = row.id,
                 !.entries = Append(@, [row |-> Structure(row), ids |-> <<>>]),
                 !.size    = 3 * (Len(s.entries) + 1),
                 !.overrun = @ \/ Len(s.entries) + 1 >= s.room])
        /\ UNCHANGED crashed

(* ... and filled by a second select.  An EN or FC row goes on to          *)
(* populate_vadapter_ex with a pointer that was never set: that ends the   *)
(* VFM, or reads some bitmask and changes protocol attributes only.        *)
ProcessVadapterInventory(t) ==
    LET s == serving[t]
    IN  /\ At(t, "row")
        /\ s.kind = "vadapter"
        /\ \E row \in NextRow(Selected(t), s.cursor) :
              /\ Step(t, [s EXCEPT
                    !.cursor  = row.id,
                    !.entries = Append(@, [row |-> Structure(row), ids |-> <<>>]),
                    !.size    = 3 * (Len(s.entries) + 1),
                    !.overrun = @ \/ Len(s.entries) >= s.room])
              /\ \/ UNCHANGED crashed
                 \/ /\ row.protocol \in {VFM_PROTOCOL_EN, VFM_PROTOCOL_FC}
                    /\ crashed' = TRUE

Attached(vfabric_id) ==
    {row \in vfm_vadapter_attr : row.vfabric_id = vfabric_id}

(* process_vfabric: room for the vadapter ids the view has counted.  From  *)
(* __vadapter_online the select is of the table, which has no count.       *)
ProcessVfabric(t) ==
    LET s == serving[t]
    IN  /\ At(t, "row")
        /\ s.kind \in {"vfabric", "online"}
        /\ \E row \in NextRow(Selected(t), s.cursor), offset \in Offsets :
              LET num == IF s.kind = "online" THEN 0
                         ELSE Cardinality(Attached(row.id))
              IN  Step(t, [s EXCEPT
                     !.pc = "ids", !.cursor = row.id, !.row = Structure(row),
                     !.ids = [i \in 1..num |-> Unset], !.pos = offset,
                     !.inner = 0, !.shifted = @ \/ offset # 0])
        /\ UNCHANGED crashed

(* Seeded fault: every id is written at the same place. *)
ProcessVadapterId_NoAdvance(t) ==
    LET s == serving[t]
    IN  /\ At(t, "ids")
        /\ \E row \in NextRow(Attached(s.row.id), s.inner) :
              Step(t, [s EXCEPT
                 !.inner = row.id,
                 !.ids = IF s.pos < Len(@) THEN [@ EXCEPT ![s.pos + 1] = row.id]
                         ELSE @,
                 !.overrun = @ \/ s.pos >= Len(s.ids)])
        /\ UNCHANGED crashed

(* process_vadapter_id, for each row of the select of                      *)
(* populate_vadapter_id.                                                   *)
ProcessVadapterId(t) ==
    LET s == serving[t]
    IN  /\ At(t, "ids")
        /\ \E row \in NextRow(Attached(s.row.id), s.inner) :
              Step(t, [s EXCEPT
                 !.inner = row.id,
                 !.ids = IF s.pos < Len(@) THEN [@ EXCEPT ![s.pos + 1] = row.id]
                         ELSE @,
                 !.pos = @ + 1,
                 !.overrun = @ \/ s.pos >= Len(s.ids)])
        /\ UNCHANGED crashed

Entered(s) ==
    [s EXCEPT !.pc = "row",
              !.entries = Append(@, [row |-> s.row, ids |-> s.ids]),
              !.size = @ + 3 + Len(s.ids)]

(* Seeded fault: the FC vfabrics are forgotten. *)
PopulateVfabricProtocolInformation_EnOnly(t) ==
    LET s == serving[t]
    IN  /\ At(t, "ids")
        /\ NextRow(Attached(s.row.id), s.inner) = {}
        /\ Step(t, IF s.row.protocol = VFM_PROTOCOL_EN
                     THEN Entered(s)
                     ELSE [s EXCEPT !.pc = "row"])
        /\ UNCHANGED crashed

(* The rest of process_vfabric.  A vfabric that is neither EN nor FC is    *)
(* not entered: the callback's 1 does not end the select.                  *)
PopulateVfabricProtocolInformation(t) ==
    LET s == serving[t]
    IN  /\ At(t, "ids")
        /\ NextRow(Attached(s.row.id), s.inner) = {}
        /\ Step(t, IF s.row.protocol \in {VFM_PROTOCOL_EN, VFM_PROTOCOL_FC}
                     THEN Entered(s)
                     ELSE [s EXCEPT !.pc = "row"])
        /\ UNCHANGED crashed

EndOfRows(t) ==
    /\ At(t, "row")
    /\ NextRow(Selected(t), serving[t].cursor) = {}
    /\ Step(t, [serving[t] EXCEPT !.pc = "reply"])
    /\ UNCHANGED crashed

(* The rows of a select, in the order of their ids. *)
InOrder(rows) ==
    CHOOSE seq \in [1..Cardinality(rows) -> rows] :
       \A i, j \in DOMAIN seq : i < j => seq[i].id < seq[j].id

(* populate_gateway_module_information: guid 0 selects those of all.       *)
GatewayModules(guid) ==
    LET of == InOrder({row \in vfm_bridge_device : guid = 0 \/ row.id = guid})
    IN  FlattenSeq([i \in DOMAIN of |-> of[i].gw_modules])

(* pack_bridge_data: a count, the structures and the modules of each.      *)
BridgeDataSize(entries) ==
    LET size[n \in 0..Len(entries)] ==
           IF n = 0 THEN 1 ELSE size[n - 1] + 1 + Len(entries[n].ids)
    IN  size[Len(entries)]

(* populate_bridge_information, pack_bridge_data.  Nothing in the VFM      *)
(* writes the bridges or their modules: the selects are one step.          *)
PopulateBridgeInformation(t) ==
    LET rows == InOrder(Selected(t))
        entries == [i \in DOMAIN rows |->
                      [row |-> Structure(rows[i]), ids |-> GatewayModules(rows[i].id)]]
    IN  /\ At(t, "bridges")
        /\ Step(t, [serving[t] EXCEPT
              !.pc = "reply", !.entries = entries,
              !.size = BridgeDataSize(entries)])
        /\ UNCHANGED crashed

(* vfmdb_prepare_query or vfmdb_execute_query fails (the database may be   *)
(* locked by another program).  No handler tells its client: what a        *)
(* vadapter query has so far is the answer, a vfabric query has none, the  *)
(* ids or the protocol of a vfabric are left out, and the answer to a      *)
(* bridge query is made from an op_data nothing was written to: that ends  *)
(* the VFM, or is taken for an answer without bridges.                     *)
StatementFails(t) ==
    LET s == [serving[t] EXCEPT !.failed = TRUE]
        none == [s EXCEPT !.pc = "reply", !.entries = <<>>,
                          !.size = IF s.kind = "bridge" THEN 1 ELSE 0]
    IN  /\ ~crashed
        /\ serving[t].pc \in {"count", "row", "ids", "bridges"}
        /\ ~serving[t].failed
        /\ \/ /\ s.pc = "row" /\ s.kind = "vadapter"
              /\ Step(t, [s EXCEPT !.pc = "reply"])
           \/ /\ s.pc = "count" \/ (s.pc = "row" /\ s.kind # "vadapter")
              /\ Step(t, none)
           \/ /\ s.pc = "ids"
              /\ \/ Step(t, [s EXCEPT !.pc = "row"])
                 \/ /\ s.row.protocol \in {VFM_PROTOCOL_EN, VFM_PROTOCOL_FC}
                    /\ Step(t, Entered(s))
           \/ /\ s.pc = "bridges"
              /\ Step(t, none)
        /\ \/ UNCHANGED crashed
           \/ s.pc = "bridges" /\ crashed' = TRUE

Serve(t) ==
    \/ Count(t) \/ ProcessVadapterInventory(t)
    \/ ProcessVfabric(t) \/ ProcessVadapterId(t)
    \/ PopulateVfabricProtocolInformation(t)
    \/ EndOfRows(t)
    \/ PopulateBridgeInformation(t)
    \/ StatementFails(t)

(* A statement that writes: rows are added and changed, never deleted.     *)
Write(vadapters, vfabrics) ==
    LET now == vadapters \cup vfabrics \cup vfm_bridge_device
    IN  /\ vfm_vadapter_attr' = vadapters
        /\ vfm_vfabric_attr' = vfabrics
        /\ span' = [t \in Threads |->
              IF serving[t].pc \in {"idle", "done"} THEN span[t]
              ELSE [ever |-> span[t].ever \cup now,
                    kept |-> span[t].kept \cap now]]
        /\ UNCHANGED <<vfm_bridge_device, crashed>>

-----------------------------------------------------------------------------
(* The message.  The length of a TLV of a vfabric covers its vadapter ids; *)
(* the client walks by the number of ids in the structure instead.         *)

PackTlv(kind, e) ==
    (IF kind = "bridge" THEN <<>>
     ELSE <<TLV_VFABRIC_ATTR, 1 + Len(e.ids)>>)
    \o <<[row |-> e.row, num |-> Len(e.ids)]>> \o e.ids

(* vfm_pack_data: the count, then the TLVs. *)
VfmPackData(kind, entries) ==
    <<Len(entries)>>
    \o FlattenSeq([i \in DOMAIN entries |-> PackTlv(kind, entries[i])])

(* vfm_marshall_response: no_of_args is 2 for a bridge query, else 0. *)
MarshallResponse(kind, entries, size) ==
    IF kind = "bridge"
      THEN <<TLV_INT, 1, size, TLV_BD_ATTR, size>> \o VfmPackData(kind, entries)
      ELSE VfmPackData(kind, entries)

MarshalledLength(kind, size) == size + 1 + (IF kind = "bridge" THEN 4 ELSE 0)

(* unpack_vadapter_data, process_vfabric_data and unpack_bridge_data copy  *)
(* a structure and the ids after it, as many as the structure says; only   *)
(* the first two skip a TLV header.                                        *)
UnpackEntry(data, header, u) ==
    LET s     == data[u.at + header]
        first == u.at + header + 1
    IN  [at  |-> first + s.num,
         out |-> Append(u.out,
                    [row |-> s.row,
                     ids |-> SubSeq(data, first, first + s.num - 1)])]

UnmarshallResponse(kind, message) ==
    LET data   == IF kind = "bridge" THEN SubSeq(message, 6, 5 + message[3])
                  ELSE message
        header == IF kind = "bridge" THEN 0 ELSE 2
        unpacked[n \in 0..data[1]] ==
           IF n = 0 THEN [at |-> 2, out |-> <<>>]
           ELSE UnpackEntry(data, header, unpacked[n - 1])
    IN  unpacked[data[1]].out

-----------------------------------------------------------------------------
(* The tables did not change while the query was served. *)
Undisturbed(t) == span[t].ever = span[t].kept

(* What the callbacks of a query write lies in the memory allocated for it *)
(* (process_vadapter_inventory, process_vadapter_id), and the message in   *)
(* the length vfm_marshall_response has computed.  There are three ways    *)
(* out: a row was added or changed between the statement that counted and  *)
(* the one that filled; the offset of the ids, which nothing initialises,  *)
(* was not 0; process_vfabric was run for __vadapter_online.               *)
WritesInside ==
    \A t \in Threads :
       serving[t].pc # "idle" =>
          LET s == serving[t]
          IN  /\ s.overrun => ~Undisturbed(t) \/ s.shifted \/ s.kind = "online"
              /\ s.pc = "reply" =>
                    Len(MarshallResponse(s.kind, s.entries, s.size))
                       = MarshalledLength(s.kind, s.size)
=============================================================================
