------------------------------ MODULE OxidMap -------------------------------
(***************************************************************************)
(* The exchange table of ReqMap as its callers drive it: a login is        *)
(* entered before it is sent (create_packet_ex, create_vfm_flogi) and      *)
(* removed when it is answered (process_fc_response), in any order.        *)
(* FcLogin has the same table, driven as the code drives it.               *)
(***************************************************************************)
EXTENDS ReqMap

VARIABLES open,       \* requests sent and not answered, with their OX_IDs
          wasFull     \* history: some add_entry_to_map found no empty slot

tablevars == <<g_req_map, entries, vfm_oxid_index, open, wasFull>>

TableInit ==
    /\ MapInit
    /\ open = {}
    /\ wasFull = FALSE

Add(r) ==
    /\ r \notin {o.req : o \in open}
    /\ \E oxid \in 0..MapLen, a \in Addrs :
          /\ add_entry_to_map(r, oxid, a)
          /\ open' = open \cup {[req |-> r, oxid |-> oxid]}
    /\ wasFull' = (wasFull \/ Full)

Answer(o) ==
    /\ remove_entry_from_map(o.oxid)
    /\ open' = open \ {o}
    /\ UNCHANGED wasFull

TableNext ==
    \/ \E r \in Requests : Add(r)
    \/ \E o \in open : Answer(o)

TableSpec == TableInit /\ [][TableNext]_tablevars

-----------------------------------------------------------------------------
(* Types: the index stays in reach of the table, and an exchange id is     *)
(* never 0 and never past the last slot, whatever was added and removed.   *)
TableTypeOK ==
    /\ g_req_map \in [Slots -> Addrs \cup {NULL}]
    /\ entries \in [Addrs -> Requests \cup {NoRequest}]
    /\ vfm_oxid_index \in 1..MapLen
    /\ open \subseteq [req : Requests, oxid : 1..(MapLen - 1)]
    /\ wasFull \in BOOLEAN

(* Slots are the live allocations: two slots never share an entry, and a   *)
(* slot never points to an entry that was freed.                           *)
SlotsOwnEntries ==
    \A i \in Slots : g_req_map[i] # NULL =>
        /\ entries[g_req_map[i]] # NoRequest
        /\ \A j \in Slots : g_req_map[j] = g_req_map[i] => j = i

(* While no login ever found the table full, every login that waits for an *)
(* answer has an id of its own, and that id leads back to it.              *)
OxidLeadsBack ==
    ~wasFull =>
        \A o \in open :
            /\ g_req_map[o.oxid] # NULL
            /\ entries[g_req_map[o.oxid]] = o.req
            /\ \A q \in open : q.oxid = o.oxid => q = o

(* No entry is leaked while no login found the table full: what is         *)
(* allocated is what is waited for.                                        *)
AllocatedAreOpen ==
    ~wasFull =>
        \A a \in Addrs : entries[a] # NoRequest =>
            \E o \in open : g_req_map[o.oxid] = a

(* What makes the above inductive: slot 0 stays empty, and before any      *)
(* overflow an occupied slot belongs to a login that waits.                *)
SlotsAreOpen ==
    /\ g_req_map[0] = NULL
    /\ ~wasFull => \A i \in Slots : g_req_map[i] # NULL =>
                          \E o \in open : o.oxid = i

TableIInv ==
    /\ TableTypeOK
    /\ SlotsOwnEntries
    /\ SlotsAreOpen
    /\ OxidLeadsBack
    /\ AllocatedAreOpen

(* add_entry_to_map overwrites an entry only when every slot is taken. *)
OverwritesOnlyWhenFull ==
    [][\A i \in Slots : g_req_map[i] # NULL /\ g_req_map'[i] # NULL
                        /\ g_req_map'[i] # g_req_map[i] => Full]_tablevars
=============================================================================
