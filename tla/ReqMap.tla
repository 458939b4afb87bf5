------------------------------- MODULE ReqMap -------------------------------
(***************************************************************************)
(* The exchange table of src/vps/vfm/map_util.c.  Every login the VFM      *)
(* sends to the fabric carries an exchange id (OX_ID) of the VFM's own;    *)
(* the table says which request each id stands for, so that the fabric's   *)
(* answer can be returned to the host that asked.                          *)
(*                                                                         *)
(* g_req_map holds pointers.  An address is what malloc returns; entries   *)
(* gives the request copied to it, or NoRequest when it is free.  The      *)
(* three operations each run inside map_mutex, so each is one step; the    *)
(* pointer get_entry_from_map returns is used after the mutex is released. *)
(***************************************************************************)
EXTENDS Naturals, FiniteSets

CONSTANTS MapLen,       \* REQ_ENTRY_MAP_LEN
          Addrs,        \* addresses malloc can return for an entry
          Requests,     \* requests that can be entered
          NULL,
          NoRequest

ASSUME MapLenAssumption  == MapLen \in Nat /\ MapLen >= 2
ASSUME NullAddrAssumption == NULL \notin Addrs
ASSUME RequestAssumption == NoRequest \notin Requests

Slots == 0..(MapLen - 1)

VARIABLES g_req_map,        \* the pointer in each slot
          entries,          \* the heap
          vfm_oxid_index    \* where the next entry is tried first

mapvars == <<g_req_map, entries, vfm_oxid_index>>

MapInit ==
    /\ g_req_map = [i \in Slots |-> NULL]
    /\ entries = [a \in Addrs |-> NoRequest]
    /\ vfm_oxid_index = 1

(* Slot 0 is never searched. *)
EmptySlots == {i \in Slots \ {0} : g_req_map[i] = NULL}

Full == EmptySlots = {}

FirstEmpty == CHOOSE i \in EmptySlots : \A j \in EmptySlots : i <= j

(* Seeded fault: an occupied slot is not looked at. *)
NextOxid_Blind == IF vfm_oxid_index >= MapLen THEN 1 ELSE vfm_oxid_index

(* The slot add_entry_to_map settles on.  When the index is past the end   *)
(* or its slot is taken the table is searched from 1; if no slot is empty  *)
(* the index stays 1, and the entry there is overwritten.                  *)
NextOxid ==
    IF vfm_oxid_index < MapLen /\ g_req_map[vfm_oxid_index] = NULL
      THEN vfm_oxid_index
      ELSE IF Full THEN 1 ELSE FirstEmpty

(* r is entered at address a and gets the exchange id oxid. *)
add_entry_to_map(r, oxid, a) ==
    /\ oxid = NextOxid
    /\ entries[a] = NoRequest
    /\ entries' = [entries EXCEPT ![a] = r]
    /\ g_req_map' = [g_req_map EXCEPT ![oxid] = a]
    /\ vfm_oxid_index' = oxid + 1

get_entry_from_map(oxid) == g_req_map[oxid]

(* Seeded fault: the pointer of a freed entry stays in the table. *)
remove_entry_from_map_Dangling(oxid) ==
    \/ /\ g_req_map[oxid] # NULL
       /\ entries' = [entries EXCEPT ![g_req_map[oxid]] = NoRequest]
       /\ vfm_oxid_index' = oxid
       /\ UNCHANGED g_req_map
    \/ /\ g_req_map[oxid] = NULL
       /\ UNCHANGED mapvars

remove_entry_from_map(oxid) ==
    \/ /\ g_req_map[oxid] # NULL
       /\ entries' = [entries EXCEPT ![g_req_map[oxid]] = NoRequest]
       /\ g_req_map' = [g_req_map EXCEPT ![oxid] = NULL]
       /\ vfm_oxid_index' = oxid
    \/ /\ g_req_map[oxid] = NULL
       /\ UNCHANGED mapvars
=============================================================================
