--------------------------- MODULE FcLogin_proofs ---------------------------
(***************************************************************************)
(* Proofs about the logins to the fabric, for any number of hosts,         *)
(* processors and logins and every length of the exchange table, and, at   *)
(* the end, about the exchange table of OxidMap under any login that is    *)
(* entered and answered in any order.                                      *)
(***************************************************************************)
EXTENDS FcLogin, OxidMap, SequenceTheorems, WellFoundedInduction, TLAPS

(* The search of add_entry_to_map has a result, which is never slot 0, and *)
(* is an empty slot if there is one.                                       *)
LEMMA NextOxidFacts ==
    ASSUME TypeOK
    PROVE  /\ NextOxid \in OxIds
           /\ ~Full => g_req_map[NextOxid] = NULL
  <1> USE MapLenAssumption
  <1>1. EmptySlots \subseteq Nat /\ 1 \in OxIds /\ EmptySlots \subseteq OxIds
    BY DEF EmptySlots, Slots, OxIds
  <1>2. ASSUME ~Full PROVE FirstEmpty \in EmptySlots
    <2>1. \E x \in EmptySlots : \A y \in EmptySlots :
             ~(<<y, x>> \in OpToRel(<, Nat))
      BY <1>1, <1>2, WFMin, NatLessThanWellFounded DEF Full
    <2>2. \A x, y \in Nat : y < x => <<y, x>> \in OpToRel(<, Nat)
      BY Zenon DEF OpToRel
    <2>3. \E x \in EmptySlots : \A y \in EmptySlots : ~(y < x)
      BY <1>1, <2>1, <2>2, Zenon
    <2>4. \E x \in EmptySlots : \A y \in EmptySlots : x <= y
      BY <1>1, <2>3
    <2> QED
      BY <2>4, Zenon DEF FirstEmpty
  <1>3. CASE vfm_oxid_index < MapLen /\ g_req_map[vfm_oxid_index] = NULL
    BY <1>3 DEF NextOxid, TypeOK, Slots, OxIds
  <1>4. CASE ~(vfm_oxid_index < MapLen /\ g_req_map[vfm_oxid_index] = NULL)
    BY <1>1, <1>2, <1>4 DEF NextOxid, EmptySlots
  <1> QED
    BY <1>3, <1>4

(* What the frames and the requests are made of. *)
LEMMA RequestFacts ==
    /\ VfmRequest \in Requests /\ VfmRequest.flag = 1 /\ VfmRequest.mac = VFM
    /\ \A r \in Requests : /\ r.mac \in Ports /\ r.oxid \in Nat
                           /\ r.ctrl_flags \in Nat
                           /\ r = VfmRequest \/ r \in Logins
    /\ \A r \in Logins : /\ r \in Requests /\ r # VfmRequest /\ r.flag = 0
                         /\ r.mac \in Hosts /\ r.oxid \in 1..MaxLogins
                         /\ r.ctrl_flags \in Nat \ {0}
    /\ \A r, q \in Logins : r.mac = q.mac /\ r.oxid = q.oxid => r = q
  <1>1. \A r \in Logins : /\ r.flag = 0
                          /\ r.mac \in Hosts /\ r.oxid \in 1..MaxLogins
                          /\ r.ctrl_flags \in Nat \ {0}
    BY DEF Logins, HostRequest, SET_FP, SET_SP
  <1>2. /\ VfmRequest.flag = 1 /\ VfmRequest.mac = VFM
        /\ VfmRequest.oxid \in Nat /\ VfmRequest.ctrl_flags \in Nat
    BY DEF VfmRequest
  <1>3. \A r, q \in Logins : r.mac = q.mac /\ r.oxid = q.oxid => r = q
    BY DEF Logins, HostRequest
  <1>4. \A r \in Logins : r.oxid \in Nat
    BY <1>1, BoundAssumption
  <1> HIDE DEF Logins, VfmRequest
  <1> QED
    BY <1>1, <1>2, <1>3, <1>4, LoginAssumption DEF Ports

(* Taking a frame from the queue. *)
LEMMA TailFacts ==
    ASSUME NEW S, NEW q \in Seq(S), q # <<>>
    PROVE  /\ Tail(q) \in Seq(S) /\ Head(q) \in S /\ Head(q) = q[1]
           /\ DOMAIN q = 1..Len(q) /\ Len(q) \in Nat \ {0}
           /\ DOMAIN Tail(q) = 1..(Len(q) - 1)
           /\ \A i \in DOMAIN Tail(q) : /\ i + 1 \in DOMAIN q /\ i + 1 # 1
                                        /\ Tail(q)[i] = q[i + 1]
  <1>1. /\ Tail(q) \in Seq(S) /\ Head(q) \in S /\ Head(q) = q[1]
        /\ Len(Tail(q)) = Len(q) - 1
        /\ \A i \in 1..Len(Tail(q)) : Tail(q)[i] = q[i + 1]
    BY HeadTailProperties
  <1>2. Len(q) \in Nat \ {0} /\ DOMAIN q = 1..Len(q)
    BY EmptySeq
  <1>3. DOMAIN Tail(q) = 1..(Len(q) - 1)
    BY <1>1, <1>2
  <1> QED
    BY <1>1, <1>2, <1>3

(* Adding one. *)
LEMMA AppendFacts ==
    ASSUME NEW S, NEW q \in Seq(S), NEW f \in S
    PROVE  /\ Append(q, f) \in Seq(S)
           /\ DOMAIN q = 1..Len(q) /\ Len(q) \in Nat
           /\ DOMAIN Append(q, f) = 1..(Len(q) + 1)
           /\ Len(q) + 1 \notin DOMAIN q
           /\ DOMAIN Append(q, f) = DOMAIN q \cup {Len(q) + 1}
           /\ \A i \in DOMAIN q : Append(q, f)[i] = q[i]
           /\ Append(q, f)[Len(q) + 1] = f
  <1>1. /\ Append(q, f) \in Seq(S) /\ Len(Append(q, f)) = Len(q) + 1
        /\ \A i \in 1..Len(q) : Append(q, f)[i] = q[i]
        /\ Append(q, f)[Len(q) + 1] = f
    BY AppendProperties
  <1>2. Len(q) \in Nat /\ DOMAIN q = 1..Len(q)
    OBVIOUS
  <1>3. DOMAIN Append(q, f) = 1..(Len(q) + 1)
    BY <1>1, <1>2
  <1>4. 1..(Len(q) + 1) = (1..Len(q)) \cup {Len(q) + 1}
    BY <1>2
  <1> QED
    BY <1>1, <1>2, <1>3, <1>4

-----------------------------------------------------------------------------
(* Types. *)

(* A processor is always one of Threads: idle, or with a frame its handler *)
(* is for.                                                                 *)
LEMMA ThreadFacts ==
    /\ 0 \in Slots /\ OxIds \subseteq Slots /\ OxIds \subseteq Nat
    /\ Idle \in Threads /\ Idle.pc = "get"
    /\ \A f \in Frames :
          LET t == [Idle EXCEPT !.pc = f.kind, !.task = f]
          IN  /\ t \in Threads /\ t.pc = f.kind /\ t.task = f
              /\ f.kind \in {"flogi", "els", "response"}
    /\ \A t \in Threads :
          /\ t.pc \in {"flogi", "fdisc"} => t.task \in Flogis
          /\ t.pc = "fdisc" => t.gen_oxid \in OxIds
          /\ t.pc \in Answering => t.task \in Responses
          /\ t.entry \in Addrs \cup {NULL}
  <1>1. 0 \in Slots /\ OxIds \subseteq Slots /\ OxIds \subseteq Nat
    BY MapLenAssumption DEF Slots, OxIds
  <1>2. Idle \in Threads /\ Idle.pc = "get"
    BY <1>1 DEF Idle, Threads, Answering, NoHeader
  <1>3. ASSUME NEW f \in Frames
        PROVE  LET t == [Idle EXCEPT !.pc = f.kind, !.task = f]
               IN  /\ t \in Threads /\ t.pc = f.kind /\ t.task = f
                   /\ f.kind \in {"flogi", "els", "response"}
    <2>1. \/ f.kind = "flogi" /\ f \in Flogis
          \/ f.kind = "els" /\ f \in ElsFrames
          \/ f.kind = "response" /\ f \in Responses
      BY DEF Frames, Flogis, ElsFrames, Responses
    <2> HIDE DEF Frames
    <2> QED
      BY <1>1, <2>1 DEF Idle, Threads, Answering, NoHeader
  <1>4. \A t \in Threads :
          /\ t.pc \in {"flogi", "fdisc"} => t.task \in Flogis
          /\ t.pc = "fdisc" => t.gen_oxid \in OxIds
          /\ t.pc \in Answering => t.task \in Responses
          /\ t.entry \in Addrs \cup {NULL}
    BY DEF Threads
  <1> QED
    BY <1>1, <1>2, <1>3, <1>4

(* add_entry_to_map and remove_entry_from_map keep the table a table. *)
LEMMA TableTypes ==
    ASSUME TypeOK
    PROVE  /\ \A r \in Requests, oxid \in Slots, a \in Addrs :
                 add_entry_to_map(r, oxid, a) =>
                   /\ oxid \in OxIds
                   /\ g_req_map' \in [Slots -> Addrs \cup {NULL}]
                   /\ entries' \in [Addrs -> Requests \cup {NoRequest}]
                   /\ vfm_oxid_index' \in 1..MapLen
           /\ \A oxid \in OxIds : remove_entry_from_map(oxid) =>
                   /\ g_req_map' \in [Slots -> Addrs \cup {NULL}]
                   /\ entries' \in [Addrs -> Requests \cup {NoRequest}]
                   /\ vfm_oxid_index' \in 1..MapLen
  <1>1. \A oxid \in OxIds : oxid \in Slots /\ oxid \in 1..MapLen
                             /\ oxid + 1 \in 1..MapLen
    BY MapLenAssumption DEF OxIds, Slots
  <1>2. ASSUME NEW r \in Requests, NEW oxid \in Slots, NEW a \in Addrs,
               add_entry_to_map(r, oxid, a)
        PROVE  /\ oxid \in OxIds
               /\ g_req_map' \in [Slots -> Addrs \cup {NULL}]
               /\ entries' \in [Addrs -> Requests \cup {NoRequest}]
               /\ vfm_oxid_index' \in 1..MapLen
    BY <1>1, <1>2, NextOxidFacts DEF add_entry_to_map, TypeOK
  <1>3. ASSUME NEW oxid \in OxIds, remove_entry_from_map(oxid)
        PROVE  /\ g_req_map' \in [Slots -> Addrs \cup {NULL}]
               /\ entries' \in [Addrs -> Requests \cup {NoRequest}]
               /\ vfm_oxid_index' \in 1..MapLen
    BY <1>1, <1>3 DEF remove_entry_from_map, TypeOK, mapvars
  <1> QED
    BY <1>2, <1>3

(* Every step of main keeps the types. *)
LEMMA MainType == ASSUME TypeOK, Main PROVE TypeOK'
  <1>0. overflowed' \in BOOLEAN
    BY Zenon DEF TypeOK, Main, VfmFlogiAdd, VfmFlogiSend, SendGwAd, EnterLogin,
                 history
  <1>1. CASE VfmFlogiAdd
    <2>1. PICK oxid \in Slots, a \in Addrs :
             add_entry_to_map(VfmRequest, oxid, a) /\ main_oxid' = oxid
      BY <1>1 DEF VfmFlogiAdd, EnterLogin
    <2> QED
      BY <1>0, <1>1, <2>1, TableTypes, RequestFacts
         DEF VfmFlogiAdd, EnterLogin, TypeOK, network
  <1>2. CASE VfmFlogiSend
    BY <1>0, <1>2, RequestFacts
       DEF VfmFlogiSend, SendLogin, TypeOK, mapvars, history
  <1>3. CASE SendGwAd
    BY <1>0, <1>3 DEF SendGwAd, TypeOK, mapvars, history, network
  <1> QED
    BY <1>1, <1>2, <1>3 DEF Main

(* What hosts and fabric send keeps the types. *)
LEMMA EnvironmentType == ASSUME TypeOK, Environment PROVE TypeOK'
  <1> DEFINE Same == UNCHANGED <<mapvars, g_gw_src_id, mainvars, thread, status,
                                 replies, history>>
  <1>0. Same /\ overflowed' \in BOOLEAN
    BY Zenon DEF TypeOK, Environment, HostFlogi, FabricAnswers, AnswerAgain,
                 LoginLost, FabricEls, history
  <1>1. ASSUME NEW f \in Frames, pending' = Append(pending, f)
        PROVE  pending' \in Seq(Frames)
    BY <1>1, AppendProperties DEF TypeOK
  <1>2. ASSUME NEW h \in Hosts, HostFlogi(h) PROVE TypeOK'
    <2>1. logins[h] + 1 \in 1..MaxLogins /\ logins' \in [Hosts -> 0..MaxLogins]
      BY <1>2, BoundAssumption DEF HostFlogi, TypeOK
    <2>2. Flogi(HostRequest(h, logins[h] + 1)) \in Frames
      BY <2>1 DEF Flogi, Logins, Frames, Flogis
    <2> QED
      BY <1>0, <1>1, <1>2, <2>1, <2>2
         DEF HostFlogi, TypeOK, mapvars, mainvars, history
  <1>3. ASSUME NEW x \in fabric, NEW ls \in LsCodes, FabricAnswers(x, ls)
        PROVE  TypeOK'
    <2>1. Response(x, ls) \in Responses
      BY RequestFacts DEF Response, Responses, TypeOK
    <2>2. Response(x, ls) \in Frames
      BY <2>1 DEF Frames
    <2> QED
      BY <1>0, <1>1, <1>3, <2>1, <2>2
         DEF FabricAnswers, TypeOK, mapvars, mainvars, history
  <1>4. ASSUME NEW f \in answered, AnswerAgain(f) PROVE TypeOK'
    <2>1. f \in Frames
      BY DEF TypeOK, Frames
    <2> QED
      BY <1>0, <1>1, <1>4, <2>1
         DEF AnswerAgain, TypeOK, mapvars, mainvars, history
  <1>5. ASSUME NEW x \in fabric, LoginLost(x) PROVE TypeOK'
    BY <1>0, <1>5 DEF LoginLost, TypeOK, mapvars, mainvars, history
  <1>6. ASSUME NEW id \in Ports, FabricEls(id) PROVE TypeOK'
    <2>1. Els(id) \in Frames
      BY DEF Els, Frames, ElsFrames
    <2> QED
      BY <1>0, <1>1, <1>6, <2>1 DEF FabricEls, TypeOK, mapvars, mainvars, history
  <1> QED
    BY <1>2, <1>3, <1>4, <1>5, <1>6 DEF Environment

(* Moving a processor within its handler keeps its frame. *)
LEMMA MovesOn ==
    ASSUME TypeOK, NEW p \in Processors, NEW where \in Answering,
           thread[p].pc \in Answering
    PROVE  LET t == [thread[p] EXCEPT !.pc = where]
           IN  /\ t \in Threads /\ t.pc = where
               /\ t.task = thread[p].task /\ t.entry = thread[p].entry
               /\ t.header = thread[p].header
               /\ [thread EXCEPT ![p].pc = where] = [thread EXCEPT ![p] = t]
  <1>1. thread[p] \in Threads
    BY DEF TypeOK
  <1> QED
    BY <1>1 DEF Threads, Answering

(* What prepare_fdisc_res copies. *)
LEMMA HeaderType ==
    ASSUME NEW e \in Requests
    PROVE  /\ ResHeader(e) \in [oxid : Nat, flags : Nat]
           /\ ResHeader(e).oxid = e.oxid
           /\ e \in Logins => ResHeader(e).flags # 0
  <1>1. /\ e.oxid \in Nat /\ e.ctrl_flags \in Nat
        /\ e \in Logins => e.ctrl_flags # 0
    BY RequestFacts
  <1> QED
    BY <1>1 DEF ResHeader, SET_F

(* Every step of a processor keeps the types. *)
LEMMA ProcessorType ==
    ASSUME TypeOK, NEW p \in Processors, Processor(p)
    PROVE  TypeOK'
  <1> DEFINE Table == /\ g_req_map' \in [Slots -> Addrs \cup {NULL}]
                      /\ entries' \in [Addrs -> Requests \cup {NoRequest}]
                      /\ vfm_oxid_index' \in 1..MapLen
  <1> USE DEF process_fc_response, Processor
  <1>1. overflowed' \in BOOLEAN
    BY Zenon
       DEF TypeOK, GetTask, FlogiAdd, FdiscSend, RejectEls, RejectResponse,
           PassEls, AcceptResponse, Lookup, NullEntry, VfmRjt, VfmAcc,
           NoVerdict, FillResponse, SendResponse, RemoveEntry, EnterLogin, history
  <1>2. UNCHANGED <<mainvars, answered, logins, dups, lost, els>>
    BY DEF GetTask, FlogiAdd, FdiscSend, RejectEls, RejectResponse,
           PassEls, AcceptResponse, Lookup, NullEntry, VfmRjt, VfmAcc,
           NoVerdict, FillResponse, SendResponse, RemoveEntry, network
  <1>3. thread[p] \in Threads
    BY DEF TypeOK
  <1> USE <1>1, <1>2 DEF mainvars
  <1>4. ASSUME Table, NEW t \in Threads, thread' = [thread EXCEPT ![p] = t],
               UNCHANGED <<g_gw_src_id, pending, status, fabric, swallowed>>
        PROVE  TypeOK'
    BY <1>4 DEF TypeOK
  <1>5. UNCHANGED mapvars => Table
    BY DEF TypeOK, mapvars
  <1>6. Idle \in Threads
    BY ThreadFacts
  <1>7. CASE GetTask(p)
    <2>1. Head(pending) \in Frames /\ Tail(pending) \in Seq(Frames)
      BY <1>7, TailFacts DEF GetTask, TypeOK
    <2>2. [Idle EXCEPT !.pc = Head(pending).kind, !.task = Head(pending)] \in Threads
      BY <2>1, ThreadFacts
    <2>3. thread' \in [Processors -> Threads]
      BY <1>7, <2>2 DEF GetTask, Becomes, TypeOK
    <2> QED
      BY <1>5, <1>7, <2>1, <2>3 DEF GetTask, TypeOK, network, history
  <1>8. CASE FlogiAdd(p)
    <2>1. thread[p].task \in Flogis /\ thread[p].task.req \in Requests
      BY <1>3, <1>8, ThreadFacts, RequestFacts DEF FlogiAdd, At, Flogis
    <2>2. PICK oxid \in Slots, a \in Addrs :
             /\ add_entry_to_map(thread[p].task.req, oxid, a)
             /\ Becomes(p, [thread[p] EXCEPT !.pc = "fdisc", !.gen_oxid = oxid])
             /\ UNCHANGED swallowed
      BY <1>8 DEF FlogiAdd, EnterLogin
    <2>3. Table /\ oxid \in OxIds
      BY <2>1, <2>2, TableTypes
    <2>4. [thread[p] EXCEPT !.pc = "fdisc", !.gen_oxid = oxid] \in Threads
      BY <1>3, <2>1, <2>3 DEF Threads, Answering
    <2> QED
      BY <1>4, <1>8, <2>2, <2>3, <2>4 DEF FlogiAdd, Becomes, network
  <1>9. CASE FdiscSend(p)
    <2>1. thread[p].gen_oxid \in OxIds /\ thread[p].task.req \in Requests
      BY <1>3, <1>9, ThreadFacts, RequestFacts DEF FdiscSend, At, Flogis
    <2>2. fabric' \subseteq [oxid : OxIds, req : Requests]
      BY <1>9, <2>1 DEF FdiscSend, SendLogin, TypeOK
    <2>3. thread' \in [Processors -> Threads]
      BY <1>6, <1>9 DEF FdiscSend, Becomes, TypeOK
    <2> QED
      BY <1>5, <1>9, <2>2, <2>3 DEF FdiscSend, TypeOK, history
  <1>10. CASE RejectEls(p) \/ PassEls(p)
    BY <1>4, <1>5, <1>6, <1>10
       DEF RejectEls, PassEls, Becomes, network, history
  <1>11. CASE RejectResponse(p)
    <2>1. thread[p].task.req \in Requests
      BY <1>3, <1>11, ThreadFacts DEF RejectResponse, At, Answering, Responses
    <2>2. thread' \in [Processors -> Threads] /\ swallowed' \subseteq Requests
      BY <1>6, <1>11, <2>1 DEF RejectResponse, Becomes, TypeOK
    <2> QED
      BY <1>5, <1>11, <2>2 DEF RejectResponse, TypeOK, network
  <1>12. CASE AcceptResponse(p)
    BY <1>4, <1>5, <1>12, MovesOn
       DEF AcceptResponse, Goto, At, Answering, network, history
  <1>13. CASE Lookup(p)
    <2>1. thread[p].task.oxid \in Slots
      BY <1>3, <1>13, ThreadFacts DEF Lookup, At, Answering, Responses
    <2>2. [thread[p] EXCEPT !.pc = "entry",
              !.entry = get_entry_from_map(thread[p].task.oxid)] \in Threads
      BY <1>3, <1>13, <2>1
         DEF Lookup, At, Threads, Answering, get_entry_from_map, TypeOK
    <2> QED
      BY <1>4, <1>5, <1>13, <2>2 DEF Lookup, Becomes, network, history
  <1>14. CASE NullEntry(p) \/ VfmRjt(p)
    BY <1>5, <1>14 DEF NullEntry, VfmRjt, TypeOK, network, history
  <1>15. CASE VfmAcc(p)
    <2>1. thread[p].task.did \in Ports \cup {NoId}
      BY <1>3, <1>15, ThreadFacts DEF VfmAcc, At, Answering, Responses
    <2>2. thread' \in [Processors -> Threads]
      BY <1>15, MovesOn DEF VfmAcc, Goto, At, Answering, TypeOK
    <2> QED
      BY <1>5, <1>15, <2>1, <2>2 DEF VfmAcc, TypeOK, network, history
  <1>19. CASE NoVerdict(p)
    BY <1>4, <1>5, <1>19, MovesOn
       DEF NoVerdict, Goto, At, Answering, network, history
  <1>16. CASE FillResponse(p)
    <2>1. PICK e \in Reads(thread[p].entry) :
             Becomes(p, [thread[p] EXCEPT !.pc = "reply", !.header = ResHeader(e)])
      BY <1>16 DEF FillResponse
    <2>2. thread[p].entry \in Addrs
      BY <1>3, <1>16, ThreadFacts DEF FillResponse
    <2>3. e \in Requests
      BY <2>2 DEF Reads, TypeOK
    <2>4. [thread[p] EXCEPT !.pc = "reply", !.header = ResHeader(e)] \in Threads
      BY <1>3, <1>16, <2>3, HeaderType DEF FillResponse, At, Threads, Answering
    <2> QED
      BY <1>4, <1>5, <1>16, <2>1, <2>4 DEF FillResponse, Becomes, network, history
  <1>17. CASE SendResponse(p)
    BY <1>4, <1>5, <1>17, MovesOn
       DEF SendResponse, Goto, At, Answering, network, history
  <1>18. CASE RemoveEntry(p)
    <2>1. thread[p].task.oxid \in OxIds
      BY <1>3, <1>18, ThreadFacts DEF RemoveEntry, At, Answering, Responses
    <2>2. Table
      BY <1>18, <2>1, TableTypes DEF RemoveEntry
    <2> QED
      BY <1>4, <1>6, <1>18, <2>2 DEF RemoveEntry, Becomes, network, history
  <1> QED
    BY <1>7, <1>8, <1>9, <1>10, <1>11, <1>12, <1>13, <1>14, <1>15, <1>16,
       <1>17, <1>18, <1>19

(* Every step keeps the types. *)
LEMMA TypeInv == ASSUME TypeOK, [Next]_vars PROVE TypeOK'
  <1>1. CASE Next
    BY <1>1, MainType, EnvironmentType, ProcessorType DEF Next
  <1>2. CASE UNCHANGED vars
    BY <1>2 DEF TypeOK, vars, mapvars, mainvars, network, history
  <1> QED
    BY <1>1, <1>2

-----------------------------------------------------------------------------
(* The table. *)

(* Entering a login takes a free address, and an empty slot unless the     *)
(* table is full.                                                          *)
LEMMA AddFacts ==
    ASSUME TypeOK, TableIntact, NEW r \in Requests, NEW oxid \in Slots,
           NEW a \in Addrs, add_entry_to_map(r, oxid, a)
    PROVE  /\ oxid \in OxIds
           /\ ~Full => g_req_map[oxid] = NULL
           /\ g_req_map'[oxid] = a /\ entries'[a] = r
           /\ entries[a] = NoRequest
           /\ \A i \in Slots : i # oxid => g_req_map'[i] = g_req_map[i]
           /\ \A b \in Addrs : b # a => entries'[b] = entries[b]
           /\ \A i \in Slots : g_req_map[i] # a
           /\ TableIntact'
  <1>1. oxid \in OxIds /\ (~Full => g_req_map[oxid] = NULL)
    BY NextOxidFacts DEF add_entry_to_map
  <1>2. /\ g_req_map'[oxid] = a /\ entries'[a] = r
        /\ entries[a] = NoRequest
        /\ \A i \in Slots : i # oxid => g_req_map'[i] = g_req_map[i]
        /\ \A b \in Addrs : b # a => entries'[b] = entries[b]
    BY DEF add_entry_to_map, TypeOK
  <1>3. \A i \in Slots : g_req_map[i] # a
    BY <1>2, NullAddrAssumption DEF TableIntact
  <1>4. TableIntact'
    BY <1>2, <1>3, RequestAssumption DEF TableIntact, TypeOK
  <1> QED
    BY <1>1, <1>2, <1>3, <1>4

(* Removing one frees its own entry and no other. *)
LEMMA RemoveFacts ==
    ASSUME TypeOK, TableIntact, NEW oxid \in OxIds, remove_entry_from_map(oxid)
    PROVE  /\ \A i \in Slots : i # oxid => g_req_map'[i] = g_req_map[i]
           /\ g_req_map'[oxid] = NULL
           /\ \A b \in Addrs : entries'[b] =
                 IF b = g_req_map[oxid] THEN NoRequest ELSE entries[b]
           /\ TableIntact'
  <1>0. oxid \in Slots
    BY ThreadFacts
  <1>1. CASE g_req_map[oxid] = NULL
    BY <1>0, <1>1, NullAddrAssumption
       DEF remove_entry_from_map, TypeOK, TableIntact, mapvars
  <1>2. CASE g_req_map[oxid] # NULL
    <2>1. /\ \A i \in Slots : i # oxid => g_req_map'[i] = g_req_map[i]
          /\ g_req_map'[oxid] = NULL
          /\ \A b \in Addrs : entries'[b] =
                 IF b = g_req_map[oxid] THEN NoRequest ELSE entries[b]
      BY <1>0, <1>2 DEF remove_entry_from_map, TypeOK
    <2> QED
      BY <1>0, <1>2, <2>1 DEF TableIntact, TypeOK
  <1> QED
    BY <1>1, <1>2

(* No step of anybody breaks the table, whatever was received. *)
LEMMA TableInv == ASSUME TypeOK, TableIntact, [Next]_vars PROVE TableIntact'
  <1>1. ASSUME UNCHANGED mapvars PROVE TableIntact'
    BY <1>1 DEF TableIntact, mapvars
  <1>2. CASE VfmFlogiAdd
    BY <1>2, AddFacts, RequestFacts DEF VfmFlogiAdd, EnterLogin
  <1>3. ASSUME NEW p \in Processors, FlogiAdd(p) PROVE TableIntact'
    <2>1. thread[p].task.req \in Requests
      BY <1>3, ThreadFacts, RequestFacts DEF FlogiAdd, At, Flogis, TypeOK
    <2> QED
      BY <1>3, <2>1, AddFacts DEF FlogiAdd, EnterLogin
  <1>4. ASSUME NEW p \in Processors, RemoveEntry(p) PROVE TableIntact'
    <2>1. thread[p].task.oxid \in OxIds
      BY <1>4, ThreadFacts DEF RemoveEntry, At, Answering, Responses, TypeOK
    <2> QED
      BY <1>4, <2>1, RemoveFacts DEF RemoveEntry
  <1>5. CASE VfmFlogiSend \/ SendGwAd \/ UNCHANGED vars
    BY <1>1, <1>5 DEF VfmFlogiSend, SendGwAd, vars
  <1>6. CASE Environment
    BY <1>1, <1>6 DEF Environment, HostFlogi, FabricAnswers, AnswerAgain,
                      LoginLost, FabricEls
  <1>7. ASSUME NEW p \in Processors, Processor(p) PROVE TableIntact'
    <2>1. FlogiAdd(p) \/ RemoveEntry(p) \/ UNCHANGED mapvars
      BY <1>7 DEF Processor, process_fc_response, GetTask, FdiscSend, RejectEls,
                  RejectResponse, PassEls, AcceptResponse, Lookup, NullEntry,
                  VfmRjt, VfmAcc, NoVerdict, FillResponse, SendResponse
    <2> QED
      BY <1>1, <1>3, <1>4, <2>1
  <1> QED
    BY <1>2, <1>5, <1>6, <1>7 DEF Next, Main

-----------------------------------------------------------------------------
(* As long as nothing arrives twice and the table does not overflow. *)

Tracked == \A x \in InFlight : /\ g_req_map[x.oxid] # NULL
                               /\ entries[g_req_map[x.oxid]] = x.req

Accounted ==
    lost = 0 => \A a \in Addrs : entries[a] # NoRequest =>
                   \/ \E x \in InFlight : g_req_map[x.oxid] = a
                   \/ entries[a] \in swallowed

Good == TypeOK /\ TableIntact /\ CleanInv /\ Tracked /\ Accounted
Safe == CleanInv /\ Tracked /\ Accounted

(* What was not clean does not become so. *)
LEMMA CleanBefore == ASSUME TypeOK, [Next]_vars, Clean' PROVE Clean
  <1>1. dups = 0
    <2>1. dups' = dups \/ dups' = dups + 1
      BY DEF Next, Main, VfmFlogiAdd, VfmFlogiSend, SendGwAd, Processor,
             process_fc_response, GetTask, FlogiAdd, FdiscSend, RejectEls,
             RejectResponse, PassEls, AcceptResponse, Lookup, NullEntry, VfmRjt,
             VfmAcc, NoVerdict, FillResponse, SendResponse, RemoveEntry, Environment,
             HostFlogi, FabricAnswers, AnswerAgain, LoginLost, FabricEls,
             vars, network
    <2>2. dups \in Nat /\ dups' = 0
      BY DEF TypeOK, Clean
    <2> QED
      BY <2>1, <2>2
  <1>2. ~overflowed
    <2> SUFFICES ASSUME overflowed PROVE overflowed'
      BY Zenon DEF Clean
    <2> QED
      BY Zenon
         DEF Next, Main, VfmFlogiAdd, VfmFlogiSend, SendGwAd, Processor,
             process_fc_response, GetTask, FlogiAdd, FdiscSend, RejectEls,
             RejectResponse, PassEls, AcceptResponse, Lookup, NullEntry, VfmRjt,
             VfmAcc, NoVerdict, FillResponse, SendResponse, RemoveEntry, Environment,
             HostFlogi, FabricAnswers, AnswerAgain, LoginLost, FabricEls,
             EnterLogin, vars, history
  <1> QED
    BY <1>1, <1>2, Zenon DEF Clean

(* The exchanges in flight, place by place. *)
LEMMA FlightIs ==
    \A x : x \in InFlight <=>
        \/ main = "flogi_send" /\ x = Exchange(main_oxid, VfmRequest)
        \/ \E p \in Processors :
              /\ thread[p].pc = "fdisc"
              /\ x = Exchange(thread[p].gen_oxid, thread[p].task.req)
        \/ x \in fabric
        \/ \E i \in DOMAIN pending :
              /\ pending[i].kind = "response"
              /\ x = Exchange(pending[i].oxid, pending[i].req)
        \/ \E p \in Processors :
              /\ thread[p].pc \in Answering
              /\ x = Exchange(thread[p].task.oxid, thread[p].task.req)
  BY DEF InFlight, AboutToSend, InQueue, InHands

(* A step that moves exchanges about and leaves the table alone. *)
LEMMA Keep ==
    ASSUME Tracked, Accounted, InFlight' = InFlight, UNCHANGED mapvars,
           lost' = lost, swallowed \subseteq swallowed'
    PROVE  Tracked' /\ Accounted'
  BY DEF Tracked, Accounted, mapvars

(* The answer a processor has in hand is to an exchange in the table. *)
LEMMA HandFacts ==
    ASSUME Good, NEW p \in Processors, thread[p].pc \in Answering
    PROVE  /\ thread[p].task \in Responses /\ thread[p].task.oxid \in OxIds
           /\ thread[p].task.req \in Requests /\ thread[p].task.oxid \in Slots
           /\ g_req_map[thread[p].task.oxid] \in Addrs
           /\ g_req_map[thread[p].task.oxid] # NULL
           /\ entries[g_req_map[thread[p].task.oxid]] = thread[p].task.req
           /\ thread[p].pc \in {"entry", "reply"} =>
                 /\ thread[p].entry # NULL
                 /\ Reads(thread[p].entry) = {thread[p].task.req}
           /\ Holds(p)
  <1>1. thread[p].task \in Responses /\ Holds(p)
    BY ThreadFacts DEF Good, TypeOK, Holds, Answering
  <1>2. /\ thread[p].task.oxid \in OxIds /\ thread[p].task.oxid \in Slots
        /\ thread[p].task.req \in Requests
    BY <1>1, ThreadFacts DEF Responses
  <1>3. Exchange(thread[p].task.oxid, thread[p].task.req) \in InFlight
    BY FlightIs
  <1>4. /\ g_req_map[thread[p].task.oxid] # NULL
        /\ entries[g_req_map[thread[p].task.oxid]] = thread[p].task.req
    BY <1>3 DEF Good, Tracked, Exchange
  <1>5. g_req_map[thread[p].task.oxid] \in Addrs
    BY <1>2, <1>4 DEF Good, TypeOK
  <1>6. thread[p].pc \in {"entry", "reply"} =>
           thread[p].entry = g_req_map[thread[p].task.oxid]
    BY DEF Good, CleanInv, ResponsesOK
  <1> QED
    BY <1>1, <1>2, <1>4, <1>5, <1>6, RequestAssumption DEF Reads

(* A processor that goes on with the answer it has in hand. *)
LEMMA HandStep ==
    ASSUME Good, NEW p \in Processors, thread[p].pc \in Answering,
           NEW t \in Threads, t.pc \in Answering, t.task = thread[p].task,
           thread' = [thread EXCEPT ![p] = t],
           UNCHANGED <<mapvars, pending, mainvars, logins, fabric, lost, swallowed>>
    PROVE  /\ Tracked' /\ Accounted' /\ OnePlace' /\ Unsent' = Unsent
           /\ thread'[p] = t
           /\ \A q \in Processors : q # p => thread'[q] = thread[q]
           /\ \A q \in Processors : /\ Holds(q)' <=> Holds(q)
                                    /\ thread'[q].task = thread[q].task
  <1>1. /\ thread'[p] = t
        /\ \A q \in Processors : q # p => thread'[q] = thread[q]
    BY DEF Good, TypeOK
  <1>2. \A q \in Processors :
           /\ Holds(q)' <=> Holds(q)
           /\ thread'[q].task = thread[q].task
           /\ thread'[q].pc \in Answering <=> thread[q].pc \in Answering
           /\ thread'[q].pc = "fdisc" <=> thread[q].pc = "fdisc"
           /\ thread'[q].pc = "fdisc" => thread'[q].gen_oxid = thread[q].gen_oxid
    BY <1>1 DEF Holds, Answering
  <1>3. AboutToSend' = AboutToSend
    BY <1>2 DEF AboutToSend, mainvars
  <1>4. InQueue' = InQueue /\ InHands' = InHands
    BY <1>2 DEF InQueue, InHands
  <1>5. InFlight' = InFlight
    BY <1>3, <1>4 DEF InFlight
  <1>6. Tracked' /\ Accounted'
    BY <1>5, Keep DEF Good
  <1>7. OnePlace'
    BY <1>2 DEF Good, CleanInv, OnePlace, IsLogin
  <1>8. Unsent' = Unsent
    BY DEF Unsent, mainvars
  <1> QED
    BY <1>1, <1>2, <1>6, <1>7, <1>8

(* process_fc_response between taking a response and removing the entry:   *)
(* neither the null pointer nor the exit is reached.                       *)
LEMMA AnswerSafe ==
    ASSUME Good, NEW p \in Processors,
           \/ AcceptResponse(p) \/ Lookup(p) \/ NullEntry(p) \/ VfmRjt(p)
           \/ VfmAcc(p) \/ NoVerdict(p) \/ FillResponse(p)
           \/ SendResponse(p)
    PROVE  Safe'
  <1> DEFINE task == thread[p].task
             r == task.req
  <1>0. /\ thread[p].pc \in Answering \ {"remove"}
        /\ UNCHANGED <<mapvars, pending, mainvars, logins, fabric, lost, swallowed>>
    BY DEF AcceptResponse, Lookup, NullEntry, VfmRjt, VfmAcc, NoVerdict, FillResponse,
           SendResponse, At, Answering, network, history
  <1>1. /\ task \in Responses /\ r \in Requests /\ Holds(p)
        /\ thread[p].pc \in {"entry", "reply"} =>
                 /\ thread[p].entry # NULL
                 /\ Reads(thread[p].entry) = {r}
    BY <1>0, HandFacts
  <1>2. r \notin Finished /\ r \notin Unsent
    BY <1>0, <1>1 DEF Good, CleanInv, FinishedGone, UnsentNowhere
  <1>3. /\ WellAddressed(task) /\ status = "up" /\ g_gw_src_id \in {NoId, VFM}
        /\ thread[p].pc # "response" /\ task.ls = "RJT" => g_gw_src_id # NoId
    BY <1>0 DEF Good, CleanInv, ResponsesOK
  <1>4. CASE AcceptResponse(p)
    <2> DEFINE t == [thread[p] EXCEPT !.pc = "lookup"]
    <2>1. /\ t \in Threads /\ t.pc = "lookup" /\ t.task = task
          /\ thread' = [thread EXCEPT ![p] = t]
      BY <1>0, <1>4, MovesOn DEF AcceptResponse, Goto, Good, Answering
    <2> HIDE DEF t
    <2>2. /\ Tracked' /\ Accounted' /\ OnePlace' /\ Unsent' = Unsent
          /\ thread'[p] = t
          /\ \A q \in Processors : q # p => thread'[q] = thread[q]
          /\ \A q \in Processors : /\ Holds(q)' <=> Holds(q)
                                   /\ thread'[q].task = thread[q].task
      BY <1>0, <2>1, HandStep DEF Answering
    <2>3. UNCHANGED <<g_gw_src_id, status, replies>> /\ task.did # g_gw_src_id
      BY <1>4 DEF AcceptResponse, IsForGateway
    <2>4. Finished' = Finished /\ RepliesOK'
      BY <2>3 DEF Finished, Good, CleanInv, RepliesOK
    <2>5. UnsentNowhere'
      BY <1>0, <2>2, <2>4 DEF Good, CleanInv, UnsentNowhere, IsLogin
    <2>6. FinishedGone'
      BY <1>0, <1>2, <2>2, <2>4 DEF Good, CleanInv, FinishedGone, IsLogin
    <2>7. ResponsesOK'
      <3>1. task.ls = "RJT" => g_gw_src_id # NoId
        BY <1>3, <2>3 DEF WellAddressed
      <3> QED
        BY <1>0, <2>1, <2>2, <2>3, <3>1
           DEF Good, CleanInv, ResponsesOK, WellAddressed, mapvars, Answering
    <2> QED
      BY <1>3, <2>2, <2>3, <2>4, <2>5, <2>6, <2>7 DEF Safe, CleanInv
  <1>5. CASE Lookup(p)
    <2> DEFINE t == [thread[p] EXCEPT !.pc = "entry", !.entry = g_req_map[task.oxid]]
    <2>1. /\ thread[p] \in Threads /\ task.oxid \in Slots
          /\ g_req_map[task.oxid] \in Addrs \cup {NULL}
      BY <1>0, HandFacts DEF Good, TypeOK
    <2>2. /\ t \in Threads /\ t.pc = "entry" /\ t.task = task
          /\ t.entry = g_req_map[task.oxid]
      BY <1>1, <2>1 DEF Threads, Answering
    <2>3. thread' = [thread EXCEPT ![p] = t]
      BY <1>5 DEF Lookup, Becomes, get_entry_from_map
    <2> HIDE DEF t
    <2>4. /\ Tracked' /\ Accounted' /\ OnePlace' /\ Unsent' = Unsent
          /\ thread'[p] = t
          /\ \A q \in Processors : q # p => thread'[q] = thread[q]
          /\ \A q \in Processors : /\ Holds(q)' <=> Holds(q)
                                   /\ thread'[q].task = thread[q].task
      BY <1>0, <2>2, <2>3, HandStep DEF Answering
    <2>5. /\ UNCHANGED <<g_gw_src_id, status, replies>>
          /\ thread[p].pc = "lookup"
      BY <1>5 DEF Lookup, At
    <2>6. Finished' = Finished /\ RepliesOK'
      BY <2>5 DEF Finished, Good, CleanInv, RepliesOK
    <2>7. UnsentNowhere'
      BY <1>0, <2>4, <2>6 DEF Good, CleanInv, UnsentNowhere, IsLogin
    <2>8. FinishedGone'
      BY <1>0, <1>2, <2>4, <2>6 DEF Good, CleanInv, FinishedGone, IsLogin
    <2>9. ResponsesOK'
      BY <1>0, <2>2, <2>4, <2>5
         DEF Good, CleanInv, ResponsesOK, WellAddressed, mapvars, Answering
    <2> QED
      BY <1>3, <2>4, <2>5, <2>6, <2>7, <2>8, <2>9 DEF Safe, CleanInv
  <1>6. ASSUME NullEntry(p) PROVE FALSE
    BY <1>1, <1>6 DEF NullEntry, At
  <1>7. ASSUME VfmRjt(p) \/ VfmAcc(p) PROVE r = VfmRequest
    BY <1>1, <1>7, RequestFacts DEF VfmRjt, VfmAcc, At
  <1>8. ASSUME VfmRjt(p) PROVE FALSE
    <2>1. r = VfmRequest /\ g_gw_src_id # NoId
      BY <1>3, <1>7, <1>8 DEF VfmRjt, At
    <2> QED
      BY <1>2, <2>1, RequestFacts DEF Finished
  <1>9. CASE VfmAcc(p)
    <2> DEFINE t == [thread[p] EXCEPT !.pc = "remove"]
    <2>1. /\ t \in Threads /\ t.pc = "remove" /\ t.task = task
          /\ thread' = [thread EXCEPT ![p] = t]
      BY <1>0, <1>9, MovesOn DEF VfmAcc, Goto, Good, Answering
    <2> HIDE DEF t
    <2>2. /\ Tracked' /\ Accounted' /\ OnePlace' /\ Unsent' = Unsent
          /\ thread'[p] = t
          /\ \A q \in Processors : q # p => thread'[q] = thread[q]
          /\ \A q \in Processors : /\ Holds(q)' <=> Holds(q)
                                   /\ thread'[q].task = thread[q].task
      BY <1>0, <2>1, HandStep DEF Answering
    <2>3. /\ r = VfmRequest /\ g_gw_src_id' = VFM /\ VFM # NoId
          /\ UNCHANGED <<status, replies>>
      BY <1>3, <1>7, <1>9, RequestFacts, IdAssumption DEF VfmAcc, WellAddressed
    <2>4. /\ Finished' \subseteq Finished \cup {r}
          /\ RepliesOK'
      BY <2>3 DEF Finished, Good, CleanInv, RepliesOK
    <2>5. UnsentNowhere'
      BY <1>0, <1>2, <2>2, <2>4 DEF Good, CleanInv, UnsentNowhere, IsLogin
    <2>6. FinishedGone'
      <3>1. /\ \A j \in DOMAIN pending : IsLogin(j) => pending[j].req # r
            /\ \A q \in Processors : Holds(q) /\ thread[q].task.req = r => q = p
            /\ \A x \in fabric : x.req # r
        BY <1>1 DEF Good, CleanInv, OnePlace
      <3> QED
        BY <1>0, <2>1, <2>2, <2>4, <3>1 DEF Good, CleanInv, FinishedGone, IsLogin
    <2>7. ResponsesOK'
      BY <1>0, <2>1, <2>2, <2>3
         DEF Good, CleanInv, ResponsesOK, WellAddressed, mapvars, Answering
    <2> QED
      BY <1>3, <2>2, <2>3, <2>4, <2>5, <2>6, <2>7 DEF Safe, CleanInv
  <1>12. CASE NoVerdict(p)
    <2> DEFINE t == [thread[p] EXCEPT !.pc = "remove"]
    <2>1. /\ t \in Threads /\ t.pc = "remove" /\ t.task = task
          /\ thread' = [thread EXCEPT ![p] = t]
      BY <1>0, <1>12, MovesOn DEF NoVerdict, Goto, Good, Answering
    <2> HIDE DEF t
    <2>2. /\ Tracked' /\ Accounted' /\ OnePlace' /\ Unsent' = Unsent
          /\ thread'[p] = t
          /\ \A q \in Processors : q # p => thread'[q] = thread[q]
          /\ \A q \in Processors : /\ Holds(q)' <=> Holds(q)
                                   /\ thread'[q].task = thread[q].task
      BY <1>0, <2>1, HandStep DEF Answering
    <2>3. UNCHANGED <<g_gw_src_id, status, replies>> /\ thread[p].pc = "entry"
      BY <1>12 DEF NoVerdict, At
    <2>4. Finished' = Finished /\ RepliesOK'
      BY <2>3 DEF Finished, Good, CleanInv, RepliesOK
    <2>5. UnsentNowhere'
      BY <1>0, <2>2, <2>4 DEF Good, CleanInv, UnsentNowhere, IsLogin
    <2>6. FinishedGone'
      BY <1>0, <1>2, <2>2, <2>4 DEF Good, CleanInv, FinishedGone, IsLogin
    <2>7. ResponsesOK'
      BY <1>0, <2>1, <2>2, <2>3
         DEF Good, CleanInv, ResponsesOK, WellAddressed, mapvars, Answering
    <2> QED
      BY <1>3, <2>2, <2>3, <2>4, <2>5, <2>6, <2>7 DEF Safe, CleanInv
  <1>10. CASE FillResponse(p)
    <2> DEFINE t == [thread[p] EXCEPT !.pc = "reply", !.header = ResHeader(r)]
    <2>1. /\ thread[p].pc = "entry" /\ thread' = [thread EXCEPT ![p] = t]
          /\ r.flag # 1 /\ task.ls \in Verdicts
          /\ UNCHANGED <<g_gw_src_id, status, replies>>
      BY <1>1, <1>10 DEF FillResponse, At, Becomes
    <2>2. thread[p] \in Threads
      BY DEF Good, TypeOK
    <2>3. /\ t \in Threads /\ t.pc = "reply" /\ t.task = task
          /\ t.entry = thread[p].entry /\ t.header = ResHeader(r)
      BY <1>1, <2>2, HeaderType DEF Threads, Answering
    <2> HIDE DEF t
    <2>4. /\ Tracked' /\ Accounted' /\ OnePlace' /\ Unsent' = Unsent
          /\ thread'[p] = t
          /\ \A q \in Processors : q # p => thread'[q] = thread[q]
          /\ \A q \in Processors : /\ Holds(q)' <=> Holds(q)
                                   /\ thread'[q].task = thread[q].task
      BY <1>0, <2>1, <2>3, HandStep DEF Answering
    <2>5. Finished' = Finished /\ RepliesOK'
      BY <2>1 DEF Finished, Good, CleanInv, RepliesOK
    <2>6. UnsentNowhere'
      BY <1>0, <2>4, <2>5 DEF Good, CleanInv, UnsentNowhere, IsLogin
    <2>7. FinishedGone'
      BY <1>0, <1>2, <2>4, <2>5 DEF Good, CleanInv, FinishedGone, IsLogin
    <2>8. ResponsesOK'
      <3>1. r # VfmRequest
        BY <2>1, RequestFacts
      <3> QED
        BY <1>0, <2>1, <2>3, <2>4, <3>1
           DEF Good, CleanInv, ResponsesOK, WellAddressed, mapvars, Answering
    <2> QED
      BY <1>3, <2>1, <2>4, <2>5, <2>6, <2>7, <2>8 DEF Safe, CleanInv
  <1>11. CASE SendResponse(p)
    <2> DEFINE t == [thread[p] EXCEPT !.pc = "remove"]
    <2>1. /\ t \in Threads /\ t.pc = "remove" /\ t.task = task
          /\ thread' = [thread EXCEPT ![p] = t] /\ thread[p].pc = "reply"
      BY <1>0, <1>11, MovesOn DEF SendResponse, At, Goto, Good, Answering
    <2> HIDE DEF t
    <2>2. /\ Tracked' /\ Accounted' /\ OnePlace' /\ Unsent' = Unsent
          /\ thread'[p] = t
          /\ \A q \in Processors : q # p => thread'[q] = thread[q]
          /\ \A q \in Processors : /\ Holds(q)' <=> Holds(q)
                                   /\ thread'[q].task = thread[q].task
      BY <1>0, <2>1, HandStep DEF Answering
    <2>3. /\ r \in Logins /\ thread[p].header = ResHeader(r)
          /\ task.ls \in Verdicts
      BY <1>1, <2>1, RequestFacts DEF Good, CleanInv, ResponsesOK
    <2> DEFINE m == [to |-> r.mac, oxid |-> thread[p].header.oxid,
                     ls |-> task.ls, req |-> r,
                     granted |-> GrantedMac(thread[p].header.flags, task.did, r.mac)]
    <2>4. replies' = replies \cup {m} /\ UNCHANGED <<status, g_gw_src_id>>
      BY <1>1, <1>11, <2>1 DEF SendResponse
    <2>5. /\ m.req = r /\ m.to = r.mac /\ m.oxid = r.oxid /\ m.ls = task.ls
          /\ m.granted = <<"fpma", IF m.ls = "ACC" THEN r.mac ELSE NoId>>
      <3>1. /\ thread[p].header.oxid = r.oxid /\ thread[p].header.flags # 0
        BY <1>1, <2>3, HeaderType
      <3>2. task.did = IF task.ls = "ACC" THEN r.mac ELSE NoId
        BY <1>3, <2>3 DEF WellAddressed, Verdicts
      <3> QED
        BY <3>1, <3>2 DEF GrantedMac, SET_FP
    <2> HIDE DEF m
    <2>6. Finished' = Finished \cup {r}
      BY <1>1, <2>4, <2>5 DEF Finished
    <2>7. RepliesOK'
      <3>1. \A n \in replies : n.req # r
        BY <1>1, <1>2 DEF Finished
      <3> QED
        BY <2>3, <2>4, <2>5, <3>1 DEF Good, CleanInv, RepliesOK
    <2>8. UnsentNowhere'
      BY <1>0, <1>2, <2>2, <2>6 DEF Good, CleanInv, UnsentNowhere, IsLogin
    <2>9. FinishedGone'
      <3>1. /\ \A j \in DOMAIN pending : IsLogin(j) => pending[j].req # r
            /\ \A q \in Processors : Holds(q) /\ thread[q].task.req = r => q = p
            /\ \A x \in fabric : x.req # r
        BY <1>1 DEF Good, CleanInv, OnePlace
      <3> QED
        BY <1>0, <2>1, <2>2, <2>6, <3>1 DEF Good, CleanInv, FinishedGone, IsLogin
    <2>10. ResponsesOK'
      BY <1>0, <2>1, <2>2, <2>4
         DEF Good, CleanInv, ResponsesOK, WellAddressed, mapvars, Answering
    <2> QED
      BY <1>3, <2>2, <2>4, <2>7, <2>8, <2>9, <2>10 DEF Safe, CleanInv
  <1> QED
    BY <1>4, <1>5, <1>6, <1>8, <1>9, <1>10, <1>11, <1>12

(* Ids in flight are slots of the table. *)
LEMMA FlightType == ASSUME TypeOK
                    PROVE  InFlight \subseteq [oxid : OxIds, req : Requests]
  <1> SUFFICES ASSUME NEW x \in InFlight
               PROVE  x \in [oxid : OxIds, req : Requests]
    OBVIOUS
  <1>1. CASE main = "flogi_send" /\ x = Exchange(main_oxid, VfmRequest)
    BY <1>1, RequestFacts DEF TypeOK, Exchange
  <1>2. ASSUME NEW p \in Processors, thread[p].pc = "fdisc",
               x = Exchange(thread[p].gen_oxid, thread[p].task.req)
        PROVE  x \in [oxid : OxIds, req : Requests]
    BY <1>2, ThreadFacts, RequestFacts DEF TypeOK, Exchange, Flogis
  <1>3. CASE x \in fabric
    BY <1>3 DEF TypeOK
  <1>4. ASSUME NEW j \in DOMAIN pending, pending[j].kind = "response",
               x = Exchange(pending[j].oxid, pending[j].req)
        PROVE  x \in [oxid : OxIds, req : Requests]
    <2>1. pending[j] \in Frames
      BY <1>4 DEF TypeOK
    <2>2. pending[j] \in Responses
      BY <1>4, <2>1 DEF Frames, Flogis, ElsFrames
    <2> QED
      BY <1>4, <2>2 DEF Exchange, Responses
  <1>5. ASSUME NEW p \in Processors, thread[p].pc \in Answering,
               x = Exchange(thread[p].task.oxid, thread[p].task.req)
        PROVE  x \in [oxid : OxIds, req : Requests]
    BY <1>5, ThreadFacts DEF TypeOK, Exchange, Responses
  <1> QED
    BY <1>1, <1>2, <1>3, <1>4, <1>5, FlightIs

(* There is one exchange in flight for the answer in a processor's hands.  *)
LEMMA OneExchange ==
    ASSUME Good, NEW p \in Processors, thread[p].pc \in Answering,
           NEW x \in InFlight, x.req = thread[p].task.req
    PROVE  x = Exchange(thread[p].task.oxid, thread[p].task.req)
  <1> DEFINE r == thread[p].task.req
  <1>1. r \notin Unsent /\ Holds(p) /\ r \in Requests
    BY HandFacts DEF Good, CleanInv, UnsentNowhere
  <1>2. /\ \A j \in DOMAIN pending : IsLogin(j) => pending[j].req # r
        /\ \A q \in Processors : Holds(q) /\ thread[q].task.req = r => q = p
        /\ \A y \in fabric : y.req # r
    BY <1>1 DEF Good, CleanInv, OnePlace
  <1>3. main = "flogi_send" => VfmRequest # r
    BY <1>1, RequestFacts DEF Unsent
  <1>4. /\ \A q \in Processors : thread[q].pc = "fdisc" => thread[q].task.req # r
        /\ \A q \in Processors : thread[q].pc \in Answering /\ thread[q].task.req = r
               => q = p
    BY <1>2 DEF Holds, Answering
  <1> QED
    BY <1>2, <1>3, <1>4, FlightIs DEF Exchange, IsLogin

(* A processor lets go of its frame: what is left in flight is what it did *)
(* not hold.                                                               *)
LEMMA LetGo ==
    ASSUME Good, NEW p \in Processors, thread[p].pc \in Answering \cup {"els"},
           thread' = [thread EXCEPT ![p] = Idle],
           UNCHANGED <<pending, mainvars, logins, fabric, g_gw_src_id, status,
                       replies>>,
           \A q \in Processors : q # p /\ thread[q].pc \in Answering =>
              g_req_map'[thread[q].task.oxid] = g_req_map[thread[q].task.oxid]
    PROVE  /\ CleanInv'
           /\ thread[p].pc = "els" => InFlight' = InFlight
           /\ thread[p].pc \in Answering =>
                 InFlight' = {x \in InFlight : x.req # thread[p].task.req}
  <1>1. /\ thread'[p] = Idle /\ Idle.pc = "get"
        /\ \A q \in Processors : q # p => thread'[q] = thread[q]
    BY ThreadFacts DEF Good, TypeOK
  <1>2. \A q \in Processors : /\ Holds(q)' <=> Holds(q) /\ q # p
                              /\ Holds(q)' => thread'[q].task = thread[q].task
    BY <1>1 DEF Holds
  <1>3. OnePlace'
    BY <1>2 DEF Good, CleanInv, OnePlace, IsLogin
  <1>4. Unsent' = Unsent /\ Finished' = Finished
    BY DEF Unsent, Finished, mainvars
  <1>5. UnsentNowhere'
    BY <1>2, <1>4 DEF Good, CleanInv, UnsentNowhere, IsLogin
  <1>6. FinishedGone'
    BY <1>1, <1>2, <1>4 DEF Good, CleanInv, FinishedGone, IsLogin
  <1>7. ResponsesOK'
    BY <1>1 DEF Good, CleanInv, ResponsesOK, WellAddressed, Answering
  <1>8. CleanInv'
    BY <1>3, <1>5, <1>6, <1>7 DEF Good, CleanInv, RepliesOK
  <1>9. ASSUME thread[p].pc = "els" PROVE InFlight' = InFlight
    <2>1. AboutToSend' = AboutToSend /\ InHands' = InHands
      BY <1>1, <1>9 DEF AboutToSend, InHands, mainvars, Answering
    <2> QED
      BY <2>1 DEF InFlight, InQueue
  <1>10. ASSUME thread[p].pc \in Answering
         PROVE  InFlight' = {x \in InFlight : x.req # thread[p].task.req}
    <2> DEFINE r == thread[p].task.req
    <2>1. /\ r \notin Unsent /\ Holds(p) /\ r \in Requests
      BY <1>10, HandFacts DEF Good, CleanInv, UnsentNowhere
    <2>2. /\ \A j \in DOMAIN pending : IsLogin(j) => pending[j].req # r
          /\ \A q \in Processors : Holds(q) /\ thread[q].task.req = r => q = p
          /\ \A x \in fabric : x.req # r
      BY <2>1 DEF Good, CleanInv, OnePlace
    <2>3. AboutToSend' = AboutToSend /\ \A x \in AboutToSend : x.req # r
      <3>1. AboutToSend' = AboutToSend
        BY <1>1, <1>10 DEF AboutToSend, mainvars, Answering
      <3>2. main = "flogi_send" => VfmRequest # r
        BY <2>1, RequestFacts DEF Unsent
      <3>3. \A q \in Processors : thread[q].pc = "fdisc" => thread[q].task.req # r
        BY <1>10, <2>2 DEF Holds, Answering
      <3> QED
        BY <3>1, <3>2, <3>3 DEF AboutToSend, Exchange
    <2>4. InQueue' = InQueue /\ \A x \in InQueue : x.req # r
      BY <2>2 DEF InQueue, IsLogin, Exchange
    <2>5. InHands' = {x \in InHands : x.req # r}
      <3>1. \A q \in Processors :
               /\ thread'[q].pc \in Answering <=> thread[q].pc \in Answering /\ q # p
               /\ thread[q].pc \in Answering /\ q # p =>
                     thread'[q] = thread[q] /\ thread[q].task.req # r
        BY <1>1, <2>2 DEF Answering, Holds
      <3> QED
        BY <3>1 DEF InHands, Exchange
    <2> HIDE DEF r
    <2> QED
      BY <2>2, <2>3, <2>4, <2>5 DEF InFlight, r
  <1> QED
    BY <1>8, <1>9, <1>10

(* A frame is refused, passed on, or its exchange is over. *)
LEMMA LetGoSafe ==
    ASSUME Good, NEW p \in Processors,
           RejectEls(p) \/ PassEls(p) \/ RejectResponse(p) \/ RemoveEntry(p)
    PROVE  Safe'
  <1>0. /\ thread' = [thread EXCEPT ![p] = Idle]
        /\ UNCHANGED <<pending, mainvars, logins, fabric, lost, g_gw_src_id,
                       status, replies>>
    BY DEF RejectEls, PassEls, RejectResponse, RemoveEntry, Becomes, network
  <1>1. CASE RejectEls(p) \/ PassEls(p)
    <2>1. thread[p].pc = "els" /\ UNCHANGED mapvars /\ UNCHANGED swallowed
      BY <1>1 DEF RejectEls, PassEls, At, history
    <2>2. CleanInv' /\ InFlight' = InFlight
      BY <1>0, <2>1, LetGo DEF mapvars
    <2> QED
      BY <1>0, <2>1, <2>2, Keep DEF Good, Safe
  <1>2. CASE RejectResponse(p)
    <2> DEFINE r == thread[p].task.req
    <2>1. /\ thread[p].pc \in Answering /\ UNCHANGED mapvars
          /\ swallowed' = swallowed \cup {r}
      BY <1>2 DEF RejectResponse, At, Answering
    <2>2. CleanInv' /\ InFlight' = {x \in InFlight : x.req # r}
      BY <1>0, <2>1, LetGo DEF mapvars
    <2>3. Tracked'
      BY <2>1, <2>2 DEF Good, Tracked, mapvars
    <2>4. Accounted'
      BY <1>0, <2>1, <2>2 DEF Good, Tracked, Accounted, mapvars
    <2> QED
      BY <2>2, <2>3, <2>4 DEF Safe
  <1>3. CASE RemoveEntry(p)
    <2> DEFINE r == thread[p].task.req
               oxid == thread[p].task.oxid
    <2>1. /\ thread[p].pc \in Answering /\ remove_entry_from_map(oxid)
          /\ UNCHANGED swallowed /\ oxid \in OxIds /\ oxid \in Slots
          /\ g_req_map[oxid] # NULL /\ entries[g_req_map[oxid]] = r
          /\ Holds(p)
      BY <1>3, HandFacts DEF RemoveEntry, At, Answering, history
    <2>2. /\ \A j \in Slots : j # oxid => g_req_map'[j] = g_req_map[j]
          /\ \A b \in Addrs : entries'[b] =
                 IF b = g_req_map[oxid] THEN NoRequest ELSE entries[b]
      BY <2>1, RemoveFacts DEF Good
    <2>3. \A x \in InFlight : x.req # r => x.oxid \in Slots /\ x.oxid # oxid
      BY <2>1, FlightType, ThreadFacts DEF Good, Tracked
    <2>4. \A q \in Processors : q # p /\ thread[q].pc \in Answering =>
              /\ thread[q].task.oxid \in Slots /\ thread[q].task.oxid # oxid
      <3> SUFFICES ASSUME NEW q \in Processors, q # p, thread[q].pc \in Answering
                   PROVE  thread[q].task.oxid \in Slots
                          /\ thread[q].task.oxid # oxid
        OBVIOUS
      <3>1. /\ thread[q].task.oxid \in Slots /\ Holds(q)
            /\ entries[g_req_map[thread[q].task.oxid]] = thread[q].task.req
        BY HandFacts
      <3>2. thread[q].task.req # r
        BY <2>1, <3>1 DEF Good, CleanInv, OnePlace
      <3> QED
        BY <2>1, <3>1, <3>2
    <2>5. \A q \in Processors : q # p /\ thread[q].pc \in Answering =>
              g_req_map'[thread[q].task.oxid] = g_req_map[thread[q].task.oxid]
      BY <2>2, <2>4
    <2>6. CleanInv' /\ InFlight' = {x \in InFlight : x.req # r}
      BY <1>0, <2>1, <2>5, LetGo
    <2>7. Tracked'
      <3> SUFFICES ASSUME NEW x \in InFlight, x.req # r
                   PROVE  /\ g_req_map'[x.oxid] # NULL
                          /\ entries'[g_req_map'[x.oxid]] = x.req
        BY <2>6 DEF Tracked
      <3>1. /\ x.oxid \in Slots /\ x.oxid # oxid
            /\ g_req_map'[x.oxid] = g_req_map[x.oxid]
            /\ g_req_map[x.oxid] # NULL /\ entries[g_req_map[x.oxid]] = x.req
        BY <2>2, <2>3 DEF Good, Tracked
      <3>2. g_req_map[x.oxid] \in Addrs /\ g_req_map[x.oxid] # g_req_map[oxid]
        BY <2>1, <3>1 DEF Good, TypeOK, TableIntact
      <3> QED
        BY <2>2, <3>1, <3>2
    <2>8. Accounted'
      <3> SUFFICES ASSUME lost = 0, NEW a \in Addrs, entries'[a] # NoRequest
                   PROVE  \/ \E x \in InFlight : /\ x.req # r
                                                 /\ g_req_map'[x.oxid] = a
                          \/ entries'[a] \in swallowed'
        BY <1>0, <2>6 DEF Accounted
      <3>1. a # g_req_map[oxid] /\ entries'[a] = entries[a]
        BY <2>2
      <3>2. CASE entries[a] \in swallowed
        BY <2>1, <3>1, <3>2
      <3>3. ASSUME NEW x \in InFlight, g_req_map[x.oxid] = a
            PROVE  x.req # r /\ g_req_map'[x.oxid] = a
        <4>1. x.oxid # oxid /\ x.oxid \in Slots
          BY <3>1, <3>3, FlightType, ThreadFacts DEF Good
        <4>2. x.req # r
          <5> SUFFICES ASSUME x.req = r PROVE FALSE
            OBVIOUS
          <5>1. x = Exchange(oxid, r)
            BY <2>1, OneExchange
          <5> QED
            BY <4>1, <5>1 DEF Exchange
        <4> QED
          BY <2>2, <3>3, <4>1, <4>2
      <3> QED
        BY <3>1, <3>2, <3>3 DEF Good, Accounted
    <2> QED
      BY <2>6, <2>7, <2>8 DEF Safe
  <1> QED
    BY <1>1, <1>2, <1>3

(* Entering a login in a table that is not full disturbs no exchange in    *)
(* flight.                                                                 *)
LEMMA EnterSafe ==
    ASSUME Good, NEW r \in Requests, NEW oxid \in Slots, NEW a \in Addrs,
           add_entry_to_map(r, oxid, a), ~Full,
           InFlight' = InFlight \cup {Exchange(oxid, r)},
           lost' = lost, swallowed' = swallowed
    PROVE  /\ Tracked' /\ Accounted'
           /\ \A q \in Processors : thread[q].pc \in Answering =>
                 g_req_map'[thread[q].task.oxid] = g_req_map[thread[q].task.oxid]
  <1>1. /\ g_req_map[oxid] = NULL
        /\ g_req_map'[oxid] = a /\ entries'[a] = r
        /\ entries[a] = NoRequest
        /\ \A i \in Slots : i # oxid => g_req_map'[i] = g_req_map[i]
        /\ \A b \in Addrs : b # a => entries'[b] = entries[b]
        /\ \A i \in Slots : g_req_map[i] # a
    BY AddFacts DEF Good
  <1>2. \A x \in InFlight :
           /\ x.oxid \in Slots /\ x.oxid # oxid
           /\ g_req_map[x.oxid] \in Addrs /\ g_req_map[x.oxid] # a
           /\ g_req_map[x.oxid] # NULL /\ entries[g_req_map[x.oxid]] = x.req
    <2> SUFFICES ASSUME NEW x \in InFlight
                 PROVE  /\ x.oxid \in Slots /\ x.oxid # oxid
                        /\ g_req_map[x.oxid] \in Addrs /\ g_req_map[x.oxid] # a
                        /\ g_req_map[x.oxid] # NULL
                        /\ entries[g_req_map[x.oxid]] = x.req
      OBVIOUS
    <2>1. x.oxid \in Slots
      BY FlightType, ThreadFacts DEF Good
    <2>2. g_req_map[x.oxid] # NULL /\ entries[g_req_map[x.oxid]] = x.req
      BY DEF Good, Tracked
    <2> QED
      BY <1>1, <2>1, <2>2 DEF Good, TypeOK
  <1>3. Tracked'
    BY <1>1, <1>2, NullAddrAssumption DEF Tracked, Exchange
  <1>4. Accounted'
    <2> SUFFICES ASSUME lost = 0, NEW b \in Addrs, entries'[b] # NoRequest
                 PROVE  \/ \E x \in InFlight' : g_req_map'[x.oxid] = b
                        \/ entries'[b] \in swallowed
      BY DEF Accounted
    <2>1. CASE b = a
      <3>1. Exchange(oxid, r) \in InFlight' /\ Exchange(oxid, r).oxid = oxid
        BY DEF Exchange
      <3> QED
        BY <1>1, <2>1, <3>1
    <2>2. CASE b # a
      BY <1>1, <1>2, <2>2 DEF Good, Accounted
    <2> QED
      BY <2>1, <2>2
  <1>5. \A q \in Processors : thread[q].pc \in Answering =>
           g_req_map'[thread[q].task.oxid] = g_req_map[thread[q].task.oxid]
    <2> SUFFICES ASSUME NEW q \in Processors, thread[q].pc \in Answering
                 PROVE  g_req_map'[thread[q].task.oxid]
                            = g_req_map[thread[q].task.oxid]
      OBVIOUS
    <2>1. thread[q].task.oxid \in Slots /\ g_req_map[thread[q].task.oxid] # NULL
      BY HandFacts
    <2> QED
      BY <1>1, <2>1
  <1> QED
    BY <1>3, <1>4, <1>5

(* The main thread's login. *)
LEMMA MainSafe == ASSUME Good, Main, Clean' PROVE Safe'
  <1>0. /\ UNCHANGED <<g_gw_src_id, pending, thread, status, replies, logins, lost,
                       swallowed>>
        /\ main # "sleep"
    BY DEF Main, VfmFlogiAdd, VfmFlogiSend, SendGwAd, EnterLogin, network, history
  <1>1. Finished' = Finished /\ RepliesOK'
    BY <1>0 DEF Finished, Good, CleanInv, RepliesOK
  <1>2. CASE VfmFlogiAdd
    <2>1. PICK oxid \in Slots, a \in Addrs :
             add_entry_to_map(VfmRequest, oxid, a) /\ main_oxid' = oxid
      BY <1>2 DEF VfmFlogiAdd, EnterLogin
    <2>2. main = "flogi" /\ main' = "flogi_send" /\ UNCHANGED fabric
      BY <1>2 DEF VfmFlogiAdd, network
    <2>3. ~Full
      BY <1>2, Zenon DEF VfmFlogiAdd, EnterLogin, Clean
    <2>4. InFlight' = InFlight \cup {Exchange(oxid, VfmRequest)}
      <3>1. AboutToSend' = AboutToSend \cup {Exchange(oxid, VfmRequest)}
        BY <1>0, <2>1, <2>2 DEF AboutToSend
      <3>2. InQueue' = InQueue /\ InHands' = InHands
        BY <1>0 DEF InQueue, InHands
      <3> QED
        BY <2>2, <3>1, <3>2 DEF InFlight
    <2>5. /\ Tracked' /\ Accounted'
          /\ \A q \in Processors : thread[q].pc \in Answering =>
                g_req_map'[thread[q].task.oxid] = g_req_map[thread[q].task.oxid]
      BY <1>0, <2>1, <2>3, <2>4, EnterSafe, RequestFacts
    <2>6. Unsent' = Unsent
      BY <1>0, <2>2 DEF Unsent
    <2>7. OnePlace' /\ UnsentNowhere' /\ FinishedGone'
      BY <1>0, <1>1, <2>2, <2>6
         DEF Good, CleanInv, OnePlace, UnsentNowhere, FinishedGone, IsLogin, Holds
    <2>8. ResponsesOK'
      BY <1>0, <2>5 DEF Good, CleanInv, ResponsesOK, WellAddressed, Answering
    <2> QED
      BY <1>0, <1>1, <2>5, <2>7, <2>8 DEF Safe, Good, CleanInv
  <1>3. CASE VfmFlogiSend
    <2>1. /\ main = "flogi_send" /\ main' = "advertise" /\ UNCHANGED mapvars
          /\ fabric' = fabric \cup {Exchange(main_oxid, VfmRequest)}
      BY <1>3 DEF VfmFlogiSend, SendLogin, Exchange
    <2>2. VfmRequest \in Unsent /\ Unsent' = Unsent \ {VfmRequest}
      BY <1>0, <2>1, RequestFacts DEF Unsent
    <2>3. InFlight' = InFlight
      <3>1. AboutToSend = AboutToSend' \cup {Exchange(main_oxid, VfmRequest)}
        BY <1>0, <2>1 DEF AboutToSend
      <3>2. InQueue' = InQueue /\ InHands' = InHands
        BY <1>0 DEF InQueue, InHands
      <3> QED
        BY <2>1, <3>1, <3>2 DEF InFlight
    <2>4. Tracked' /\ Accounted'
      BY <1>0, <2>1, <2>3, Keep DEF Good
    <2>5. /\ \A i \in DOMAIN pending : IsLogin(i) => pending[i].req # VfmRequest
          /\ \A p \in Processors : Holds(p) => thread[p].task.req # VfmRequest
          /\ \A x \in fabric : x.req # VfmRequest
          /\ VfmRequest \notin Finished
      BY <2>2 DEF Good, CleanInv, UnsentNowhere
    <2>6. \A x \in fabric' : x \in fabric \/ x = Exchange(main_oxid, VfmRequest)
      BY <2>1
    <2>7. Exchange(main_oxid, VfmRequest).req = VfmRequest
      BY DEF Exchange
    <2>8. OnePlace'
      BY <1>0, <2>5, <2>6, <2>7 DEF Good, CleanInv, OnePlace, IsLogin, Holds
    <2>9. UnsentNowhere' /\ FinishedGone'
      BY <1>0, <1>1, <2>2, <2>5, <2>6, <2>7
         DEF Good, CleanInv, UnsentNowhere, FinishedGone, IsLogin, Holds
    <2>10. ResponsesOK'
      BY <1>0, <2>1 DEF Good, CleanInv, ResponsesOK, WellAddressed, mapvars
    <2> QED
      BY <1>0, <1>1, <2>4, <2>8, <2>9, <2>10 DEF Safe, Good, CleanInv
  <1>4. CASE SendGwAd
    <2>1. /\ main = "advertise" /\ main' = "sleep" /\ UNCHANGED <<mapvars, fabric>>
      BY <1>4 DEF SendGwAd, network
    <2>2. Unsent' = Unsent /\ InFlight' = InFlight
      BY <1>0, <2>1 DEF Unsent, InFlight, AboutToSend, InQueue, InHands
    <2>3. Tracked' /\ Accounted'
      BY <1>0, <2>1, <2>2, Keep DEF Good
    <2>4. OnePlace' /\ UnsentNowhere' /\ FinishedGone'
      BY <1>0, <1>1, <2>1, <2>2
         DEF Good, CleanInv, OnePlace, UnsentNowhere, FinishedGone, IsLogin, Holds
    <2>5. ResponsesOK'
      BY <1>0, <2>1 DEF Good, CleanInv, ResponsesOK, WellAddressed, mapvars
    <2> QED
      BY <1>0, <1>1, <2>3, <2>4, <2>5 DEF Safe, Good, CleanInv
  <1> QED
    BY <1>2, <1>3, <1>4 DEF Main

(* create_packet_ex: the host's login is entered and sent. *)
LEMMA ForwardSafe ==
    ASSUME Good, NEW p \in Processors, FlogiAdd(p) \/ FdiscSend(p), Clean'
    PROVE  Safe'
  <1> DEFINE r == thread[p].task.req
  <1>0. /\ UNCHANGED <<g_gw_src_id, mainvars, pending, status, replies, logins,
                       lost, swallowed>>
        /\ thread[p].pc \in {"flogi", "fdisc"} /\ thread[p] \in Threads
    BY DEF FlogiAdd, FdiscSend, At, EnterLogin, network, history, Good, TypeOK
  <1>1. r \in Requests /\ Holds(p)
    BY <1>0, ThreadFacts, RequestFacts DEF Flogis, Holds
  <1>2. /\ Finished' = Finished /\ RepliesOK' /\ Unsent' = Unsent
        /\ r \notin Unsent /\ r \notin Finished
        /\ \A i \in DOMAIN pending : IsLogin(i) => pending[i].req # r
        /\ \A q \in Processors : Holds(q) /\ thread[q].task.req = r => q = p
        /\ \A x \in fabric : x.req # r
    <2>1. Finished' = Finished /\ Unsent' = Unsent
      BY <1>0 DEF Finished, Unsent, mainvars
    <2>2. RepliesOK'
      BY <1>0 DEF Good, CleanInv, RepliesOK
    <2>3. r \notin Unsent /\ r \notin Finished
      BY <1>0, <1>1 DEF Good, CleanInv, UnsentNowhere, FinishedGone
    <2>4. /\ \A i \in DOMAIN pending : IsLogin(i) => pending[i].req # r
          /\ \A q \in Processors : Holds(q) /\ thread[q].task.req = r => q = p
          /\ \A x \in fabric : x.req # r
      BY <1>1 DEF Good, CleanInv, OnePlace
    <2> QED
      BY <2>1, <2>2, <2>3, <2>4
  <1>3. CASE FlogiAdd(p)
    <2>1. PICK oxid \in Slots, a \in Addrs :
             /\ add_entry_to_map(r, oxid, a)
             /\ Becomes(p, [thread[p] EXCEPT !.pc = "fdisc", !.gen_oxid = oxid])
      BY <1>3 DEF FlogiAdd, EnterLogin
    <2>2. ~Full
      BY <1>3, Zenon DEF FlogiAdd, EnterLogin, Clean
    <2>3. /\ thread'[p].pc = "fdisc" /\ thread'[p].gen_oxid = oxid
          /\ thread'[p].task = thread[p].task /\ thread[p].pc = "flogi"
          /\ \A q \in Processors : q # p => thread'[q] = thread[q]
          /\ UNCHANGED fabric
      BY <1>0, <1>3, <2>1 DEF FlogiAdd, At, Becomes, Good, TypeOK, Threads, network
    <2>4. InFlight' = InFlight \cup {Exchange(oxid, r)}
      <3>1. AboutToSend' = AboutToSend \cup {Exchange(oxid, r)}
        BY <1>0, <2>3 DEF AboutToSend, mainvars
      <3>2. InQueue' = InQueue /\ InHands' = InHands
        BY <1>0, <2>3 DEF InQueue, InHands, Answering
      <3> QED
        BY <2>3, <3>1, <3>2 DEF InFlight
    <2>5. /\ Tracked' /\ Accounted'
          /\ \A q \in Processors : thread[q].pc \in Answering =>
                g_req_map'[thread[q].task.oxid] = g_req_map[thread[q].task.oxid]
      BY <1>0, <1>1, <2>1, <2>2, <2>4, EnterSafe
    <2>6. \A q \in Processors : /\ Holds(q)' <=> Holds(q)
                                /\ thread'[q].task = thread[q].task
      BY <2>3 DEF Holds
    <2>7. OnePlace' /\ UnsentNowhere'
      BY <1>0, <1>2, <2>3, <2>6
         DEF Good, CleanInv, OnePlace, UnsentNowhere, IsLogin
    <2>8. FinishedGone'
      BY <1>0, <1>2, <2>3, <2>6 DEF Good, CleanInv, FinishedGone, IsLogin
    <2>9. ResponsesOK'
      BY <1>0, <2>3, <2>5
         DEF Good, CleanInv, ResponsesOK, WellAddressed, Answering
    <2> QED
      BY <1>0, <1>2, <2>5, <2>7, <2>8, <2>9 DEF Safe, Good, CleanInv
  <1>4. CASE FdiscSend(p)
    <2> DEFINE x0 == Exchange(thread[p].gen_oxid, r)
    <2>1. /\ thread[p].pc = "fdisc" /\ thread'[p].pc = "get" /\ UNCHANGED mapvars
          /\ \A q \in Processors : q # p => thread'[q] = thread[q]
          /\ fabric' = fabric \cup {x0}
      BY <1>4, ThreadFacts
         DEF FdiscSend, At, Becomes, SendLogin, Exchange, Good, TypeOK
    <2>2. InFlight' = InFlight
      <3>1. AboutToSend = AboutToSend' \cup {x0}
        BY <1>0, <2>1 DEF AboutToSend, mainvars
      <3>2. InQueue' = InQueue /\ InHands' = InHands
        BY <1>0, <2>1 DEF InQueue, InHands, Answering
      <3> QED
        BY <2>1, <3>1, <3>2 DEF InFlight
    <2>3. Tracked' /\ Accounted'
      BY <1>0, <2>1, <2>2, Keep DEF Good
    <2>4. \A q \in Processors : /\ Holds(q)' <=> Holds(q) /\ q # p
                                /\ Holds(q)' => thread'[q] = thread[q]
      BY <2>1 DEF Holds
    <2>5. x0.req = r
      BY DEF Exchange
    <2> HIDE DEF x0
    <2>6. OnePlace'
      BY <1>0, <1>2, <2>1, <2>4, <2>5 DEF Good, CleanInv, OnePlace, IsLogin
    <2>7. UnsentNowhere' /\ FinishedGone'
      BY <1>0, <1>2, <2>1, <2>4, <2>5
         DEF Good, CleanInv, UnsentNowhere, FinishedGone, IsLogin
    <2>8. ResponsesOK'
      BY <1>0, <2>1
         DEF Good, CleanInv, ResponsesOK, WellAddressed, Answering, mapvars
    <2> QED
      BY <1>0, <1>2, <2>3, <2>6, <2>7, <2>8 DEF Safe, Good, CleanInv
  <1> QED
    BY <1>3, <1>4

(* Taking a frame moves its login from the queue to the processor. *)
LEMMA GetTaskSafe ==
    ASSUME Good, NEW p \in Processors, GetTask(p)
    PROVE  Safe'
  <1> DEFINE f == Head(pending)
  <1>0. /\ UNCHANGED <<mapvars, g_gw_src_id, mainvars, status, replies, fabric,
                       logins, lost, swallowed>>
        /\ thread[p].pc = "get" /\ pending' = Tail(pending) /\ pending # <<>>
    BY DEF GetTask, At, network, history
  <1>1. /\ f \in Frames /\ f = pending[1] /\ 1 \in DOMAIN pending
        /\ \A i \in DOMAIN pending' : /\ i + 1 \in DOMAIN pending /\ i + 1 # 1
                                      /\ pending'[i] = pending[i + 1]
        /\ \A i, j \in DOMAIN pending' : i + 1 = j + 1 => i = j
        /\ \A i \in DOMAIN pending : i # 1 => i - 1 \in DOMAIN pending'
                                             /\ pending'[i - 1] = pending[i]
    BY <1>0, TailFacts DEF Good, TypeOK
  <1>2. /\ thread'[p].pc = f.kind /\ thread'[p].task = f
        /\ f.kind \in {"flogi", "els", "response"}
        /\ \A q \in Processors : q # p => thread'[q] = thread[q]
    BY <1>1, ThreadFacts DEF GetTask, Becomes, Good, TypeOK
  <1> HIDE DEF f
  <1>3. /\ IsLogin(1) <=> Holds(p)'
        /\ Holds(p)' => thread'[p].task.req = pending[1].req
        /\ ~Holds(p)
        /\ \A q \in Processors : q # p => (Holds(q)' <=> Holds(q))
        /\ \A i \in DOMAIN pending' : IsLogin(i)' <=> IsLogin(i + 1)
    BY <1>0, <1>1, <1>2 DEF IsLogin, Holds
  <1>4. InFlight' = InFlight
    <2>1. AboutToSend' = AboutToSend
      BY <1>0, <1>2 DEF AboutToSend, mainvars
    <2>2. InQueue' \cup InHands' = InQueue \cup InHands
      <3>1. CASE f.kind = "response"
        <4>1. InQueue = InQueue' \cup {Exchange(f.oxid, f.req)}
          BY <1>1, <3>1 DEF InQueue
        <4>2. InHands' = InHands \cup {Exchange(f.oxid, f.req)}
          BY <1>0, <1>2, <3>1 DEF InHands, Answering
        <4> QED
          BY <4>1, <4>2
      <3>2. CASE f.kind # "response"
        <4>1. InQueue = InQueue'
          BY <1>1, <3>2 DEF InQueue
        <4>2. InHands' = InHands
          BY <1>0, <1>2, <3>2 DEF InHands, Answering
        <4> QED
          BY <4>1, <4>2
      <3> QED
        BY <3>1, <3>2
    <2> QED
      BY <1>0, <2>1, <2>2 DEF InFlight
  <1>5. Tracked' /\ Accounted'
    BY <1>0, <1>4, Keep DEF Good
  <1>6. OnePlace'
    BY <1>0, <1>1, <1>2, <1>3 DEF Good, CleanInv, OnePlace
  <1>7. Finished' = Finished /\ Unsent' = Unsent
    BY <1>0 DEF Finished, Unsent, mainvars
  <1>8. RepliesOK'
    BY <1>0 DEF Good, CleanInv, RepliesOK
  <1>9. UnsentNowhere'
    BY <1>0, <1>1, <1>2, <1>3, <1>7 DEF Good, CleanInv, UnsentNowhere
  <1>10. FinishedGone'
    BY <1>0, <1>1, <1>2, <1>3, <1>7 DEF Good, CleanInv, FinishedGone
  <1>11. ResponsesOK'
    BY <1>0, <1>1, <1>2
       DEF Good, CleanInv, ResponsesOK, WellAddressed, Answering, mapvars
  <1> QED
    BY <1>0, <1>5, <1>6, <1>8, <1>9, <1>10, <1>11 DEF Safe, Good, CleanInv

(* What hosts and fabric send, as long as nothing arrives twice. *)
LEMMA EnvironmentSafe == ASSUME Good, Environment, Clean' PROVE Safe'
  <1>0. /\ UNCHANGED <<mapvars, g_gw_src_id, mainvars, thread, status, replies,
                       swallowed>>
        /\ Finished' = Finished /\ AboutToSend' = AboutToSend
        /\ InHands' = InHands /\ RepliesOK'
        /\ \A p \in Processors : Holds(p)' <=> Holds(p)
    <2>1. UNCHANGED <<mapvars, g_gw_src_id, mainvars, thread, status, replies,
                      swallowed>>
      BY DEF Environment, HostFlogi, FabricAnswers, AnswerAgain, LoginLost,
             FabricEls, history
    <2> QED
      BY <2>1 DEF Finished, AboutToSend, InHands, mainvars, Good, CleanInv,
                  RepliesOK, Holds
  <1>1. ASSUME NEW f \in Frames, pending' = Append(pending, f)
        PROVE  \E n \in Nat :
                  /\ n \notin DOMAIN pending /\ DOMAIN pending' = DOMAIN pending \cup {n}
                  /\ pending'[n] = f /\ (IsLogin(n)' <=> f.kind # "els")
                  /\ \A i \in DOMAIN pending : /\ pending'[i] = pending[i]
                                               /\ IsLogin(i)' <=> IsLogin(i)
    <2>1. pending \in Seq(Frames)
      BY DEF Good, TypeOK
    <2> HIDE DEF Frames
    <2>2. PICK n \in Nat :
             /\ n \notin DOMAIN pending
             /\ DOMAIN pending' = DOMAIN pending \cup {n}
             /\ pending'[n] = f
             /\ \A i \in DOMAIN pending : pending'[i] = pending[i]
      BY <1>1, <2>1, AppendFacts
    <2>3. /\ IsLogin(n)' <=> f.kind # "els"
          /\ \A i \in DOMAIN pending : IsLogin(i)' <=> IsLogin(i)
      BY <2>2 DEF IsLogin
    <2> QED
      BY <2>2, <2>3
  <1>2. ASSUME NEW h \in Hosts, HostFlogi(h) PROVE Safe'
    <2> DEFINE r == HostRequest(h, logins[h] + 1)
               f == Flogi(r)
    <2>0. /\ UNCHANGED <<fabric, lost>> /\ pending' = Append(pending, f)
      BY <1>2 DEF HostFlogi
    <2>1. /\ logins[h] \in Nat /\ logins[h] + 1 \in 1..MaxLogins
          /\ logins' = [logins EXCEPT ![h] = logins[h] + 1]
          /\ DOMAIN logins = Hosts /\ \A g \in Hosts : logins[g] \in Nat
      BY <1>2, BoundAssumption DEF HostFlogi, Good, TypeOK
    <2>2. r \in Logins /\ r.mac = h /\ r.oxid = logins[h] + 1
      <3>1. r \in Logins
        BY <2>1 DEF Logins
      <3>2. r.mac = h /\ r.oxid = logins[h] + 1
        BY DEF HostRequest
      <3> QED
        BY <3>1, <3>2
    <2> HIDE DEF r
    <2>3. f \in Frames /\ f.kind = "flogi" /\ f.req = r
      BY <2>2 DEF Flogi, Frames, Flogis
    <2> HIDE DEF f
    <2>4. PICK n \in Nat :
             /\ n \notin DOMAIN pending /\ DOMAIN pending' = DOMAIN pending \cup {n}
             /\ pending'[n] = f /\ (IsLogin(n)' <=> f.kind # "els")
             /\ \A i \in DOMAIN pending : /\ pending'[i] = pending[i]
                                          /\ IsLogin(i)' <=> IsLogin(i)
      BY <1>1, <2>0, <2>3
    <2>5. /\ r \in Requests /\ r # VfmRequest
          /\ \A q \in Requests : q # VfmRequest =>
                q \in Logins /\ q.mac \in Hosts /\ q.oxid \in Nat
      BY <2>2, RequestFacts
    <2>6. r \in Unsent /\ Unsent' \subseteq Unsent /\ r \notin Unsent'
      <3>1. /\ logins'[h] = logins[h] + 1
            /\ \A g \in Hosts : g # h => logins'[g] = logins[g]
        BY <2>1
      <3>2. r \in Unsent
        BY <2>1, <2>2, <2>5 DEF Unsent
      <3>3. r \notin Unsent'
        BY <2>1, <2>2, <2>5, <3>1 DEF Unsent
      <3>4. ASSUME NEW q \in Unsent' PROVE q \in Unsent
        <4>1. q \in Requests /\ main' = main
          BY <1>0, <3>4 DEF Unsent, mainvars
        <4>2. CASE q = VfmRequest
          BY <3>4, <4>1, <4>2 DEF Unsent
        <4>3. CASE q # VfmRequest
          <5>1. q.oxid > logins'[q.mac] /\ q.mac \in Hosts /\ q.oxid \in Nat
            BY <2>5, <3>4, <4>1, <4>3 DEF Unsent
          <5>2. q.oxid > logins[q.mac]
            BY <2>1, <3>1, <5>1
          <5> QED
            BY <4>1, <4>3, <5>2 DEF Unsent
        <4> QED
          BY <4>2, <4>3
      <3> QED
        BY <3>2, <3>3, <3>4
    <2>7. /\ \A i \in DOMAIN pending : IsLogin(i) => pending[i].req # r
          /\ \A p \in Processors : Holds(p) => thread[p].task.req # r
          /\ \A x \in fabric : x.req # r
          /\ r \notin Finished
      BY <2>6 DEF Good, CleanInv, UnsentNowhere
    <2>8. InFlight' = InFlight
      <3>1. InQueue' = InQueue
        BY <2>3, <2>4 DEF InQueue
      <3> QED
        BY <1>0, <2>0, <3>1 DEF InFlight
    <2>9. Tracked' /\ Accounted'
      BY <1>0, <2>0, <2>8, Keep DEF Good
    <2>10. OnePlace'
      BY <1>0, <2>0, <2>3, <2>4, <2>7 DEF Good, CleanInv, OnePlace
    <2>11. UnsentNowhere'
      BY <1>0, <2>0, <2>3, <2>4, <2>6 DEF Good, CleanInv, UnsentNowhere
    <2>12. FinishedGone'
      BY <1>0, <2>0, <2>3, <2>4, <2>7 DEF Good, CleanInv, FinishedGone
    <2>13. ResponsesOK'
      BY <1>0, <2>3, <2>4 DEF Good, CleanInv, ResponsesOK, WellAddressed, mapvars
    <2> QED
      BY <1>0, <2>9, <2>10, <2>11, <2>12, <2>13 DEF Safe, Good, CleanInv
  <1>3. ASSUME NEW x \in fabric, NEW ls \in LsCodes, FabricAnswers(x, ls)
        PROVE  Safe'
    <2> DEFINE f == Response(x, ls)
    <2>0. /\ UNCHANGED <<logins, lost>> /\ pending' = Append(pending, f)
          /\ fabric' = fabric \ {x}
      BY <1>3 DEF FabricAnswers
    <2>1. /\ x \in [oxid : OxIds, req : Requests] /\ f \in Responses
          /\ f.kind = "response" /\ f.req = x.req /\ f.oxid = x.oxid
          /\ WellAddressed(f)
      BY RequestFacts DEF Response, Responses, Good, TypeOK, WellAddressed
    <2>2. f \in Frames /\ Exchange(f.oxid, f.req) = x
      BY <2>1 DEF Frames, Exchange
    <2> HIDE DEF f
    <2>3. PICK n \in Nat :
             /\ n \notin DOMAIN pending /\ DOMAIN pending' = DOMAIN pending \cup {n}
             /\ pending'[n] = f /\ (IsLogin(n)' <=> f.kind # "els")
             /\ \A i \in DOMAIN pending : /\ pending'[i] = pending[i]
                                          /\ IsLogin(i)' <=> IsLogin(i)
      BY <1>1, <2>0, <2>2
    <2>4. /\ \A i \in DOMAIN pending : IsLogin(i) => pending[i].req # x.req
          /\ \A p \in Processors : Holds(p) => thread[p].task.req # x.req
          /\ \A y \in fabric' : y.req # x.req
          /\ x.req \notin Finished /\ x.req \notin Unsent
      BY <2>0 DEF Good, CleanInv, OnePlace, UnsentNowhere, FinishedGone
    <2>5. InFlight' = InFlight
      <3>1. InQueue' = InQueue \cup {x}
        BY <2>1, <2>2, <2>3 DEF InQueue
      <3>2. fabric = fabric' \cup {x}
        BY <2>0
      <3> QED
        BY <1>0, <3>1, <3>2 DEF InFlight
    <2>6. Tracked' /\ Accounted'
      BY <1>0, <2>0, <2>5, Keep DEF Good
    <2>7. Unsent' = Unsent
      BY <1>0, <2>0 DEF Unsent, mainvars
    <2>8. OnePlace'
      BY <1>0, <2>0, <2>1, <2>3, <2>4 DEF Good, CleanInv, OnePlace
    <2>9. UnsentNowhere' /\ FinishedGone'
      BY <1>0, <2>0, <2>1, <2>3, <2>4, <2>7
         DEF Good, CleanInv, UnsentNowhere, FinishedGone
    <2>10. ResponsesOK'
      BY <1>0, <2>1, <2>3 DEF Good, CleanInv, ResponsesOK, WellAddressed, mapvars
    <2> QED
      BY <1>0, <2>6, <2>8, <2>9, <2>10 DEF Safe, Good, CleanInv
  <1>4. ASSUME NEW f \in answered, AnswerAgain(f) PROVE FALSE
    BY <1>4 DEF AnswerAgain, Clean, Good, TypeOK
  <1>5. ASSUME NEW x \in fabric, LoginLost(x) PROVE Safe'
    <2>0. /\ UNCHANGED <<logins, pending>> /\ lost' = lost + 1
          /\ fabric' = fabric \ {x} /\ lost \in Nat
      BY <1>5 DEF LoginLost, Good, TypeOK
    <2>1. InFlight' \subseteq InFlight /\ Unsent' = Unsent
      BY <1>0, <2>0 DEF InFlight, InQueue, Unsent, mainvars
    <2>2. Tracked'
      BY <1>0, <2>1 DEF Good, Tracked, mapvars
    <2>3. Accounted'
      BY <2>0 DEF Accounted
    <2>4. OnePlace' /\ UnsentNowhere' /\ FinishedGone'
      BY <1>0, <2>0, <2>1
         DEF Good, CleanInv, OnePlace, UnsentNowhere, FinishedGone, IsLogin
    <2>5. ResponsesOK'
      BY <1>0, <2>0 DEF Good, CleanInv, ResponsesOK, WellAddressed, mapvars
    <2> QED
      BY <1>0, <2>2, <2>3, <2>4, <2>5 DEF Safe, Good, CleanInv
  <1>6. ASSUME NEW id \in Ports, FabricEls(id) PROVE Safe'
    <2> DEFINE f == Els(id)
    <2>0. UNCHANGED <<logins, lost, fabric>> /\ pending' = Append(pending, f)
      BY <1>6 DEF FabricEls
    <2>1. f \in Frames /\ f.kind = "els"
      BY DEF Els, Frames, ElsFrames
    <2> HIDE DEF f
    <2>2. PICK n \in Nat :
             /\ n \notin DOMAIN pending /\ DOMAIN pending' = DOMAIN pending \cup {n}
             /\ pending'[n] = f /\ (IsLogin(n)' <=> f.kind # "els")
             /\ \A i \in DOMAIN pending : /\ pending'[i] = pending[i]
                                          /\ IsLogin(i)' <=> IsLogin(i)
      BY <1>1, <2>0, <2>1
    <2>3. InFlight' = InFlight
      <3>1. InQueue' = InQueue
        BY <2>1, <2>2 DEF InQueue
      <3> QED
        BY <1>0, <2>0, <3>1 DEF InFlight
    <2>4. Tracked' /\ Accounted' /\ Unsent' = Unsent
      BY <1>0, <2>0, <2>3, Keep DEF Good, Unsent, mainvars
    <2>5. OnePlace'
      BY <1>0, <2>0, <2>1, <2>2 DEF Good, CleanInv, OnePlace
    <2>6. UnsentNowhere' /\ FinishedGone'
      BY <1>0, <2>0, <2>1, <2>2, <2>4
         DEF Good, CleanInv, UnsentNowhere, FinishedGone
    <2>7. ResponsesOK'
      BY <1>0, <2>1, <2>2 DEF Good, CleanInv, ResponsesOK, WellAddressed, mapvars
    <2> QED
      BY <1>0, <2>4, <2>5, <2>6, <2>7 DEF Safe, Good, CleanInv
  <1> QED
    BY <1>2, <1>3, <1>4, <1>5, <1>6 DEF Environment

-----------------------------------------------------------------------------
(* The invariant, and what follows from it. *)

LEMMA InitInv == Init => IInv
  <1> SUFFICES ASSUME Init PROVE IInv
    OBVIOUS
  <1>1. TypeOK
    <2>1. 1 \in 1..MapLen /\ 0 \in 0..MaxLogins
      BY MapLenAssumption, BoundAssumption
    <2>2. overflowed \in BOOLEAN
      BY Zenon DEF Init
    <2>3. /\ g_req_map \in [Slots -> Addrs \cup {NULL}]
          /\ entries \in [Addrs -> Requests \cup {NoRequest}]
          /\ thread \in [Processors -> Threads]
          /\ logins \in [Hosts -> 0..MaxLogins]
      BY <2>1, ThreadFacts DEF Init, MapInit
    <2>4. pending \in Seq(Frames)
      BY DEF Init
    <2> QED
      BY <2>1, <2>2, <2>3, <2>4, ThreadFacts DEF Init, MapInit, TypeOK
  <1>2. TableIntact
    BY DEF Init, MapInit, TableIntact
  <1>3. /\ \A p \in Processors : thread[p].pc = "get"
        /\ pending = <<>> /\ DOMAIN pending = {}
        /\ fabric = {} /\ main = "flogi" /\ replies = {} /\ g_gw_src_id = NoId
        /\ status = "up"
    <2>1. DOMAIN << >> = {}
      OBVIOUS
    <2> QED
      BY <2>1, ThreadFacts DEF Init
  <1>4. CleanInv
    <2>1. OnePlace
      BY <1>3 DEF OnePlace, Holds
    <2>2. Finished = {}
      BY <1>3 DEF Finished
    <2>3. UnsentNowhere /\ FinishedGone
      BY <1>3, <2>2 DEF UnsentNowhere, FinishedGone, Holds
    <2>4. ResponsesOK /\ RepliesOK
      BY <1>3 DEF ResponsesOK, RepliesOK, Answering
    <2> QED
      BY <1>3, <2>1, <2>3, <2>4 DEF CleanInv
  <1>5. InFlight = {}
    BY <1>3 DEF InFlight, AboutToSend, InQueue, InHands, Answering
  <1>6. \A a \in Addrs : entries[a] = NoRequest
    BY DEF Init, MapInit
  <1> QED
    BY <1>1, <1>2, <1>4, <1>5, <1>6 DEF IInv, ExchangeTracked, NoLeak

(* The two halves of IInv: what always holds, and what holds while Clean.  *)
LEMMA TwoHalves == IInv <=> TypeOK /\ TableIntact /\ (Clean => Safe)
  <1>1. ASSUME Clean
        PROVE  /\ ExchangeTracked <=> Tracked
               /\ NoLeak <=> Accounted
    BY <1>1 DEF ExchangeTracked, Tracked, NoLeak, Accounted
  <1>2. ASSUME ~Clean PROVE ExchangeTracked /\ NoLeak
    BY <1>2, Zenon DEF ExchangeTracked, NoLeak
  <1> QED
    BY <1>1, <1>2 DEF IInv, Safe

LEMMA StepInv == ASSUME IInv, [Next]_vars PROVE IInv'
  <1>1. TypeOK' /\ TableIntact'
    BY TypeInv, TableInv DEF IInv
  <1>2. ASSUME Clean' PROVE Safe'
    <2>1. Good
      <3>1. TypeOK /\ TableIntact /\ (Clean => Safe)
        BY TwoHalves
      <3>2. Clean
        BY <1>2, <3>1, CleanBefore
      <3> QED
        BY <3>1, <3>2 DEF Good, Safe
    <2>2. CASE Main
      BY <1>2, <2>1, <2>2, MainSafe
    <2>3. ASSUME NEW p \in Processors, Processor(p) PROVE Safe'
      BY <1>2, <2>1, <2>3, GetTaskSafe, ForwardSafe, AnswerSafe, LetGoSafe
         DEF Processor, process_fc_response
    <2>4. CASE Environment
      BY <1>2, <2>1, <2>4, EnvironmentSafe
    <2>5. CASE UNCHANGED vars
      <3>1. UNCHANGED <<mapvars, g_gw_src_id, mainvars, pending, thread, status,
                        replies, fabric, logins, lost, swallowed>>
        BY <2>5 DEF vars, network, history
      <3>2. InFlight' = InFlight /\ Unsent' = Unsent /\ Finished' = Finished
        BY <3>1 DEF InFlight, AboutToSend, InQueue, InHands, Unsent, Finished,
                    mainvars
      <3>3. Tracked' /\ Accounted'
        BY <2>1, <3>1, <3>2, Keep DEF Good
      <3>4. OnePlace' /\ UnsentNowhere' /\ FinishedGone'
        BY <2>1, <3>1, <3>2
           DEF Good, CleanInv, OnePlace, UnsentNowhere, FinishedGone, IsLogin, Holds
      <3>5. ResponsesOK' /\ RepliesOK'
        BY <2>1, <3>1
           DEF Good, CleanInv, ResponsesOK, RepliesOK, WellAddressed, mapvars
      <3> QED
        BY <2>1, <3>1, <3>3, <3>4, <3>5 DEF Safe, Good, CleanInv
    <2> QED
      BY <2>2, <2>3, <2>4, <2>5 DEF Next
  <1>3. (IInv <=> TypeOK /\ TableIntact /\ (Clean => Safe))'
    BY TwoHalves, PTL
  <1> QED
    BY <1>1, <1>2, <1>3

(* For every table length, number of hosts, processors and logins, and     *)
(* whatever is lost, repeated or sent by others, the inductive invariant   *)
(* holds.                                                                  *)
THEOREM Invariance == Spec => []IInv
  <1>1. Init => IInv
    BY InitInv
  <1>2. IInv /\ [Next]_vars => IInv'
    BY StepInv
  <1> QED
    BY <1>1, <1>2, PTL DEF Spec

(* What arrives twice or finds the table full cannot make the table        *)
(* inconsistent: remove_entry_from_map never frees an entry twice and no   *)
(* slot keeps a freed one.                                                 *)
THEOREM TableStaysIntact == Spec => []TableIntact
  <1>1. IInv => TableIntact
    BY DEF IInv
  <1> QED
    BY <1>1, Invariance, PTL

(* From add_entry_to_map to remove_entry_from_map an exchange id leads to  *)
(* its own login, with any number of processors.                           *)
THEOREM ExchangesTracked == Spec => []ExchangeTracked
  <1>1. IInv => ExchangeTracked
    BY DEF IInv
  <1> QED
    BY <1>1, Invariance, PTL

(* The pointer process_fc_response uses after map_mutex is released is its *)
(* own entry's: no null pointer is read, and no freed entry.               *)
THEOREM EntriesAreOurs == Spec => []EntryIsOurs
  <1>1. ASSUME IInv, Clean,
               NEW p \in Processors, thread[p].pc \in {"entry", "reply"}
        PROVE  /\ thread[p].entry # NULL
               /\ entries[thread[p].entry] = thread[p].task.req
    <2>1. Good
      BY <1>1, TwoHalves DEF Good, Safe
    <2>2. thread[p].entry = g_req_map[thread[p].task.oxid]
      BY <1>1, <2>1 DEF Good, CleanInv, ResponsesOK
    <2> QED
      BY <1>1, <2>1, <2>2, HandFacts DEF Answering
  <1>2. IInv => EntryIsOurs
    BY <1>1 DEF EntryIsOurs, IInv, CleanInv
  <1> QED
    BY <1>2, Invariance, PTL

(* Every reply goes to the host that asked, under its own OX_ID and once;  *)
(* no two hosts are granted the same MAC.                                  *)
THEOREM RepliesAreRight == Spec => []RepliesMatch
  <1>1. ASSUME IInv, Clean
        PROVE  /\ \A m \in replies : /\ m.req \in Logins
                                     /\ m.to = m.req.mac
                                     /\ m.oxid = m.req.oxid
               /\ \A m, n \in replies :
                      /\ m.req = n.req => m = n
                      /\ m.ls = "ACC" /\ m.granted = n.granted => m.to = n.to
    <2>1. RepliesOK
      BY <1>1 DEF IInv, CleanInv
    <2>2. \A m \in replies : /\ m.req \in Logins
                             /\ m.to = m.req.mac
                             /\ m.oxid = m.req.oxid
                             /\ m.to # NoId
      BY <2>1, RequestFacts, IdAssumption DEF RepliesOK
    <2>3. ASSUME NEW m \in replies, NEW n \in replies, m.ls = "ACC",
                 m.granted = n.granted
          PROVE  m.to = n.to
      <3>1. /\ m.granted = <<"fpma", m.to>>
            /\ n.granted = <<"fpma", IF n.ls = "ACC" THEN n.to ELSE NoId>>
        BY <2>1, <2>2, <2>3 DEF RepliesOK
      <3>2. m.to = IF n.ls = "ACC" THEN n.to ELSE NoId
        <4>1. \A a, b : <<"fpma", a>> = <<"fpma", b>> => a = b
          OBVIOUS
        <4> QED
          BY <2>3, <3>1, <4>1
      <3> QED
        BY <2>2, <3>2
    <2> QED
      BY <2>1, <2>2, <2>3 DEF RepliesOK
  <1>2. IInv => RepliesMatch
    BY <1>1 DEF RepliesMatch
  <1> QED
    BY <1>2, Invariance, PTL

(* Entries are freed, but for the logins that were lost or whose reject    *)
(* came before the gateway had its id.                                     *)
THEOREM NothingLeaks == Spec => []NoLeak
  <1>1. IInv => NoLeak
    BY DEF IInv
  <1> QED
    BY <1>1, Invariance, PTL

-----------------------------------------------------------------------------
(* The VFM implements LoginService. *)

(* A step that answers nothing and brings no answered login back.  *)
LEMMA AnsweredKept ==
    ASSUME AnsweredOnce, answered' = answered, Unsent' \subseteq Unsent,
           \A i \in DOMAIN pending' :
              \E j \in DOMAIN pending : pending'[i] = pending[j],
           \A p \in Processors :
              \/ thread'[p].pc \in {"get", "els"}
              \/ /\ thread'[p].task = thread[p].task
                 /\ \/ {thread[p].pc, thread'[p].pc} \subseteq Answering
                    \/ {thread[p].pc, thread'[p].pc} \subseteq {"flogi", "fdisc"},
           \A x \in fabric' \ fabric, f \in answered : x.req # f.req
    PROVE  AnsweredOnce'
  <1>1. \A i \in DOMAIN pending' :
           pending'[i].kind = "response" => pending'[i] \in answered'
    BY DEF AnsweredOnce
  <1>2. \A p \in Processors :
           /\ thread'[p].pc \in Answering =>
                 /\ thread[p].pc \in Answering
                 /\ thread'[p].task = thread[p].task
           /\ thread'[p].pc \in {"flogi", "fdisc"} =>
                 /\ thread[p].pc \in {"flogi", "fdisc"}
                 /\ thread'[p].task = thread[p].task
    BY DEF Answering
  <1>3. \A p \in Processors :
           thread'[p].pc \in Answering => thread'[p].task \in answered'
    BY <1>2 DEF AnsweredOnce
  <1>4. ASSUME NEW f \in answered'
        PROVE  /\ f.req \notin Unsent'
               /\ \A i \in DOMAIN pending' :
                     pending'[i].kind = "flogi" => pending'[i].req # f.req
               /\ \A p \in Processors :
                     thread'[p].pc \in {"flogi", "fdisc"} =>
                        thread'[p].task.req # f.req
               /\ \A x \in fabric' : x.req # f.req
               /\ \A g \in answered' : f.req = g.req => f = g
    BY <1>2, <1>4 DEF AnsweredOnce
  <1> QED
    BY <1>1, <1>3, <1>4 DEF AnsweredOnce

(* The steps of the main thread. *)
LEMMA MainAnswered ==
    ASSUME Good, AnsweredOnce, Main
    PROVE  AnsweredOnce' /\ UNCHANGED <<answered, logins, replies>>
  <1>1. UNCHANGED <<answered, logins, replies, pending, thread>>
    BY DEF Main, VfmFlogiAdd, VfmFlogiSend, SendGwAd, network
  <1>2. Unsent' \subseteq Unsent
    BY <1>1, RequestFacts
       DEF Main, VfmFlogiAdd, VfmFlogiSend, SendGwAd, Unsent
  <1>3. \A x \in fabric' \ fabric :
           x.req = VfmRequest /\ VfmRequest \in Unsent
    BY RequestFacts
       DEF Main, VfmFlogiAdd, VfmFlogiSend, SendGwAd, SendLogin, network, Unsent
  <1>4. \A x \in fabric' \ fabric, f \in answered : x.req # f.req
    BY <1>3 DEF AnsweredOnce
  <1>5. \A p \in Processors :
           \/ thread'[p].pc \in {"get", "els"}
           \/ /\ thread'[p].task = thread[p].task
              /\ \/ {thread[p].pc, thread'[p].pc} \subseteq Answering
                 \/ {thread[p].pc, thread'[p].pc} \subseteq {"flogi", "fdisc"}
    BY <1>1 DEF Good, TypeOK, Threads
  <1> QED
    BY <1>1, <1>2, <1>4, <1>5, AnsweredKept

(* The steps of a processor. *)
LEMMA ProcessorAnswered ==
    ASSUME Good, AnsweredOnce, NEW p \in Processors, Processor(p)
    PROVE  AnsweredOnce' /\ UNCHANGED <<answered, logins>>
  <1> USE DEF Processor, process_fc_response
  <1>1. UNCHANGED <<answered, logins, mainvars>>
    BY DEF GetTask, FlogiAdd, FdiscSend, RejectEls, RejectResponse, PassEls,
           AcceptResponse, Lookup, NullEntry, VfmRjt, VfmAcc, NoVerdict, FillResponse,
           SendResponse, RemoveEntry, network
  <1>2. Unsent' \subseteq Unsent
    BY <1>1 DEF Unsent, mainvars
  <1>3. /\ thread \in [Processors -> Threads]
        /\ \A q \in Processors : thread[q].pc \in
              {"get", "flogi", "fdisc", "els"} \cup Answering
    BY DEF Good, TypeOK, Threads
  <1>4. CASE GetTask(p)
    <2> DEFINE f == Head(pending)
    <2>1. /\ f \in Frames /\ f = pending[1] /\ 1 \in DOMAIN pending
          /\ \A i \in DOMAIN pending' : /\ i + 1 \in DOMAIN pending
                                        /\ pending'[i] = pending[i + 1]
      BY <1>4, TailFacts DEF GetTask, Good, TypeOK
    <2>2. /\ thread'[p].pc = f.kind /\ thread'[p].task = f
          /\ f.kind \in {"flogi", "els", "response"}
          /\ \A q \in Processors : q # p => thread'[q] = thread[q]
      BY <1>4, <2>1, ThreadFacts DEF GetTask, Becomes, Good, TypeOK
    <2>3. fabric' = fabric
      BY <1>4 DEF GetTask, network
    <2> HIDE DEF f
    <2>4. \A q \in Processors :
             thread'[q].pc \in Answering => thread'[q].task \in answered'
      BY <1>1, <2>1, <2>2 DEF AnsweredOnce, Answering
    <2>5. ASSUME NEW g \in answered
          PROVE  /\ \A i \in DOMAIN pending' :
                       pending'[i].kind = "flogi" => pending'[i].req # g.req
                 /\ \A q \in Processors :
                       thread'[q].pc \in {"flogi", "fdisc"} =>
                          thread'[q].task.req # g.req
      BY <2>1, <2>2 DEF AnsweredOnce
    <2> QED
      BY <1>1, <1>2, <2>1, <2>3, <2>4, <2>5 DEF AnsweredOnce
  <1>5. CASE ~GetTask(p)
    <2>1. pending' = pending
      BY <1>5 DEF FlogiAdd, FdiscSend, RejectEls, RejectResponse, PassEls,
             AcceptResponse, Lookup, NullEntry, VfmRjt, VfmAcc, NoVerdict, FillResponse,
             SendResponse, RemoveEntry
    <2>2. \A q \in Processors : q # p => thread'[q] = thread[q]
      BY <1>3, <1>5 DEF FlogiAdd, FdiscSend, RejectEls, RejectResponse, PassEls,
             AcceptResponse, Lookup, NullEntry, VfmRjt, VfmAcc, NoVerdict, FillResponse,
             SendResponse, RemoveEntry, Becomes, Goto
    <2>3. \/ thread'[p].pc = "get"
          \/ thread'[p].task = thread[p].task /\ thread'[p].pc = thread[p].pc
          \/ /\ thread'[p].task = thread[p].task
             /\ thread[p].pc = "flogi" /\ thread'[p].pc = "fdisc"
          \/ /\ thread'[p].task = thread[p].task
             /\ {thread[p].pc, thread'[p].pc} \subseteq Answering
      <3>1. ASSUME thread' = [thread EXCEPT ![p] = Idle]
            PROVE  thread'[p].pc = "get"
        BY <1>3, <3>1, ThreadFacts
      <3>2. CASE FlogiAdd(p)
        BY <1>3, <3>2 DEF FlogiAdd, At, Becomes, Threads
      <3>3. CASE \/ FdiscSend(p) \/ RejectEls(p) \/ RejectResponse(p)
                 \/ PassEls(p) \/ RemoveEntry(p)
        BY <3>1, <3>3 DEF FdiscSend, RejectEls, RejectResponse, PassEls,
                          RemoveEntry, Becomes
      <3>4. CASE \/ AcceptResponse(p) \/ VfmAcc(p) \/ NoVerdict(p)
                 \/ SendResponse(p)
        BY <1>3, <3>4 DEF AcceptResponse, VfmAcc, NoVerdict, SendResponse, At,
                          Goto, Threads, Answering
      <3>5. CASE Lookup(p)
        BY <1>3, <3>5 DEF Lookup, At, Becomes, Threads, Answering
      <3>6. CASE FillResponse(p)
        BY <1>3, <3>6 DEF FillResponse, At, Becomes, Threads, Answering
      <3>7. CASE NullEntry(p) \/ VfmRjt(p)
        BY <3>7 DEF NullEntry, VfmRjt
      <3> QED
        BY <1>5, <3>2, <3>3, <3>4, <3>5, <3>6, <3>7
    <2>4. \A q \in Processors :
             \/ thread'[q].pc \in {"get", "els"}
             \/ /\ thread'[q].task = thread[q].task
                /\ \/ {thread[q].pc, thread'[q].pc} \subseteq Answering
                   \/ {thread[q].pc, thread'[q].pc} \subseteq {"flogi", "fdisc"}
      BY <1>3, <2>2, <2>3
    <2>5. \A x \in fabric' \ fabric, f \in answered : x.req # f.req
      <3>1. CASE FdiscSend(p)
        <4>1. /\ thread[p].pc = "fdisc"
              /\ \A x \in fabric' \ fabric : x.req = thread[p].task.req
          BY <3>1 DEF FdiscSend, At, SendLogin
        <4> QED
          BY <4>1 DEF AnsweredOnce
      <3>2. CASE ~FdiscSend(p)
        <4>1. fabric' = fabric
          BY <1>5, <3>2 DEF FlogiAdd, RejectEls, RejectResponse, PassEls,
                 AcceptResponse, Lookup, NullEntry, VfmRjt, VfmAcc, NoVerdict, FillResponse,
                 SendResponse, RemoveEntry, network
        <4> QED
          BY <4>1
      <3> QED
        BY <3>1, <3>2
    <2> HIDE DEF Processor, process_fc_response
    <2> QED
      BY <1>1, <1>2, <2>1, <2>4, <2>5, AnsweredKept
  <1> QED
    BY <1>1, <1>4, <1>5

(* What hosts and fabric do.  The fabric answers a login that was sent and *)
(* that it has not answered.                                               *)
LEMMA EnvironmentAnswered ==
    ASSUME Good, AnsweredOnce, Environment, Clean'
    PROVE  /\ AnsweredOnce' /\ replies' = replies
           /\ Service!Serve \/ UNCHANGED <<Asked, Decided>>
  <1>0. UNCHANGED <<mainvars, thread, replies>>
    BY DEF Environment, HostFlogi, FabricAnswers, AnswerAgain, LoginLost,
           FabricEls
  <1>1. ASSUME NEW f \in Frames, pending' = Append(pending, f)
        PROVE  \A i \in DOMAIN pending' :
                  pending'[i] = f \/ \E j \in DOMAIN pending : pending'[i] = pending[j]
    <2>1. pending \in Seq(Frames)
      BY DEF Good, TypeOK
    <2> HIDE DEF Frames
    <2> QED
      BY <1>1, <2>1, AppendFacts
  <1>2. \A p \in Processors :
           \/ thread'[p].pc \in {"get", "els"}
           \/ /\ thread'[p].task = thread[p].task
              /\ \/ {thread[p].pc, thread'[p].pc} \subseteq Answering
                 \/ {thread[p].pc, thread'[p].pc} \subseteq {"flogi", "fdisc"}
    BY <1>0 DEF Good, TypeOK, Threads
  <1>3. ASSUME NEW h \in Hosts, HostFlogi(h)
        PROVE  AnsweredOnce' /\ Service!Serve
    <2> DEFINE r == HostRequest(h, logins[h] + 1)
               f == Flogi(r)
    <2>1. /\ UNCHANGED <<fabric, answered>> /\ pending' = Append(pending, f)
          /\ logins[h] \in Nat /\ logins[h] + 1 \in 1..MaxLogins
          /\ \A g \in Hosts : /\ logins[g] \in Nat
                              /\ logins'[g] = logins[g] + IF g = h THEN 1 ELSE 0
      BY <1>3, BoundAssumption DEF HostFlogi, Good, TypeOK
    <2>2. r \in Logins /\ r.mac = h /\ r.oxid = logins[h] + 1
      <3>1. r \in Logins
        BY <2>1 DEF Logins
      <3>2. r.mac = h /\ r.oxid = logins[h] + 1
        BY DEF HostRequest
      <3> QED
        BY <3>1, <3>2
    <2> HIDE DEF r
    <2>3. f \in Frames /\ f.kind = "flogi" /\ f.req = r
      BY <2>2 DEF Flogi, Frames, Flogis
    <2> HIDE DEF f
    <2>4. /\ r \in Requests /\ r # VfmRequest
          /\ \A q \in Requests : q = VfmRequest \/ q \in Logins
          /\ \A q \in Logins : q.mac \in Hosts /\ q.oxid \in Nat
          /\ \A q \in Logins : q.mac = h /\ q.oxid = r.oxid => q = r
      BY <2>2, RequestFacts
    <2>5. r \in Unsent
      BY <2>1, <2>2, <2>4 DEF Unsent
    <2>6. \A q \in Logins : q.oxid > logins'[q.mac] => q.oxid > logins[q.mac]
      BY <2>1, <2>4
    <2>7. Unsent' \subseteq Unsent
      BY <1>0, <2>4, <2>6 DEF Unsent, mainvars
    <2>8. \A g \in answered : g.req # r
      BY <2>5 DEF AnsweredOnce
    <2>9. \A i \in DOMAIN pending' :
             pending'[i] = f \/ \E j \in DOMAIN pending : pending'[i] = pending[j]
      BY <1>1, <2>1, <2>3
    <2>10. /\ \A i \in DOMAIN pending' :
                 pending'[i].kind = "response" => pending'[i] \in answered
           /\ \A g \in answered, i \in DOMAIN pending' :
                 pending'[i].kind = "flogi" => pending'[i].req # g.req
      BY <2>3, <2>8, <2>9 DEF AnsweredOnce
    <2>11. AnsweredOnce'
      BY <1>0, <2>1, <2>7, <2>10 DEF AnsweredOnce
    <2>12. Asked' = Asked \cup {r} /\ r \notin Asked
      BY <2>1, <2>2, <2>4 DEF Asked
    <2>13. Decided' = Decided
      BY <2>1 DEF Decided
    <2> QED
      BY <1>0, <2>2, <2>11, <2>12, <2>13 DEF Service!Serve, Service!Ask
  <1>4. ASSUME NEW x \in fabric, NEW ls \in LsCodes, FabricAnswers(x, ls)
        PROVE  AnsweredOnce' /\ (Service!Serve \/ UNCHANGED <<Asked, Decided>>)
    <2> DEFINE f == Response(x, ls)
    <2>1. /\ logins' = logins /\ pending' = Append(pending, f)
          /\ fabric' = fabric \ {x} /\ answered' = answered \cup {f}
      BY <1>4 DEF FabricAnswers
    <2>2. /\ x.req \in Requests /\ f \in Frames
          /\ f.kind = "response" /\ f.req = x.req /\ f.ls = ls
      <3>1. /\ x \in [oxid : OxIds, req : Requests] /\ f \in Responses
            /\ f.kind = "response" /\ f.req = x.req /\ f.ls = ls
        BY RequestFacts DEF Response, Responses, Good, TypeOK
      <3> QED
        BY <3>1 DEF Frames
    <2> HIDE DEF f
    <2>3. /\ \A i \in DOMAIN pending : IsLogin(i) => pending[i].req # x.req
          /\ \A p \in Processors : Holds(p) => thread[p].task.req # x.req
          /\ \A y \in fabric' : y.req # x.req
          /\ x.req \notin Unsent
      BY <2>1 DEF Good, CleanInv, OnePlace, UnsentNowhere
    <2>4. \A g \in answered : g.req # x.req
      BY DEF AnsweredOnce
    <2>5. Unsent' = Unsent /\ Asked' = Asked
      BY <1>0, <2>1 DEF Unsent, Asked, mainvars
    <2>6. \A i \in DOMAIN pending' :
             pending'[i] = f \/ \E j \in DOMAIN pending : pending'[i] = pending[j]
      BY <1>1, <2>1, <2>2
    <2>7. /\ \A i \in DOMAIN pending' :
                pending'[i].kind = "response" => pending'[i] \in answered'
          /\ \A p \in Processors :
                thread'[p].pc \in Answering => thread'[p].task \in answered'
      BY <1>0, <2>1, <2>6 DEF AnsweredOnce
    <2>8. ASSUME NEW g \in answered'
          PROVE  /\ g.req \notin Unsent'
                 /\ \A i \in DOMAIN pending' :
                       pending'[i].kind = "flogi" => pending'[i].req # g.req
                 /\ \A p \in Processors :
                       thread'[p].pc \in {"flogi", "fdisc"} =>
                          thread'[p].task.req # g.req
                 /\ \A y \in fabric' : y.req # g.req
                 /\ \A k \in answered' : g.req = k.req => g = k
      <3>1. CASE g = f
        BY <1>0, <2>1, <2>2, <2>3, <2>4, <2>5, <2>6, <3>1 DEF IsLogin, Holds
      <3>2. CASE g \in answered
        BY <1>0, <2>1, <2>2, <2>4, <2>5, <2>6, <3>2 DEF AnsweredOnce
      <3> QED
        BY <2>1, <3>1, <3>2
    <2>9. AnsweredOnce'
      BY <2>7, <2>8 DEF AnsweredOnce
    <2>10. CASE x.req \in Logins
      <3>1. x.req \in Asked
        <4>1. x.req # VfmRequest /\ x.req.oxid \in Nat /\ x.req.mac \in Hosts
          BY <2>2, <2>10, RequestFacts
        <4>2. logins[x.req.mac] \in Nat
          BY <4>1, BoundAssumption DEF Good, TypeOK
        <4> QED
          BY <2>2, <2>3, <2>10, <4>1, <4>2 DEF Unsent, Asked
      <3>2. Decided' = Decided \cup {Service!Decision(x.req, ls)}
        BY <2>1, <2>2, <2>10 DEF Decided, Service!Decision
      <3>3. \A d \in Decided : d.req # x.req
        BY <2>4 DEF Decided
      <3> QED
        BY <1>0, <2>5, <2>9, <2>10, <3>1, <3>2, <3>3
           DEF Service!Serve, Service!Decide
    <2>11. CASE x.req \notin Logins
      BY <2>1, <2>2, <2>5, <2>9, <2>11 DEF Decided
    <2> QED
      BY <2>10, <2>11
  <1>5. ASSUME NEW f \in answered, AnswerAgain(f) PROVE FALSE
    BY <1>5 DEF AnswerAgain, Clean, Good, TypeOK
  <1>6. ASSUME UNCHANGED <<logins, answered>>, fabric' \subseteq fabric,
               \/ pending' = pending
               \/ \E id \in Ports : pending' = Append(pending, Els(id))
        PROVE  AnsweredOnce' /\ UNCHANGED <<Asked, Decided>>
    <2>1. Unsent' = Unsent /\ UNCHANGED <<Asked, Decided>>
      BY <1>0, <1>6 DEF Unsent, Asked, Decided, mainvars
    <2>2. \A id \in Ports : Els(id) \in Frames /\ Els(id).kind = "els"
      BY DEF Els, Frames, ElsFrames
    <2>3. \A i \in DOMAIN pending' :
             \/ pending'[i].kind = "els"
             \/ \E j \in DOMAIN pending : pending'[i] = pending[j]
      BY <1>1, <1>6, <2>2, Zenon
    <2>4. /\ \A i \in DOMAIN pending' :
                pending'[i].kind = "response" => pending'[i] \in answered
          /\ \A g \in answered, i \in DOMAIN pending' :
                pending'[i].kind = "flogi" => pending'[i].req # g.req
      BY <2>3 DEF AnsweredOnce
    <2>5. AnsweredOnce'
      BY <1>0, <1>6, <2>1, <2>4 DEF AnsweredOnce
    <2> QED
      BY <2>1, <2>5
  <1>7. CASE \/ \E x \in fabric : LoginLost(x)
             \/ \E id \in Ports : FabricEls(id)
    BY <1>0, <1>6, <1>7 DEF LoginLost, FabricEls
  <1> QED
    BY <1>0, <1>3, <1>4, <1>5, <1>7 DEF Environment

(* prepare_fdisc_res tells a host, once, what the fabric decided on its    *)
(* login; no other step of a processor tells anybody anything.             *)
LEMMA SendTells ==
    ASSUME Good, AnsweredOnce, NEW p \in Processors, Processor(p)
    PROVE  Service!Serve \/ UNCHANGED <<Asked, Decided, replies>>
  <1>1. UNCHANGED <<Asked, Decided>>
    BY ProcessorAnswered DEF Asked, Decided
  <1>2. CASE ~SendResponse(p)
    <2>1. replies' = replies
      BY <1>2 DEF Processor, process_fc_response, GetTask, FlogiAdd, FdiscSend,
             RejectEls, RejectResponse, PassEls, AcceptResponse, Lookup,
             NullEntry, VfmRjt, VfmAcc, NoVerdict, FillResponse, RemoveEntry
    <2> QED
      BY <1>1, <2>1
  <1>3. CASE SendResponse(p)
    <2> DEFINE task == thread[p].task
               r == task.req
               d == Service!Decision(r, task.ls)
    <2>1. thread[p].pc = "reply" /\ thread[p].pc \in Answering
      BY <1>3 DEF SendResponse, At, Answering
    <2>2. /\ Reads(thread[p].entry) = {r} /\ r \in Requests
          /\ task \in Responses /\ Holds(p)
      BY <2>1, HandFacts
    <2>3. /\ r # VfmRequest /\ thread[p].header = ResHeader(r)
          /\ WellAddressed(task) /\ task.ls \in Verdicts
      BY <2>1 DEF Good, CleanInv, ResponsesOK
    <2>4. r \in Logins
      BY <2>2, <2>3, RequestFacts
    <2>5. thread[p].header.oxid = r.oxid /\ thread[p].header.flags # 0
      BY <2>2, <2>3, <2>4, HeaderType
    <2>6. GrantedMac(thread[p].header.flags, task.did, r.mac)
             = <<"fpma", IF task.ls = "ACC" THEN r.mac ELSE NoId>>
      BY <2>3, <2>5 DEF GrantedMac, SET_FP, WellAddressed, Verdicts
    <2>7. replies' = replies \cup
             {[to |-> r.mac, oxid |-> thread[p].header.oxid, ls |-> task.ls,
               req |-> r,
               granted |-> GrantedMac(thread[p].header.flags, task.did, r.mac)]}
      BY <1>3, <2>2 DEF SendResponse
    <2>8. replies' = replies \cup {Service!Answer(d)}
      BY <2>5, <2>6, <2>7 DEF Service!Answer, Service!Decision
    <2>9. d \in Decided
      <3>1. task \in answered
        BY <2>1 DEF AnsweredOnce
      <3> QED
        BY <2>4, <3>1 DEF Decided, Service!Decision
    <2>10. \A m \in replies : m.req # d.req
      <3>1. r \notin Finished
        BY <2>1, <2>2 DEF Good, CleanInv, FinishedGone
      <3>2. d.req = r
        BY DEF Service!Decision
      <3> HIDE DEF d
      <3> QED
        BY <2>2, <3>1, <3>2 DEF Finished
    <2> HIDE DEF d
    <2> QED
      BY <1>1, <2>8, <2>9, <2>10 DEF Service!Serve, Service!Tell
  <1> QED
    BY <1>2, <1>3

(* The strengthened invariant is inductive. *)
LEMMA AnsweredInv ==
    ASSUME IInv, Clean => AnsweredOnce, [Next]_vars, Clean'
    PROVE  /\ Clean /\ Good /\ AnsweredOnce /\ AnsweredOnce'
           /\ Service!Serve \/ UNCHANGED <<Asked, Decided, replies>>
  <1>1. Clean /\ Good /\ AnsweredOnce
    <2>1. TypeOK /\ TableIntact /\ (Clean => Safe)
      BY TwoHalves
    <2>2. Clean
      BY <2>1, CleanBefore
    <2> QED
      BY <2>1, <2>2 DEF Good, Safe
  <1>2. CASE Main
    BY <1>1, <1>2, MainAnswered DEF Asked, Decided
  <1>3. ASSUME NEW p \in Processors, Processor(p)
        PROVE  /\ AnsweredOnce'
               /\ Service!Serve \/ UNCHANGED <<Asked, Decided, replies>>
    BY <1>1, <1>3, ProcessorAnswered, SendTells
  <1>4. CASE Environment
    BY <1>1, <1>4, EnvironmentAnswered
  <1>5. CASE UNCHANGED vars
    <2>1. UNCHANGED <<mainvars, pending, thread, replies, fabric, answered, logins>>
      BY <1>5 DEF vars, network
    <2>2. Unsent' = Unsent
      BY <2>1 DEF Unsent, mainvars
    <2> QED
      BY <1>1, <2>1, <2>2 DEF AnsweredOnce, Asked, Decided
  <1> QED
    BY <1>1, <1>2, <1>3, <1>4, <1>5 DEF Next

(* Every login that was answered, was sent, answered once, and is not      *)
(* asked about again.                                                      *)
THEOREM ServiceInvariance == Spec => [](IInv /\ (Clean => AnsweredOnce))
  <1>1. Init => IInv /\ AnsweredOnce
    <2> SUFFICES ASSUME Init PROVE AnsweredOnce
      BY InitInv
    <2>1. DOMAIN << >> = {}
      OBVIOUS
    <2>2. /\ \A p \in Processors : thread[p].pc = "get"
          /\ pending = << >> /\ answered = {}
      BY ThreadFacts DEF Init
    <2> QED
      BY <2>1, <2>2 DEF AnsweredOnce, Answering
  <1>2. IInv /\ (Clean => AnsweredOnce) /\ [Next]_vars
           => IInv' /\ (Clean => AnsweredOnce)'
    BY StepInv, AnsweredInv
  <1> QED
    BY <1>1, <1>2, PTL DEF Spec

(* What GatewayIdIsOurs says of the gateway's id. *)
GatewayAnswered ==
    g_gw_src_id # NoId => /\ g_gw_src_id = VFM
                          /\ OwnAnswer(LsCodes \ {"RJT"})

GatewayInv == Clean => GatewayAnswered

(* The id is set by the answer to the VFM's own login, and the fabric has  *)
(* given that answer.                                                      *)
LEMMA GatewayStep ==
    ASSUME Good, AnsweredOnce, GatewayAnswered, [Next]_vars
    PROVE  GatewayAnswered'
  <1>1. ASSUME answered \subseteq answered', g_gw_src_id' = g_gw_src_id
        PROVE  GatewayAnswered'
    BY <1>1 DEF GatewayAnswered, OwnAnswer, LsCodes
  <1>2. CASE Main \/ Environment \/ UNCHANGED vars
    BY <1>1, <1>2 DEF Main, VfmFlogiAdd, VfmFlogiSend, SendGwAd, Environment,
           HostFlogi, FabricAnswers, AnswerAgain, LoginLost, FabricEls, vars,
           network
  <1>3. ASSUME NEW p \in Processors, Processor(p) PROVE GatewayAnswered'
    <2>1. answered' = answered
      BY <1>3, ProcessorAnswered
    <2>2. CASE VfmAcc(p)
      <3>1. /\ thread[p].pc = "entry" /\ thread[p].pc \in Answering
            /\ thread[p].task.ls # "RJT" /\ g_gw_src_id' = thread[p].task.did
            /\ \E e \in Reads(thread[p].entry) : e.flag = 1
        BY <2>2 DEF VfmAcc, At, Answering
      <3>2. /\ thread[p].task \in Responses /\ thread[p].task.req \in Requests
            /\ Reads(thread[p].entry) = {thread[p].task.req}
        BY <3>1, HandFacts
      <3>3. thread[p].task.req = VfmRequest /\ VfmRequest.mac = VFM
        BY <3>1, <3>2, RequestFacts
      <3>4. WellAddressed(thread[p].task)
        BY <3>1 DEF Good, CleanInv, ResponsesOK
      <3>5. thread[p].task \in answered' /\ g_gw_src_id' = VFM
        BY <2>1, <3>1, <3>3, <3>4 DEF AnsweredOnce, WellAddressed
      <3>6. thread[p].task.ls \in LsCodes \ {"RJT"}
        BY <3>1, <3>2 DEF Responses
      <3>7. OwnAnswer(LsCodes \ {"RJT"})'
        BY <3>3, <3>5, <3>6 DEF OwnAnswer, LsCodes
      <3> QED
        BY <3>5, <3>7 DEF GatewayAnswered
    <2>3. CASE ~VfmAcc(p)
      <3>1. g_gw_src_id' = g_gw_src_id
        BY <1>3, <2>3 DEF Processor, process_fc_response, GetTask, FlogiAdd,
               FdiscSend, RejectEls, RejectResponse, PassEls, AcceptResponse,
               Lookup, NullEntry, VfmRjt, NoVerdict, FillResponse, SendResponse,
               RemoveEntry
      <3> QED
        BY <1>1, <2>1, <3>1
    <2> QED
      BY <2>2, <2>3
  <1> QED
    BY <1>2, <1>3 DEF Next

(* g_gw_src_id is what the fabric answered to the VFM's own login, never   *)
(* an id it gave a host, and the exit on a rejected FLOGI is never taken   *)
(* for a host's login.                                                     *)
THEOREM GatewayKeepsItsId == Spec => []GatewayIdIsOurs
  <1>1. Init => GatewayInv
    BY DEF Init, GatewayInv, GatewayAnswered
  <1>2. IInv /\ (Clean => AnsweredOnce) /\ GatewayInv /\ [Next]_vars
           => GatewayInv'
    BY AnsweredInv, GatewayStep DEF GatewayInv
  <1>3. IInv /\ GatewayInv => GatewayIdIsOurs
    <2>1. IInv /\ Clean => status # "exited"
      BY DEF IInv, CleanInv
    <2> QED
      BY <2>1, Zenon DEF GatewayIdIsOurs, GatewayInv, GatewayAnswered
  <1> QED
    BY <1>1, <1>2, <1>3, ServiceInvariance, PTL DEF Spec

(* For every table length and any number of hosts, processors and logins,  *)
(* the queue, the processors and the table do what the abstract service    *)
(* does, as long as no answer comes twice and no login finds the table     *)
(* full.                                                                   *)
THEOREM LoginServiceImplemented == Spec => ImplementsLoginService
  <1>1. Init => Service!ServiceInit
    <2> SUFFICES ASSUME Init PROVE Service!ServiceInit
      OBVIOUS
    <2>1. /\ answered = {} /\ replies = {} /\ dups = 0 /\ ~overflowed
          /\ \A h \in Hosts : logins[h] = 0
      BY DEF Init
    <2>2. Asked = {}
      BY <2>1, RequestFacts DEF Asked
    <2>3. Decided = {}
      BY <2>1 DEF Decided
    <2>4. Clean = TRUE
      BY <2>1, Zenon DEF Clean
    <2> QED
      BY <2>1, <2>2, <2>3, <2>4 DEF Service!ServiceInit
  <1>2. IInv /\ (Clean => AnsweredOnce) /\ [Next]_vars
           => [Service!ServiceNext]_(Service!svars)
    <2> SUFFICES ASSUME IInv, Clean => AnsweredOnce, [Next]_vars, Clean'
                 PROVE  [Service!ServiceNext]_(Service!svars)
      BY DEF Service!ServiceNext
    <2>1. Clean /\ (Service!Serve \/ UNCHANGED <<Asked, Decided, replies>>)
      BY AnsweredInv
    <2>2. Clean' = Clean
      BY <2>1, Zenon DEF Clean
    <2> QED
      BY <2>1, <2>2 DEF Service!ServiceNext, Service!svars
  <1> QED
    BY <1>1, <1>2, ServiceInvariance, PTL
       DEF Spec, ImplementsLoginService, Service!ServiceSpec

-----------------------------------------------------------------------------
(* The exchange table alone, driven as in OxidMap. *)

(* The search loop of add_entry_to_map has a well-defined result: a        *)
(* non-empty set of naturals has a least element.                          *)
LEMMA LeastExists ==
    ASSUME NEW T, T \subseteq Nat, T # {}
    PROVE  \E i \in T : \A j \in T : i <= j
  <1>1. \E x \in T : \A y \in T : ~(<<y, x>> \in OpToRel(<, Nat))
    BY WFMin, NatLessThanWellFounded
  <1>2. \A x, y \in Nat : y < x => <<y, x>> \in OpToRel(<, Nat)
    BY Zenon DEF OpToRel
  <1>3. \E x \in T : \A y \in T : ~(y < x)
    BY <1>1, <1>2, Zenon
  <1> QED
    BY <1>3

(* add_entry_to_map never settles on slot 0 or past the end, and takes an  *)
(* occupied slot only when there is no empty one.                          *)
LEMMA TableSlotFacts ==
    ASSUME TableTypeOK
    PROVE  /\ NextOxid \in 1..(MapLen - 1)
           /\ NextOxid \in Slots
           /\ g_req_map[NextOxid] # NULL => Full
  <1> USE MapLenAssumption
  <1>1. EmptySlots \subseteq 1..(MapLen - 1) /\ EmptySlots \subseteq Nat
    BY DEF EmptySlots, Slots
  <1>2. ~Full => FirstEmpty \in EmptySlots
    BY <1>1, LeastExists DEF Full, FirstEmpty
  <1>3. CASE vfm_oxid_index < MapLen /\ g_req_map[vfm_oxid_index] = NULL
    BY <1>3 DEF NextOxid, TableTypeOK, Slots
  <1>4. CASE ~(vfm_oxid_index < MapLen /\ g_req_map[vfm_oxid_index] = NULL)
    <2>1. CASE Full
      BY <1>4, <2>1 DEF NextOxid, Slots
    <2>2. CASE ~Full
      BY <1>1, <1>2, <1>4, <2>2 DEF NextOxid, Slots, EmptySlots
    <2> QED
      BY <2>1, <2>2
  <1> QED
    BY <1>3, <1>4

(* The table starts empty. *)
LEMMA TableInitInv == TableInit => TableIInv
  <1> SUFFICES ASSUME TableInit PROVE TableIInv
    OBVIOUS
  <1> USE MapLenAssumption DEF TableInit, MapInit
  <1>1. TableTypeOK
    <2>1. 1 \in 1..MapLen /\ 1 \in 1..(MapLen - 1)
      OBVIOUS
    <2>2. open \subseteq [req : Requests, oxid : 1..(MapLen - 1)]
      OBVIOUS
    <2> QED
      BY <2>1, <2>2 DEF TableTypeOK
  <1>2. SlotsOwnEntries
    BY DEF SlotsOwnEntries
  <1>3. SlotsAreOpen
    BY DEF SlotsAreOpen, Slots
  <1>4. OxidLeadsBack /\ AllocatedAreOpen
    BY DEF OxidLeadsBack, AllocatedAreOpen
  <1> QED
    BY <1>1, <1>2, <1>3, <1>4 DEF TableIInv

(* Entering a login preserves the invariant. *)
LEMMA AddInv ==
    ASSUME TableIInv, NEW r \in Requests, Add(r)
    PROVE  TableIInv'
  <1> USE MapLenAssumption, NullAddrAssumption, RequestAssumption DEF TableIInv
  <1> PICK oxid \in 0..MapLen, a \in Addrs :
             /\ add_entry_to_map(r, oxid, a)
             /\ open' = open \cup {[req |-> r, oxid |-> oxid]}
    BY DEF Add
  <1>1. /\ oxid \in 1..(MapLen - 1) /\ oxid \in Slots /\ oxid # 0
        /\ g_req_map[oxid] # NULL => Full
    BY TableSlotFacts DEF add_entry_to_map
  <1>2. /\ entries[a] = NoRequest
        /\ entries' = [entries EXCEPT ![a] = r]
        /\ g_req_map' = [g_req_map EXCEPT ![oxid] = a]
        /\ vfm_oxid_index' = oxid + 1
        /\ r \notin {o.req : o \in open}
        /\ wasFull' = (wasFull \/ Full) /\ Full \in BOOLEAN
    BY DEF Add, add_entry_to_map, Full
  <1>3. TableTypeOK'
    BY <1>1, <1>2 DEF TableTypeOK
  <1>4. \A i \in Slots : g_req_map[i] # a
    BY <1>2 DEF SlotsOwnEntries, TableTypeOK
  <1>5. SlotsOwnEntries'
    BY <1>1, <1>2, <1>4 DEF SlotsOwnEntries, TableTypeOK
  <1>6. ~wasFull' => ~wasFull /\ g_req_map[oxid] = NULL
    BY <1>1, <1>2 DEF TableTypeOK
  <1>7. ~wasFull => \A o \in open : o.oxid \in Slots /\ g_req_map[o.oxid] # NULL
    BY DEF OxidLeadsBack, TableTypeOK, Slots
  <1>8. OxidLeadsBack'
    <2> SUFFICES ASSUME ~wasFull', NEW o \in open'
                 PROVE  /\ g_req_map'[o.oxid] # NULL
                        /\ entries'[g_req_map'[o.oxid]] = o.req
                        /\ \A q \in open' : q.oxid = o.oxid => q = o
      BY DEF OxidLeadsBack
    <2>1. \A q \in open : q.oxid # oxid
      BY <1>6, <1>7
    <2>2. CASE o \in open
      BY <1>1, <1>2, <1>4, <1>6, <1>7, <2>1, <2>2 DEF OxidLeadsBack, TableTypeOK
    <2>3. CASE o = [req |-> r, oxid |-> oxid]
      BY <1>1, <1>2, <2>1, <2>3 DEF TableTypeOK
    <2> QED
      BY <2>2, <2>3
  <1>9. AllocatedAreOpen'
    <2> SUFFICES ASSUME ~wasFull', NEW b \in Addrs, entries'[b] # NoRequest
                 PROVE  \E o \in open' : g_req_map'[o.oxid] = b
      BY DEF AllocatedAreOpen
    <2>1. CASE b = a
      <3> WITNESS [req |-> r, oxid |-> oxid] \in open'
      <3> QED
        BY <1>1, <1>2, <2>1 DEF TableTypeOK
    <2>2. CASE b # a
      <3>1. PICK o \in open : g_req_map[o.oxid] = b
        BY <1>2, <1>6, <2>2 DEF AllocatedAreOpen, TableTypeOK
      <3>2. o.oxid # oxid /\ o.oxid \in Slots
        BY <1>6, <1>7, <3>1
      <3>3. g_req_map'[o.oxid] = b
        BY <1>2, <3>1, <3>2 DEF TableTypeOK
      <3> QED
        BY <3>1, <3>3
    <2> QED
      BY <2>1, <2>2
  <1>10. SlotsAreOpen'
    <2>1. g_req_map'[0] = NULL
      BY <1>1, <1>2 DEF SlotsAreOpen, TableTypeOK, Slots
    <2>2. ASSUME ~wasFull', NEW i \in Slots, g_req_map'[i] # NULL
          PROVE  \E o \in open' : o.oxid = i
      <3>1. CASE i = oxid
        <4> WITNESS [req |-> r, oxid |-> oxid] \in open'
        <4> QED
          BY <3>1
      <3>2. CASE i # oxid
        BY <1>2, <1>6, <2>2, <3>2 DEF SlotsAreOpen, TableTypeOK
      <3> QED
        BY <3>1, <3>2
    <2> QED
      BY <2>1, <2>2 DEF SlotsAreOpen
  <1> QED
    BY <1>3, <1>5, <1>8, <1>9, <1>10

(* Answering a login preserves the invariant. *)
LEMMA AnswerInv ==
    ASSUME TableIInv, NEW o \in open, Answer(o)
    PROVE  TableIInv'
  <1> USE MapLenAssumption, NullAddrAssumption, RequestAssumption
      DEF TableIInv, Answer
  <1>1. o.oxid \in 1..(MapLen - 1) /\ o.oxid \in Slots /\ o.req \in Requests
    BY DEF TableTypeOK, Slots
  <1>2. CASE g_req_map[o.oxid] = NULL
    <2>1. wasFull /\ UNCHANGED mapvars /\ wasFull'
      BY <1>2 DEF OxidLeadsBack, remove_entry_from_map, TableTypeOK
    <2> QED
      BY <2>1 DEF mapvars, TableTypeOK, SlotsOwnEntries, SlotsAreOpen,
                  OxidLeadsBack, AllocatedAreOpen
  <1>3. CASE g_req_map[o.oxid] # NULL
    <2> DEFINE a == g_req_map[o.oxid]
    <2>1. /\ a \in Addrs
          /\ entries' = [entries EXCEPT ![a] = NoRequest]
          /\ g_req_map' = [g_req_map EXCEPT ![o.oxid] = NULL]
          /\ vfm_oxid_index' = o.oxid
          /\ open' = open \ {o}
          /\ UNCHANGED wasFull
      BY <1>1, <1>3 DEF remove_entry_from_map, TableTypeOK
    <2> HIDE DEF Answer, TableIInv
    <2>2. TableTypeOK'
      BY <1>1, <2>1 DEF TableTypeOK, TableIInv
    <2>3. SlotsOwnEntries'
      BY <1>1, <2>1 DEF SlotsOwnEntries, TableTypeOK, TableIInv
    <2>4. ~wasFull => \A q \in open : q # o => q.oxid # o.oxid /\ q.oxid \in Slots
      BY DEF OxidLeadsBack, TableTypeOK, TableIInv, Slots
    <2>5. OxidLeadsBack'
      <3> SUFFICES ASSUME ~wasFull, NEW q \in open, q # o
                   PROVE  /\ g_req_map'[q.oxid] # NULL
                          /\ entries'[g_req_map'[q.oxid]] = q.req
                          /\ \A s \in open : s.oxid = q.oxid => s = q
        BY <2>1 DEF OxidLeadsBack
      <3>1. g_req_map'[q.oxid] = g_req_map[q.oxid] /\ g_req_map[q.oxid] # a
        BY <1>1, <1>3, <2>1, <2>4 DEF TableTypeOK, TableIInv, SlotsOwnEntries
      <3>2. g_req_map[q.oxid] # NULL /\ g_req_map[q.oxid] \in Addrs
        BY <2>4 DEF OxidLeadsBack, TableIInv, TableTypeOK
      <3> QED
        BY <2>1, <3>1, <3>2 DEF OxidLeadsBack, TableIInv, TableTypeOK
    <2>6. AllocatedAreOpen'
      <3> SUFFICES ASSUME ~wasFull, NEW b \in Addrs, entries'[b] # NoRequest
                   PROVE  \E q \in open' : g_req_map'[q.oxid] = b
        BY <2>1 DEF AllocatedAreOpen
      <3>1. b # a /\ entries[b] # NoRequest
        BY <2>1 DEF TableTypeOK, TableIInv
      <3>2. PICK q \in open : g_req_map[q.oxid] = b
        BY <3>1 DEF AllocatedAreOpen, TableIInv
      <3>3. q # o /\ q.oxid # o.oxid /\ q.oxid \in Slots
        BY <2>4, <3>1, <3>2
      <3>4. g_req_map'[q.oxid] = b /\ q \in open'
        BY <2>1, <3>2, <3>3 DEF TableTypeOK, TableIInv
      <3> QED
        BY <3>4
    <2>7. SlotsAreOpen'
      BY <1>1, <2>1 DEF SlotsAreOpen, TableTypeOK, TableIInv, Slots
    <2> QED
      BY <2>2, <2>3, <2>5, <2>6, <2>7 DEF TableIInv
  <1> QED
    BY <1>2, <1>3

(* The invariant holds in every reachable state of map_util.c. *)
THEOREM TableInvariance == TableSpec => []TableIInv
  <1>1. TableIInv /\ [TableNext]_tablevars => TableIInv'
    <2> SUFFICES ASSUME TableIInv, [TableNext]_tablevars PROVE TableIInv'
      OBVIOUS
    <2>1. CASE TableNext
      BY <2>1, AddInv, AnswerInv DEF TableNext
    <2>2. CASE UNCHANGED tablevars
      BY <2>2 DEF tablevars, TableIInv, TableTypeOK, SlotsOwnEntries, SlotsAreOpen,
                  OxidLeadsBack, AllocatedAreOpen
    <2> QED
      BY <2>1, <2>2
  <1> QED
    BY <1>1, TableInitInv, PTL DEF TableSpec

(* As long as no login finds the table full, every answer leads back to    *)
(* the login it answers and no entry is leaked.                            *)
THEOREM ExchangeTableSafe ==
    TableSpec => [](SlotsOwnEntries /\ OxidLeadsBack /\ AllocatedAreOpen)
  <1>1. TableIInv => SlotsOwnEntries /\ OxidLeadsBack /\ AllocatedAreOpen
    BY DEF TableIInv
  <1> QED
    BY <1>1, TableInvariance, PTL

(* add_entry_to_map overwrites an entry only when there is no empty slot.  *)
THEOREM NoOverwrite == TableSpec => OverwritesOnlyWhenFull
  <1>1. TableIInv /\ [TableNext]_tablevars =>
          [\A i \in Slots : g_req_map[i] # NULL /\ g_req_map'[i] # NULL
                            /\ g_req_map'[i] # g_req_map[i] => Full]_tablevars
    <2> SUFFICES ASSUME TableIInv, TableNext, NEW i \in Slots,
                        g_req_map[i] # NULL, g_req_map'[i] # NULL,
                        g_req_map'[i] # g_req_map[i]
                 PROVE  Full
      OBVIOUS
    <2>1. ASSUME NEW r \in Requests, Add(r) PROVE Full
      <3>1. /\ NextOxid \in Slots
            /\ g_req_map[NextOxid] # NULL => Full
        BY TableSlotFacts DEF TableIInv
      <3>2. PICK a \in Addrs : g_req_map' = [g_req_map EXCEPT ![NextOxid] = a]
        BY <2>1 DEF Add, add_entry_to_map
      <3> QED
        BY <3>1, <3>2 DEF TableIInv, TableTypeOK
    <2>2. ASSUME NEW o \in open, Answer(o) PROVE Full
      BY <2>2 DEF Answer, remove_entry_from_map, mapvars, TableIInv, TableTypeOK
    <2> QED
      BY <2>1, <2>2 DEF TableNext
  <1> QED
    BY <1>1, TableInvariance, PTL DEF TableSpec, OverwritesOnlyWhenFull
=============================================================================
