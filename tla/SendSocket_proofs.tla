------------------------- MODULE SendSocket_proofs --------------------------
(***************************************************************************)
(* SettledAddr for any number of threads and of failures.  It is inductive *)
(* on its own: the last thread to leave open_socket either has filled the  *)
(* address, or has failed and left send_sd closed.  As long as no socket() *)
(* has failed, more is: an open socket of either kind will do.             *)
(***************************************************************************)
EXTENDS SendSocket, TLAPS

(* SettledAddr is inductive as it stands, given the types. *)
IInv == TypeOK /\ SettledAddr

(* The state start_sniffer and the first send_buffer begin in. *)
LEMMA InitInv == Init => IInv
<1> SUFFICES ASSUME Init PROVE IInv
  OBVIOUS
<1>1. TypeOK
  <2>1. addr_set \in BOOLEAN
    BY Zenon DEF Init
  <2>2. /\ opened \in Nat /\ send_sd \in 0..opened /\ sniffer_sd \in 0..opened
        /\ failed \in 0..MaxFailed
    BY FailedAssumption DEF Init, NoSocket
  <2>3. pc \in [Threads -> {"idle", "clear", "socket", "fill", "send", "bind",
                            "listen", "ended"}]
    BY DEF Init
  <2>4. last \in [Senders -> {"none", "sent", "unsent"}]
    BY DEF Init
  <2> QED
    BY <2>1, <2>2, <2>3, <2>4 DEF TypeOK
<1>2. SettledAddr
  BY DEF Init, SettledAddr
<1> QED
  BY <1>1, <1>2 DEF IInv

(* Every step keeps the variables in their types. *)
LEMMA TypeInv == TypeOK /\ [Next]_vars => TypeOK'
<1> SUFFICES ASSUME TypeOK, [Next]_vars PROVE TypeOK'
  OBVIOUS
<1> USE FailedAssumption, SnifferAssumption DEF TypeOK
<1>1. ASSUME NEW t \in Senders, TestSocket(t) PROVE TypeOK'
  BY <1>1 DEF TestSocket, Goto, Threads
<1>2. ASSUME NEW t \in Threads, ClearAddr(t) PROVE TypeOK'
  BY <1>2 DEF ClearAddr, Goto
<1>3. ASSUME NEW t \in Threads, OpenSocket(t) PROVE TypeOK'
  BY <1>3 DEF OpenSocket, Goto, Store
<1>4. ASSUME NEW t \in Threads, OpenFails(t) PROVE TypeOK'
  BY <1>4 DEF OpenFails, Goto, Store, NoSocket
<1>5. ASSUME NEW t \in Threads, FillAddr(t) PROVE TypeOK'
  BY <1>5 DEF FillAddr, Goto
<1>6. ASSUME NEW t \in Senders, Send(t) PROVE TypeOK'
  BY <1>6 DEF Send, Goto, Threads
<1>7. ASSUME Bind PROVE TypeOK'
  BY <1>7 DEF Bind, Goto, Threads
<1>8. ASSUME UNCHANGED vars PROVE TypeOK'
  BY <1>8 DEF vars
<1> QED
  BY <1>1, <1>2, <1>3, <1>4, <1>5, <1>6, <1>7, <1>8 DEF Next, OpenStep

(* Only the steps of open_socket can disturb the address. *)
LEMMA SettledInv == IInv /\ [Next]_vars => SettledAddr'
<1> SUFFICES ASSUME TypeOK, SettledAddr, [Next]_vars PROVE SettledAddr'
  BY DEF IInv
<1> USE SnifferAssumption DEF TypeOK, Threads
<1>1. ASSUME NEW t \in Senders, TestSocket(t) PROVE SettledAddr'
  BY <1>1 DEF TestSocket, Goto, SettledAddr, Opening
<1>2. ASSUME NEW t \in Threads, ClearAddr(t) PROVE SettledAddr'
  <2>1. Opening(t)'
    BY <1>2 DEF ClearAddr, Goto, Opening
  <2> QED
    BY <2>1 DEF SettledAddr
<1>3. ASSUME NEW t \in Threads, OpenSocket(t) PROVE SettledAddr'
  <2>1. Opening(t)'
    BY <1>3 DEF OpenSocket, Goto, Opening
  <2> QED
    BY <2>1 DEF SettledAddr
<1>4. ASSUME NEW t \in Threads, OpenFails(t) PROVE SettledAddr'
  <2>1. CASE t = Sniffer
    BY <1>4, <2>1 DEF OpenFails, Goto, Store, SettledAddr
  <2>2. CASE t # Sniffer
    BY <1>4, <2>2 DEF OpenFails, Store, SettledAddr
  <2> QED
    BY <2>1, <2>2
<1>5. ASSUME NEW t \in Threads, FillAddr(t) PROVE SettledAddr'
  BY <1>5 DEF FillAddr, SettledAddr
<1>6. ASSUME NEW t \in Senders, Send(t) PROVE SettledAddr'
  BY <1>6 DEF Send, Goto, SettledAddr, Opening
<1>7. ASSUME Bind PROVE SettledAddr'
  BY <1>7 DEF Bind, Goto, SettledAddr, Opening
<1>8. ASSUME UNCHANGED vars PROVE SettledAddr'
  BY <1>8 DEF vars, SettledAddr, Opening
<1> QED
  BY <1>1, <1>2, <1>3, <1>4, <1>5, <1>6, <1>7, <1>8 DEF Next, OpenStep

(* However the unlocked calls of open_socket interleave, a send_sd that is *)
(* open has a filled g_socket_addr once nobody is inside open_socket.      *)
THEOREM AddrSettles == Spec => []SettledAddr
<1>1. Init => IInv
  BY InitInv
<1>2. IInv /\ [Next]_vars => IInv'
  BY TypeInv, SettledInv DEF IInv
<1>3. IInv => SettledAddr
  BY DEF IInv
<1> QED
  BY <1>1, <1>2, <1>3, PTL DEF Spec

-----------------------------------------------------------------------------
(* As long as no call of socket() has failed, who binds or sends has a     *)
(* socket, and once there is one and nobody is opening another, the        *)
(* address is filled.                                                      *)
NoFailureInv ==
    failed = 0 =>
       /\ pc[Sniffer] \in {"fill", "bind"} => sniffer_sd # NoSocket
       /\ \A t \in Senders : pc[t] \in {"fill", "send"} => send_sd # NoSocket
       /\ (send_sd # NoSocket \/ sniffer_sd # NoSocket)
             /\ (\A t \in Threads : ~Opening(t)) => addr_set

LEMMA NoFailureInit == Init => NoFailureInv
  BY SnifferAssumption DEF Init, NoFailureInv, Threads

LEMMA NoFailureStep == TypeOK /\ NoFailureInv /\ [Next]_vars => NoFailureInv'
<1> SUFFICES ASSUME TypeOK, NoFailureInv, [Next]_vars PROVE NoFailureInv'
  OBVIOUS
<1> USE SnifferAssumption DEF TypeOK, Threads
<1>1. ASSUME NEW t \in Senders, TestSocket(t) PROVE NoFailureInv'
  BY <1>1 DEF TestSocket, Goto, NoFailureInv, Opening
<1>2. ASSUME NEW t \in Threads, ClearAddr(t) PROVE NoFailureInv'
  <2>1. Opening(t)'
    BY <1>2 DEF ClearAddr, Goto, Opening
  <2> QED
    BY <1>2, <2>1 DEF ClearAddr, Goto, NoFailureInv
<1>3. ASSUME NEW t \in Threads, OpenSocket(t) PROVE NoFailureInv'
  <2>1. Opening(t)'
    BY <1>3 DEF OpenSocket, Goto, Opening
  <2> QED
    BY <1>3, <2>1 DEF OpenSocket, Goto, Store, NoFailureInv, NoSocket
<1>4. ASSUME NEW t \in Threads, OpenFails(t) PROVE NoFailureInv'
  <2>1. failed' # 0
    BY <1>4, FailedAssumption DEF OpenFails
  <2> QED
    BY <2>1 DEF NoFailureInv
<1>5. ASSUME NEW t \in Threads, FillAddr(t) PROVE NoFailureInv'
  BY <1>5 DEF FillAddr, Goto, NoFailureInv
<1>6. ASSUME NEW t \in Senders, Send(t) PROVE NoFailureInv'
  BY <1>6 DEF Send, Goto, NoFailureInv, Opening
<1>7. ASSUME Bind PROVE NoFailureInv'
  BY <1>7 DEF Bind, Goto, NoFailureInv, Opening
<1>8. ASSUME UNCHANGED vars PROVE NoFailureInv'
  BY <1>8 DEF vars, NoFailureInv, Opening
<1> QED
  BY <1>1, <1>2, <1>3, <1>4, <1>5, <1>6, <1>7, <1>8 DEF Next, OpenStep

(* A sendto or bind that fails has met another thread inside open_socket,  *)
(* which has cleared g_socket_addr, or a call of socket() had failed.      *)
THEOREM FailuresExplained == Spec => FailsOnlyWhileOpening
<1> DEFINE Explained ==
      \A t \in Threads :
         \/ pc[t] = "send" /\ last'[t] = "unsent" /\ pc'[t] = "idle"
         \/ pc[t] = "bind" /\ pc'[t] = "ended"
         => \/ \E u \in Threads \ {t} : Opening(u)
            \/ failed > 0
<1>1. ASSUME TypeOK, NoFailureInv, [Next]_vars PROVE [Explained]_vars
  <2> SUFFICES ASSUME NEW t \in Threads, Next,
                      \/ pc[t] = "send" /\ last'[t] = "unsent" /\ pc'[t] = "idle"
                      \/ pc[t] = "bind" /\ pc'[t] = "ended",
                      \A u \in Threads \ {t} : ~Opening(u),
                      ~(failed > 0)
               PROVE  FALSE
    BY <1>1
  <2>1. failed = 0 /\ \A u \in Threads : ~Opening(u)
    BY <1>1, FailedAssumption DEF TypeOK, Opening
  <2>2. CASE pc[t] = "send"
    <3>1. t \in Senders /\ Send(t)
      BY <1>1, <2>2, SnifferAssumption DEF Next, OpenStep, TestSocket, ClearAddr,
         OpenSocket, OpenFails, FillAddr, Send, Bind, Goto, TypeOK, Threads
    <3>2. send_sd # NoSocket /\ addr_set
      BY <1>1, <2>1, <2>2, <3>1 DEF NoFailureInv
    <3> QED
      BY <1>1, <2>2, <3>1, <3>2 DEF Send, TypeOK
  <2>3. CASE pc[t] = "bind"
    <3>1. t = Sniffer /\ Bind
      BY <1>1, <2>3, SnifferAssumption DEF Next, OpenStep, TestSocket, ClearAddr,
         OpenSocket, OpenFails, FillAddr, Send, Bind, Goto, TypeOK, Threads
    <3>2. addr_set
      BY <1>1, <2>1, <2>3, <3>1 DEF NoFailureInv
    <3> QED
      BY <1>1, <2>3, <3>1, <3>2 DEF Bind, Goto, TypeOK
  <2> QED
    BY <2>2, <2>3
<1>2. Init => TypeOK /\ NoFailureInv
  BY InitInv, NoFailureInit DEF IInv
<1>3. TypeOK /\ NoFailureInv /\ [Next]_vars => TypeOK' /\ NoFailureInv'
  BY TypeInv, NoFailureStep
<1> QED
  BY <1>1, <1>2, <1>3, PTL DEF Spec, FailsOnlyWhileOpening
=============================================================================
