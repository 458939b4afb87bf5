----------------------------- MODULE SendSocket -----------------------------
(***************************************************************************)
(* The raw sockets of the VFM.  The sniffer opens and binds one to receive *)
(* on (start_sniffer).  The one to send on, send_sd, is opened by the      *)
(* first thread that calls send_buffer and finds it -1.  Both go through   *)
(* open_socket, which clears and then fills the global address             *)
(* g_socket_addr that bind and sendto use; nothing is locked.              *)
(*                                                                         *)
(* A thread step is one access to a shared variable or one system call.    *)
(* g_socket_addr is abstracted to whether it is filled: with the family    *)
(* and the interface index zero, bind and sendto fail.  Senders are main,  *)
(* the two processors and one thread for every API client; a processor     *)
(* sends only when a frame has been received.                              *)
(***************************************************************************)
EXTENDS Naturals, FiniteSets

CONSTANTS Senders,      \* threads that call send_buffer
          Receivers,    \* those of them that run start_processor
          Sniffer,      \* the thread that runs start_sniffer
          MaxFailed     \* calls of socket() that fail

ASSUME SnifferAssumption == Sniffer \notin Senders /\ Receivers \subseteq Senders
ASSUME FailedAssumption  == MaxFailed \in Nat

Threads == Senders \cup {Sniffer}

(* send_sd and a sniffer's sd before they are opened, or when socket()     *)
(* failed: -1.                                                             *)
NoSocket == 0

VARIABLES send_sd,          \* the socket to send on
          sniffer_sd,       \* the sniffer's sd
          addr_set,         \* whether g_socket_addr is filled
          pc,               \* where each thread is
          opened,           \* sockets opened; descriptors are 1..opened
          failed,           \* calls of socket() that failed
          last              \* the outcome of each sender's last sendto

vars == <<send_sd, sniffer_sd, addr_set, pc, opened, failed, last>>

Init ==
    /\ send_sd = NoSocket
    /\ sniffer_sd = NoSocket
    /\ addr_set = FALSE
    /\ pc = [t \in Threads |-> IF t = Sniffer THEN "clear" ELSE "idle"]
    /\ opened = 0
    /\ failed = 0
    /\ last = [t \in Senders |-> "none"]

Goto(t, from, to) ==
    /\ pc[t] = from
    /\ pc' = [pc EXCEPT ![t] = to]

(* send_buffer: if (send_sd == -1) open_socket(...) *)
TestSocket(t) ==
    /\ t \in Receivers => pc[Sniffer] = "listen"
    /\ Goto(t, "idle", IF send_sd = NoSocket THEN "clear" ELSE "send")
    /\ UNCHANGED <<send_sd, sniffer_sd, addr_set, opened, failed, last>>

(* open_socket: memset of g_socket_addr, socket(), then the fields. *)
ClearAddr(t) ==
    /\ Goto(t, "clear", "socket")
    /\ addr_set' = FALSE
    /\ UNCHANGED <<send_sd, sniffer_sd, opened, failed, last>>

Store(t, sd) ==
    IF t = Sniffer THEN sniffer_sd' = sd /\ UNCHANGED send_sd
                   ELSE send_sd' = sd /\ UNCHANGED sniffer_sd

(* Seeded faults: the address is not filled in after the socket is open;   *)
(* open_socket takes sd by value, so that nothing is stored.               *)
OpenSocket_NoFill(t) ==
    /\ Goto(t, "socket", IF t = Sniffer THEN "bind" ELSE "send")
    /\ Store(t, opened + 1)
    /\ opened' = opened + 1
    /\ UNCHANGED <<addr_set, failed, last>>

OpenSocket_NotStored(t) ==
    /\ Goto(t, "socket", "fill")
    /\ UNCHANGED <<send_sd, sniffer_sd, opened, addr_set, failed, last>>

OpenSocket(t) ==
    /\ Goto(t, "socket", "fill")
    /\ Store(t, opened + 1)
    /\ opened' = opened + 1
    /\ UNCHANGED <<addr_set, failed, last>>

(* Seeded fault: send_sd keeps its value when socket() fails. *)
OpenFails_KeepsOld(t) ==
    /\ failed < MaxFailed
    /\ Goto(t, "socket", IF t = Sniffer THEN "ended" ELSE "idle")
    /\ failed' = failed + 1
    /\ last' = [s \in Senders |-> IF s = t THEN "unsent" ELSE last[s]]
    /\ UNCHANGED <<send_sd, sniffer_sd, addr_set, opened>>

(* socket() fails: -1 is stored, g_socket_addr stays clear, the sender     *)
(* gives up the frame and the sniffer ends.                                *)
OpenFails(t) ==
    /\ failed < MaxFailed
    /\ Goto(t, "socket", IF t = Sniffer THEN "ended" ELSE "idle")
    /\ failed' = failed + 1
    /\ Store(t, NoSocket)
    /\ last' = [s \in Senders |-> IF s = t THEN "unsent" ELSE last[s]]
    /\ UNCHANGED <<addr_set, opened>>

FillAddr(t) ==
    /\ Goto(t, "fill", IF t = Sniffer THEN "bind" ELSE "send")
    /\ addr_set' = TRUE
    /\ UNCHANGED <<send_sd, sniffer_sd, opened, failed, last>>

Send(t) ==
    /\ Goto(t, "send", "idle")
    /\ last' = [last EXCEPT ![t] = IF send_sd # NoSocket /\ addr_set
                                     THEN "sent" ELSE "unsent"]
    /\ UNCHANGED <<send_sd, sniffer_sd, addr_set, opened, failed>>

Bind ==
    /\ Goto(Sniffer, "bind", IF addr_set THEN "listen" ELSE "ended")
    /\ UNCHANGED <<send_sd, sniffer_sd, addr_set, opened, failed, last>>

OpenStep(t) ==
    \/ ClearAddr(t)
    \/ OpenSocket(t)
    \/ OpenFails(t)
    \/ FillAddr(t)

Next ==
    \/ \E t \in Threads : OpenStep(t)
    \/ \E t \in Senders : TestSocket(t) \/ Send(t)
    \/ Bind

Spec == Init /\ [][Next]_vars

(* The scheduler runs every thread; a sender need not have more to send.   *)
Fairness == \A t \in Threads : /\ WF_vars(OpenStep(t))
                               /\ t \in Senders => WF_vars(Send(t))

FairSpec == Spec /\ Fairness /\ WF_vars(Bind)

-----------------------------------------------------------------------------
(* Types: the descriptors kept in send_sd and in the sniffer are open.     *)
TypeOK ==
    /\ opened \in Nat
    /\ send_sd \in 0..opened
    /\ sniffer_sd \in 0..opened
    /\ addr_set \in BOOLEAN
    /\ pc \in [Threads -> {"idle", "clear", "socket", "fill", "send", "bind",
                           "listen", "ended"}]
    /\ failed \in 0..MaxFailed
    /\ last \in [Senders -> {"none", "sent", "unsent"}]

Opening(t) == pc[t] \in {"socket", "fill"}

(* However the threads that found send_sd closed interleave, once they are *)
(* out of open_socket the address is filled, and sends go out; the only    *)
(* exception is a sniffer whose own socket() failed.                       *)
SettledAddr ==
    /\ send_sd # NoSocket
    /\ \A t \in Threads : ~Opening(t)
    /\ ~(pc[Sniffer] = "ended" /\ sniffer_sd = NoSocket)
    => addr_set

(* sendto and bind fail only while another thread is inside open_socket,   *)
(* or after a call of socket() has failed.                                 *)
FailsOnlyWhileOpening ==
    [][\A t \in Threads :
          \/ pc[t] = "send" /\ last'[t] = "unsent" /\ pc'[t] = "idle"
          \/ pc[t] = "bind" /\ pc'[t] = "ended"
          => \/ \E u \in Threads \ {t} : Opening(u)
             \/ failed > 0]_vars

(* The race is over after finitely many steps. *)
Settles == <>[](\A t \in Threads : ~Opening(t))
=============================================================================
