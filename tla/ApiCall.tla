------------------------------ MODULE ApiCall -------------------------------
(***************************************************************************)
(* What a call of the management API amounts to for its caller, with no    *)
(* socket, no stream, no listener and no thread: the VFM executes the      *)
(* request once, after the call and before the stub returns, and the stub  *)
(* returns what came of it; or the VFM ends, and the stub fails.  That is  *)
(* promised while the connection is in step; what ends it is the user's to *)
(* say.                                                                    *)
(***************************************************************************)
CONSTANTS Clients,      \* client programs
          Calls,        \* what they may call
          Fallible,     \* the calls whose handler can fail
          Reporting     \* the calls whose caller is told so

VARIABLES session,      \* where each client is in its call
          inStep

avars == <<session, inStep>>

(* Out of a call, with the end of the last one; in a call whose request    *)
(* has not been executed; executed and not answered; cut off by the end of *)
(* the VFM.                                                                *)
Idle(told)           == [phase |-> "idle", told |-> told]
Called(call)         == [phase |-> "called", call |-> call]
Executed(call, fail) == [phase |-> "executed", call |-> call, failed |-> fail]
CutOff(call)         == [phase |-> "cut", call |-> call]

NoReport == [kind |-> "none"]
Answered(call, fail, err) ==
    [kind |-> "answer", call |-> call, failed |-> fail, err |-> err]
Failed(err) == [kind |-> "failed", err |-> err]

CallInit ==
    /\ session = [c \in Clients |-> Idle(NoReport)]
    /\ inStep = [c \in Clients |-> TRUE]

Becomes(c, s) == session'[c] = s

(* A call begins; the VFM may already have ended, or not be there to be    *)
(* connected to.                                                           *)
Call(c) ==
    /\ session[c].phase = "idle"
    /\ \/ \E call \in Calls : Becomes(c, Called(call)) \/ Becomes(c, CutOff(call))
       \/ Becomes(c, Idle(Failed(TRUE)))

(* The handler runs. *)
Execute(c) ==
    /\ session[c].phase = "called"
    /\ \E fail \in BOOLEAN :
          /\ fail => session[c].call \in Fallible
          /\ Becomes(c, Executed(session[c].call, fail))

(* The stub returns what came of it. *)
Return(c) ==
    /\ session[c].phase = "executed"
    /\ Becomes(c, Idle(Answered(session[c].call, session[c].failed,
                                session[c].failed /\ session[c].call \in Reporting)))

(* The VFM ends: what was not executed will not be, and what was may go    *)
(* unanswered.                                                             *)
Cut(c) ==
    /\ session[c].phase \in {"called", "executed"}
    /\ Becomes(c, CutOff(session[c].call))

Fail(c) ==
    /\ session[c].phase = "cut"
    /\ \E err \in BOOLEAN : Becomes(c, Idle(Failed(err)))

(* The program ends and is started again. *)
Restart(c) == Becomes(c, Idle(NoReport))

Serve(c) == Call(c) \/ Execute(c) \/ Return(c) \/ Cut(c) \/ Fail(c)

CallNext ==
    \A c \in Clients :
        inStep'[c] => \/ inStep[c] /\ (Serve(c) \/ UNCHANGED session[c])
                      \/ Restart(c)

CallSpec == CallInit /\ [][CallNext]_avars
=============================================================================
