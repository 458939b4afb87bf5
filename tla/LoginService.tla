---------------------------- MODULE LoginService ----------------------------
(***************************************************************************)
(* What the VFM promises to the hosts that log in through it, with no      *)
(* exchange table, no thread and no queue: a host asks, the fabric decides *)
(* once, and the host is told once, what the fabric decided, under its own *)
(* exchange id.  The promise is kept while the service is sound; what      *)
(* ends that is the user's to say.                                         *)
(***************************************************************************)
CONSTANTS Logins,       \* what a host asks: a record with its mac and oxid
          LsCodes,      \* the fabric's verdicts
          NoId          \* the FC id of a port that was rejected

VARIABLES asked,        \* logins the hosts have sent
          decided,      \* the fabric's decisions: a login and its verdict
          replies,      \* what hosts have been told
          sound

svars == <<asked, decided, replies, sound>>

Decision(r, ls) == [req |-> r, ls |-> ls]
Answer(d) ==
    [to |-> d.req.mac, oxid |-> d.req.oxid, ls |-> d.ls, req |-> d.req,
     granted |-> <<"fpma", IF d.ls = "ACC" THEN d.req.mac ELSE NoId>>]

ServiceInit ==
    /\ asked = {} /\ decided = {} /\ replies = {}
    /\ sound = TRUE

Ask(r) ==
    /\ r \notin asked
    /\ asked' = asked \cup {r}
    /\ UNCHANGED <<decided, replies>>

(* The fabric decides on a login once. *)
Decide(r, ls) ==
    /\ r \in asked
    /\ \A d \in decided : d.req # r
    /\ decided' = decided \cup {Decision(r, ls)}
    /\ UNCHANGED <<asked, replies>>

(* The host is told once, what was decided. *)
Tell(d) ==
    /\ \A m \in replies : m.req # d.req
    /\ replies' = replies \cup {Answer(d)}
    /\ UNCHANGED <<asked, decided>>

Serve ==
    \/ \E r \in Logins : Ask(r)
    \/ \E r \in Logins, ls \in LsCodes : Decide(r, ls)
    \/ \E d \in decided : Tell(d)

ServiceNext ==
    \/ sound /\ sound' /\ Serve
    \/ ~sound'

ServiceSpec == ServiceInit /\ [][ServiceNext]_svars
=============================================================================
