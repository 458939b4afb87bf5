----------------------------- MODULE MCFcLogin ------------------------------
(* Small instances of FcLogin.  The requests follow from the hosts; the    *)
(* addresses and the processors are interchangeable.                       *)
EXTENDS FcLogin, TLC

CONSTANTS h1

MCFpHosts == {h1}
MCRequests ==
    {[mac |-> h, oxid |-> n, flag |-> 0,
      ctrl_flags |-> IF h = h1 THEN 32768 ELSE 16384] :
        h \in Hosts, n \in 1..MaxLogins}
    \cup {[mac |-> VFM, oxid |-> 1, flag |-> 1, ctrl_flags |-> 0]}

MCSymmetry == Permutations(Addrs) \cup Permutations(Processors)
              \cup Permutations(Hosts \ {h1})

(* malloc returns the first free of the addresses, which are numbered.     *)
MCFirstFree ==
    \A a, b \in Addrs :
        entries[a] = NoRequest /\ entries[b] = NoRequest /\ entries'[a] # NoRequest
            => a <= b
=============================================================================
