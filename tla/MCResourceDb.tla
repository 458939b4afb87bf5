---------------------------- MODULE MCResourceDb ----------------------------
(* Small instances of ResourceDb. *)
EXTENDS ResourceDb, TLC

MCProtocols == {VFM_PROTOCOL_EN, VFM_PROTOCOL_FC, 0}

(* A new database, and one in which an earlier run has left a vfabric with *)
(* two vadapters, of which the first one has an I/O module.                *)
Empty == [io_modules |-> {}, vadapters |-> {}, vfabrics |-> {}]

TwoAttached(macs) ==
    [io_modules |-> {[id |-> 1, mac |-> mac] : mac \in macs},
     vadapters |-> {[id |-> i, name |-> <<"old", i>>, vfabric_id |-> 1,
                     io_module_id |-> 2 - i] : i \in 1..2},
     vfabrics |-> {[id |-> 1, name |-> <<"old", 1>>,
                    protocol |-> VFM_PROTOCOL_EN]}]

MCInitialDbs == {Empty, TwoAttached(Macs)}
MCEmptyDb    == {Empty}

MCSymmetry == Permutations(Processors) \cup Permutations(Macs)
              \cup Permutations(Clients)
=============================================================================
