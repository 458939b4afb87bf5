------------------------------ MODULE MCPyApi ------------------------------
(***************************************************************************)
(* Two programs over a database with a vadapter on an EN vfabric, another  *)
(* that was never attached and can be moved there, and a vfabric that has  *)
(* neither gateways nor a protocol of its own.                             *)
(***************************************************************************)
EXTENDS PyApi, TLC

CONSTANTS t1, t2

MCOffsets == {0, 1}
MCGarbage == {0, 1}

Vadapter(id, protocol, vfabric_id) ==
    [id |-> id, protocol |-> protocol, vfabric_id |-> vfabric_id]
Vfabric(id, protocol, primary, backup) ==
    [id |-> id, protocol |-> protocol, primary_gateway |-> primary,
     backup_gateway |-> backup]
Bridge(id, vfm_guid, gw_modules) ==
    [id |-> id, vfm_guid |-> vfm_guid, gw_modules |-> gw_modules]

MCInitialDbs ==
    {[vadapters |-> {Vadapter(1, 1, 1), Vadapter(2, 0, NULL)},
      vfabrics  |-> {Vfabric(1, 1, 1, 0), Vfabric(2, 0, NULL, NULL)},
      bridges   |-> {Bridge(0, 1, <<>>), Bridge(1, 1, <<"gm1", "gm2">>),
                     Bridge(2, 2, <<"gm3">>)}]}

Dict(dict) == [isdict |-> TRUE, dict |-> dict]

MCArguments ==
    [vadapter |->
        {[isdict |-> FALSE, dict |-> <<>>],
         Dict([id |-> Unreadable]), Dict([protocol |-> 1]), Dict([vfabric_id |-> 0]),
         Dict([id |-> 2, vfabric_id |-> 1]),
         Dict([id |-> 1, protocol |-> Unreadable, vfabric_id |-> 2])},
     vfabric  |->
        {Dict(<<>>), Dict([primary_gateway |-> 1]),
         Dict([primary_gateway |-> 0, backup_gateway |-> 0]),
         Dict([id |-> 2, protocol |-> 2, auto_failover |-> Unreadable])},
     bridge   |->
        {Dict(<<>>), Dict([vfm_guid |-> 1]),
         Dict([id |-> 1, vfm_guid |-> 1]),
         Dict([id |-> 0, vfm_guid |-> Unreadable])}]

MCSymmetry == Permutations(Threads)
=============================================================================
