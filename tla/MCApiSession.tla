---------------------------- MODULE MCApiSession ----------------------------
(* Small instances of ApiSession.  The calls of MCCalls differ in what the *)
(* server or the stub does with them; every other stub behaves as one of   *)
(* these.                                                                  *)
EXTENDS ApiSession

MCCalls == {vfm_vadapter_edit_general_attr, vfm_vadapter_select_inventory,
            vfm_vadapter_destroy, vfm_vfabric_online}
=============================================================================
