---------------------------- MODULE MCTaskQueue -----------------------------
(* The task queue with one sniffer and two processors, as main starts them. *)
EXTENDS TaskQueue

=============================================================================
