---------------------------- MODULE MCSendSocket ----------------------------
(* SendSocket with the main thread, one processor and one API client. *)
EXTENDS SendSocket
=============================================================================
