----------------------------- MODULE MCFipFrame -----------------------------
(* The frame parser and the frames it builds, on one frame at a time.      *)
EXTENDS FipFrame
=============================================================================
