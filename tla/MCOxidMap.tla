----------------------------- MODULE MCOxidMap ------------------------------
(* The exchange table with three usable slots and four requests, so that  *)
(* it fills up, overflows, and empties in any order.                      *)
EXTENDS OxidMap

=============================================================================
