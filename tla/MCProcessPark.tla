--------------------------- MODULE MCProcessPark ----------------------------
(* Instances of ProcessPark for TLC. *)
EXTENDS ProcessPark
=============================================================================
