--------------------------- MODULE MCResultCheck ---------------------------
(* ResultCheck with two kernels, three packets (the last kernel has two),   *)
(* two patterns and two offsets, so that a record can be wrong in each of   *)
(* its fields, and at most two matches.                                     *)
EXTENDS ResultCheck
=============================================================================
