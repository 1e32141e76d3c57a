------------------------------ MODULE MCMtApp ------------------------------
(* MtApp with three jobs, so that two workers can take each other's         *)
(* completions beside a third, and with a failing call anywhere.            *)
EXTENDS MtApp
=============================================================================
