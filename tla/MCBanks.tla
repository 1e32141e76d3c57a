------------------------------ MODULE MCBanks ------------------------------
(* Banks for every number of kernels up to two past the supported one, and  *)
(* for csre-mt with jobs up to three past the kernels, on the 32 banks of   *)
(* the boards named in the README.                                          *)
EXTENDS Banks
=============================================================================
