------------------------------ MODULE MCOclApp ------------------------------
(* OclApp with three kernels and two devices: the xclbin may not fit on the *)
(* first device, on either, or on none.                                     *)
EXTENDS OclApp
=============================================================================
