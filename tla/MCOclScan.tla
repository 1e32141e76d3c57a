----------------------------- MODULE MCOclScan -----------------------------
(* OclScan with four kernels and three scans, so that a later one finds     *)
(* what an earlier one left in the host's buffers.                          *)
EXTENDS OclScan
=============================================================================
