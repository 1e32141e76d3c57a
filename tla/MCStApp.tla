------------------------------ MODULE MCStApp ------------------------------
(* StApp on every xclbin with up to three IPs and two memories.  The counts *)
(* are such that err passes through 0 and reaches the width of a status.    *)
EXTENDS StApp

MCCounts == {0, 1, 2, 255}
=============================================================================
