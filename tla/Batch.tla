-------------------------------- MODULE Batch --------------------------------
(***************************************************************************)
(* What a scan promises, whichever way the host drives the device: the     *)
(* regexes and packets of every job are copied to the device, then every   *)
(* kernel runs, then every job's results are fetched (README.md:188-191).  *)
(* Within a phase the jobs go in any order; the phases do not overlap,     *)
(* which is also what the times the programs print for them rely on.       *)
(* When a call fails the scan is given up and nothing more is promised.    *)
(***************************************************************************)
CONSTANT Jobs

VARIABLES
    copied,     \* jobs whose input is on the device
    executed,   \* jobs whose kernel has run on this input
    fetched,    \* jobs whose results of this run are back
    aborted

vars == <<copied, executed, fetched, aborted>>

Nothing == copied = {} /\ executed = {} /\ fetched = {}

Init == Nothing /\ aborted \in BOOLEAN

Copy(j) ==
    /\ ~ aborted /\ j \notin copied
    /\ copied' = copied \cup {j}
    /\ UNCHANGED <<executed, fetched, aborted>>

Execute(j) ==
    /\ ~ aborted /\ copied = Jobs /\ j \notin executed
    /\ executed' = executed \cup {j}
    /\ UNCHANGED <<copied, fetched, aborted>>

Fetch(j) ==
    /\ ~ aborted /\ executed = Jobs /\ j \notin fetched
    /\ fetched' = fetched \cup {j}
    /\ UNCHANGED <<copied, executed, aborted>>

Abort ==
    /\ ~ aborted /\ aborted' = TRUE
    /\ copied' = {} /\ executed' = {} /\ fetched' = {}

(* The host may scan again once everything is back. *)
Restart ==
    /\ ~ aborted /\ fetched = Jobs
    /\ copied' = {} /\ executed' = {} /\ fetched' = {}
    /\ UNCHANGED aborted

Next == Abort \/ Restart \/ \E j \in Jobs : Copy(j) \/ Execute(j) \/ Fetch(j)

Spec == Init /\ [][Next]_vars
=============================================================================
