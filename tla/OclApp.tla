------------------------------- MODULE OclApp -------------------------------
(***************************************************************************)
(* The OpenCL application, app/single-thread/csre-st-ocl.cpp, with the     *)
(* library calls it makes: csre_init_hardware, one csre_compile_file per   *)
(* kernel, csre_parse_packet, csre_scan, csre_result, csre_close_hardware. *)
(* Each is wrapped in OCL_CHECK: a result other than 0 ends the process    *)
(* with EXIT_FAILURE, from wherever it is.                                 *)
(*                                                                         *)
(* The scan is OclScan, whose variables are declared here; the buffers of  *)
(* the application are used by its queue in place (CL_MEM_USE_HOST_PTR).   *)
(***************************************************************************)
EXTENDS Integers

CONSTANTS
    NumKernels,   \* kernels of the xclbin
    NumDevices    \* Xilinx devices of the machine

ASSUME SizesAssumption == NumKernels \in Nat \ {0} /\ NumDevices \in Nat \ {0}

VARIABLES
    step, i, scans, queue, input, output, result    \* of OclScan

Library == INSTANCE OclScan WITH MaxScans <- 1

Kernels == 0 .. NumKernels - 1
Ops     == {"copy", "exec", "result"}

VARIABLES
    refused,      \* input files the library will refuse
    check,        \* results are compared with the reference
    pc,           \* the call main is in
    k,            \* the index of main's loop over kernels
    device,       \* the device to be programmed next
    opened,       \* there is a library object: "never", "open" or "closed"
    buffers,      \* host memory of each kernel: regexes, packets and results
    harvested,    \* the scan each kernel's results were read from
    verdict       \* "none", "passed", "failed" (exit), "aborted" (signal)

libvars == <<step, i, scans, queue, input, output, result>>
vars == <<libvars, refused, check, pc, k, device, opened, buffers, harvested, verdict>>

Uses == {"regex", "packet", "result"}

Init ==
    /\ Library!Init
    /\ refused \in SUBSET {"regex", "packet"}
    /\ check \in BOOLEAN
    /\ pc = "init" /\ k = 0 /\ device = 0
    /\ opened = "never"
    /\ buffers = [u \in Uses |-> {}]
    /\ harvested = [n \in Kernels |-> 0]
    /\ verdict = "none"

-----------------------------------------------------------------------------
given == <<refused, check>>
End(v) == pc' = "end" /\ verdict' = v

(* OCL_CHECK, and the exits inside the library. *)
Exits(l) ==
    /\ pc = l
    /\ End("failed")
    /\ UNCHANGED <<libvars, given, k, device, opened, buffers, harvested>>

\* Mutant: one round too many.
MoreRoundsOffByOne == k < NumKernels
MoreRounds == k + 1 < NumKernels

(* The end of a round of main's loops, whose successor is l. *)
Loop(l) == IF MoreRounds THEN k' = k + 1 /\ UNCHANGED pc ELSE k' = 0 /\ pc' = l

(* csre_init_hardware makes the object before anything can fail: the        *)
(* platform, the xclbin and its configuration may be missing or bad.  An    *)
(* xclbin of another format throws, and main does not catch.                *)
InitLibrary ==
    /\ pc = "init"
    /\ opened' = "open"
    /\ \/ pc' = "program" /\ UNCHANGED verdict
       \/ \E v \in {"failed", "aborted"} : End(v)
    /\ UNCHANGED <<libvars, given, k, device, buffers, harvested>>

(* Devices are tried in order up to the first that takes the xclbin.        *)
(* Missing and misnamed kernels exit.                                       *)
ProgramDevice ==
    /\ pc = "program" /\ device < NumDevices
    /\ pc' = "compile" /\ k' = 0
    /\ UNCHANGED <<libvars, given, device, opened, buffers, harvested, verdict>>

(* For a device that does not, the number of kernels is what getInfo left   *)
(* in an uninitialised variable, and m_kernels is resized to it: no harm    *)
(* when it is small, an uncaught exception when it is not.                  *)
DeviceFails ==
    /\ pc = "program" /\ device < NumDevices
    /\ \/ device' = device + 1 /\ UNCHANGED <<pc, verdict>>
       \/ End("aborted") /\ UNCHANGED device
    /\ UNCHANGED <<libvars, given, k, opened, buffers, harvested>>

\* Mutant: what the call returned is not looked at.
AcceptedUnchecked(what) == what \in Uses
Accepted(what) == what \notin refused

CompileForKernel ==
    /\ pc = "compile" /\ Accepted("regex")
    /\ buffers' = [buffers EXCEPT !["regex"] = @ \cup {k}]
    /\ Loop("parse")
    /\ UNCHANGED <<libvars, given, device, opened, harvested, verdict>>

ParsePackets ==
    /\ pc = "parse" /\ Accepted("packet")
    /\ buffers' = [buffers EXCEPT !["packet"] = Kernels]
    /\ pc' = "alloc" /\ k' = 0
    /\ UNCHANGED <<libvars, given, device, opened, harvested, verdict>>

(* The results of alloc_mem are not looked at; a missing buffer is null. *)
AllocResult ==
    /\ pc = "alloc"
    /\ \/ buffers' = [buffers EXCEPT !["result"] = @ \cup {k}]
       \/ UNCHANGED buffers
    /\ Loop("scan")
    /\ UNCHANGED <<libvars, given, device, opened, harvested, verdict>>

-----------------------------------------------------------------------------
CallScan ==
    /\ pc = "scan"
    /\ Library!Scan
    /\ pc' = "scanning"
    /\ UNCHANGED <<given, k, device, opened, buffers, harvested, verdict>>

(* cl::Buffer refuses to use null as host memory. *)
ScanGoesOn ==
    /\ pc = "scanning"
    /\ Library!Host
    /\ step = "setup" => i \in buffers["result"]
    /\ UNCHANGED <<given, pc, k, device, opened, buffers, harvested, verdict>>

QueueGoesOn(op, n) ==
    /\ pc # "end"
    /\ Library!Perform(op, n)
    /\ UNCHANGED <<given, pc, k, device, opened, buffers, harvested, verdict>>

ScanExits ==
    /\ pc = "scanning"
    /\ Library!CheckFails
    /\ End("failed")
    /\ UNCHANGED <<given, k, device, opened, buffers, harvested>>

ScanReturns ==
    /\ pc = "scanning" /\ step = "idle"
    /\ pc' = "result" /\ k' = 0
    /\ UNCHANGED <<libvars, given, device, opened, buffers, harvested, verdict>>

(* csre_result: process_results on each buffer, then the comparison.        *)
(* Without a result file it reads nothing, and fclose of a null crashes.    *)
HarvestKernel ==
    /\ pc = "result"
    /\ harvested' = [harvested EXCEPT ![k] = result[k]]
    /\ Loop("compare")
    /\ UNCHANGED <<libvars, given, device, opened, buffers, verdict>>

NoResultFile ==
    /\ pc = "result" /\ k = 0
    /\ End("aborted")
    /\ UNCHANGED <<libvars, given, k, device, opened, buffers, harvested>>

ResultsAgree ==
    /\ pc = "compare"
    /\ pc' = "close"
    /\ UNCHANGED <<libvars, given, k, device, opened, buffers, harvested, verdict>>

(* The exit is taken with the hardware open and nothing freed. *)
ResultsDiffer == check /\ Exits("compare")

CloseLibrary ==
    /\ pc = "close"
    /\ opened' = "closed"
    /\ pc' = "free" /\ k' = 0
    /\ UNCHANGED <<libvars, given, device, buffers, harvested, verdict>>

\* Mutant: the results are not freed.
FreedInput(n) == [u \in Uses |-> IF u = "result" THEN buffers[u] ELSE buffers[u] \ {n}]
Freed(n) == [u \in Uses |-> buffers[u] \ {n}]

FreeBuffers ==
    /\ pc = "free"
    /\ buffers' = Freed(k)
    /\ IF MoreRounds THEN k' = k + 1 /\ UNCHANGED <<pc, verdict>> ELSE k' = 0 /\ End("passed")
    /\ UNCHANGED <<libvars, given, device, opened, harvested>>

Ended == pc = "end" /\ UNCHANGED vars

-----------------------------------------------------------------------------
Main ==
    \/ InitLibrary \/ ProgramDevice \/ DeviceFails
    \/ CompileForKernel \/ ParsePackets \/ AllocResult
    \/ CallScan \/ ScanGoesOn \/ ScanReturns
    \/ HarvestKernel \/ NoResultFile \/ ResultsAgree \/ ResultsDiffer
    \/ CloseLibrary \/ FreeBuffers
    \/ \E l \in {"program", "compile", "parse"} : Exits(l)

Next == Main \/ ScanExits \/ (\E op \in Ops, n \in Kernels : QueueGoesOn(op, n)) \/ Ended

Spec == Init /\ [][Next]_vars

(* The process is scheduled, a command whose wait list is complete runs,    *)
(* and a null buffer is refused.  Otherwise no call of a scan has to fail:  *)
(* a finish that waits for ever does not exit either.                       *)
Fairness ==
    /\ WF_vars(Main) /\ WF_vars(step = "setup" /\ ScanExits)
    /\ \A op \in Ops, n \in Kernels : WF_vars(QueueGoesOn(op, n))
FairSpec == Spec /\ Fairness

-----------------------------------------------------------------------------
(* Types. *)
TypeOK ==
    /\ Library!TypeOK
    /\ refused \subseteq {"regex", "packet"} /\ check \in BOOLEAN
    /\ pc \in {"init", "program", "compile", "parse", "alloc", "scan", "scanning",
               "result", "compare", "close", "free", "end"}
    /\ k \in Kernels
    /\ device \in 0 .. NumDevices
    /\ opened \in {"never", "open", "closed"}
    /\ buffers \in [Uses -> SUBSET Kernels]
    /\ harvested \in [Kernels -> 0 .. 1]
    /\ verdict \in {"none", "passed", "failed", "aborted"}

(* The queue works on the application's own memory: while a command of a    *)
(* kernel is queued, the buffers it touches are there and the library is    *)
(* open.  Only the finishes inside csre_scan see to that; neither the close *)
(* nor the frees wait for anything (csre-st-ocl.cpp:153-169).               *)
Touches(op) == IF op = "copy" THEN {"regex", "packet"} ELSE {"result"}

BuffersOutliveQueue ==
    pc # "end" => \A op \in Ops, n \in Kernels : queue[op][n] = "queued" =>
        /\ opened = "open"
        /\ \A u \in Touches(op) : n \in buffers[u]

(* README.md:185: refused expressions, and likewise refused packets, stop   *)
(* the application before any kernel is used.                               *)
RefusalStopsBeforeScan == refused # {} => scans = 0 /\ verdict # "passed"

(* TEST PASSED! is printed when one scan was made, every kernel's results   *)
(* were read from it and not from fresh memory, and everything is released. *)
PassedMeansDone ==
    verdict = "passed" =>
        /\ scans = 1 /\ \A n \in Kernels : harvested[n] = 1
        /\ opened = "closed" /\ \A u \in Uses : buffers[u] = {}

(* The application ends, with a verdict. *)
Ends == <>(pc = "end" /\ verdict # "none")
=============================================================================
