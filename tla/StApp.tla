-------------------------------- MODULE StApp --------------------------------
(***************************************************************************)
(* The single-threaded XRT application, app/single-thread/csre-st.cpp: one *)
(* job on the compute unit the user names, from initXRT (XrtInit, whose    *)
(* variables are declared here) to the exit status.                        *)
(*                                                                         *)
(* Many results are not looked at, and err is overwritten on the way; the  *)
(* calls that are looked at return from main at once and leave buffers,    *)
(* context and device to the operating system.  The device runs beside the *)
(* program from the moment the start command is submitted.                 *)
(*                                                                         *)
(* Relied on of the runtime library: a buffer object can be refused, which *)
(* only later calls on it notice; a buffer of no bytes, or over memory     *)
(* that is not the program's, may be refused or taken; a context of one's  *)
(* own is only opened on a compute unit the xclbin has.                    *)
(***************************************************************************)
EXTENDS Integers, FiniteSets

CONSTANTS
    MaxIPs, MaxBanks,   \* of XrtInit
    Counts,             \* numbers of records and matches
    MaxFaults           \* bound on the failing library calls of a behaviour

ASSUME LayoutAssumption == MaxIPs \in Nat /\ MaxBanks \in Nat
ASSUME CountsAssumption == Counts \subseteq Nat /\ 0 \in Counts
ASSUME FaultsAssumption == MaxFaults \in Nat

VARIABLES bit, ips, banks, cu_index, call, pos, cur_index, cu_base_addr, first_used_mem

Xrt == INSTANCE XrtInit

VARIABLES
    check,      \* results are compared with the reference
    regex,      \* what becomes of the expressions
    packets,    \* what becomes of the packets
    pc,         \* where main is
    host,       \* the host memory of both inputs, and what their sizes say
    bo,         \* the buffer objects
    synced,     \* inputs that are on the device
    ctx,        \* the context on the compute unit
    cmd,        \* the start command
    left,       \* how the wait loop was left
    written,    \* the kernel's results of this run are in device memory
    fetched,    \* what the result buffer was synced with
    unknown,    \* history: records the reference does not have
    err,
    verdict,    \* how the run ended, "none" as long as it has not
    status,     \* its exit status
    faults      \* failed calls

xrtvars == <<bit, ips, banks, cu_index, call, pos, cur_index, cu_base_addr, first_used_mem>>
given   == <<check, regex, packets>>
memory  == <<host, bo>>
device  == <<synced, cmd, written>>
outcome == <<verdict, status>>
vars == <<xrtvars, given, pc, memory, device, ctx, left, fetched, unknown, err, outcome, faults>>

Inputs == {"regex", "packet"}
Uses   == Inputs \cup {"result", "exec"}

Init ==
    /\ Xrt!Init
    /\ check \in BOOLEAN
    /\ regex = "unread" /\ packets = "unread"
    /\ pc = "init"
    /\ host = [u \in Inputs |-> "none"] /\ bo = [u \in Uses |-> "none"]
    /\ synced = {} /\ ctx = "none" /\ cmd = "none" /\ left = "no"
    /\ written = FALSE /\ fetched = "nothing"
    /\ unknown = 0 /\ err = 0
    /\ verdict = "none" /\ status = 0
    /\ faults = 0

Fault == faults < MaxFaults /\ faults' = faults + 1

(* main returns r, or the process is ended by a signal or an exit. *)
Ends(v, r) == pc' = "end" /\ verdict' = v /\ status' = r % 256

-----------------------------------------------------------------------------
(* initXRT and the context.  An exception is caught in main, which prints   *)
(* FAILED TEST and returns -1.                                              *)
InitXRT ==
    /\ pc = "init"
    /\ Xrt!Next
    /\ UNCHANGED <<given, pc, memory, device, ctx, left, fetched, unknown, err, outcome, faults>>

InitEnds ==
    /\ pc = "init"
    /\ \/ call = "threw" /\ Ends("threw", -1)
       \/ call = "returned" /\ first_used_mem < 0 /\ Ends("stopped", 1)
       \/ call = "returned" /\ first_used_mem >= 0 /\ pc' = "context" /\ UNCHANGED outcome
    /\ UNCHANGED <<xrtvars, given, memory, device, ctx, left, fetched, unknown, err, faults>>

(* The index is passed on as an unsigned number: a negative one is no unit. *)
HasUnit == 0 <= cu_index /\ cu_index < Cardinality(Xrt!Kernels)

OpenContext ==
    /\ pc = "context" /\ HasUnit
    /\ ctx' = "open" /\ pc' = "compile"
    /\ UNCHANGED <<xrtvars, given, memory, device, left, fetched, unknown, err, outcome, faults>>

OpenContextFails ==
    /\ pc = "context"
    /\ IF HasUnit THEN Fault ELSE UNCHANGED faults
    /\ Ends("threw", -1)
    /\ UNCHANGED <<xrtvars, given, memory, device, ctx, left, fetched, unknown, err>>

-----------------------------------------------------------------------------
(* The inputs.  Of each file: it is taken, it is refused, it cannot be      *)
(* opened, or its last line is cut, which ends the process.  Refused or     *)
(* missing expressions leave a size of 0 and a null pointer or an empty     *)
(* table.  A packet file that is missing or has no lines leaves pointer and *)
(* size as malloc gave them; one that is refused later, a size of 0.        *)
Regexes == {"taken", "refused", "missing"}
Packets == {"taken", "refused", "missing", "none"}

Input(u, file) ==
    IF file = "taken" THEN "whole"
    ELSE IF file = "refused" \/ u = "regex" THEN "empty" ELSE "wild"

Error(file) == IF file = "taken" THEN 0 ELSE -1

(* xclAllocUserPtrBO on input u, whose result is not looked at. *)
AllocUserPtrBO(u) ==
    \/ bo' = [bo EXCEPT ![u] = "open"] /\ UNCHANGED faults
    \/ /\ bo' = [bo EXCEPT ![u] = "bad"]
       /\ IF host'[u] = "whole" THEN Fault ELSE UNCHANGED faults

Compile ==
    /\ pc = "compile"
    /\ regex' \in Regexes
    /\ err' = Error(regex')
    /\ host' = [host EXCEPT !["regex"] = Input("regex", regex')]
    /\ AllocUserPtrBO("regex")
    /\ pc' = "parse"
    /\ UNCHANGED <<xrtvars, check, packets, device, ctx, left, fetched, unknown, outcome>>

(* err is assigned, not added to: what became of the expressions is lost. *)
Parse ==
    /\ pc = "parse"
    /\ packets' \in Packets
    /\ err' = Error(packets')
    /\ host' = [host EXCEPT !["packet"] = Input("packet", packets')]
    /\ AllocUserPtrBO("packet")
    /\ pc' = "result"
    /\ UNCHANGED <<xrtvars, check, regex, device, ctx, left, fetched, unknown, outcome>>

CutLine ==
    /\ pc \in {"compile", "parse"}
    /\ Ends("exited", 1)
    /\ UNCHANGED <<xrtvars, given, memory, device, ctx, left, fetched, unknown, err, faults>>

(* The result buffer, and the software reference when it is asked for.  It  *)
(* reads the packets and then the expressions again, and all of them: it    *)
(* crashes on a file that cannot be opened, and the process ends at a last  *)
(* line that is cut, which the first reading has not come to when it        *)
(* refused a line before it.                                                *)
HitsCutLine == packets \in {"refused", "none"} \/ (regex = "refused" /\ packets # "missing")

Prepare ==
    /\ pc = "result"
    /\ \/ bo' = [bo EXCEPT !["result"] = "open"] /\ UNCHANGED faults
       \/ bo' = [bo EXCEPT !["result"] = "bad"] /\ Fault
    /\ \/ ~ (check /\ "missing" \in {regex, packets}) /\ pc' = "regex" /\ UNCHANGED outcome
       \/ check /\ "missing" \in {regex, packets} /\ Ends("crashed", 139)
       \/ check /\ HitsCutLine /\ Ends("exited", 1)
    /\ UNCHANGED <<xrtvars, given, host, device, ctx, left, fetched, unknown, err>>

-----------------------------------------------------------------------------
(* The job.  Syncing an input and asking for its address fail on a buffer   *)
(* that was refused; on one of no bytes, or over foreign memory, they may.  *)
SyncRegex ==
    /\ pc = "regex" /\ bo["regex"] = "open"
    /\ synced' = synced \cup {"regex"}
    /\ pc' = "packet"
    /\ UNCHANGED <<xrtvars, given, memory, ctx, cmd, written, left, fetched, unknown, err,
                   outcome, faults>>

SyncPacket ==
    /\ pc = "packet" /\ bo["packet"] = "open" /\ bo["result"] = "open"
    /\ synced' = synced \cup {"packet"}
    /\ pc' = "exec"
    /\ UNCHANGED <<xrtvars, given, memory, ctx, cmd, written, left, fetched, unknown, err,
                   outcome, faults>>

(* The input is not fit to be synced, or the result buffer has no address. *)
Unfit == \/ \E u \in Inputs : pc = u /\ (bo[u] # "open" \/ host[u] # "whole")
         \/ pc = "packet" /\ bo["result"] # "open"

(* Reading the status register, too, which returns -1 when it fails. *)
SyncFails ==
    /\ pc \in Inputs
    /\ IF Unfit THEN UNCHANGED faults ELSE Fault
    /\ \/ Ends("stopped", 1)
       \/ pc = "packet" /\ Ends("stopped", -1)
    /\ UNCHANGED <<xrtvars, given, memory, device, ctx, left, fetched, unknown, err>>

(* The start command is built in a mapped buffer, through a bad pointer     *)
(* when there is none.                                                      *)
BuildCommand ==
    /\ pc = "exec"
    /\ \/ /\ bo' = [bo EXCEPT !["exec"] = "open"] /\ cmd' = "new"
          /\ pc' = "submit"
          /\ UNCHANGED <<outcome, faults>>
       \/ /\ Fault /\ Ends("crashed", 139)
          /\ UNCHANGED <<bo, cmd>>
    /\ UNCHANGED <<xrtvars, given, host, synced, written, ctx, left, fetched, unknown, err>>

Fit == \A u \in Inputs : host[u] = "whole"

ExecBuf ==
    /\ pc = "submit"
    /\ cmd' = IF Fit THEN "running" ELSE "stray"
    /\ pc' = "wait"
    /\ UNCHANGED <<xrtvars, given, memory, synced, written, ctx, left, fetched, unknown, err,
                   outcome, faults>>

ExecBufFails ==
    /\ pc = "submit" /\ Fault
    /\ Ends("stopped", 1)
    /\ UNCHANGED <<xrtvars, given, memory, device, ctx, left, fetched, unknown, err>>

(* The device.  A command without proper input may write anything, or hang. *)
KernelFinishes ==
    /\ cmd \in {"running", "stray"} /\ pc # "end"
    /\ written' = (written \/ cmd = "running")
    /\ cmd' = "completed"
    /\ UNCHANGED <<xrtvars, given, pc, memory, synced, ctx, left, fetched, unknown, err,
                   outcome, faults>>

(* xclExecWait returns something else than 0.  A timeout returns 0, prints  *)
(* a line and goes round the loop.                                          *)
\* Mutant: a timeout leaves the loop too.
SignalledOrLate == cmd # "none"
\* Mutant: the loop goes on while the result is not negative.
SignalledNever  == FALSE
Signalled       == cmd = "completed"

ExecWait ==
    /\ pc = "wait" /\ Signalled
    /\ left' = "signalled" /\ pc' = "fetch"
    /\ UNCHANGED <<xrtvars, given, memory, device, ctx, fetched, unknown, err, outcome, faults>>

(* A negative result is not 0 either. *)
ExecWaitFails ==
    /\ pc = "wait" /\ Fault
    /\ left' = "failed" /\ pc' = "fetch"
    /\ UNCHANGED <<xrtvars, given, memory, device, ctx, fetched, unknown, err, outcome>>

SyncResult ==
    /\ pc = "fetch"
    /\ fetched' = IF written THEN "results" ELSE "leftover"
    /\ pc' = "harvest"
    /\ UNCHANGED <<xrtvars, given, memory, device, ctx, left, unknown, err, outcome, faults>>

SyncResultFails ==
    /\ pc = "fetch" /\ Fault
    /\ Ends("stopped", -1)
    /\ UNCHANGED <<xrtvars, given, memory, device, ctx, left, fetched, unknown, err>>

-----------------------------------------------------------------------------
(* process_results and the count: n records, bad of them not known to the   *)
(* reference, which has m matches.  A buffer that does not hold the results *)
(* of this run may hold anything.  err is assigned again.                   *)
Mismatch(n, m) == IF n = m THEN 0 ELSE 1

Harvest ==
    /\ pc = "harvest"
    /\ \E n, bad, m \in Counts :
          /\ bad <= n
          /\ fetched = "results" => n = m /\ bad = 0
          /\ unknown' = IF check THEN bad ELSE 0
          /\ err' = IF check THEN Mismatch(n, m) - bad ELSE 0
    /\ pc' = "release"
    /\ UNCHANGED <<xrtvars, given, memory, device, ctx, left, fetched, outcome, faults>>

(* The result buffer cannot be mapped: process_results returns -1.  Without *)
(* a result file it does so too, and fclose then crashes.                   *)
HarvestFails ==
    /\ pc = "harvest" /\ Fault
    /\ \/ /\ \E m \in Counts : err' = -1 + (IF check THEN Mismatch(0, m) ELSE 0)
          /\ pc' = "release" /\ UNCHANGED outcome
       \/ Ends("crashed", 139) /\ UNCHANGED err
    /\ UNCHANGED <<xrtvars, given, memory, device, ctx, left, fetched, unknown>>

-----------------------------------------------------------------------------
(* The end of the job and of main. *)
\* Mutant: the packet buffer object is forgotten.
JobObjectsLess == {"result", "exec"}
JobObjects     == {"packet", "result", "exec"}

FreeBOs(us) == bo' = [u \in Uses |-> IF u \in us /\ bo[u] = "open" THEN "freed" ELSE bo[u]]

ReleaseJob ==
    /\ pc = "release"
    /\ FreeBOs(JobObjects)
    /\ pc' = "free"
    /\ UNCHANGED <<xrtvars, given, host, device, ctx, left, fetched, unknown, err, outcome, faults>>

(* Memory that was never allocated is freed as well. *)
FreePackets ==
    /\ pc = "free"
    /\ \/ /\ host' = [host EXCEPT !["packet"] = "freed"]
          /\ pc' = "release regex" /\ UNCHANGED outcome
       \/ host["packet"] = "wild" /\ Ends("crashed", 134) /\ UNCHANGED host
    /\ UNCHANGED <<xrtvars, given, bo, device, ctx, left, fetched, unknown, err, faults>>

ReleaseRegex ==
    /\ pc = "release regex"
    /\ FreeBOs({"regex"})
    /\ pc' = "free regex"
    /\ UNCHANGED <<xrtvars, given, host, device, ctx, left, fetched, unknown, err, outcome, faults>>

FreeRegexes ==
    /\ pc = "free regex"
    /\ host' = [host EXCEPT !["regex"] = "freed"]
    /\ pc' = "close"
    /\ UNCHANGED <<xrtvars, given, bo, device, ctx, left, fetched, unknown, err, outcome, faults>>

CloseContext ==
    /\ pc = "close"
    /\ ctx' = "closed" /\ pc' = "verdict"
    /\ UNCHANGED <<xrtvars, given, memory, device, left, fetched, unknown, err, outcome, faults>>

\* Mutant: only a negative err is taken for a failure.
PrintedNegative == IF err >= 0 THEN "passed" ELSE "failed"
Printed         == IF err = 0 THEN "passed" ELSE "failed"

Verdict ==
    /\ pc = "verdict"
    /\ Ends(Printed, err)
    /\ UNCHANGED <<xrtvars, given, memory, device, ctx, left, fetched, unknown, err, faults>>

Ended == pc = "end" /\ UNCHANGED vars

-----------------------------------------------------------------------------
Host ==
    \/ InitXRT \/ InitEnds \/ OpenContext \/ OpenContextFails
    \/ Compile \/ Parse \/ CutLine \/ Prepare
    \/ SyncRegex \/ SyncPacket \/ SyncFails
    \/ BuildCommand \/ ExecBuf \/ ExecBufFails \/ ExecWait
    \/ SyncResult \/ SyncResultFails \/ Harvest \/ HarvestFails
    \/ ReleaseJob \/ FreePackets \/ ReleaseRegex \/ FreeRegexes \/ CloseContext
    \/ Verdict

Next == Host \/ ExecWaitFails \/ KernelFinishes \/ Ended

Spec == Init /\ [][Next]_vars

(* The process is scheduled, and a kernel finishes a command with proper    *)
(* input.  Nothing is assumed of one without, and waiting need not fail.    *)
Fairness == WF_vars(Host) /\ WF_vars(cmd = "running" /\ KernelFinishes)
FairSpec == Spec /\ Fairness

-----------------------------------------------------------------------------
(* Types. *)
TypeOK ==
    /\ Xrt!TypeOK
    /\ check \in BOOLEAN
    /\ regex \in Regexes \cup {"unread"} /\ packets \in Packets \cup {"unread"}
    /\ pc \in Inputs \cup {"init", "context", "compile", "parse", "result", "exec", "submit",
            "wait", "fetch", "harvest", "release", "free", "release regex", "free regex",
            "close", "verdict", "end"}
    /\ host \in [Inputs -> {"none", "whole", "empty", "wild", "freed"}]
    /\ bo \in [Uses -> {"none", "open", "bad", "freed"}]
    /\ synced \subseteq Inputs
    /\ ctx \in {"none", "open", "closed"}
    /\ cmd \in {"none", "new", "running", "stray", "completed"}
    /\ left \in {"no", "signalled", "failed"}
    /\ written \in BOOLEAN
    /\ fetched \in {"nothing", "results", "leftover"}
    /\ unknown \in Counts
    /\ err \in Int /\ err <= 1
    /\ verdict \in {"none", "passed", "failed", "stopped", "threw", "exited", "crashed"}
    /\ status \in 0 .. 255
    /\ faults \in 0 .. MaxFaults

(* A command is only submitted on the compute unit initXRT has found, with  *)
(* buffers based on the first memory in use: what initXRT lets pass without *)
(* having found it (an index that is only less than or equal to the number  *)
(* of IPs of any kind, xrt_utils.h:129; no memory at all) goes no further.  *)
CommandOnFoundUnit ==
    cmd # "none" => /\ Xrt!IsKernel(cu_base_addr, cu_index)
                    /\ Xrt!IsFirstUsed(first_used_mem)

(* The device works on the program's own memory: that of an input is not    *)
(* freed before its buffer object, and no buffer object before the command  *)
(* has finished.  Only the wait loop sees to the latter, so that a failing  *)
(* xclExecWait is the one thing that breaks it (csre-st.cpp:295, 334-344).  *)
MemoryOutlivesDevice ==
    /\ \A u \in Inputs : host[u] = "freed" => bo[u] # "open"
    /\ left # "failed" /\ pc # "end" => \A u \in Uses : bo[u] = "freed" => cmd = "completed"

(* With both inputs taken and no failing call the run ends in TEST PASSED,  *)
(* with this run's results read and everything released, once initXRT has   *)
(* found its unit.                                                          *)
CleanRunPasses ==
    pc = "end" /\ ctx # "none" /\ faults = 0 /\ regex = "taken" /\ packets = "taken" =>
        \/ /\ verdict = "passed" /\ fetched = "results" /\ ctx = "closed"
           /\ \A u \in Uses : bo[u] = "freed"
           /\ \A u \in Inputs : host[u] = "freed"
        \/ verdict = "exited"

(* The exit status is 0 when TEST PASSED! was printed and not otherwise, up *)
(* to 255 unknown records: err is their number, taken modulo 256 at the end *)
(* (csre-st.cpp:361-365; csre-mt.cpp:394 has the same).                     *)
StatusTellsVerdict ==
    pc = "end" /\ unknown < 256 => (status = 0 <=> verdict = "passed")

(* Up to the first failing call, and with proper input, the program does    *)
(* what a scan promises (Batch) for its one job: nothing is read back       *)
(* before the kernel has run, and it does not run before its input is there.*)
Clean == faults = 0 /\ {regex, packets} \subseteq {"unread", "taken"}
Done(p) == IF Clean /\ p THEN {0} ELSE {}

Promise == INSTANCE Batch WITH
    Jobs     <- {0},
    copied   <- Done(synced = Inputs),
    executed <- Done(written),
    fetched  <- Done(fetched # "nothing"),
    aborted  <- ~ Clean

KeepsScanPromise == Promise!Spec

(* The program ends, unless it submits a command without proper input. *)
Terminates == <>(pc = "end" \/ cmd = "stray")

(* README.md:185: with an expression the kernel cannot handle the program   *)
(* stops and reports errors; it does not print TEST PASSED! in the end.     *)
RefusalStops == regex = "refused" => verdict # "passed"
=============================================================================
