------------------------------- MODULE MtApp -------------------------------
(***************************************************************************)
(* The multi-threaded application, app/multi-thread/csre-mt.cpp, from the  *)
(* moment its input is prepared to its verdict.  Every job has its own     *)
(* compute unit and its own buffers; the main thread starts one thread per *)
(* job for each of three phases and joins them all before the next one:    *)
(* copyers move the input to the device and build the start command,       *)
(* workers submit the command and wait, resulters move the results back.   *)
(*                                                                         *)
(* All threads share one device handle.  What the code relies on of the    *)
(* runtime library under it: a submitted command runs concurrently with    *)
(* everything else; every command that finishes adds one to a counter of   *)
(* the handle; xclExecWait takes one from it, whosever command it was, or  *)
(* returns 0 after its time, which sends the caller round its loop; any    *)
(* call may fail.  A thread's return value is dropped by std::thread.      *)
(***************************************************************************)
EXTENDS Integers, FiniteSets, Functions

CONSTANTS
    Jobs,           \* job indices; job i drives compute unit i
    MaxFaults,      \* bound on the failing library calls of a behaviour
    MaxMatches      \* bound on the matches in one job's packets

ASSUME JobsAssumption   == IsFiniteSet(Jobs) /\ Jobs # {}
ASSUME BoundsAssumption == MaxFaults \in Nat /\ MaxMatches \in Nat

VARIABLES
    phase,        \* what the main thread does: "copy", "work", "result", "verdict", "end"
    pc,           \* where the thread of each job is in this phase
    ctx,          \* contexts each compute unit has open
    lost,         \* jobs whose input was not prepared: sizes are 0, stale or unwritten
    bad,          \* <<job, "input" or "result">>: the buffer objects that were refused
    cmd,          \* each job's start command
    completions,  \* the handle's counter that xclExecWait takes from
    took,         \* history: workers that took a completion
    gaveup,       \* history: workers whose xclExecWait failed
    written,      \* jobs whose results are in device memory
    fetched,      \* jobs whose result buffer was synced, and what it held
    err,          \* err of main
    verdict,      \* what main printed last, and "aborted" for std::terminate
    said_failed,  \* "FAILED TEST" was printed
    faults        \* failed calls so far, refused buffers included

vars == <<phase, pc, ctx, lost, bad, cmd, completions, took, gaveup,
          written, fetched, err, verdict, said_failed, faults>>

(* Input preparation, before the threads.  The expressions are compiled     *)
(* once for every job: a refused file fails every one of these calls, a     *)
(* failing allocation only its own, and each failing call adds -1.  If the  *)
(* packet file is refused, -1 is added once and the jobs from the offending *)
(* line on have size 0, or all have the unwritten contents of malloc.       *)
(* Which jobs those are does not matter below.  The main thread goes on in  *)
(* any case, and so it does when a buffer object is refused.  Runs that the *)
(* reference ends here, at a file it cannot read, do not get to the threads.*)
Nothing  == [err |-> 0, lost |-> {}]
Compiled == {[err |-> -Cardinality(L), lost |-> L] : L \in SUBSET Jobs}
Parsed   == {Nothing} \cup {[err |-> -1, lost |-> L] : L \in (SUBSET Jobs) \ {{}}}
Prepared == {[err |-> c.err + p.err, lost |-> c.lost \cup p.lost] : c \in Compiled, p \in Parsed}

(* A job's buffer objects: "input" stands for the two of its expressions    *)
(* and its packets.                                                         *)
Buffers     == Jobs \X {"input", "result"}
NoResult    == {i \in Jobs : <<i, "result">> \in bad}
NoBuffer(i) == <<i, "input">> \in bad \/ i \in NoResult

Init ==
    /\ phase = "copy"
    /\ pc  = [i \in Jobs |-> "start"]
    /\ ctx = [i \in Jobs |-> 0]
    /\ cmd = [i \in Jobs |-> "blank"]
    /\ \E p \in Prepared : err = p.err /\ lost = p.lost
    /\ bad \in {b \in SUBSET Buffers : Cardinality(b) <= MaxFaults}
    /\ completions = 0
    /\ took = {} /\ gaveup = {} /\ written = {}
    /\ fetched = [i \in Jobs |-> "nothing"]
    /\ verdict = "none"
    /\ said_failed = FALSE
    /\ faults = Cardinality(bad)

-----------------------------------------------------------------------------
(* The calls all three kinds of thread make. *)
At(i, p, l) == phase = p /\ pc[i] = l
Goto(i, l)  == pc' = [pc EXCEPT ![i] = l]
Fault       == faults < MaxFaults /\ faults' = faults + 1

device  == <<cmd, completions, took, gaveup, written>>
outcome == <<err, verdict, said_failed>>

(* xclOpenContext; when it fails the thread throws, nobody catches it, and  *)
(* std::terminate ends the process.                                         *)
\* Mutant: the call is missing.
OpensNothing(i) == UNCHANGED ctx
Opens(i) == ctx' = [ctx EXCEPT ![i] = @ + 1]

OpenContext(i) ==
    /\ phase \in {"copy", "work", "result"} /\ pc[i] = "start"
    /\ Goto(i, "opened")
    /\ Opens(i)
    /\ UNCHANGED <<phase, lost, bad, device, fetched, outcome, faults>>

OpenContextFails(i) ==
    /\ phase \in {"copy", "work", "result"} /\ pc[i] = "start"
    /\ Fault
    /\ phase' = "end" /\ verdict' = "aborted"
    /\ UNCHANGED <<pc, ctx, lost, bad, device, fetched, err, said_failed>>

(* The last call of every thread that does not return early. *)
CloseContext(i) ==
    /\ \/ At(i, "copy", "built") \/ At(i, "work", "waited") \/ At(i, "result", "synced")
    /\ Goto(i, "returned")
    /\ ctx' = [ctx EXCEPT ![i] = @ - 1]
    /\ UNCHANGED <<phase, lost, bad, device, fetched, outcome, faults>>

-----------------------------------------------------------------------------
(* Copyers.  Every failing call returns at once: the context stays open and *)
(* the command is not built.  Calls on a buffer without input may fail, one *)
(* of the calls on the buffers of a job does if one of them was refused:    *)
(* the result buffer's address is asked for here, too.                      *)
CopyRegex(i) ==
    /\ At(i, "copy", "opened")
    /\ Goto(i, "regex")
    /\ UNCHANGED <<phase, ctx, lost, bad, device, fetched, outcome, faults>>

CopyPacket(i) ==
    /\ At(i, "copy", "regex")
    /\ Goto(i, "packet")
    /\ UNCHANGED <<phase, ctx, lost, bad, device, fetched, outcome, faults>>

CopyFails(i) ==
    /\ phase = "copy" /\ pc[i] \in {"opened", "regex", "packet"}
    /\ IF i \in lost \/ NoBuffer(i) THEN UNCHANGED faults ELSE Fault
    /\ Goto(i, "returned")
    /\ UNCHANGED <<phase, ctx, lost, bad, device, fetched, outcome>>

\* Mutant: ERT_CMD_STATE_NEW is not stored.
CommandNotNew == "blank"
BuiltCommand  == "new"

BuildCommand(i) ==
    /\ At(i, "copy", "packet") /\ ~ NoBuffer(i)
    /\ Goto(i, "built")
    /\ cmd' = [cmd EXCEPT ![i] = BuiltCommand]
    /\ UNCHANGED <<phase, ctx, lost, bad, completions, took, gaveup, written,
                   fetched, outcome, faults>>

(* The command is written through a bad pointer when its own buffer was     *)
(* refused or not mapped.                                                   *)
BuildCrashes(i) ==
    /\ At(i, "copy", "packet") /\ ~ NoBuffer(i)
    /\ Fault
    /\ phase' = "end" /\ verdict' = "aborted"
    /\ UNCHANGED <<pc, ctx, lost, bad, device, fetched, err, said_failed>>

-----------------------------------------------------------------------------
(* Workers.  A blank command may be refused or taken; what a taken one then *)
(* does is the device's affair ("stray").                                   *)
ExecBuf(i) ==
    /\ At(i, "work", "opened")
    /\ Goto(i, "issued")
    /\ cmd' = [cmd EXCEPT ![i] = IF @ = "new" THEN "running" ELSE "stray"]
    /\ UNCHANGED <<phase, ctx, lost, bad, completions, took, gaveup, written,
                   fetched, outcome, faults>>

ExecBufFails(i) ==
    /\ At(i, "work", "opened")
    /\ IF cmd[i] = "blank" THEN UNCHANGED faults ELSE Fault
    /\ Goto(i, "returned")
    /\ said_failed' = TRUE
    /\ UNCHANGED <<phase, ctx, lost, bad, device, fetched, err, verdict>>

(* xclExecWait returns something else than 0 and the loop ends.  A timeout  *)
(* returns 0, prints a line and changes nothing.                            *)
\* Mutant: a timeout leaves the loop too.
LeavesOnTimeout(i) == took' = took \cup {i} /\ UNCHANGED completions
TakeCompletion(i) ==
    /\ completions > 0
    /\ completions' = completions - 1
    /\ took' = took \cup {i}

\* Mutant: a completion does not end the loop.
WaitsAgain == "issued"
AfterWait  == "waited"

ExecWait(i) ==
    /\ At(i, "work", "issued")
    /\ TakeCompletion(i)
    /\ Goto(i, AfterWait)
    /\ UNCHANGED <<phase, ctx, lost, bad, cmd, gaveup, written, fetched, outcome, faults>>

(* A negative result is not 0 either and also ends the loop. *)
ExecWaitFails(i) ==
    /\ At(i, "work", "issued")
    /\ Fault
    /\ gaveup' = gaveup \cup {i}
    /\ Goto(i, "waited")
    /\ UNCHANGED <<phase, ctx, lost, bad, cmd, completions, took, written, fetched, outcome>>

(* The device.  A command can finish in any phase after it was submitted. *)
Finish(i) ==
    /\ phase # "end"
    /\ cmd[i] = "running"
    /\ cmd' = [cmd EXCEPT ![i] = "completed"]
    /\ completions' = completions + 1
    /\ written' = written \cup {i}
    /\ UNCHANGED <<phase, pc, ctx, lost, bad, took, gaveup, fetched, outcome, faults>>

FinishStray(i) ==
    /\ phase # "end"
    /\ cmd[i] = "stray"
    /\ cmd' = [cmd EXCEPT ![i] = "completed"]
    /\ completions' = completions + 1
    /\ UNCHANGED <<phase, pc, ctx, lost, bad, took, gaveup, written, fetched, outcome, faults>>

-----------------------------------------------------------------------------
(* Resulters.  The device buffer is not cleared before the run: without     *)
(* results of this run it holds whatever an earlier one left.               *)
SyncResult(i) ==
    /\ At(i, "result", "opened") /\ i \notin NoResult
    /\ Goto(i, "synced")
    /\ fetched' = [fetched EXCEPT ![i] = IF i \in written THEN "results" ELSE "leftover"]
    /\ UNCHANGED <<phase, ctx, lost, bad, device, outcome, faults>>

SyncResultFails(i) ==
    /\ At(i, "result", "opened")
    /\ IF i \in NoResult THEN UNCHANGED faults ELSE Fault
    /\ Goto(i, "returned")
    /\ UNCHANGED <<phase, ctx, lost, bad, device, fetched, outcome>>

-----------------------------------------------------------------------------
(* The main thread: join all, then the next phase. *)
\* Mutant: the first join that returns is enough.
SomeReturned == \E i \in Jobs : pc[i] = "returned"
AllReturned  == \A i \in Jobs : pc[i] = "returned"

NextPhase == IF phase = "copy" THEN "work" ELSE IF phase = "work" THEN "result" ELSE "verdict"

JoinAll ==
    /\ phase \in {"copy", "work", "result"}
    /\ AllReturned
    /\ phase' = NextPhase
    /\ pc' = [i \in Jobs |-> "start"]
    /\ UNCHANGED <<ctx, lost, bad, device, fetched, outcome, faults>>

(* What process_results finds in job i's buffer when the reference has m    *)
(* matches for it: n records, bad of them unknown to the reference.  A      *)
(* buffer that was not synced is all zero, which reads as empty; a kernel   *)
(* without input, like an earlier run, may have left anything.              *)
Anything == [n : 0 .. MaxMatches, bad : 0 .. MaxMatches]
Records(i, m) ==
    CASE fetched[i] = "nothing"  -> {[n |-> 0, bad |-> 0]}
      [] fetched[i] = "results"  -> IF i \in lost THEN Anything ELSE {[n |-> m, bad |-> 0]}
      [] fetched[i] = "leftover" -> Anything

(* The harvest loop adds -1 for each unknown record, the check of the total *)
(* adds 1; without checking neither is done.                                *)
Mismatch(found, expected) == IF found = expected THEN 0 ELSE 1

\* Mutant: the number of records is compared for each job.
HarvestedByJob(check, m, r) ==
    IF check
    THEN err - SumFunction([i \in Jobs |-> r[i].bad])
             + SumFunction([i \in Jobs |-> Mismatch(r[i].n, m[i])])
    ELSE err
Harvested(check, m, r) ==
    IF check
    THEN err - SumFunction([i \in Jobs |-> r[i].bad])
             + Mismatch(SumFunction([i \in Jobs |-> r[i].n]), SumFunction(m))
    ELSE err

(* Harvest, cleanup and verdict.  A buffer that cannot be mapped counts as  *)
(* -1 and holds no records; one that was refused never can be.              *)
Unmapped == [n |-> 0, bad |-> 0]

Verdict ==
    /\ phase = "verdict"
    /\ \E check \in BOOLEAN, m \in [Jobs -> 0 .. MaxMatches], u \in SUBSET Jobs :
       /\ NoResult \subseteq u
       /\ faults' = faults + Cardinality(u \ NoResult) /\ faults' <= MaxFaults
       /\ \E r \in [Jobs -> Anything] :
          /\ \A i \in Jobs : /\ r[i].bad <= r[i].n
                             /\ r[i] \in IF i \in u THEN {Unmapped} ELSE Records(i, m[i])
          /\ err' = Harvested(check, m, r) - Cardinality(u)
          /\ verdict' = IF err' = 0 THEN "passed" ELSE "failed"
    /\ phase' = "end"
    /\ UNCHANGED <<pc, ctx, lost, bad, device, fetched, said_failed>>

(* Without a result file fclose crashes; the cleanup may, when it frees     *)
(* pointers a failed parse has not written.                                 *)
VerdictCrashes ==
    /\ phase = "verdict"
    /\ IF lost = Jobs THEN UNCHANGED faults ELSE Fault
    /\ phase' = "end" /\ verdict' = "aborted"
    /\ UNCHANGED <<pc, ctx, lost, bad, device, fetched, err, said_failed>>

Ended == phase = "end" /\ UNCHANGED vars

-----------------------------------------------------------------------------
ThreadCall(i) ==
    \/ OpenContext(i) \/ CloseContext(i)
    \/ CopyRegex(i) \/ CopyPacket(i) \/ BuildCommand(i)
    \/ ExecBuf(i) \/ ExecWait(i)
    \/ SyncResult(i)

CallFails(i) ==
    \/ OpenContextFails(i) \/ CopyFails(i) \/ BuildCrashes(i) \/ ExecBufFails(i)
    \/ ExecWaitFails(i) \/ SyncResultFails(i)

Next ==
    \/ \E i \in Jobs : ThreadCall(i) \/ CallFails(i) \/ Finish(i) \/ FinishStray(i)
    \/ JoinAll \/ Verdict \/ VerdictCrashes \/ Ended

Spec == Init /\ [][Next]_vars

(* Threads and the main thread are scheduled, library calls return, and a   *)
(* compute unit finishes a command that has input.  Nothing is assumed of a *)
(* stray command or of one without input, and no call is required to fail   *)
(* but the last one a thread makes on a buffer that was refused.            *)
Fairness ==
    /\ \A i \in Jobs : WF_vars(ThreadCall(i)) /\ WF_vars(i \notin lost /\ Finish(i))
    /\ \A i \in Jobs : /\ WF_vars(NoBuffer(i) /\ pc[i] = "packet" /\ CopyFails(i))
                       /\ WF_vars(i \in NoResult /\ SyncResultFails(i))
    /\ WF_vars(JoinAll) /\ WF_vars(Verdict)

FairSpec == Spec /\ Fairness

-----------------------------------------------------------------------------
Places == {"start", "opened", "regex", "packet", "built", "issued", "waited",
           "synced", "returned"}

(* Types; err is an integer, a sum over the jobs. *)
TypeOK ==
    /\ phase \in {"copy", "work", "result", "verdict", "end"}
    /\ pc \in [Jobs -> Places]
    /\ ctx \in [Jobs -> Nat]
    /\ lost \subseteq Jobs /\ bad \subseteq Buffers
    /\ cmd \in [Jobs -> {"blank", "new", "running", "stray", "completed"}]
    /\ completions \in Nat
    /\ took \subseteq Jobs /\ gaveup \subseteq Jobs /\ written \subseteq Jobs
    /\ fetched \in [Jobs -> {"nothing", "results", "leftover"}]
    /\ verdict \in {"none", "passed", "failed", "aborted"}
    /\ said_failed \in BOOLEAN
    /\ faults \in 0 .. MaxFaults

Completed == {i \in Jobs : cmd[i] = "completed"}
Pending   == {i \in Jobs : cmd[i] \in {"running", "stray"}}

(* The handle's counter holds one unit for every finished command nobody    *)
(* has been woken for; a worker may be woken by another job's command.      *)
CompletionsConserved == completions + Cardinality(took) = Cardinality(Completed)

(* When the resulters run, and when the results are read, no command is     *)
(* left on a compute unit, although no worker waits for its own command:    *)
(* each takes one completion, all are joined, and so the number taken is    *)
(* the number submitted (csre-mt.cpp:282-310).  A failing xclExecWait ends  *)
(* the loop like a completion: each one leaves at most one command behind,  *)
(* not always the one of the worker that gave up.                           *)
PhaseBarrier ==
    phase \in {"result", "verdict"} => Cardinality(Pending) <= Cardinality(gaveup)

(* Results of an earlier run are not taken for results of this one: the     *)
(* buffers are not cleared, so only the order of the phases keeps leftovers *)
(* out.  A buffer fetched with leftovers belongs to a job whose command was *)
(* not submitted or not built, never to one that ran and was slow.          *)
NoLeftovers ==
    gaveup = {} => \A i \in Jobs : fetched[i] = "leftover" =>
        i \notin written /\ cmd[i] # "running"

(* Refused input does not stop the run (csre-mt.cpp:153-165), and the count *)
(* that is then wrong adds a 1 that makes up for a -1.  It does so once: no *)
(* run passes that had more than one error before its harvest.              *)
OneErrorCancelled == [][verdict' = "passed" => err >= -1]_vars

(* Without a failing call and with all input prepared the run ends in TEST  *)
(* PASSED, every context closed and every job's own results fetched.        *)
CleanRunPasses ==
    phase = "end" /\ faults = 0 /\ lost = {} /\ bad = {} =>
        /\ verdict = "passed"
        /\ \A i \in Jobs : ctx[i] = 0 /\ fetched[i] = "results"

(* Up to the first failing call, and when all input was prepared, the       *)
(* threads do what a scan promises (Batch): in particular no job's results  *)
(* are fetched before every job's command has run, and no command runs      *)
(* before every job's input is there.                                       *)
Clean == faults = 0 /\ lost = {} /\ bad = {}
IfClean(S) == IF Clean THEN S ELSE {}

Promise == INSTANCE Batch WITH
    copied   <- IfClean({i \in Jobs : cmd[i] # "blank"}),
    executed <- IfClean(written),
    fetched  <- IfClean({i \in Jobs : fetched[i] = "results"}),
    aborted  <- ~ Clean

KeepsScanPromise == Promise!Spec

(* The program ends, unless a copyer failed and its job's command was never *)
(* built or there is a job without input: failing submissions, waits and    *)
(* result transfers do not hang it, and no worker waits for a completion    *)
(* another one has taken from it.                                           *)
Unbuilt    == phase # "copy" /\ \E i \in Jobs : cmd[i] \in {"blank", "stray"}
Terminates == <>(phase = "end" \/ Unbuilt \/ lost # {})

(* csre-mt.cpp:292 prints FAILED TEST when a command cannot be submitted;   *)
(* a run that printed it does not print TEST PASSED! at the end.  Said of   *)
(* the runs with all their input and buffers, where err has nothing to add  *)
(* up to 0 with.                                                            *)
FailedTestIsNotPassed ==
    said_failed /\ lost = {} /\ bad = {} => verdict # "passed"
=============================================================================
