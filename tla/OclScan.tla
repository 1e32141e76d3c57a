------------------------------- MODULE OclScan -------------------------------
(***************************************************************************)
(* CSRE::scan of runtime/ocl/csre.cpp: one call creates the buffers of     *)
(* every kernel, then enqueues for every kernel a migration of its input,  *)
(* a task, and a migration of its results, with a flush and a finish       *)
(* behind each of the three loops.  The queue is an out-of-order one: a    *)
(* command runs any time after the events of its wait list, and finish     *)
(* blocks until the queue is empty.  Every call is wrapped in OCL_CHECK,   *)
(* which ends the process when it fails.                                   *)
(*                                                                         *)
(* A process may scan several times with the same host buffers.  Contents  *)
(* are abstracted to the number of the scan they come from, 0 for none.    *)
(***************************************************************************)
EXTENDS Integers

CONSTANTS
    NumKernels,   \* m_number_of_kernels
    MaxScans      \* bound on the calls of a process

ASSUME NumKernelsAssumption == NumKernels \in Nat \ {0}
ASSUME MaxScansAssumption   == MaxScans \in Nat

Kernels == 0 .. NumKernels - 1
Ops     == {"copy", "exec", "result"}

VARIABLES
    step,     \* what the host does: see Steps
    i,        \* the index of the loop it is in
    scans,    \* calls so far
    queue,    \* the command queue: "none", "queued" or "complete" per op and kernel
    input,    \* device memory: the input of each kernel
    output,   \* device memory: the results of each kernel
    result    \* host memory: the result buffers

vars == <<step, i, scans, queue, input, output, result>>

Steps == {"idle", "setup", "exited"} \cup
         {"enqueue copy", "enqueue exec", "enqueue result"} \cup
         {"finish copy", "finish exec", "finish result"}

Init ==
    /\ step = "idle" /\ i = 0 /\ scans = 0
    /\ queue  = [op \in Ops |-> [k \in Kernels |-> "none"]]
    /\ input  = [k \in Kernels |-> 0]
    /\ output = [k \in Kernels |-> 0]
    /\ result = [k \in Kernels |-> 0]

device == <<input, output, result>>

-----------------------------------------------------------------------------
(* The host. *)
Scan ==
    /\ step = "idle" /\ scans < MaxScans
    /\ scans' = scans + 1
    /\ step' = "setup" /\ i' = 0
    /\ queue' = [op \in Ops |-> [k \in Kernels |-> "none"]]
    /\ UNCHANGED device

\* Mutant: one round too many.
MoreKernelsOffByOne == i < NumKernels
MoreKernels == i + 1 < NumKernels

(* The end of a round of a loop, whose successor is the step s. *)
Loop(s) ==
    IF MoreKernels THEN i' = i + 1 /\ UNCHANGED step ELSE i' = 0 /\ step' = s

(* Buffers in the memory of the device, and the arguments of the kernel.    *)
(* They are new ones in every call: what an earlier scan left is gone.      *)
SetupKernel ==
    /\ step = "setup"
    /\ input'  = [input EXCEPT ![i] = 0]
    /\ output' = [output EXCEPT ![i] = 0]
    /\ Loop("enqueue copy")
    /\ UNCHANGED <<scans, queue, result>>

Enqueue(op, s) ==
    /\ step = s
    /\ queue' = [queue EXCEPT ![op][i] = "queued"]
    /\ UNCHANGED <<scans, device>>

EnqueueCopy   == Enqueue("copy", "enqueue copy") /\ Loop("finish copy")
EnqueueExec   == Enqueue("exec", "enqueue exec") /\ Loop("finish exec")
EnqueueResult == Enqueue("result", "enqueue result") /\ Loop("finish result")

\* Mutant: the queue is only flushed.
QueueFlushed == TRUE
QueueEmpty == \A op \in Ops, k \in Kernels : queue[op][k] # "queued"

Finish(s, next) ==
    /\ step = s
    /\ QueueEmpty
    /\ step' = next
    /\ UNCHANGED <<i, scans, queue, device>>

FinishCopy   == Finish("finish copy", "enqueue exec")
FinishExec   == Finish("finish exec", "enqueue result")
FinishResult == Finish("finish result", "idle")

(* Any call, or a command of the queue, fails: exit. *)
CheckFails ==
    /\ step \notin {"idle", "exited"}
    /\ step' = "exited"
    /\ UNCHANGED <<i, scans, queue, device>>

-----------------------------------------------------------------------------
(* The queue and the device. *)
(* A command waits for commands of the same kernel. *)
\* Mutant: the event of the task is in its own wait list.
WaitListWithOwn(op) ==
    CASE op = "copy" -> {} [] op = "exec" -> {"copy", "exec"} [] op = "result" -> {"exec"}
WaitList(op) ==
    CASE op = "copy" -> {} [] op = "exec" -> {"copy"} [] op = "result" -> {"exec"}

Perform(op, k) ==
    /\ step # "exited"
    /\ queue[op][k] = "queued"
    /\ \A o \in WaitList(op) : queue[o][k] = "complete"
    /\ queue' = [queue EXCEPT ![op][k] = "complete"]
    /\ input'  = IF op = "copy"   THEN [input EXCEPT ![k] = scans]     ELSE input
    /\ output' = IF op = "exec"   THEN [output EXCEPT ![k] = input[k]]  ELSE output
    /\ result' = IF op = "result" THEN [result EXCEPT ![k] = output[k]] ELSE result
    /\ UNCHANGED <<step, i, scans>>

Ended ==
    /\ step = "exited" \/ (step = "idle" /\ scans = MaxScans)
    /\ UNCHANGED vars

-----------------------------------------------------------------------------
Host ==
    \/ SetupKernel
    \/ EnqueueCopy \/ FinishCopy \/ EnqueueExec \/ FinishExec
    \/ EnqueueResult \/ FinishResult

Next ==
    \/ Scan \/ Host \/ CheckFails
    \/ \E op \in Ops, k \in Kernels : Perform(op, k)
    \/ Ended

Spec == Init /\ [][Next]_vars

(* The host goes on, and a command whose wait list is complete runs.  When  *)
(* it never did, finish would block: the code has no timeout.               *)
Fairness == WF_vars(Host) /\ \A op \in Ops, k \in Kernels : WF_vars(Perform(op, k))
FairSpec == Spec /\ Fairness

-----------------------------------------------------------------------------
(* Types. *)
TypeOK ==
    /\ step \in Steps
    /\ i \in Kernels
    /\ scans \in 0 .. MaxScans
    /\ queue \in [Ops -> [Kernels -> {"none", "queued", "complete"}]]
    /\ input \in [Kernels -> 0 .. MaxScans]
    /\ output \in [Kernels -> 0 .. MaxScans]
    /\ result \in [Kernels -> 0 .. MaxScans]

(* A scan that returns has put results of its own input into every result   *)
(* buffer: none is from an earlier scan and none is untouched, and nothing  *)
(* is left in the queue that could write to the buffers, or read those the  *)
(* caller now frees, after the return (csre.cpp:234-244).                   *)
ResultsAreOfThisScan ==
    step = "idle" =>
        /\ \A k \in Kernels : result[k] = scans
        /\ \A op \in Ops, k \in Kernels : queue[op][k] # "queued"

(* What a scan promises (Batch), the copy, exec and result times included:  *)
(* each of the three is taken when its own commands are complete and those  *)
(* of the next phase are not enqueued.  The order of a job's own commands   *)
(* follows from their wait lists; the phases only from the three finishes.  *)
IfRunning(S)  == IF step = "exited" THEN {} ELSE S
Complete(op)  == IfRunning({k \in Kernels : queue[op][k] = "complete"})

Promise == INSTANCE Batch WITH
    Jobs     <- Kernels,
    copied   <- Complete("copy"),
    executed <- Complete("exec"),
    fetched  <- Complete("result"),
    aborted  <- step = "exited"

KeepsScanPromise == Promise!Spec

(* Every scan returns, unless the process ends in it. *)
ScansReturn == []<>(step \in {"idle", "exited"})
=============================================================================
