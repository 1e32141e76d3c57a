---------------------------- MODULE OclScanProofs ----------------------------
(***************************************************************************)
(* CSRE::scan for every number of kernels and of scans: it keeps what      *)
(* Batch promises, and the results it returns are those of its own input.  *)
(*                                                                         *)
(* The inductive invariant says which commands are in the queue at each    *)
(* step of the host, and that a complete command has left the data of this *)
(* scan where it writes.                                                   *)
(***************************************************************************)
EXTENDS OclScan, TLAPS

None(op)    == \A k \in Kernels : queue[op][k] = "none"
Done(op)    == \A k \in Kernels : queue[op][k] = "complete"
UpTo(op, n) == \A k \in Kernels : queue[op][k] = "none" <=> k >= n

QueueShape ==
    /\ step = "idle" =>
          \/ scans = 0 /\ None("copy") /\ None("exec") /\ None("result")
          \/ Done("copy") /\ Done("exec") /\ Done("result")
    /\ step = "setup"          => None("copy") /\ None("exec") /\ None("result")
    /\ step = "enqueue copy"   => UpTo("copy", i) /\ None("exec") /\ None("result")
    /\ step = "finish copy"    => UpTo("copy", NumKernels) /\ None("exec") /\ None("result")
    /\ step = "enqueue exec"   => Done("copy") /\ UpTo("exec", i) /\ None("result")
    /\ step = "finish exec"    => Done("copy") /\ UpTo("exec", NumKernels) /\ None("result")
    /\ step = "enqueue result" => Done("copy") /\ Done("exec") /\ UpTo("result", i)
    /\ step = "finish result"  => Done("copy") /\ Done("exec") /\ UpTo("result", NumKernels)

LoopsFromZero == step \in {"finish copy", "finish exec", "finish result"} => i = 0

DataOfThisScan ==
    /\ scans = 0 => \A k \in Kernels : result[k] = 0
    /\ \A k \in Kernels :
          /\ queue["copy"][k]   = "complete" => input[k] = scans
          /\ queue["exec"][k]   = "complete" => output[k] = scans
          /\ queue["result"][k] = "complete" => result[k] = scans

OInv == TypeOK /\ QueueShape /\ LoopsFromZero /\ DataOfThisScan

-----------------------------------------------------------------------------
LEMMA InitOInv == Init => OInv
<1> SUFFICES ASSUME Init PROVE OInv
    OBVIOUS
<1>1. TypeOK
    BY NumKernelsAssumption, MaxScansAssumption DEF Init, TypeOK, Steps, Kernels
<1>2. \A op \in Ops, k \in Kernels : queue[op][k] = "none"
    BY DEF Init, Ops
<1>3. QueueShape /\ LoopsFromZero /\ DataOfThisScan
    BY <1>2 DEF Init, QueueShape, LoopsFromZero, DataOfThisScan, None, Ops
<1> QED
    BY <1>1, <1>3 DEF OInv

(* A round of a loop leaves the index a kernel and the step a step. *)
LEMMA LoopTypes ==
    ASSUME TypeOK, NEW s \in Steps, Loop(s)
    PROVE  i' \in Kernels /\ step' \in Steps
<1>1. CASE MoreKernels
    BY <1>1, NumKernelsAssumption DEF Loop, MoreKernels, TypeOK, Kernels
<1>2. CASE ~ MoreKernels
    BY <1>2, NumKernelsAssumption DEF Loop, TypeOK, Kernels
<1> QED
    BY <1>1, <1>2

LEMMA EnqueueTypes ==
    ASSUME TypeOK, NEW op \in Ops, NEW s \in Steps, Enqueue(op, s)
    PROVE  /\ queue' \in [Ops -> [Kernels -> {"none", "queued", "complete"}]]
           /\ UNCHANGED <<scans, input, output, result>>
BY DEF Enqueue, TypeOK, device

(* Types are kept by every step. *)
LEMMA TypeKept == TypeOK /\ [Next]_vars => TypeOK'
<1> SUFFICES ASSUME TypeOK, [Next]_vars PROVE TypeOK'
    OBVIOUS
<1>0. {"exited", "idle", "setup", "enqueue copy", "enqueue exec", "enqueue result",
       "finish copy", "finish exec", "finish result"} = Steps
    BY DEF Steps
<1>1. CASE Scan
  <2>0. scans \in 0 .. MaxScans /\ scans < MaxScans /\ scans' = scans + 1 /\ step' = "setup"
      BY <1>1 DEF Scan, TypeOK
  <2>1. scans' \in 0 .. MaxScans
      BY <2>0, MaxScansAssumption
  <2>2. i' \in Kernels
      BY <1>1, NumKernelsAssumption DEF Scan, Kernels
  <2>3. queue' \in [Ops -> [Kernels -> {"none", "queued", "complete"}]]
      BY <1>1 DEF Scan
  <2>4. step' \in Steps
      BY <1>0, <2>0
  <2> QED
      BY <1>1, <2>1, <2>2, <2>3, <2>4 DEF Scan, device, TypeOK
<1>2. CASE SetupKernel
  <2>1. i' \in Kernels /\ step' \in Steps
      BY <1>0, <1>2, LoopTypes DEF SetupKernel
  <2>2. 0 \in 0 .. MaxScans
      BY MaxScansAssumption
  <2>3. input' \in [Kernels -> 0 .. MaxScans] /\ output' \in [Kernels -> 0 .. MaxScans]
      BY <1>2, <2>2 DEF SetupKernel, TypeOK
  <2> QED
      BY <1>2, <2>1, <2>3 DEF SetupKernel, TypeOK
<1>3. CASE EnqueueCopy \/ EnqueueExec \/ EnqueueResult
  <2>1. i' \in Kernels /\ step' \in Steps
      BY <1>0, <1>3, LoopTypes DEF EnqueueCopy, EnqueueExec, EnqueueResult
  <2>2. /\ queue' \in [Ops -> [Kernels -> {"none", "queued", "complete"}]]
        /\ UNCHANGED <<scans, input, output, result>>
      BY <1>0, <1>3, EnqueueTypes DEF EnqueueCopy, EnqueueExec, EnqueueResult, Ops
  <2> QED
      BY <2>1, <2>2 DEF TypeOK
<1>4. CASE FinishCopy \/ FinishExec \/ FinishResult
    BY <1>0, <1>4 DEF FinishCopy, FinishExec, FinishResult, Finish, device, TypeOK
<1>5. CASE CheckFails
    BY <1>0, <1>5 DEF CheckFails, device, TypeOK
<1>6. ASSUME NEW op \in Ops, NEW k \in Kernels, Perform(op, k) PROVE TypeOK'
    BY <1>6 DEF Perform, TypeOK
<1>7. CASE Ended \/ UNCHANGED vars
    BY <1>7 DEF Ended, vars, TypeOK
<1> QED
    BY <1>1, <1>2, <1>3, <1>4, <1>5, <1>6, <1>7 DEF Next, Host

-----------------------------------------------------------------------------
(* What the steps do to the queue. *)
LEMMA EnqueueAdds ==
    ASSUME TypeOK, NEW op \in Ops, NEW s \in Steps, Enqueue(op, s), UpTo(op, i)
    PROVE  /\ \A k \in Kernels : queue'[op][k] = "none" <=> k >= i + 1
           /\ \A o \in Ops \ {op} : queue'[o] = queue[o]
<1>1. /\ queue'[op] = [queue[op] EXCEPT ![i] = "queued"]
      /\ \A o \in Ops \ {op} : queue'[o] = queue[o]
    BY DEF Enqueue, TypeOK
<1>2. /\ queue'[op][i] = "queued"
      /\ \A k \in Kernels \ {i} : queue'[op][k] = queue[op][k]
    BY <1>1 DEF TypeOK
<1> QED
    BY <1>1, <1>2 DEF UpTo, TypeOK, Kernels

(* A round of an enqueueing loop: one more command, or the loop is over and *)
(* every kernel has one. *)
LEMMA EnqueueRound ==
    ASSUME TypeOK, NEW op \in Ops, NEW s \in Steps, NEW t \in Steps,
           Enqueue(op, s), Loop(t), UpTo(op, i)
    PROVE  /\ \/ step' = s /\ UpTo(op, i)'
              \/ step' = t /\ i' = 0 /\ UpTo(op, NumKernels)'
           /\ \A o \in Ops \ {op} : queue'[o] = queue[o]
<1>1. /\ \A k \in Kernels : queue'[op][k] = "none" <=> k >= i + 1
      /\ \A o \in Ops \ {op} : queue'[o] = queue[o]
    BY EnqueueAdds
<1>2. CASE MoreKernels
  <2>1. step' = s /\ i' = i + 1
      BY <1>2 DEF Loop, Enqueue
  <2> QED
      BY <1>1, <2>1 DEF UpTo
<1>3. CASE ~ MoreKernels
  <2>1. step' = t /\ i' = 0
      BY <1>3 DEF Loop
  <2>2. i + 1 = NumKernels
      BY <1>3, NumKernelsAssumption DEF MoreKernels, TypeOK, Kernels
  <2> QED
      BY <1>1, <2>1, <2>2 DEF UpTo
<1> QED
    BY <1>1, <1>2, <1>3

LEMMA PerformCompletes ==
    ASSUME TypeOK, NEW op \in Ops, NEW k \in Kernels, Perform(op, k)
    PROVE  /\ queue[op][k] = "queued" /\ queue'[op][k] = "complete"
           /\ \A o \in Ops, n \in Kernels : o # op \/ n # k => queue'[o][n] = queue[o][n]
           /\ \A o \in Ops, n \in Kernels : queue'[o][n] = "none" <=> queue[o][n] = "none"
           /\ UNCHANGED <<step, i, scans>>
<1>1. /\ queue[op][k] = "queued" /\ queue'[op] = [queue[op] EXCEPT ![k] = "complete"]
      /\ \A o \in Ops \ {op} : queue'[o] = queue[o]
      /\ UNCHANGED <<step, i, scans>>
    BY DEF Perform, TypeOK
<1>2. queue'[op][k] = "complete" /\ \A n \in Kernels \ {k} : queue'[op][n] = queue[op][n]
    BY <1>1 DEF TypeOK
<1> QED
    BY <1>1, <1>2

LEMMA FinishedIsDone ==
    ASSUME TypeOK, QueueEmpty, NEW op \in Ops, UpTo(op, NumKernels)
    PROVE  Done(op)
<1> SUFFICES ASSUME NEW k \in Kernels PROVE queue[op][k] = "complete"
    BY DEF Done
<1>1. k < NumKernels
    BY NumKernelsAssumption DEF Kernels
<1>2. queue[op][k] # "none"
    BY <1>1, NumKernelsAssumption DEF UpTo, Kernels
<1> QED
    BY <1>2 DEF QueueEmpty, TypeOK

-----------------------------------------------------------------------------
(* The shape of the queue is kept by every step. *)
LEMMA ShapeKept == OInv /\ [Next]_vars => QueueShape' /\ LoopsFromZero'
<1> SUFFICES ASSUME OInv, [Next]_vars PROVE QueueShape' /\ LoopsFromZero'
    OBVIOUS
<1>0. TypeOK /\ QueueShape /\ LoopsFromZero /\ "copy" \in Ops /\ "exec" \in Ops /\ "result" \in Ops
    BY DEF OInv, Ops
<1>00. \A k \in Kernels : k >= 0 /\ i \in Kernels
    BY <1>0 DEF Kernels, TypeOK
<1>1. CASE Scan
  <2>1. step' = "setup" /\ None("copy")' /\ None("exec")' /\ None("result")'
      BY <1>1 DEF Scan, None, Ops
  <2> QED
      BY <2>1 DEF QueueShape, LoopsFromZero
<1>2. CASE SetupKernel
  <2>1. step = "setup" /\ queue' = queue
      BY <1>2 DEF SetupKernel
  <2>2. None("copy")' /\ None("exec")' /\ None("result")'
      BY <1>0, <2>1 DEF QueueShape, None
  <2>3. step' = "setup" \/ (step' = "enqueue copy" /\ i' = 0)
      BY <1>2, <2>1 DEF SetupKernel, Loop
  <2>4. i' = 0 => UpTo("copy", i)'
      BY <1>00, <2>2 DEF UpTo, None
  <2> QED
      BY <2>2, <2>3, <2>4 DEF QueueShape, LoopsFromZero
<1>3. CASE EnqueueCopy
  <2>1. UpTo("copy", i) /\ None("exec") /\ None("result")
      BY <1>0, <1>3 DEF EnqueueCopy, Enqueue, QueueShape
  <2>2. /\ \/ step' = "enqueue copy" /\ UpTo("copy", i)'
           \/ step' = "finish copy" /\ i' = 0 /\ UpTo("copy", NumKernels)'
        /\ None("exec")' /\ None("result")'
      BY <1>0, <1>3, <2>1, EnqueueRound DEF EnqueueCopy, None, Steps, Ops
  <2> QED
      BY <2>2 DEF QueueShape, LoopsFromZero
<1>4. CASE EnqueueExec
  <2>1. Done("copy") /\ UpTo("exec", i) /\ None("result")
      BY <1>0, <1>4 DEF EnqueueExec, Enqueue, QueueShape
  <2>2. /\ \/ step' = "enqueue exec" /\ UpTo("exec", i)'
           \/ step' = "finish exec" /\ i' = 0 /\ UpTo("exec", NumKernels)'
        /\ Done("copy")' /\ None("result")'
      BY <1>0, <1>4, <2>1, EnqueueRound DEF EnqueueExec, None, Done, Steps, Ops
  <2> QED
      BY <2>2 DEF QueueShape, LoopsFromZero
<1>5. CASE EnqueueResult
  <2>1. Done("copy") /\ Done("exec") /\ UpTo("result", i)
      BY <1>0, <1>5 DEF EnqueueResult, Enqueue, QueueShape
  <2>2. /\ \/ step' = "enqueue result" /\ UpTo("result", i)'
           \/ step' = "finish result" /\ i' = 0 /\ UpTo("result", NumKernels)'
        /\ Done("copy")' /\ Done("exec")'
      BY <1>0, <1>5, <2>1, EnqueueRound DEF EnqueueResult, Done, Steps, Ops
  <2> QED
      BY <2>2 DEF QueueShape, LoopsFromZero
<1>6. CASE FinishCopy
  <2>1. /\ QueueEmpty /\ UpTo("copy", NumKernels) /\ None("exec") /\ None("result") /\ i = 0
        /\ step' = "enqueue exec" /\ i' = i /\ queue' = queue
      BY <1>0, <1>6 DEF FinishCopy, Finish, QueueShape, LoopsFromZero
  <2>2. Done("copy") /\ UpTo("exec", 0)
      BY <1>0, <1>00, <2>1, FinishedIsDone DEF UpTo, None
  <2>3. Done("copy")' /\ UpTo("exec", i)' /\ None("result")'
      BY <2>1, <2>2 DEF Done, UpTo, None
  <2> QED
      BY <2>1, <2>3 DEF QueueShape, LoopsFromZero
<1>7. CASE FinishExec
  <2>1. /\ QueueEmpty /\ UpTo("exec", NumKernels) /\ Done("copy") /\ None("result") /\ i = 0
        /\ step' = "enqueue result" /\ i' = i /\ queue' = queue
      BY <1>0, <1>7 DEF FinishExec, Finish, QueueShape, LoopsFromZero
  <2>2. Done("exec") /\ UpTo("result", 0)
      BY <1>0, <1>00, <2>1, FinishedIsDone DEF UpTo, None
  <2>3. Done("copy")' /\ Done("exec")' /\ UpTo("result", i)'
      BY <2>1, <2>2 DEF Done, UpTo
  <2> QED
      BY <2>1, <2>3 DEF QueueShape, LoopsFromZero
<1>8. CASE FinishResult
  <2>1. /\ QueueEmpty /\ UpTo("result", NumKernels) /\ Done("copy") /\ Done("exec")
        /\ step' = "idle" /\ queue' = queue
      BY <1>0, <1>8 DEF FinishResult, Finish, QueueShape
  <2>2. Done("copy")' /\ Done("exec")' /\ Done("result")'
      BY <1>0, <2>1, FinishedIsDone DEF Done
  <2> QED
      BY <2>1, <2>2 DEF QueueShape, LoopsFromZero
<1>9. CASE CheckFails
    BY <1>9 DEF CheckFails, QueueShape, LoopsFromZero
<1>10. ASSUME NEW op \in Ops, NEW k \in Kernels, Perform(op, k)
       PROVE  QueueShape' /\ LoopsFromZero'
  <2>1. /\ \A o \in Ops : None(o) => None(o)'
        /\ \A o \in Ops : Done(o) => Done(o)'
        /\ \A o \in Ops : UpTo(o, i) => UpTo(o, i)'
        /\ \A o \in Ops : UpTo(o, NumKernels) => UpTo(o, NumKernels)'
      BY <1>0, <1>10, PerformCompletes DEF None, Done, UpTo
  <2>2. UNCHANGED <<step, i, scans>>
      BY <1>0, <1>10, PerformCompletes
  <2> QED
      BY <1>0, <2>1, <2>2 DEF QueueShape, LoopsFromZero
<1>11. CASE Ended \/ UNCHANGED vars
  <2>1. UNCHANGED vars
      BY <1>11 DEF Ended
  <2> QED
      BY <1>0, <2>1 DEF vars, QueueShape, LoopsFromZero, None, Done, UpTo
<1> QED
    BY <1>1, <1>2, <1>3, <1>4, <1>5, <1>6, <1>7, <1>8, <1>9, <1>10, <1>11 DEF Next, Host

-----------------------------------------------------------------------------
(* An enqueued command is not complete, and no other one changes. *)
LEMMA EnqueueCompletesNone ==
    ASSUME TypeOK, NEW op \in Ops, NEW s \in Steps, Enqueue(op, s)
    PROVE  /\ \A o \in Ops, k \in Kernels : queue'[o][k] = "complete" => queue[o][k] = "complete"
           /\ UNCHANGED <<scans, input, output, result>>
<1>1. /\ queue'[op] = [queue[op] EXCEPT ![i] = "queued"]
      /\ \A o \in Ops \ {op} : queue'[o] = queue[o]
    BY DEF Enqueue, TypeOK
<1>2. /\ queue'[op][i] = "queued"
      /\ \A k \in Kernels \ {i} : queue'[op][k] = queue[op][k]
    BY <1>1 DEF TypeOK
<1> QED
    BY <1>1, <1>2 DEF Enqueue, device

(* A complete command has left this scan's data where it writes. *)
LEMMA DataKept == OInv /\ [Next]_vars => DataOfThisScan'
<1> SUFFICES ASSUME OInv, [Next]_vars PROVE DataOfThisScan'
    OBVIOUS
<1>0. TypeOK /\ DataOfThisScan /\ "copy" \in Ops /\ "exec" \in Ops /\ "result" \in Ops
    BY DEF OInv, Ops
<1>1. CASE Scan
  <2>1. scans' # 0
      BY <1>0, <1>1, MaxScansAssumption DEF Scan, TypeOK
  <2>2. \A op \in Ops, k \in Kernels : queue'[op][k] = "none"
      BY <1>1 DEF Scan
  <2> QED
      BY <1>0, <2>1, <2>2 DEF DataOfThisScan
<1>2. CASE SetupKernel
  <2>1. \A op \in Ops, k \in Kernels : queue'[op][k] = "none"
      BY <1>2 DEF OInv, QueueShape, SetupKernel, None, Ops
  <2> QED
      BY <1>0, <1>2, <2>1 DEF SetupKernel, DataOfThisScan
<1>3. CASE EnqueueCopy \/ EnqueueExec \/ EnqueueResult
  <2>1. /\ \A o \in Ops, k \in Kernels : queue'[o][k] = "complete" => queue[o][k] = "complete"
        /\ UNCHANGED <<scans, input, output, result>>
      BY <1>0, <1>3, EnqueueCompletesNone DEF EnqueueCopy, EnqueueExec, EnqueueResult, Steps
  <2> QED
      BY <1>0, <2>1 DEF DataOfThisScan
<1>4. CASE FinishCopy \/ FinishExec \/ FinishResult \/ CheckFails \/ Ended \/ UNCHANGED vars
  <2>1. UNCHANGED <<scans, queue, input, output, result>>
      BY <1>4 DEF FinishCopy, FinishExec, FinishResult, Finish, CheckFails, Ended, vars, device
  <2> QED
      BY <1>0, <2>1 DEF DataOfThisScan
<1>5. ASSUME NEW op \in Ops, NEW k \in Kernels, Perform(op, k) PROVE DataOfThisScan'
  <2>0. /\ queue[op][k] = "queued" /\ scans' = scans
        /\ \A o \in Ops, n \in Kernels : o # op \/ n # k => queue'[o][n] = queue[o][n]
      BY <1>0, <1>5, PerformCompletes
  <2>1. CASE op = "copy"
    <3>1. input' = [input EXCEPT ![k] = scans] /\ output' = output /\ result' = result
        BY <1>5, <2>1 DEF Perform
    <3> QED
        BY <1>0, <2>0, <2>1, <3>1 DEF DataOfThisScan, TypeOK
  <2>2. CASE op = "exec"
    <3>1. output' = [output EXCEPT ![k] = input[k]] /\ input' = input /\ result' = result
        BY <1>5, <2>2 DEF Perform
    <3>2. input[k] = scans
        BY <1>0, <1>5, <2>2 DEF Perform, WaitList, DataOfThisScan
    <3> QED
        BY <1>0, <2>0, <2>2, <3>1, <3>2 DEF DataOfThisScan, TypeOK
  <2>3. CASE op = "result"
    <3>1. result' = [result EXCEPT ![k] = output[k]] /\ input' = input /\ output' = output
        BY <1>5, <2>3 DEF Perform
    <3>2. output[k] = scans
        BY <1>0, <1>5, <2>3 DEF Perform, WaitList, DataOfThisScan
    <3>3. scans = 0 => result' = result
        BY <1>0, <3>1, <3>2 DEF DataOfThisScan, TypeOK
    <3> QED
        BY <1>0, <2>0, <2>3, <3>1, <3>2, <3>3 DEF DataOfThisScan, TypeOK
  <2> QED
      BY <2>1, <2>2, <2>3 DEF Ops
<1> QED
    BY <1>1, <1>2, <1>3, <1>4, <1>5 DEF Next, Host

LEMMA OInvariant == Spec => []OInv
<1>1. OInv /\ [Next]_vars => OInv'
    BY TypeKept, ShapeKept, DataKept DEF OInv
<1> QED
    BY <1>1, InitOInv, PTL DEF Spec

-----------------------------------------------------------------------------
(* Every variable keeps its type, the loop index among the kernels. *)
THEOREM TypeCorrect == Spec => []TypeOK
<1>1. OInv => TypeOK
    BY DEF OInv
<1> QED
    BY <1>1, OInvariant, PTL

(* A scan that returns has filled every result buffer from its own input    *)
(* and left nothing in the queue, for every number of kernels and of scans  *)
(* (csre.cpp:205-244).                                                      *)
THEOREM ReturnsItsOwnResults == Spec => []ResultsAreOfThisScan
<1>1. OInv => ResultsAreOfThisScan
  <2> SUFFICES ASSUME OInv, step = "idle" PROVE ResultsAreOfThisScan
      BY DEF ResultsAreOfThisScan
  <2>1. CASE scans = 0 /\ None("copy") /\ None("exec") /\ None("result")
      BY <2>1 DEF OInv, DataOfThisScan, ResultsAreOfThisScan, None, Ops
  <2>2. CASE Done("copy") /\ Done("exec") /\ Done("result")
      BY <2>2 DEF OInv, DataOfThisScan, ResultsAreOfThisScan, Done, Ops
  <2> QED
      BY <2>1, <2>2 DEF OInv, QueueShape
<1> QED
    BY <1>1, OInvariant, PTL

-----------------------------------------------------------------------------
(* Refinement: what is complete in the queue is done in Batch. *)
LEMMA StepRefines == OInv /\ [Next]_vars => [Promise!Next]_(Promise!vars)
<1> SUFFICES ASSUME OInv, [Next]_vars PROVE Promise!Next \/ UNCHANGED Promise!vars
    OBVIOUS
<1>0. TypeOK /\ QueueShape /\ "copy" \in Ops /\ "exec" \in Ops /\ "result" \in Ops
    BY DEF OInv, Ops
<1>1. ASSUME step # "exited", step' # "exited",
             \A op \in Ops, k \in Kernels : queue'[op][k] = "complete" <=> queue[op][k] = "complete"
      PROVE  UNCHANGED Promise!vars
    BY <1>0, <1>1 DEF Promise!vars, Complete, IfRunning
<1>2. CASE Scan
  <2>1. step # "exited" /\ step' # "exited"
      BY <1>2 DEF Scan
  <2>2. \A op \in Ops, k \in Kernels : queue'[op][k] = "none"
      BY <1>2 DEF Scan
  <2>3. CASE None("copy") /\ None("exec") /\ None("result")
      BY <1>1, <2>1, <2>2, <2>3 DEF None, Ops
  <2>4. CASE Done("copy") /\ Done("exec") /\ Done("result")
    <3>1. Complete("result") = Kernels
        BY <2>1, <2>4 DEF Complete, IfRunning, Done
    <3>2. Complete("copy")' = {} /\ Complete("exec")' = {} /\ Complete("result")' = {}
        BY <1>0, <2>1, <2>2 DEF Complete, IfRunning
    <3>3. Promise!Restart
        BY <2>1, <3>1, <3>2 DEF Promise!Restart
    <3> QED
        BY <3>3 DEF Promise!Next
  <2> QED
      BY <1>0, <1>2, <2>3, <2>4 DEF Scan, QueueShape
<1>3. CASE SetupKernel
    BY <1>1, <1>3 DEF SetupKernel, Loop
<1>4. CASE EnqueueCopy \/ EnqueueExec \/ EnqueueResult
  <2>1. \A op \in Ops, k \in Kernels : queue'[op][k] = "complete" <=> queue[op][k] = "complete"
    <3>1. \E op \in Ops, s \in Steps : Enqueue(op, s) /\ queue[op][i] = "none"
      <4>1. \A op \in Ops : UpTo(op, i) => queue[op][i] = "none"
          BY <1>0 DEF UpTo, TypeOK, Kernels
      <4>2. CASE EnqueueCopy
        <5>1. Enqueue("copy", "enqueue copy") /\ UpTo("copy", i)
            BY <1>0, <4>2 DEF EnqueueCopy, Enqueue, QueueShape
        <5> QED
            BY <1>0, <4>1, <5>1 DEF Steps
      <4>3. CASE EnqueueExec
        <5>1. Enqueue("exec", "enqueue exec") /\ UpTo("exec", i)
            BY <1>0, <4>3 DEF EnqueueExec, Enqueue, QueueShape
        <5> QED
            BY <1>0, <4>1, <5>1 DEF Steps
      <4>4. CASE EnqueueResult
        <5>1. Enqueue("result", "enqueue result") /\ UpTo("result", i)
            BY <1>0, <4>4 DEF EnqueueResult, Enqueue, QueueShape
        <5> QED
            BY <1>0, <4>1, <5>1 DEF Steps
      <4> QED
          BY <1>4, <4>2, <4>3, <4>4
    <3>2. PICK op \in Ops, s \in Steps : Enqueue(op, s) /\ queue[op][i] = "none"
        BY <3>1
    <3>3. /\ queue'[op] = [queue[op] EXCEPT ![i] = "queued"]
          /\ \A o \in Ops \ {op} : queue'[o] = queue[o]
        BY <1>0, <3>2 DEF Enqueue, TypeOK
    <3> QED
        BY <1>0, <3>2, <3>3 DEF TypeOK
  <2>2. step # "exited" /\ step' # "exited"
      BY <1>4 DEF EnqueueCopy, EnqueueExec, EnqueueResult, Enqueue, Loop
  <2> QED
      BY <1>1, <2>1, <2>2
<1>5. CASE FinishCopy \/ FinishExec \/ FinishResult
    BY <1>1, <1>5 DEF FinishCopy, FinishExec, FinishResult, Finish
<1>6. CASE CheckFails
  <2>1. Promise!Abort
      BY <1>6 DEF CheckFails, Promise!Abort, Complete, IfRunning
  <2> QED
      BY <2>1 DEF Promise!Next
<1>7. ASSUME NEW op \in Ops, NEW k \in Kernels, Perform(op, k)
      PROVE  Promise!Next
  <2>0. /\ queue[op][k] = "queued" /\ queue'[op][k] = "complete"
        /\ \A o \in Ops, n \in Kernels : o # op \/ n # k => queue'[o][n] = queue[o][n]
        /\ step' = step /\ step # "exited"
      BY <1>0, <1>7, PerformCompletes DEF Perform
  <2>1. /\ k \notin Complete(op) /\ Complete(op)' = Complete(op) \cup {k}
        /\ \A o \in Ops \ {op} : Complete(o)' = Complete(o)
      BY <2>0 DEF Complete, IfRunning
  <2>2. CASE op = "copy"
    <3>1. Promise!Copy(k)
        BY <1>0, <2>0, <2>1, <2>2 DEF Promise!Copy
    <3> QED
        BY <3>1 DEF Promise!Next
  <2>3. CASE op = "exec"
    <3>1. Done("copy")
        BY <1>0, <2>0, <2>3 DEF QueueShape, TypeOK, Steps, None
    <3>2. Complete("copy") = Kernels
        BY <2>0, <3>1 DEF Complete, IfRunning, Done
    <3>3. Promise!Execute(k)
        BY <1>0, <2>0, <2>1, <2>3, <3>2 DEF Promise!Execute
    <3> QED
        BY <3>3 DEF Promise!Next
  <2>4. CASE op = "result"
    <3>1. Done("exec")
        BY <1>0, <2>0, <2>4 DEF QueueShape, TypeOK, Steps, None
    <3>2. Complete("exec") = Kernels
        BY <2>0, <3>1 DEF Complete, IfRunning, Done
    <3>3. Promise!Fetch(k)
        BY <1>0, <2>0, <2>1, <2>4, <3>2 DEF Promise!Fetch
    <3> QED
        BY <3>3 DEF Promise!Next
  <2> QED
      BY <2>2, <2>3, <2>4 DEF Ops
<1>8. CASE Ended \/ UNCHANGED vars
  <2>1. UNCHANGED <<step, queue>>
      BY <1>8 DEF Ended, vars
  <2> QED
      BY <2>1 DEF Promise!vars, Complete, IfRunning
<1> QED
    BY <1>2, <1>3, <1>4, <1>5, <1>6, <1>7, <1>8 DEF Next, Host

(* For every number of kernels and of scans, CSRE::scan does what Batch     *)
(* promises: no kernel is started before all input is there and no result   *)
(* is fetched before all kernels have run, unless the process exits.        *)
THEOREM ScanKeepsPromise == Spec => KeepsScanPromise
<1>1. Init => Promise!Init
    BY DEF Init, Promise!Init, Promise!Nothing, Complete, IfRunning, Ops
<1> QED
    BY <1>1, InitOInv, StepRefines, OInvariant, PTL DEF Spec, KeepsScanPromise, Promise!Spec


-----------------------------------------------------------------------------
(* The finishes leave nothing to wait for: whenever a command is in the     *)
(* queue those in its wait list are complete, so that the queue, which runs *)
(* out of order, can always run every command it holds and finish cannot    *)
(* block on commands that wait for each other (csre.cpp:210-241).           *)
EveryCommandCanRun ==
    step # "exited" =>
        \A op \in Ops, k \in Kernels :
            queue[op][k] = "queued" => \A o \in WaitList(op) : queue[o][k] = "complete"

THEOREM NoCommandWaits == Spec => []EveryCommandCanRun
<1>1. OInv => EveryCommandCanRun
  <2> SUFFICES ASSUME OInv, step # "exited", NEW op \in Ops, NEW k \in Kernels,
                      queue[op][k] = "queued", NEW o \in WaitList(op)
               PROVE  queue[o][k] = "complete"
      BY DEF EveryCommandCanRun
  <2>1. \/ op = "exec" /\ o = "copy"
        \/ op = "result" /\ o = "exec"
      BY DEF WaitList, Ops
  <2>2. CASE op = "exec" /\ o = "copy"
    <3>1. ~ None("exec")
        BY <2>2 DEF None
    <3>2. ~ None("exec") => Done("copy")
        BY DEF OInv, TypeOK, QueueShape, Steps
    <3> QED
        BY <2>2, <3>1, <3>2 DEF Done
  <2>3. CASE op = "result" /\ o = "exec"
    <3>1. ~ None("result")
        BY <2>3 DEF None
    <3>2. ~ None("result") => Done("exec")
        BY DEF OInv, TypeOK, QueueShape, Steps
    <3> QED
        BY <2>3, <3>1, <3>2 DEF Done
  <2> QED
      BY <2>1, <2>2, <2>3
<1> QED
    BY <1>1, OInvariant, PTL
=============================================================================
