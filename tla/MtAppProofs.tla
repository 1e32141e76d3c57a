---------------------------- MODULE MtAppProofs ----------------------------
(***************************************************************************)
(* What holds of MtApp for every finite set of jobs and every number of    *)
(* failing calls: types, the conservation of completions, the barrier      *)
(* between the phases, and that no result of an earlier run gets through.  *)
(*                                                                         *)
(* The barrier does not follow from what each worker knows: it may have    *)
(* been woken for another job's command.  The inductive invariant counts:  *)
(* completions taken and left are the commands finished, and the workers   *)
(* past their loop are as many as the commands submitted.  So at most the  *)
(* waits that failed are missing at the join.                              *)
(*                                                                         *)
(* The end of the module is about the verdict: what the sum over the jobs  *)
(* can be, in a clean run and in any other.                                *)
(***************************************************************************)
EXTENDS MtApp, FiniteSetTheorems, WellFoundedInduction, TLAPS

Submitted == {i \in Jobs : cmd[i] \in {"running", "stray", "completed"}}

(* A worker is past its wait loop exactly when its command was submitted    *)
(* and it has taken a completion or given up.                               *)
WorkerOK(i) ==
    /\ pc[i] \in {"start", "opened"} => i \notin Submitted /\ i \notin took \cup gaveup
    /\ pc[i] = "issued"   => i \in Submitted /\ i \notin took \cup gaveup
    /\ pc[i] = "waited"   => i \in Submitted /\ i \in took \cup gaveup
    /\ pc[i] = "returned" => (i \in Submitted <=> i \in took \cup gaveup)
    /\ pc[i] \in {"start", "opened", "issued", "waited", "returned"}

(* A thread between its first and its last call has its unit's context open. *)
ContextOpen ==
    \A i \in Jobs : pc[i] \notin {"start", "returned"} => ctx[i] > 0

NothingSubmitted == phase = "copy" => Submitted = {} /\ took = {} /\ gaveup = {}
NothingFetched   == phase \in {"copy", "work"} => \A i \in Jobs : fetched[i] = "nothing"
WorkersOK        == phase = "work" => \A i \in Jobs : WorkerOK(i)
AllWaited        == phase \in {"result", "verdict"} => Submitted = took \cup gaveup

IInv ==
    /\ TypeOK
    /\ ContextOpen
    /\ took \cap gaveup = {}
    /\ NothingSubmitted /\ NothingFetched
    /\ WorkersOK /\ AllWaited
    /\ CompletionsConserved
    /\ NoLeftovers

-----------------------------------------------------------------------------
LEMMA PairIsFinite == IsFiniteSet({"input", "result"})
<1>1. {"input", "result"} = ({} \cup {"input"}) \cup {"result"}
    OBVIOUS
<1> QED
    BY <1>1, FS_EmptySet, FS_AddElement

(* The initial states satisfy the invariant. *)
LEMMA InitIInv == Init => IInv
<1> SUFFICES ASSUME Init PROVE IInv
    OBVIOUS
<1>1. TypeOK
  <2>1. lost \subseteq Jobs
    <3>1. PICK p \in Prepared : lost = p.lost
        BY DEF Init
    <3>2. \A c \in Compiled \cup Parsed : c.lost \subseteq Jobs
        BY DEF Compiled, Parsed, Nothing
    <3> QED
        BY <3>1, <3>2 DEF Prepared
  <2>2. faults \in 0 .. MaxFaults /\ completions \in Nat /\ bad \subseteq Buffers
    <3>1. bad \subseteq Buffers /\ Cardinality(bad) <= MaxFaults /\ faults = Cardinality(bad)
        BY DEF Init
    <3>2. IsFiniteSet(Buffers)
        BY JobsAssumption, PairIsFinite, FS_Product DEF Buffers
    <3>3. Cardinality(bad) \in Nat
        BY <3>1, <3>2, FS_Subset, FS_CardinalityType
    <3> QED
        BY <3>1, <3>3, BoundsAssumption DEF Init
  <2>3. /\ pc \in [Jobs -> Places] /\ ctx \in [Jobs -> Nat]
        /\ cmd \in [Jobs -> {"blank", "new", "running", "stray", "completed"}]
        /\ fetched \in [Jobs -> {"nothing", "results", "leftover"}]
      BY DEF Init, Places
  <2> QED
      BY <2>1, <2>2, <2>3 DEF Init, TypeOK
<1>2. Submitted = {} /\ Completed = {}
    BY DEF Init, Submitted, Completed
<1>3. CompletionsConserved
    BY <1>2, FS_EmptySet DEF Init, CompletionsConserved
<1> QED
    BY <1>1, <1>2, <1>3
    DEF Init, IInv, ContextOpen, NothingSubmitted, NothingFetched, WorkersOK, AllWaited, NoLeftovers

(* Types are preserved by every action; for CloseContext this needs that    *)
(* the context is open.                                                     *)
LEMMA TypeStep == TypeOK /\ ContextOpen /\ [Next]_vars => TypeOK' /\ ContextOpen'
<1> SUFFICES ASSUME TypeOK, ContextOpen, [Next]_vars PROVE TypeOK' /\ ContextOpen'
    OBVIOUS
<1> USE BoundsAssumption DEF TypeOK, ContextOpen, Places, device, outcome, At, Goto, Fault
<1>1. ASSUME NEW i \in Jobs, OpenContext(i) PROVE TypeOK' /\ ContextOpen'
    BY <1>1 DEF OpenContext, Opens
<1>2. ASSUME NEW i \in Jobs, OpenContextFails(i) PROVE TypeOK' /\ ContextOpen'
    BY <1>2 DEF OpenContextFails
<1>3. ASSUME NEW i \in Jobs, CloseContext(i) PROVE TypeOK' /\ ContextOpen'
    BY <1>3 DEF CloseContext
<1>4. ASSUME NEW i \in Jobs, CopyRegex(i) PROVE TypeOK' /\ ContextOpen'
    BY <1>4 DEF CopyRegex
<1>5. ASSUME NEW i \in Jobs, CopyPacket(i) PROVE TypeOK' /\ ContextOpen'
    BY <1>5 DEF CopyPacket
<1>6. ASSUME NEW i \in Jobs, CopyFails(i) PROVE TypeOK' /\ ContextOpen'
    BY <1>6 DEF CopyFails
<1>7. ASSUME NEW i \in Jobs, BuildCommand(i) PROVE TypeOK' /\ ContextOpen'
    BY <1>7 DEF BuildCommand, BuiltCommand
<1>8. ASSUME NEW i \in Jobs, ExecBuf(i) PROVE TypeOK' /\ ContextOpen'
    BY <1>8 DEF ExecBuf
<1>9. ASSUME NEW i \in Jobs, ExecBufFails(i) PROVE TypeOK' /\ ContextOpen'
    BY <1>9 DEF ExecBufFails
<1>10. ASSUME NEW i \in Jobs, ExecWait(i) PROVE TypeOK' /\ ContextOpen'
    BY <1>10 DEF ExecWait, TakeCompletion, AfterWait
<1>11. ASSUME NEW i \in Jobs, ExecWaitFails(i) PROVE TypeOK' /\ ContextOpen'
    BY <1>11 DEF ExecWaitFails
<1>12. ASSUME NEW i \in Jobs, Finish(i) PROVE TypeOK' /\ ContextOpen'
    BY <1>12 DEF Finish
<1>13. ASSUME NEW i \in Jobs, FinishStray(i) PROVE TypeOK' /\ ContextOpen'
    BY <1>13 DEF FinishStray
<1>14. ASSUME NEW i \in Jobs, SyncResult(i) PROVE TypeOK' /\ ContextOpen'
    BY <1>14 DEF SyncResult
<1>15. ASSUME NEW i \in Jobs, SyncResultFails(i) PROVE TypeOK' /\ ContextOpen'
    BY <1>15 DEF SyncResultFails
<1>16. CASE JoinAll
    BY <1>16 DEF JoinAll, NextPhase
<1>17. CASE Verdict
  <2>1. faults' \in 0 .. MaxFaults
    <3>1. PICK u \in SUBSET Jobs :
             faults' = faults + Cardinality(u \ NoResult) /\ faults' <= MaxFaults
        BY <1>17 DEF Verdict
    <3>2. Cardinality(u \ NoResult) \in Nat
        BY JobsAssumption, FS_Subset, FS_CardinalityType
    <3> QED
        BY <3>1, <3>2
  <2> QED
      BY <1>17, <2>1 DEF Verdict
<1>18. CASE VerdictCrashes
    BY <1>18 DEF VerdictCrashes
<1>19. ASSUME NEW i \in Jobs, BuildCrashes(i) PROVE TypeOK' /\ ContextOpen'
    BY <1>19 DEF BuildCrashes
<1>20. CASE UNCHANGED vars
    BY <1>20 DEF vars
<1> QED
    BY <1>1, <1>2, <1>3, <1>4, <1>5, <1>6, <1>7, <1>8, <1>9, <1>10, <1>11, <1>12,
       <1>13, <1>14, <1>15, <1>16, <1>17, <1>18, <1>19, <1>20
    DEF Next, ThreadCall, CallFails, Ended

-----------------------------------------------------------------------------
(* The actions that leave the commands and the counter alone, by what they  *)
(* leave alone.                                                             *)
Keeps == UNCHANGED <<cmd, completions, took>>

LEMMA ConservedStep == IInv /\ [Next]_vars => CompletionsConserved'
<1> SUFFICES ASSUME IInv, [Next]_vars PROVE CompletionsConserved'
    OBVIOUS
<1> USE DEF CompletionsConserved
<1>a. /\ IsFiniteSet(took) /\ IsFiniteSet(Completed)
      /\ Cardinality(took) \in Nat /\ Cardinality(Completed) \in Nat
      /\ completions \in Nat
    BY JobsAssumption, FS_Subset, FS_CardinalityType DEF IInv, TypeOK, Completed
<1>1. CASE Keeps
    BY <1>1 DEF Keeps, IInv, Completed
<1>2. ASSUME NEW i \in Jobs, BuildCommand(i) PROVE CompletionsConserved'
  <2>1. cmd[i] # "completed"
      BY <1>2 DEF BuildCommand, At, IInv, NothingSubmitted, Submitted
  <2>2. Completed' = Completed
      BY <1>2, <2>1 DEF BuildCommand, BuiltCommand, Completed, IInv, TypeOK
  <2> QED
      BY <1>2, <2>2 DEF BuildCommand, IInv
<1>3. ASSUME NEW i \in Jobs, ExecBuf(i) PROVE CompletionsConserved'
  <2>1. cmd[i] # "completed"
      BY <1>3 DEF ExecBuf, At, IInv, WorkersOK, WorkerOK, Submitted
  <2>2. Completed' = Completed
      BY <1>3, <2>1 DEF ExecBuf, Completed, IInv, TypeOK
  <2> QED
      BY <1>3, <2>2 DEF ExecBuf, IInv
<1>4. ASSUME NEW i \in Jobs, ExecWait(i) PROVE CompletionsConserved'
  <2>1. i \notin took
      BY <1>4 DEF ExecWait, At, IInv, WorkersOK, WorkerOK
  <2>2. Cardinality(took') = Cardinality(took) + 1
      BY <1>4, <1>a, <2>1, FS_AddElement DEF ExecWait, TakeCompletion
  <2>3. completions' = completions - 1 /\ Completed' = Completed
      BY <1>4 DEF ExecWait, TakeCompletion, Completed
  <2> QED
      BY <1>a, <2>2, <2>3 DEF IInv
<1>5. ASSUME NEW i \in Jobs, Finish(i) \/ FinishStray(i) PROVE CompletionsConserved'
  <2>1. i \notin Completed /\ Completed' = Completed \cup {i}
      BY <1>5 DEF Finish, FinishStray, Completed, IInv, TypeOK
  <2>2. Cardinality(Completed') = Cardinality(Completed) + 1
      BY <1>a, <2>1, FS_AddElement
  <2>3. completions' = completions + 1 /\ took' = took
      BY <1>5 DEF Finish, FinishStray
  <2> QED
      BY <1>a, <2>2, <2>3 DEF IInv
<1>6. Keeps \/ \E i \in Jobs : BuildCommand(i) \/ ExecBuf(i) \/ ExecWait(i)
                               \/ Finish(i) \/ FinishStray(i)
    BY DEF Keeps, Next, ThreadCall, CallFails, OpenContext, OpenContextFails, CloseContext,
       CopyRegex, CopyPacket, CopyFails, ExecBufFails, ExecWaitFails, SyncResult,
       SyncResultFails, JoinAll, Verdict, VerdictCrashes,
       BuildCrashes, Ended, device, vars
<1> QED
    BY <1>1, <1>2, <1>3, <1>4, <1>5, <1>6

(* The argument of the barrier.  Every submitted command's worker took one  *)
(* completion or gave up, so what is pending when all have returned is what *)
(* was given up less the completions nobody took.                           *)
LEMMA Barrier == IInv => PhaseBarrier
<1> SUFFICES ASSUME IInv, phase \in {"result", "verdict"}
             PROVE  Cardinality(Pending) <= Cardinality(gaveup)
    BY DEF PhaseBarrier
<1>1. Submitted = took \cup gaveup /\ took \cap gaveup = {}
    BY DEF IInv, AllWaited
<1>2. Submitted = Completed \cup Pending /\ Completed \cap Pending = {}
    BY DEF Submitted, Completed, Pending
<1>3. /\ IsFiniteSet(took) /\ IsFiniteSet(gaveup)
      /\ IsFiniteSet(Completed) /\ IsFiniteSet(Pending)
    BY JobsAssumption, FS_Subset DEF IInv, TypeOK, Completed, Pending
<1>4. /\ Cardinality(took) \in Nat /\ Cardinality(gaveup) \in Nat
      /\ Cardinality(Completed) \in Nat /\ Cardinality(Pending) \in Nat
    BY <1>3, FS_CardinalityType
<1>5. /\ Cardinality(Submitted) = Cardinality(took) + Cardinality(gaveup)
      /\ Cardinality(Submitted) = Cardinality(Completed) + Cardinality(Pending)
  <2>1. Cardinality({}) = 0
      BY FS_EmptySet
  <2>2. Cardinality(took \cup gaveup) = Cardinality(took) + Cardinality(gaveup) - 0
      BY <1>1, <1>3, <2>1, FS_Union
  <2>3. Cardinality(Completed \cup Pending) = Cardinality(Completed) + Cardinality(Pending) - 0
      BY <1>2, <1>3, <2>1, FS_Union
  <2>4. /\ Cardinality(Submitted) = Cardinality(took \cup gaveup)
        /\ Cardinality(Submitted) = Cardinality(Completed \cup Pending)
      BY <1>1, <1>2
  <2> QED
      BY <1>4, <2>2, <2>3, <2>4
<1>6. completions \in Nat /\ completions + Cardinality(took) = Cardinality(Completed)
    BY DEF IInv, TypeOK, CompletionsConserved
<1> QED
    BY <1>4, <1>5, <1>6

(* Nothing is left on the device when no wait has failed. *)
LEMMA NothingPending ==
    ASSUME IInv, phase \in {"result", "verdict"}, gaveup = {}
    PROVE  Pending = {}
<1>1. Cardinality(Pending) <= 0
    BY Barrier, FS_EmptySet DEF PhaseBarrier
<1>2. IsFiniteSet(Pending)
    BY JobsAssumption, FS_Subset DEF Pending
<1> QED
    BY <1>1, <1>2, FS_CardinalityType, FS_EmptySet

-----------------------------------------------------------------------------
(* What each worker has done so far: preserved by every action. *)
Flow == /\ took \cap gaveup = {}
        /\ NothingSubmitted /\ NothingFetched
        /\ WorkersOK /\ AllWaited

LEMMA FlowStep == IInv /\ [Next]_vars => Flow'
<1> SUFFICES ASSUME IInv, [Next]_vars PROVE Flow'
    OBVIOUS
<1> USE DEF IInv, TypeOK, Flow, NothingSubmitted, NothingFetched, WorkersOK, WorkerOK,
            AllWaited, Submitted, At, Goto, Fault, device, outcome
<1>1. ASSUME NEW i \in Jobs, OpenContext(i) PROVE Flow'
    BY <1>1 DEF OpenContext, Opens
<1>2. ASSUME NEW i \in Jobs, OpenContextFails(i) PROVE Flow'
    BY <1>2 DEF OpenContextFails
<1>3. ASSUME NEW i \in Jobs, CloseContext(i) PROVE Flow'
    BY <1>3 DEF CloseContext
<1>4. ASSUME NEW i \in Jobs, CopyRegex(i) PROVE Flow'
    BY <1>4 DEF CopyRegex
<1>5. ASSUME NEW i \in Jobs, CopyPacket(i) PROVE Flow'
    BY <1>5 DEF CopyPacket
<1>6. ASSUME NEW i \in Jobs, CopyFails(i) PROVE Flow'
    BY <1>6 DEF CopyFails
<1>7. ASSUME NEW i \in Jobs, BuildCommand(i) PROVE Flow'
    BY <1>7 DEF BuildCommand, BuiltCommand
<1>8. ASSUME NEW i \in Jobs, ExecBuf(i) PROVE Flow'
    BY <1>8 DEF ExecBuf
<1>9. ASSUME NEW i \in Jobs, ExecBufFails(i) PROVE Flow'
    BY <1>9 DEF ExecBufFails
<1>10. ASSUME NEW i \in Jobs, ExecWait(i) PROVE Flow'
    BY <1>10 DEF ExecWait, TakeCompletion, AfterWait
<1>11. ASSUME NEW i \in Jobs, ExecWaitFails(i) PROVE Flow'
    BY <1>11 DEF ExecWaitFails
<1>12. ASSUME NEW i \in Jobs, Finish(i) PROVE Flow'
    BY <1>12 DEF Finish
<1>13. ASSUME NEW i \in Jobs, FinishStray(i) PROVE Flow'
    BY <1>13 DEF FinishStray
<1>14. ASSUME NEW i \in Jobs, SyncResult(i) PROVE Flow'
    BY <1>14 DEF SyncResult
<1>15. ASSUME NEW i \in Jobs, SyncResultFails(i) PROVE Flow'
    BY <1>15 DEF SyncResultFails
<1>16. CASE JoinAll
    BY <1>16 DEF JoinAll, AllReturned, NextPhase
<1>17. CASE Verdict
    BY <1>17 DEF Verdict
<1>18. CASE VerdictCrashes
    BY <1>18 DEF VerdictCrashes
<1>19. ASSUME NEW i \in Jobs, BuildCrashes(i) PROVE Flow'
    BY <1>19 DEF BuildCrashes
<1>20. CASE UNCHANGED vars
    BY <1>20 DEF vars
<1> QED
    BY <1>1, <1>2, <1>3, <1>4, <1>5, <1>6, <1>7, <1>8, <1>9, <1>10, <1>11, <1>12,
       <1>13, <1>14, <1>15, <1>16, <1>17, <1>18, <1>19, <1>20
    DEF Next, ThreadCall, CallFails, Ended

(* A leftover is fetched only for a job without a running command, and a    *)
(* command that finishes later is not running at that time: the barrier.    *)
LEMMA NoLeftoversStep == IInv /\ [Next]_vars => NoLeftovers'
<1> SUFFICES ASSUME IInv, [Next]_vars, gaveup' = {},
                    NEW i \in Jobs, fetched'[i] = "leftover"
             PROVE  i \notin written' /\ cmd'[i] # "running"
    BY DEF NoLeftovers
<1>a. gaveup = {}
    BY DEF Next, ThreadCall, CallFails, OpenContext, OpenContextFails, CloseContext,
       CopyRegex, CopyPacket, CopyFails, BuildCommand, ExecBuf, ExecBufFails, ExecWait,
       ExecWaitFails, Finish, FinishStray, SyncResult, SyncResultFails, JoinAll, Verdict, VerdictCrashes,
       BuildCrashes,
       Ended, device, vars
<1>b. phase \in {"result", "verdict"} => \A j \in Jobs : cmd[j] # "running"
    BY <1>a, NothingPending DEF Pending
<1>c. phase \in {"copy", "work"} => fetched[i] = "nothing"
    BY DEF IInv, NothingFetched
<1>1. CASE UNCHANGED <<cmd, written, fetched>>
    BY <1>1, <1>a DEF IInv, NoLeftovers
<1>2. ASSUME NEW j \in Jobs, BuildCommand(j) \/ ExecBuf(j) PROVE FALSE
    BY <1>2, <1>c DEF BuildCommand, ExecBuf, At
<1>3. ASSUME NEW j \in Jobs, Finish(j) PROVE FALSE
    BY <1>3, <1>b, <1>c DEF Finish, IInv, TypeOK
<1>4. ASSUME NEW j \in Jobs, FinishStray(j) PROVE i \notin written' /\ cmd'[i] # "running"
    BY <1>4, <1>a DEF FinishStray, IInv, NoLeftovers, TypeOK
<1>5. ASSUME NEW j \in Jobs, SyncResult(j) PROVE i \notin written' /\ cmd'[i] # "running"
  <2>1. cmd'[i] # "running"
      BY <1>5, <1>b DEF SyncResult, At, device
  <2>2. CASE i = j
      BY <1>5, <2>1, <2>2 DEF SyncResult, device, IInv, TypeOK
  <2>3. CASE i # j
      BY <1>5, <1>a, <2>1, <2>3 DEF SyncResult, device, IInv, TypeOK, NoLeftovers
  <2> QED
      BY <2>2, <2>3
<1>6. \/ UNCHANGED <<cmd, written, fetched>>
      \/ \E j \in Jobs : BuildCommand(j) \/ ExecBuf(j) \/ Finish(j) \/ FinishStray(j)
                         \/ SyncResult(j)
    BY DEF Next, ThreadCall, CallFails, OpenContext, OpenContextFails, CloseContext,
       CopyRegex, CopyPacket, CopyFails, ExecBufFails, ExecWait, ExecWaitFails,
       SyncResultFails, JoinAll, Verdict, VerdictCrashes,
       BuildCrashes, Ended, device, vars
<1> QED
    BY <1>1, <1>2, <1>3, <1>4, <1>5, <1>6

-----------------------------------------------------------------------------
LEMMA IInvariant == Spec => []IInv
<1>1. IInv /\ [Next]_vars => IInv'
    BY TypeStep, ConservedStep, FlowStep, NoLeftoversStep DEF IInv, Flow
<1> QED
    BY <1>1, InitIInv, PTL DEF Spec

(* The variables of csre-mt.cpp keep their types; no context is closed more *)
(* often than it was opened.                                                *)
THEOREM TypeCorrect == Spec => []TypeOK
<1>1. IInv => TypeOK
    BY DEF IInv
<1> QED
    BY <1>1, IInvariant, PTL

(* No completion is lost or taken twice, however the workers interleave. *)
THEOREM CompletionsAreConserved == Spec => []CompletionsConserved
<1>1. IInv => CompletionsConserved
    BY DEF IInv
<1> QED
    BY <1>1, IInvariant, PTL

(* The join between workers and resulters waits for every command although  *)
(* no single worker does, but for one command with each failed wait, for    *)
(* any number of jobs.                                                      *)
THEOREM ResultsAfterAllCommands == Spec => []PhaseBarrier
    BY Barrier, IInvariant, PTL

(* No result buffer is fetched while its own command still runs. *)
THEOREM LeftoversStayOut == Spec => []NoLeftovers
<1>1. IInv => NoLeftovers
    BY DEF IInv
<1> QED
    BY <1>1, IInvariant, PTL

-----------------------------------------------------------------------------
(* Refinement.  Up to the first failing call every job's command is built   *)
(* when the workers start and submitted when the resulters start, and only  *)
(* commands that wrote results have finished.                               *)
CleanJob(i) ==
    /\ cmd[i] # "stray"
    /\ cmd[i] = "completed" => i \in written
    /\ phase = "copy" => pc[i] \in {"start", "opened", "regex", "packet"} \/ cmd[i] = "new"
    /\ phase # "copy" => cmd[i] # "blank"
    /\ phase = "work" /\ pc[i] = "returned" => i \in Submitted
    /\ phase \in {"result", "verdict"} => i \in Submitted
CleanInv == Clean => gaveup = {} /\ \A i \in Jobs : CleanJob(i)

(* A failing call and a job without input end the clean part of a run. *)
LEMMA FaultsAreNotClean ==
    ASSUME TypeOK, NEW i \in Jobs, CallFails(i), CleanInv
    PROVE  ~ Clean'
<1> USE BoundsAssumption DEF Clean, TypeOK, Fault, At
<1>1. CASE OpenContextFails(i)
    BY <1>1 DEF OpenContextFails
<1>2. CASE CopyFails(i)
    BY <1>2 DEF CopyFails, NoBuffer, NoResult
<1>3. CASE ExecBufFails(i)
  <2>1. Clean => cmd[i] # "blank"
      BY <1>3 DEF CleanInv, CleanJob, ExecBufFails
  <2> QED
      BY <1>3, <2>1 DEF ExecBufFails
<1>4. CASE ExecWaitFails(i)
    BY <1>4 DEF ExecWaitFails
<1>5. CASE SyncResultFails(i)
    BY <1>5 DEF SyncResultFails, NoResult
<1>6. CASE BuildCrashes(i)
    BY <1>6 DEF BuildCrashes
<1> QED
    BY <1>1, <1>2, <1>3, <1>4, <1>5, <1>6 DEF CallFails

(* Once a call failed the run stays unclean. *)
LEMMA UncleanForGood == TypeOK /\ [Next]_vars /\ Clean' => Clean
<1> SUFFICES ASSUME TypeOK, [Next]_vars, Clean' PROVE Clean
    OBVIOUS
<1>1. CASE Verdict
  <2>1. PICK u \in SUBSET Jobs : faults' = faults + Cardinality(u \ NoResult)
      BY <1>1 DEF Verdict
  <2>2. Cardinality(u \ NoResult) \in Nat
      BY JobsAssumption, FS_Subset, FS_CardinalityType
  <2>3. faults' = 0 /\ lost' = lost /\ bad' = bad /\ lost' = {} /\ bad' = {} /\ faults \in Nat
      BY <1>1 DEF Verdict, Clean, TypeOK
  <2>4. faults = 0
      BY <2>1, <2>2, <2>3
  <2> QED
      BY <2>3, <2>4 DEF Clean
<1>2. CASE ~ Verdict
  <2>1. lost' = lost /\ bad' = bad /\ (faults' = faults \/ faults' = faults + 1)
    BY <1>2 DEF Next, ThreadCall, CallFails, OpenContext, OpenContextFails, CloseContext,
       CopyRegex, CopyPacket, CopyFails, BuildCommand, ExecBuf, ExecBufFails, ExecWait,
       ExecWaitFails, Finish, FinishStray, SyncResult, SyncResultFails, JoinAll, VerdictCrashes,
       BuildCrashes,
       Ended, device, outcome, vars, Fault
  <2> QED
      BY <2>1, BoundsAssumption DEF Clean, TypeOK
<1> QED
    BY <1>1, <1>2

LEMMA CleanStep == IInv /\ CleanInv /\ [Next]_vars => CleanInv'
<1> SUFFICES ASSUME IInv, CleanInv, [Next]_vars, Clean'
             PROVE  gaveup' = {} /\ \A i \in Jobs : CleanJob(i)'
    BY DEF CleanInv
<1>0. TypeOK /\ (\A i \in Jobs : ~ CallFails(i))
    BY FaultsAreNotClean DEF IInv
<1>a. Clean
    BY <1>0, UncleanForGood
<1>b. gaveup = {} /\ \A i \in Jobs : CleanJob(i)
    BY <1>a DEF CleanInv
<1> USE <1>0, <1>b DEF TypeOK, CleanJob, Submitted, At, Goto, device, outcome
<1>1. ASSUME NEW j \in Jobs, OpenContext(j)
      PROVE  gaveup' = {} /\ \A i \in Jobs : CleanJob(i)'
    BY <1>1 DEF OpenContext
<1>2. ASSUME NEW j \in Jobs, CloseContext(j)
      PROVE  gaveup' = {} /\ \A i \in Jobs : CleanJob(i)'
    BY <1>2 DEF CloseContext, IInv, WorkersOK, WorkerOK
<1>3. ASSUME NEW j \in Jobs, CopyRegex(j) \/ CopyPacket(j)
      PROVE  gaveup' = {} /\ \A i \in Jobs : CleanJob(i)'
    BY <1>3 DEF CopyRegex, CopyPacket
<1>4. ASSUME NEW j \in Jobs, BuildCommand(j)
      PROVE  gaveup' = {} /\ \A i \in Jobs : CleanJob(i)'
    BY <1>4 DEF BuildCommand, BuiltCommand
<1>5. ASSUME NEW j \in Jobs, ExecBuf(j)
      PROVE  gaveup' = {} /\ \A i \in Jobs : CleanJob(i)'
  <2>1. cmd[j] = "new"
      BY <1>5 DEF ExecBuf, IInv, WorkersOK, WorkerOK
  <2> QED
      BY <1>5, <2>1 DEF ExecBuf
<1>6. ASSUME NEW j \in Jobs, ExecWait(j)
      PROVE  gaveup' = {} /\ \A i \in Jobs : CleanJob(i)'
    BY <1>6 DEF ExecWait, TakeCompletion, AfterWait
<1>7. ASSUME NEW j \in Jobs, Finish(j)
      PROVE  gaveup' = {} /\ \A i \in Jobs : CleanJob(i)'
    BY <1>7 DEF Finish
<1>8. ASSUME NEW j \in Jobs, FinishStray(j) PROVE FALSE
    BY <1>8 DEF FinishStray
<1>9. ASSUME NEW j \in Jobs, SyncResult(j)
      PROVE  gaveup' = {} /\ \A i \in Jobs : CleanJob(i)'
    BY <1>9 DEF SyncResult
<1>10. CASE JoinAll
    BY <1>10 DEF JoinAll, AllReturned, NextPhase
<1>11. CASE Verdict \/ VerdictCrashes \/ Ended \/ UNCHANGED vars
    BY <1>11 DEF Verdict, VerdictCrashes, Ended, vars
<1> QED
    BY <1>1, <1>2, <1>3, <1>4, <1>5, <1>6, <1>7, <1>8, <1>9, <1>10, <1>11 DEF Next, ThreadCall

LEMMA CleanStepRefines ==
    ASSUME IInv, CleanInv, [Next]_vars, Clean, Clean'
    PROVE  Promise!Next \/ UNCHANGED Promise!vars
<1> DEFINE C == {i \in Jobs : cmd[i] # "blank"}
           F == {i \in Jobs : fetched[i] = "results"}
<1>0. TypeOK /\ (\A i \in Jobs : ~ CallFails(i))
    BY FaultsAreNotClean DEF IInv
<1>a. gaveup = {} /\ \A i \in Jobs : CleanJob(i)
    BY DEF CleanInv
<1>b. /\ Promise!vars = <<C, written, F, FALSE>>
      /\ Promise!vars' = <<C', written', F', FALSE>>
    BY DEF Promise!vars, IfClean
<1>1. CASE UNCHANGED <<cmd, written, fetched>>
    BY <1>1, <1>b
<1>2. ASSUME NEW i \in Jobs, BuildCommand(i)
      PROVE  Promise!Next \/ UNCHANGED Promise!vars
  <2>1. C' = C \cup {i} /\ written' = written /\ F' = F
      BY <1>0, <1>2 DEF BuildCommand, BuiltCommand, TypeOK
  <2>2. i \notin C => Promise!Copy(i)
      BY <2>1 DEF Promise!Copy, IfClean
  <2>3. i \in C => UNCHANGED Promise!vars
      BY <1>b, <2>1
  <2> QED
      BY <2>2, <2>3 DEF Promise!Next
<1>3. ASSUME NEW i \in Jobs, ExecBuf(i) PROVE UNCHANGED Promise!vars
  <2>1. cmd[i] # "blank"
      BY <1>3, <1>a DEF ExecBuf, At, CleanJob
  <2>2. C' = C
      BY <1>0, <1>3, <2>1 DEF ExecBuf, TypeOK
  <2> QED
      BY <1>3, <1>b, <2>2 DEF ExecBuf
<1>4. ASSUME NEW i \in Jobs, Finish(i)
      PROVE  Promise!Next \/ UNCHANGED Promise!vars
  <2>1. C' = C /\ written' = written \cup {i} /\ F' = F
      BY <1>0, <1>4 DEF Finish, TypeOK
  <2>2. phase # "copy"
      BY <1>4 DEF Finish, IInv, NothingSubmitted, Submitted
  <2>3. C = Jobs
      BY <1>a, <2>2 DEF CleanJob
  <2>4. i \notin written => Promise!Execute(i)
      BY <2>1, <2>3 DEF Promise!Execute, IfClean
  <2>5. i \in written => UNCHANGED Promise!vars
      BY <1>b, <2>1
  <2> QED
      BY <2>4, <2>5 DEF Promise!Next
<1>5. ASSUME NEW i \in Jobs, FinishStray(i) PROVE FALSE
    BY <1>a, <1>5 DEF FinishStray, CleanJob
<1>6. ASSUME NEW i \in Jobs, SyncResult(i)
      PROVE  Promise!Next \/ UNCHANGED Promise!vars
  <2>1. Pending = {} /\ Submitted = Jobs
      BY <1>a, <1>6, NothingPending DEF SyncResult, At, CleanJob, Submitted
  <2>2. written = Jobs
      BY <1>0, <1>a, <2>1 DEF Pending, Submitted, CleanJob, TypeOK
  <2>3. C' = C /\ written' = written /\ F' = F \cup {i}
      BY <1>0, <1>6, <2>2 DEF SyncResult, device, TypeOK
  <2>4. i \notin F => Promise!Fetch(i)
      BY <2>2, <2>3 DEF Promise!Fetch, IfClean
  <2>5. i \in F => UNCHANGED Promise!vars
      BY <1>b, <2>3
  <2> QED
      BY <2>4, <2>5 DEF Promise!Next
<1>7. \/ UNCHANGED <<cmd, written, fetched>>
      \/ \E i \in Jobs : BuildCommand(i) \/ ExecBuf(i) \/ Finish(i) \/ FinishStray(i)
                         \/ SyncResult(i)
    BY <1>0 DEF Next, ThreadCall, OpenContext, CloseContext, CopyRegex, CopyPacket,
       ExecWait, JoinAll, Verdict, VerdictCrashes, BuildCrashes, Ended, device, vars
<1> QED
    BY <1>1, <1>2, <1>3, <1>4, <1>5, <1>6, <1>7

LEMMA StepRefines == IInv /\ CleanInv /\ [Next]_vars => [Promise!Next]_(Promise!vars)
<1> SUFFICES ASSUME IInv, CleanInv, [Next]_vars PROVE Promise!Next \/ UNCHANGED Promise!vars
    OBVIOUS
<1>1. CASE Clean /\ Clean'
    BY <1>1, CleanStepRefines
<1>2. CASE Clean /\ ~ Clean'
  <2>1. Promise!Abort
      BY <1>2 DEF Promise!Abort, IfClean
  <2> QED
      BY <2>1 DEF Promise!Next
<1>3. CASE ~ Clean
  <2>1. ~ Clean'
      BY <1>3, UncleanForGood DEF IInv
  <2> QED
      BY <1>3, <2>1 DEF Promise!vars, IfClean
<1> QED
    BY <1>1, <1>2, <1>3

(* For any number of jobs the threads of csre-mt.cpp do, up to the first    *)
(* failing call, what a scan promises: no command runs before every job's   *)
(* input is on the device, and no result is fetched before all have run.    *)
THEOREM ThreadsKeepPromise == Spec => KeepsScanPromise
<1>1. Init => CleanInv
    BY DEF Init, CleanInv, CleanJob
<1>2. IInv /\ CleanInv /\ [Next]_vars => CleanInv'
    BY CleanStep
<1>3. Init => Promise!Init
    BY DEF Init, Promise!Init, Promise!Nothing, IfClean
<1> QED
    BY <1>1, <1>2, <1>3, StepRefines, IInvariant, PTL
    DEF Spec, KeepsScanPromise, Promise!Spec

-----------------------------------------------------------------------------
(* SumFunction, unfolded.  g holds the sums over the subsets of the domain. *)
Sums(g, f) ==
    g = [s \in SUBSET DOMAIN f |->
            IF s = {} THEN 0
            ELSE LET x == CHOOSE x \in s : TRUE IN f[x] + g[s \ {x}]]

LEMMA SumFunctionIs ==
    ASSUME NEW f
    PROVE  SumFunction(f) = (CHOOSE g : Sums(g, f))[DOMAIN f]
BY Zenon DEF SumFunction, SumFunctionOnSet, FoldFunctionOnSet, MapThenFoldSet, Sums

(* A sum of zeros: they are such sums, and for a least subset with another  *)
(* sum there would be a smaller one.                                        *)
LEMMA SumOfZeros ==
    ASSUME NEW S, IsFiniteSet(S), NEW f, f = [i \in S |-> 0]
    PROVE  SumFunction(f) = 0
<1> DEFINE g == CHOOSE h : Sums(h, f)
           Zeros == [s \in SUBSET S |-> 0]
           Rest(s) == s \ {CHOOSE x \in s : TRUE}
<1>1. DOMAIN f = S /\ \A x \in S : f[x] = 0
    OBVIOUS
<1>2. \A s \in SUBSET S : s # {} => /\ (CHOOSE x \in s : TRUE) \in s
                                    /\ Rest(s) \in SUBSET S /\ Rest(s) \subseteq s /\ Rest(s) # s
  <2> TAKE s \in SUBSET S
  <2> HAVE s # {}
  <2>1. (CHOOSE x \in s : TRUE) \in s
      OBVIOUS
  <2> QED
      BY <2>1
<1>3. Sums(Zeros, f)
  <2>1. Zeros = [s \in SUBSET S |->
            IF s = {} THEN 0
            ELSE f[CHOOSE x \in s : TRUE] + Zeros[Rest(s)]]
    <3>1. \A s \in SUBSET S : s # {} => f[CHOOSE x \in s : TRUE] = 0 /\ Zeros[Rest(s)] = 0
        BY <1>1, <1>2
    <3>2. 0 + 0 = 0
        OBVIOUS
    <3> QED
        BY <3>1, <3>2
  <2> QED
      BY <1>1, <2>1 DEF Sums
<1>4. Sums(g, f)
    BY <1>3
<1>5. \A s \in SUBSET S : g[s] = IF s = {} THEN 0 ELSE f[CHOOSE x \in s : TRUE] + g[Rest(s)]
    BY <1>1, <1>4 DEF Sums
<1> HIDE DEF g, Rest
<1> DEFINE Bad == {s \in SUBSET S : g[s] # 0}
<1>6. Bad = {}
  <2> SUFFICES ASSUME Bad # {} PROVE FALSE
      OBVIOUS
  <2>1. PICK s \in Bad : \A l \in Bad : ~ (<<l, s>> \in StrictSubsetOrdering(S))
    <3>1. Bad \subseteq SUBSET S
        OBVIOUS
    <3>2. IsWellFoundedOn(StrictSubsetOrdering(S), SUBSET S)
        BY FS_StrictSubsetOrderingWellFounded, FS_FiniteSubsetsOfFinite
    <3> QED
        BY <3>1, <3>2, WFMin
  <2>2. s \in SUBSET S /\ g[s] # 0
      OBVIOUS
  <2>3. s # {}
      BY <1>5, <2>2
  <2>4. Rest(s) \in SUBSET S /\ <<Rest(s), s>> \in StrictSubsetOrdering(S)
      BY <1>2, <2>2, <2>3 DEF StrictSubsetOrdering
  <2>5. g[Rest(s)] = 0
      BY <2>1, <2>4
  <2>6. f[CHOOSE x \in s : TRUE] = 0
      BY <1>1, <1>2, <2>2, <2>3
  <2>7. g[s] = f[CHOOSE x \in s : TRUE] + g[Rest(s)]
      BY <1>5, <2>2, <2>3
  <2> QED
      BY <2>2, <2>5, <2>6, <2>7
<1>7. SumFunction(f) = g[S]
    BY <1>1, SumFunctionIs DEF g
<1> QED
    BY <1>6, <1>7

-----------------------------------------------------------------------------
(* A clean run passes.  Up to the first failing call a context is open      *)
(* exactly while its thread is between its first and last call, and the     *)
(* results of every job are back when its resulter has returned.            *)
PassJob(i) ==
    /\ ctx[i] = IF pc[i] \in {"start", "returned"} THEN 0 ELSE 1
    /\ phase = "result" /\ pc[i] \in {"synced", "returned"} => fetched[i] = "results"
    /\ phase \in {"verdict", "end"} => pc[i] = "start" /\ fetched[i] = "results"
PassInv == Clean => /\ \A i \in Jobs : PassJob(i)
                    /\ phase # "end" => err = 0
                    /\ phase = "end" => verdict = "passed"


LEMMA InitPass == Init => PassInv
<1> SUFFICES ASSUME Init, Clean
             PROVE  err = 0 /\ phase = "copy" /\ \A i \in Jobs : PassJob(i)
    BY DEF PassInv
<1>1. phase = "copy" /\ \A i \in Jobs : PassJob(i)
    BY DEF Init, PassJob
<1>2. PICK p \in Prepared : err = p.err /\ p.lost = {}
    BY DEF Init, Clean
<1>3. PICK c \in Compiled, q \in Parsed : p = [err |-> c.err + q.err, lost |-> c.lost \cup q.lost]
    BY <1>2 DEF Prepared
<1>4. c.lost = {} /\ q.lost = {}
    BY <1>2, <1>3
<1>5. c.err = 0
  <2>1. c.err = -Cardinality({})
      BY <1>4 DEF Compiled
  <2> QED
      BY <2>1, FS_EmptySet
<1>6. q.err = 0
    BY <1>4 DEF Parsed, Nothing
<1> QED
    BY <1>1, <1>2, <1>3, <1>5, <1>6

(* The harvest of complete results adds nothing to err. *)
LEMMA HarvestOfResults ==
    ASSUME err = 0, NEW check \in BOOLEAN, NEW m \in [Jobs -> 0 .. MaxMatches],
           NEW r \in [Jobs -> Anything],
           \A i \in Jobs : r[i] = [n |-> m[i], bad |-> 0]
    PROVE  Harvested(check, m, r) = 0
<1> DEFINE wrong == [i \in Jobs |-> r[i].bad]
           found == [i \in Jobs |-> r[i].n]
<1>1. wrong = [i \in Jobs |-> 0]
    OBVIOUS
<1>2. found = m
    OBVIOUS
<1>3. Harvested(check, m, r) = IF check
                               THEN err - SumFunction(wrong)
                                        + Mismatch(SumFunction(found), SumFunction(m))
                               ELSE err
    BY DEF Harvested
<1> HIDE DEF wrong, found
<1>4. SumFunction(wrong) = 0
    BY <1>1, JobsAssumption, SumOfZeros
<1>5. Mismatch(SumFunction(found), SumFunction(m)) = 0
    BY <1>2 DEF Mismatch
<1>6. 0 - 0 + 0 = 0
    OBVIOUS
<1> QED
    BY <1>3, <1>4, <1>5, <1>6

LEMMA VerdictPasses ==
    ASSUME IInv, CleanInv, PassInv, Clean, Clean', Verdict
    PROVE  verdict' = "passed"
<1>1. PICK check \in BOOLEAN, m \in [Jobs -> 0 .. MaxMatches], u \in SUBSET Jobs :
         /\ faults' = faults + Cardinality(u \ NoResult)
         /\ \E r \in [Jobs -> Anything] :
            /\ \A i \in Jobs : /\ r[i].bad <= r[i].n
                               /\ r[i] \in IF i \in u THEN {Unmapped} ELSE Records(i, m[i])
            /\ err' = Harvested(check, m, r) - Cardinality(u)
            /\ verdict' = IF err' = 0 THEN "passed" ELSE "failed"
    BY DEF Verdict
<1>2. PICK r \in [Jobs -> Anything] :
            /\ \A i \in Jobs : /\ r[i].bad <= r[i].n
                               /\ r[i] \in IF i \in u THEN {Unmapped} ELSE Records(i, m[i])
            /\ err' = Harvested(check, m, r) - Cardinality(u)
            /\ verdict' = IF err' = 0 THEN "passed" ELSE "failed"
    BY <1>1
<1>3. u = {} /\ Cardinality(u) = 0
  <2>1. u \ NoResult = u
      BY DEF Clean, NoResult
  <2>2. IsFiniteSet(u) /\ Cardinality(u) \in Nat
      BY JobsAssumption, FS_Subset, FS_CardinalityType
  <2>3. faults = 0 /\ faults' = 0 /\ faults' = faults + Cardinality(u)
      BY <1>1, <2>1 DEF Clean
  <2>4. Cardinality(u) = 0
      BY <2>2, <2>3
  <2>5. u = {}
      BY <2>2, <2>4, FS_EmptySet
  <2> QED
      BY <2>4, <2>5
<1>4. phase = "verdict" /\ err = 0 /\ lost = {} /\ \A i \in Jobs : fetched[i] = "results"
    BY DEF Verdict, PassInv, PassJob, Clean
<1>5. ASSUME NEW i \in Jobs PROVE r[i] = [n |-> m[i], bad |-> 0]
  <2>1. Records(i, m[i]) = {[n |-> m[i], bad |-> 0]}
      BY <1>4 DEF Records
  <2> QED
      BY <1>2, <1>3, <2>1
<1>6. Harvested(check, m, r) = 0
    BY <1>4, <1>5, HarvestOfResults
<1>7. err' = 0
    BY <1>2, <1>3, <1>6
<1> QED
    BY <1>2, <1>7

(* In a clean run a resulter finds what its job's command wrote. *)
LEMMA ResultsAreThere ==
    ASSUME IInv, CleanInv, Clean, phase = "result", NEW i \in Jobs
    PROVE  i \in written
<1>1. gaveup = {} /\ CleanJob(i)
    BY DEF CleanInv
<1>2. Pending = {}
    BY <1>1, NothingPending
<1> QED
    BY <1>1, <1>2 DEF CleanJob, Pending, Submitted

LEMMA PassStep == IInv /\ CleanInv /\ PassInv /\ [Next]_vars => PassInv'
<1> DEFINE Passes == /\ \A i \in Jobs : PassJob(i)
                     /\ phase # "end" => err = 0
                     /\ phase = "end" => verdict = "passed"
<1> SUFFICES ASSUME IInv, CleanInv, PassInv, [Next]_vars, Clean'
             PROVE  Passes'
    BY DEF PassInv
<1>0. TypeOK /\ (\A i \in Jobs : ~ CallFails(i))
    BY FaultsAreNotClean DEF IInv
<1>a. Clean
    BY <1>0, UncleanForGood
<1>b. Passes
    BY <1>a DEF PassInv
<1> USE <1>0, <1>b DEF TypeOK, PassJob, At, Goto, Opens, device, outcome
<1>1. ASSUME NEW j \in Jobs, OpenContext(j) PROVE Passes'
    BY <1>1 DEF OpenContext
<1>2. ASSUME NEW j \in Jobs, CloseContext(j) PROVE Passes'
    BY <1>2 DEF CloseContext
<1>3. ASSUME NEW j \in Jobs, CopyRegex(j) \/ CopyPacket(j) PROVE Passes'
    BY <1>3 DEF CopyRegex, CopyPacket
<1>4. ASSUME NEW j \in Jobs, BuildCommand(j) PROVE Passes'
    BY <1>4 DEF BuildCommand
<1>5. ASSUME NEW j \in Jobs, ExecBuf(j) PROVE Passes'
    BY <1>5 DEF ExecBuf
<1>6. ASSUME NEW j \in Jobs, ExecWait(j) PROVE Passes'
    BY <1>6 DEF ExecWait, AfterWait
<1>7. ASSUME NEW j \in Jobs, Finish(j) \/ FinishStray(j) PROVE Passes'
    BY <1>7 DEF Finish, FinishStray
<1>8. ASSUME NEW j \in Jobs, SyncResult(j) PROVE Passes'
  <2>1. j \in written
      BY <1>8, <1>a, ResultsAreThere DEF SyncResult
  <2> QED
      BY <1>8, <2>1 DEF SyncResult
<1>9. CASE JoinAll
    BY <1>9 DEF JoinAll, AllReturned, NextPhase
<1>10. CASE Verdict
  <2>1. verdict' = "passed"
      BY <1>10, <1>a, VerdictPasses
  <2> QED
      BY <1>10, <2>1 DEF Verdict
<1>11. CASE VerdictCrashes
    BY <1>11, <1>a, JobsAssumption DEF VerdictCrashes, Clean, Fault
<1>12. CASE Ended \/ UNCHANGED vars
    BY <1>12 DEF Ended, vars
<1> QED
    BY <1>1, <1>2, <1>3, <1>4, <1>5, <1>6, <1>7, <1>8, <1>9, <1>10, <1>11, <1>12
    DEF Next, ThreadCall

(* With all input prepared and no failing call every job's results are      *)
(* fetched, every context is closed, the harvest adds up to 0 and the run   *)
(* prints TEST PASSED, for any number of jobs and matches                   *)
(* (csre-mt.cpp:355-399).                                                   *)
THEOREM CleanRunsPass == Spec => []CleanRunPasses
<1>1. Init => CleanInv
    BY DEF Init, CleanInv, CleanJob
<1>2. PassInv => CleanRunPasses
    BY DEF PassInv, PassJob, Clean, CleanRunPasses
<1> QED
    BY <1>1, <1>2, InitPass, CleanStep, PassStep, IInvariant, PTL DEF Spec


-----------------------------------------------------------------------------
(* No worker waits for a completion nobody will give: while one is in its   *)
(* loop around xclExecWait there is a completion to take or a command still *)
(* to finish, although others may have been woken by its own command, and   *)
(* whatever calls have failed (csre-mt.cpp:289-302).                        *)
NobodyWaitsForNothing ==
    \A i \in Jobs : At(i, "work", "issued") => completions > 0 \/ Pending # {}

THEOREM WorkersAreServed == Spec => []NobodyWaitsForNothing
<1>1. IInv => NobodyWaitsForNothing
  <2> SUFFICES ASSUME IInv, NEW i \in Jobs, At(i, "work", "issued"), Pending = {}
               PROVE  completions > 0
      BY DEF NobodyWaitsForNothing
  <2>1. i \in Submitted /\ i \notin took
      BY DEF IInv, WorkersOK, WorkerOK, At
  <2>2. took \subseteq Submitted
    <3> SUFFICES ASSUME NEW j \in took PROVE j \in Submitted
        OBVIOUS
    <3>1. j \in Jobs /\ phase = "work"
        BY DEF IInv, TypeOK, At
    <3> QED
        BY <3>1 DEF IInv, WorkersOK, WorkerOK
  <2>3. Submitted = Completed
      BY DEF Submitted, Pending, Completed
  <2>4. IsFiniteSet(Completed) /\ took \subseteq Completed /\ took # Completed
      BY <2>1, <2>2, <2>3, JobsAssumption, FS_Subset DEF Completed
  <2>5. /\ Cardinality(took) \in Nat /\ Cardinality(Completed) \in Nat
        /\ Cardinality(took) < Cardinality(Completed)
      BY <2>4, FS_Subset, FS_CardinalityType
  <2> QED
      BY <2>5 DEF IInv, TypeOK, CompletionsConserved
<1> QED
    BY <1>1, IInvariant, PTL


-----------------------------------------------------------------------------
(* Sums exist: two functions that add up the same way along the subsets of  *)
(* their domains agree where both are defined, and for a least subset       *)
(* without such a function those of its smaller subsets would give one.     *)
First(s) == CHOOSE x \in s : TRUE
Rest(s)  == s \ {First(s)}

PartSums(h, s, f) ==
    h = [t \in SUBSET s |-> IF t = {} THEN 0 ELSE f[First(t)] + h[Rest(t)]]

LEMMA RestIsSmaller ==
    ASSUME NEW s, s # {}
    PROVE  First(s) \in s /\ Rest(s) \subseteq s /\ Rest(s) # s
<1>1. First(s) \in s
    BY DEF First
<1> QED
    BY <1>1 DEF Rest

LEMMA LeastSubset ==
    ASSUME NEW S, IsFiniteSet(S), NEW B, B \subseteq SUBSET S, B # {}
    PROVE  \E s \in B : \A l \in SUBSET S : l \subseteq s /\ l # s => l \notin B
<1>1. IsWellFoundedOn(StrictSubsetOrdering(S), SUBSET S)
    BY FS_StrictSubsetOrderingWellFounded, FS_FiniteSubsetsOfFinite
<1>2. PICK s \in B : \A l \in B : ~ (<<l, s>> \in StrictSubsetOrdering(S))
    BY <1>1, WFMin
<1>3. ASSUME NEW l \in SUBSET S, l \subseteq s, l # s, l \in B PROVE FALSE
    BY <1>2, <1>3 DEF StrictSubsetOrdering
<1> QED
    BY <1>3

LEMMA PartSumsAgree ==
    ASSUME NEW S, IsFiniteSet(S), NEW f, NEW s \in SUBSET S, NEW t \in SUBSET S,
           NEW g, NEW h, PartSums(g, s, f), PartSums(h, t, f)
    PROVE  \A r \in SUBSET S : r \subseteq s /\ r \subseteq t => g[r] = h[r]
<1> DEFINE B == {r \in SUBSET S : r \subseteq s /\ r \subseteq t /\ g[r] # h[r]}
<1>1. B = {}
  <2> SUFFICES ASSUME B # {} PROVE FALSE
      OBVIOUS
  <2>1. PICK r \in B : \A l \in SUBSET S : l \subseteq r /\ l # r => l \notin B
    <3>1. B \subseteq SUBSET S
        OBVIOUS
    <3> HIDE DEF B
    <3> QED
        BY <3>1, LeastSubset
  <2>2. /\ g[r] = IF r = {} THEN 0 ELSE f[First(r)] + g[Rest(r)]
        /\ h[r] = IF r = {} THEN 0 ELSE f[First(r)] + h[Rest(r)]
      BY DEF PartSums
  <2>3. r # {}
      BY <2>2
  <2>4. Rest(r) \subseteq r /\ Rest(r) # r
      BY <2>3, RestIsSmaller
  <2>5. g[Rest(r)] = h[Rest(r)]
      BY <2>1, <2>4
  <2> QED
      BY <2>2, <2>3, <2>5
<1> QED
    BY <1>1

LEMMA PartSumsExist ==
    ASSUME NEW S, IsFiniteSet(S), NEW f
    PROVE  \E h : PartSums(h, S, f)
<1> DEFINE B == {s \in SUBSET S : ~ \E h : PartSums(h, s, f)}
<1>1. B = {}
  <2> SUFFICES ASSUME B # {} PROVE FALSE
      OBVIOUS
  <2>1. PICK s \in B : \A l \in SUBSET S : l \subseteq s /\ l # s => l \notin B
    <3>1. B \subseteq SUBSET S
        OBVIOUS
    <3> HIDE DEF B
    <3> QED
        BY <3>1, LeastSubset
  <2> DEFINE H(r) == CHOOSE h : PartSums(h, r, f)
             new  == [t \in SUBSET s |-> IF t = {} THEN 0
                                         ELSE f[First(t)] + H(Rest(t))[Rest(t)]]
  <2>2. \A r \in SUBSET S : r \subseteq s /\ r # s => PartSums(H(r), r, f)
      BY <2>1
  <2>3. ASSUME NEW r \in SUBSET s, r # s PROVE new[r] = H(r)[r]
    <3>1. PartSums(H(r), r, f)
        BY <2>2, <2>3
    <3> HIDE DEF H
    <3>2. H(r)[r] = IF r = {} THEN 0 ELSE f[First(r)] + H(r)[Rest(r)]
        BY <3>1 DEF PartSums
    <3>3. CASE r = {}
        BY <3>2, <3>3
    <3>4. CASE r # {}
      <4>1. Rest(r) \subseteq r /\ Rest(r) \in SUBSET S /\ r \in SUBSET S /\ Rest(r) # s
          BY <2>3, <3>4, RestIsSmaller
      <4>2. PartSums(H(Rest(r)), Rest(r), f)
          BY <2>2, <4>1
      <4>3. \A q \in SUBSET S : q \subseteq r /\ q \subseteq Rest(r) => H(r)[q] = H(Rest(r))[q]
          BY <3>1, <4>1, <4>2, PartSumsAgree
      <4>4. H(r)[Rest(r)] = H(Rest(r))[Rest(r)]
          BY <4>1, <4>3
      <4> QED
          BY <3>2, <3>4, <4>4
    <3> QED
        BY <3>3, <3>4
  <2> HIDE DEF H
  <2>4. new = [t \in SUBSET s |-> IF t = {} THEN 0 ELSE f[First(t)] + new[Rest(t)]]
    <3>1. \A t \in SUBSET s : t # {} => Rest(t) \in SUBSET s /\ Rest(t) # s
        BY RestIsSmaller
    <3> QED
        BY <2>3, <3>1
  <2>5. PartSums(new, s, f)
      BY <2>4 DEF PartSums
  <2> QED
      BY <2>5
<1> QED
    BY <1>1

(* The sum of natural numbers over a finite set is one. *)
LEMMA SumOfNaturals ==
    ASSUME NEW S, IsFiniteSet(S), NEW f \in [S -> Nat]
    PROVE  SumFunction(f) \in Nat
<1> DEFINE g == CHOOSE h : Sums(h, f)
           B == {s \in SUBSET S : g[s] \notin Nat}
<1>1. DOMAIN f = S /\ \A x \in S : f[x] \in Nat
    OBVIOUS
<1>2. \A h : Sums(h, f) <=> PartSums(h, S, f)
    BY <1>1 DEF Sums, PartSums, First, Rest
<1>3. Sums(g, f)
    BY <1>2, PartSumsExist
<1>4. \A s \in SUBSET S : g[s] = IF s = {} THEN 0 ELSE f[First(s)] + g[Rest(s)]
    BY <1>2, <1>3 DEF PartSums
<1> HIDE DEF g
<1>5. B = {}
  <2> SUFFICES ASSUME B # {} PROVE FALSE
      OBVIOUS
  <2>1. PICK s \in B : \A l \in SUBSET S : l \subseteq s /\ l # s => l \notin B
    <3>1. B \subseteq SUBSET S
        OBVIOUS
    <3> HIDE DEF B
    <3> QED
        BY <3>1, LeastSubset
  <2>2. s \in SUBSET S /\ g[s] \notin Nat
      OBVIOUS
  <2>3. s # {}
      BY <1>4, <2>2
  <2>4. First(s) \in S /\ Rest(s) \in SUBSET S /\ Rest(s) \subseteq s /\ Rest(s) # s
      BY <2>2, <2>3, RestIsSmaller
  <2>5. g[Rest(s)] \in Nat
      BY <2>1, <2>4
  <2>6. f[First(s)] \in Nat
      BY <1>1, <2>4
  <2>7. g[s] = f[First(s)] + g[Rest(s)]
      BY <1>4, <2>2, <2>3
  <2> QED
      BY <2>2, <2>5, <2>6, <2>7
<1>6. SumFunction(f) = g[S]
    BY <1>1, SumFunctionIs DEF g
<1> QED
    BY <1>5, <1>6

-----------------------------------------------------------------------------
(* Until its end the run has no verdict, and err is a number. *)
StillOpen == phase # "end" => verdict = "none" /\ err \in Int

LEMMA InitOpen == Init => StillOpen
<1> SUFFICES ASSUME Init PROVE err \in Int
    BY DEF Init, StillOpen
<1>1. PICK p \in Prepared : err = p.err
    BY DEF Init
<1>2. PICK c \in Compiled, q \in Parsed : p = [err |-> c.err + q.err, lost |-> c.lost \cup q.lost]
    BY <1>1 DEF Prepared
<1>3. c.err \in Int
  <2>1. PICK L \in SUBSET Jobs : c = [err |-> -Cardinality(L), lost |-> L]
      BY DEF Compiled
  <2>2. Cardinality(L) \in Nat
      BY JobsAssumption, FS_Subset, FS_CardinalityType
  <2>3. c.err = -Cardinality(L)
      BY <2>1
  <2> QED
      BY <2>2, <2>3
<1>4. q.err \in Int
    BY DEF Parsed, Nothing
<1> QED
    BY <1>1, <1>2, <1>3, <1>4

LEMMA OpenStep == StillOpen /\ [Next]_vars => StillOpen'
<1> SUFFICES ASSUME StillOpen, [Next]_vars, phase' # "end" PROVE verdict' = "none" /\ err' \in Int
    BY DEF StillOpen
<1>1. UNCHANGED <<err, verdict>> /\ phase # "end"
    BY DEF Next, ThreadCall, CallFails, OpenContext, OpenContextFails, CloseContext,
       CopyRegex, CopyPacket, CopyFails, BuildCommand, ExecBuf, ExecBufFails, ExecWait,
       ExecWaitFails, Finish, FinishStray, SyncResult, SyncResultFails, JoinAll, Verdict,
       VerdictCrashes, BuildCrashes, Ended, At, outcome, vars
<1> QED
    BY <1>1 DEF StillOpen

(* The harvest adds at most 1 to err. *)
LEMMA HarvestAddsOne ==
    ASSUME err \in Int, NEW check \in BOOLEAN, NEW m, NEW r \in [Jobs -> Anything]
    PROVE  Harvested(check, m, r) \in Int /\ Harvested(check, m, r) <= err + 1
<1> DEFINE wrong == [i \in Jobs |-> r[i].bad]
           more  == Mismatch(SumFunction([i \in Jobs |-> r[i].n]), SumFunction(m))
<1>1. wrong \in [Jobs -> Nat]
    BY BoundsAssumption DEF Anything
<1>2. more \in {0, 1}
    BY DEF Mismatch
<1>3. Harvested(check, m, r) = IF check THEN err - SumFunction(wrong) + more ELSE err
    BY DEF Harvested
<1> HIDE DEF wrong, more
<1>4. SumFunction(wrong) \in Nat
    BY <1>1, JobsAssumption, SumOfNaturals
<1> QED
    BY <1>2, <1>3, <1>4

(* However many calls compiling, parsing and reading back fail, the count's *)
(* 1 makes up for one of them: no run passes that had two errors before its *)
(* harvest, for any number of jobs and matches (csre-mt.cpp:361-367).       *)
THEOREM OneErrorAtMost == Spec => OneErrorCancelled
<1>1. StillOpen /\ [Next]_vars => [verdict' = "passed" => err >= -1]_vars
  <2> SUFFICES ASSUME StillOpen, Next, verdict' = "passed", ~ UNCHANGED vars PROVE err >= -1
      OBVIOUS
  <2>1. CASE Verdict
    <3>1. PICK check \in BOOLEAN, m \in [Jobs -> 0 .. MaxMatches], u \in SUBSET Jobs :
             \E r \in [Jobs -> Anything] :
                /\ err' = Harvested(check, m, r) - Cardinality(u)
                /\ verdict' = IF err' = 0 THEN "passed" ELSE "failed"
        BY <2>1 DEF Verdict
    <3>2. PICK r \in [Jobs -> Anything] :
                /\ err' = Harvested(check, m, r) - Cardinality(u)
                /\ verdict' = IF err' = 0 THEN "passed" ELSE "failed"
        BY <3>1
    <3>3. err \in Int
        BY <2>1 DEF Verdict, StillOpen
    <3>4. Cardinality(u) \in Nat
        BY JobsAssumption, FS_Subset, FS_CardinalityType
    <3>5. Harvested(check, m, r) \in Int /\ Harvested(check, m, r) <= err + 1
        BY <3>3, HarvestAddsOne
    <3>6. Harvested(check, m, r) - Cardinality(u) = 0
        BY <3>2
    <3> QED
        BY <3>3, <3>4, <3>5, <3>6
  <2>2. CASE ~ Verdict
    <3>1. phase # "end" /\ (verdict' = verdict \/ verdict' = "aborted")
        BY <2>2 DEF Next, ThreadCall, CallFails, OpenContext, OpenContextFails, CloseContext,
           CopyRegex, CopyPacket, CopyFails, BuildCommand, ExecBuf, ExecBufFails, ExecWait,
           ExecWaitFails, Finish, FinishStray, SyncResult, SyncResultFails, JoinAll,
           VerdictCrashes, BuildCrashes, Ended, At, outcome
    <3> QED
        BY <3>1 DEF StillOpen
  <2> QED
      BY <2>1, <2>2
<1> QED
    BY <1>1, InitOpen, OpenStep, PTL DEF Spec, OneErrorCancelled
=============================================================================
