---------------------------- MODULE OclAppProofs ----------------------------
(***************************************************************************)
(* The OpenCL application for every number of kernels and of devices.      *)
(*                                                                         *)
(* Its steps are steps of CSRE::scan or leave the scan alone, so that what *)
(* is proved of OclScan holds here, the promise of Batch included.  The    *)
(* inductive invariant adds where main is: how much of the scan that       *)
(* implies, and which buffers are there and which results were read before *)
(* each round of its loops.                                                *)
(***************************************************************************)
EXTENDS OclApp, TLAPS

Scans == INSTANCE OclScanProofs WITH MaxScans <- 1

BeforeScan == {"init", "program", "compile", "parse", "alloc", "scan"}
AfterScan  == {"result", "compare", "close", "free"}

(* One scan is made, between its call and its return. *)
OneScan ==
    /\ pc \in BeforeScan => scans = 0 /\ step = "idle"
    /\ pc = "scanning"   => scans = 1 /\ step # "exited"
    /\ pc \in AfterScan  => scans = 1 /\ step = "idle"

LibraryOpen ==
    /\ pc \in (BeforeScan \cup AfterScan \cup {"scanning"}) \ {"init", "free"} => opened = "open"
    /\ pc = "free" => opened = "closed"

(* A refused input ends the process at the call that takes it. *)
RefusedAtCall ==
    /\ pc \in (BeforeScan \cup AfterScan \cup {"scanning"}) \ {"init", "program", "compile"} =>
          "regex" \notin refused
    /\ pc \in (BeforeScan \cup AfterScan \cup {"scanning"})
               \ {"init", "program", "compile", "parse"} => "packet" \notin refused
    /\ refused # {} => scans = 0 /\ verdict # "passed"

(* The buffers that are there, up to the round a loop is in. *)
Before(n) == {j \in Kernels : j < n}

InputsThere ==
    /\ pc = "compile" => Before(k) \subseteq buffers["regex"]
    /\ pc \in {"parse", "alloc", "scan", "scanning", "result", "compare", "close"} =>
          buffers["regex"] = Kernels
    /\ pc \in {"alloc", "scan", "scanning", "result", "compare", "close"} =>
          buffers["packet"] = Kernels

ResultsThere ==
    pc = "scanning" =>
        IF step = "setup" THEN Before(i) \subseteq buffers["result"]
        ELSE buffers["result"] = Kernels

Harvested ==
    /\ pc = "result" => \A n \in Before(k) : harvested[n] = 1
    /\ pc \in {"compare", "close", "free"} => \A n \in Kernels : harvested[n] = 1

FreedSoFar == pc = "free" => \A u \in Uses : buffers[u] \cap Before(k) = {}

VerdictAtEnd == pc # "end" => verdict = "none"

MainInv ==
    /\ OneScan /\ LibraryOpen /\ RefusedAtCall
    /\ InputsThere /\ ResultsThere /\ Harvested /\ FreedSoFar
    /\ VerdictAtEnd /\ PassedMeansDone

AInv == TypeOK /\ Scans!OInv /\ MainInv

-----------------------------------------------------------------------------
(* The application scans: what is proved of OclScan is of its steps. *)
LEMMA InitScans == Init => Library!Init /\ Scans!Init
<1> SUFFICES ASSUME Init PROVE Library!Init /\ Scans!Init
    OBVIOUS
<1>1. Library!Init
    BY DEF Init
<1> QED
    BY <1>1 DEF Library!Init, Scans!Init, Library!Ops, Scans!Ops, Library!Kernels, Scans!Kernels

(* The library's operators are those of the theorems, under two names. *)
LEMMA SameOperators ==
    /\ Library!TypeOK <=> Scans!TypeOK
    /\ Library!Scan => Scans!Scan
    /\ Library!Host => Scans!Host
    /\ Library!CheckFails => Scans!CheckFails
    /\ \A op \in Ops, n \in Kernels : Library!Perform(op, n) => Scans!Perform(op, n)
    /\ Scans!Ops = Ops /\ Scans!Kernels = Kernels
<1>0. /\ Library!Ops = Ops /\ Scans!Ops = Ops /\ Library!Kernels = Kernels /\ Scans!Kernels = Kernels
      /\ Library!Steps = Scans!Steps
      /\ Library!MoreKernels <=> Scans!MoreKernels
    BY DEF Ops, Library!Ops, Scans!Ops, Kernels, Library!Kernels, Scans!Kernels,
           Library!Steps, Scans!Steps,
           Library!MoreKernels, Scans!MoreKernels
<1>1. Library!TypeOK <=> Scans!TypeOK
    BY <1>0 DEF Library!TypeOK, Scans!TypeOK
<1>2. Library!Scan => Scans!Scan
    BY <1>0 DEF Library!Scan, Scans!Scan, Library!device, Scans!device
<1>3. Library!Host => Scans!Host
    BY <1>0
    DEF Library!Host, Scans!Host, Library!device, Scans!device, Library!Loop, Scans!Loop,
        Library!SetupKernel, Scans!SetupKernel, Library!Enqueue, Scans!Enqueue,
        Library!EnqueueCopy, Scans!EnqueueCopy, Library!EnqueueExec, Scans!EnqueueExec,
        Library!EnqueueResult, Scans!EnqueueResult, Library!Finish, Scans!Finish,
        Library!QueueEmpty, Scans!QueueEmpty,
        Library!FinishCopy, Scans!FinishCopy, Library!FinishExec, Scans!FinishExec,
        Library!FinishResult, Scans!FinishResult
<1>4. Library!CheckFails => Scans!CheckFails
    BY <1>0 DEF Library!CheckFails, Scans!CheckFails, Library!device, Scans!device
<1>5. \A op \in Ops, n \in Kernels : Library!Perform(op, n) => Scans!Perform(op, n)
    BY <1>0 DEF Library!Perform, Scans!Perform, Library!WaitList, Scans!WaitList
<1> QED
    BY <1>0, <1>1, <1>2, <1>3, <1>4, <1>5

LEMMA StepScans == [Next]_vars => [Scans!Next]_(Scans!vars)
<1> SUFFICES ASSUME [Next]_vars PROVE Scans!Next \/ UNCHANGED Scans!vars
    OBVIOUS
<1>1. CASE UNCHANGED libvars
    BY <1>1 DEF libvars, Scans!vars
<1>2. CASE CallScan \/ ScanGoesOn \/ ScanExits
  <2>1. Scans!Scan \/ Scans!Host \/ Scans!CheckFails
      BY <1>2, SameOperators DEF CallScan, ScanGoesOn, ScanExits
  <2> QED
      BY <2>1 DEF Scans!Next
<1>3. ASSUME NEW op \in Ops, NEW n \in Kernels, QueueGoesOn(op, n) PROVE Scans!Next
    BY <1>3, SameOperators DEF QueueGoesOn, Scans!Next
<1>4. \/ UNCHANGED libvars
      \/ CallScan \/ ScanGoesOn \/ ScanExits
      \/ \E op \in Ops, n \in Kernels : QueueGoesOn(op, n)
    BY DEF Next, Main, Ended, vars, InitLibrary, ProgramDevice, DeviceFails, CompileForKernel,
           ParsePackets, AllocResult, ScanReturns, HarvestKernel, NoResultFile, ResultsAgree,
           ResultsDiffer, Exits, CloseLibrary, FreeBuffers
<1> QED
    BY <1>1, <1>2, <1>3, <1>4

LEMMA ScanInvStep == Scans!OInv /\ [Next]_vars => Scans!OInv'
<1>1. NumKernels \in Nat \ {0} /\ 1 \in Nat
    BY SizesAssumption
<1> QED
    BY <1>1, StepScans, Scans!TypeKept, Scans!ShapeKept, Scans!DataKept DEF Scans!OInv

(* Outside of a call nothing is queued, and after it every result buffer    *)
(* was filled by it.                                                        *)
LEMMA IdleLibrary ==
    ASSUME Scans!OInv, step = "idle"
    PROVE  /\ \A op \in Ops, n \in Kernels : queue[op][n] # "queued"
           /\ \A n \in Kernels : result[n] = scans
<1>1. \/ scans = 0 /\ Scans!None("copy") /\ Scans!None("exec") /\ Scans!None("result")
      \/ Scans!Done("copy") /\ Scans!Done("exec") /\ Scans!Done("result")
    BY DEF Scans!OInv, Scans!QueueShape
<1>2. Scans!Kernels = Kernels
    BY SameOperators
<1>3. \A op \in Ops, n \in Kernels : queue[op][n] # "queued"
    BY <1>1, <1>2 DEF Scans!None, Scans!Done, Ops
<1>4. \A n \in Kernels : result[n] = scans
    BY <1>1, <1>2 DEF Scans!OInv, Scans!DataOfThisScan, Scans!Done
<1> QED
    BY <1>3, <1>4

-----------------------------------------------------------------------------
(* The rounds of a loop over the kernels. *)
LEMMA Rounds ==
    ASSUME NEW n \in Kernels
    PROVE  /\ 0 \in Kernels /\ Before(0) = {}
           /\ n + 1 < NumKernels => n + 1 \in Kernels /\ Before(n + 1) = Before(n) \cup {n}
           /\ ~ (n + 1 < NumKernels) => Before(n) \cup {n} = Kernels
BY SizesAssumption DEF Kernels, Before

LEMMA LoopRound ==
    ASSUME k \in Kernels, NEW l, Loop(l)
    PROVE  /\ k' \in Kernels
           /\ \/ pc' = pc /\ Before(k') = Before(k) \cup {k}
              \/ pc' = l /\ k' = 0 /\ Before(k') = {} /\ Before(k) \cup {k} = Kernels
BY Rounds DEF Loop, MoreRounds

(* What a step of the scan's host does to the step and the index. *)
LEMMA HostRound ==
    ASSUME Library!TypeOK, Library!Host
    PROVE  /\ scans' = scans /\ step' # "exited"
           /\ step = "setup" => \/ step' = "setup" /\ Before(i') = Before(i) \cup {i}
                                \/ step' # "setup" /\ Before(i) \cup {i} = Kernels
           /\ step # "setup" => step' # "setup"
<1>1. i \in Kernels
    BY DEF Library!TypeOK, Library!Kernels, Kernels
<1>2. CASE Library!SetupKernel
  <2>1. CASE i + 1 < NumKernels
      BY <1>1, <1>2, <2>1, Rounds DEF Library!SetupKernel, Library!Loop, Library!MoreKernels
  <2>2. CASE ~ (i + 1 < NumKernels)
      BY <1>1, <1>2, <2>2, Rounds DEF Library!SetupKernel, Library!Loop, Library!MoreKernels
  <2> QED
      BY <2>1, <2>2
<1>3. CASE Library!EnqueueCopy \/ Library!EnqueueExec \/ Library!EnqueueResult
    BY <1>3 DEF Library!EnqueueCopy, Library!EnqueueExec, Library!EnqueueResult,
                Library!Enqueue, Library!Loop
<1>4. CASE Library!FinishCopy \/ Library!FinishExec \/ Library!FinishResult
    BY <1>4 DEF Library!FinishCopy, Library!FinishExec, Library!FinishResult, Library!Finish
<1> QED
    BY <1>2, <1>3, <1>4 DEF Library!Host

-----------------------------------------------------------------------------
LEMMA InitAInv == Init => AInv
<1> SUFFICES ASSUME Init PROVE AInv
    OBVIOUS
<1>1. Scans!OInv
  <2>1. NumKernels \in Nat \ {0} /\ 1 \in Nat
      BY SizesAssumption
  <2> QED
      BY <2>1, InitScans, Scans!InitOInv
<1>2. TypeOK
  <2>1. Library!TypeOK
      BY <1>1, SameOperators DEF Scans!OInv
  <2>2. 0 \in Kernels /\ 0 \in 0 .. NumDevices
      BY SizesAssumption DEF Kernels
  <2> QED
      BY <2>1, <2>2 DEF Init, TypeOK
<1>3. MainInv
  <2>1. scans = 0 /\ step = "idle"
      BY DEF Init, Library!Init
  <2> QED
      BY <2>1 DEF Init, MainInv, OneScan, LibraryOpen, RefusedAtCall, InputsThere, ResultsThere,
                  Harvested, FreedSoFar, VerdictAtEnd, PassedMeansDone, BeforeScan, AfterScan
<1> QED
    BY <1>1, <1>2, <1>3 DEF AInv

LEMMA TypeStep == TypeOK /\ Scans!OInv /\ [Next]_vars => TypeOK'
<1> SUFFICES ASSUME TypeOK, Scans!OInv, [Next]_vars PROVE TypeOK'
    OBVIOUS
<1>1. Library!TypeOK'
  <2>1. Scans!TypeOK'
      BY ScanInvStep DEF Scans!OInv
  <2> QED
      BY <2>1 DEF Library!TypeOK, Scans!TypeOK, Library!Steps, Scans!Steps,
                  Library!Kernels, Scans!Kernels, Library!Ops, Scans!Ops
<1>2. 0 \in Kernels
    BY SizesAssumption DEF Kernels
<1>3. CASE InitLibrary \/ ProgramDevice \/ ParsePackets
    BY <1>1, <1>2, <1>3 DEF TypeOK, InitLibrary, ProgramDevice, ParsePackets, End, given, Uses
<1>4. CASE DeviceFails
  <2>1. device < NumDevices => device + 1 \in 0 .. NumDevices
      BY SizesAssumption DEF TypeOK
  <2> QED
      BY <1>1, <1>4, <2>1 DEF TypeOK, DeviceFails, End, given
<1>5. CASE CompileForKernel \/ AllocResult
  <2>1. k' \in Kernels /\ (pc' = pc \/ pc' \in {"parse", "scan"})
      BY <1>5, LoopRound DEF CompileForKernel, AllocResult, TypeOK
  <2>2. buffers' \in [Uses -> SUBSET Kernels]
      BY <1>5 DEF CompileForKernel, AllocResult, TypeOK, Uses
  <2> QED
      BY <1>1, <1>5, <2>1, <2>2 DEF TypeOK, CompileForKernel, AllocResult, given
<1>6. CASE HarvestKernel
  <2>1. k' \in Kernels /\ (pc' = pc \/ pc' = "compare")
      BY <1>6, LoopRound DEF HarvestKernel, TypeOK
  <2>2. result \in [Kernels -> 0 .. 1]
      BY DEF TypeOK, Library!TypeOK, Library!Kernels, Kernels
  <2>3. harvested' \in [Kernels -> 0 .. 1]
      BY <1>6, <2>2 DEF HarvestKernel, TypeOK
  <2> QED
      BY <1>1, <1>6, <2>1, <2>3 DEF TypeOK, HarvestKernel, given
<1>7. CASE FreeBuffers
  <2>1. k' \in Kernels
      BY <1>7, Rounds DEF FreeBuffers, MoreRounds, TypeOK
  <2>2. buffers' \in [Uses -> SUBSET Kernels]
      BY <1>7 DEF FreeBuffers, Freed, TypeOK
  <2> QED
      BY <1>1, <1>7, <2>1, <2>2 DEF TypeOK, FreeBuffers, End, given
<1>8. CASE CallScan \/ ScanGoesOn \/ ScanReturns \/ ScanExits
    BY <1>1, <1>2, <1>8 DEF TypeOK, CallScan, ScanGoesOn, ScanReturns, ScanExits, End, given
<1>9. CASE \/ NoResultFile \/ ResultsAgree \/ ResultsDiffer \/ CloseLibrary
           \/ \E l \in {"program", "compile", "parse"} : Exits(l)
    BY <1>1, <1>2, <1>9
    DEF TypeOK, NoResultFile, ResultsAgree, ResultsDiffer, CloseLibrary, Exits, End, given
<1>10. CASE (\E op \in Ops, n \in Kernels : QueueGoesOn(op, n)) \/ Ended \/ UNCHANGED vars
    BY <1>1, <1>10 DEF TypeOK, QueueGoesOn, Ended, vars, given
<1> QED
    BY <1>3, <1>4, <1>5, <1>6, <1>7, <1>8, <1>9, <1>10 DEF Next, Main

(* The process ends without having passed. *)
LEMMA EndStep ==
    ASSUME MainInv, NEW v \in {"failed", "aborted"}, End(v), UNCHANGED <<scans, given>>
    PROVE  MainInv'
<1>1. pc' = "end" /\ verdict' = v /\ scans' = scans /\ refused' = refused
    BY DEF End, given
<1>2. RefusedAtCall' /\ PassedMeansDone'
    BY <1>1 DEF MainInv, RefusedAtCall, PassedMeansDone, BeforeScan, AfterScan
<1> QED
    BY <1>1, <1>2 DEF MainInv, OneScan, LibraryOpen, InputsThere, ResultsThere, Harvested,
                      FreedSoFar, VerdictAtEnd, BeforeScan, AfterScan

(* Where main goes on, and what it has done before: one step per call.      *)
LEMMA MainStep == AInv /\ [Next]_vars => MainInv'
<1> SUFFICES ASSUME AInv, [Next]_vars PROVE MainInv'
    OBVIOUS
<1>0. TypeOK /\ Scans!OInv /\ MainInv
    BY DEF AInv
<1> USE DEF OneScan, LibraryOpen, RefusedAtCall, InputsThere, ResultsThere, Harvested, FreedSoFar,
            VerdictAtEnd, PassedMeansDone, BeforeScan, AfterScan
<1>1. CASE InitLibrary
  <2>1. CASE \E v \in {"failed", "aborted"} : End(v)
      BY <1>0, <1>1, <2>1, EndStep DEF InitLibrary, libvars
  <2>2. CASE pc' = "program" /\ UNCHANGED verdict
      BY <1>0, <1>1, <2>2 DEF MainInv, InitLibrary, libvars, given
  <2> QED
      BY <1>1, <2>1, <2>2 DEF InitLibrary
<1>2. CASE ProgramDevice
    BY <1>0, <1>2, Rounds DEF MainInv, ProgramDevice, libvars, given, TypeOK
<1>3. CASE DeviceFails
  <2>1. CASE End("aborted")
      BY <1>0, <1>3, <2>1, EndStep DEF DeviceFails, libvars
  <2>2. CASE UNCHANGED <<pc, verdict>>
      BY <1>0, <1>3, <2>2 DEF MainInv, DeviceFails, libvars, given
  <2> QED
      BY <1>3, <2>1, <2>2 DEF DeviceFails
<1>4. CASE CompileForKernel
  <2>1. /\ pc = "compile" /\ "regex" \notin refused
        /\ buffers' = [buffers EXCEPT !["regex"] = @ \cup {k}]
        /\ UNCHANGED <<libvars, given, device, opened, harvested, verdict>>
      BY <1>4 DEF CompileForKernel, Accepted
  <2>2. \/ pc' = pc /\ Before(k') = Before(k) \cup {k}
        \/ pc' = "parse" /\ Before(k) \cup {k} = Kernels
      BY <1>0, <1>4, LoopRound DEF CompileForKernel, TypeOK
  <2>3. buffers'["regex"] = buffers["regex"] \cup {k} /\ buffers["regex"] \subseteq Kernels
        /\ k \in Kernels
      BY <1>0, <2>1 DEF TypeOK, Uses
  <2> QED
      BY <1>0, <2>1, <2>2, <2>3 DEF MainInv, libvars, given
<1>5. CASE ParsePackets
  <2>1. /\ pc = "parse" /\ "packet" \notin refused /\ pc' = "alloc"
        /\ buffers' = [buffers EXCEPT !["packet"] = Kernels]
        /\ UNCHANGED <<libvars, given, device, opened, harvested, verdict>>
      BY <1>5 DEF ParsePackets, Accepted
  <2>2. buffers'["packet"] = Kernels /\ buffers'["regex"] = buffers["regex"]
      BY <1>0, <2>1 DEF TypeOK, Uses
  <2> QED
      BY <1>0, <2>1, <2>2 DEF MainInv, libvars, given
<1>6. CASE AllocResult
  <2>1. /\ pc = "alloc"
        /\ UNCHANGED <<libvars, given, device, opened, harvested, verdict>>
      BY <1>6 DEF AllocResult
  <2>2. pc' \in {"alloc", "scan"}
      BY <1>0, <1>6, LoopRound DEF AllocResult, TypeOK
  <2>3. buffers'["regex"] = buffers["regex"] /\ buffers'["packet"] = buffers["packet"]
      BY <1>0, <1>6 DEF AllocResult, TypeOK, Uses
  <2> QED
      BY <1>0, <2>1, <2>2, <2>3 DEF MainInv, libvars, given
<1>7. CASE CallScan
  <2>1. /\ pc = "scan" /\ pc' = "scanning"
        /\ UNCHANGED <<given, k, device, opened, buffers, harvested, verdict>>
      BY <1>7 DEF CallScan
  <2>2. step' = "setup" /\ i' = 0 /\ scans' = 1
      BY <1>0, <1>7, <2>1 DEF CallScan, Library!Scan, MainInv
  <2>3. Before(0) = {} /\ refused = {}
      BY <1>0, <2>1, Rounds DEF MainInv, TypeOK
  <2> QED
      BY <1>0, <2>1, <2>2, <2>3 DEF MainInv, given
<1>8. CASE ScanGoesOn
  <2>1. /\ pc = "scanning" /\ pc' = pc /\ (step = "setup" => i \in buffers["result"])
        /\ UNCHANGED <<given, k, device, opened, buffers, harvested, verdict>>
      BY <1>8 DEF ScanGoesOn
  <2>2. /\ scans' = scans /\ step' # "exited"
        /\ step = "setup" => \/ step' = "setup" /\ Before(i') = Before(i) \cup {i}
                             \/ step' # "setup" /\ Before(i) \cup {i} = Kernels
        /\ step # "setup" => step' # "setup"
      BY <1>0, <1>8, HostRound DEF ScanGoesOn, TypeOK
  <2>3. buffers["result"] \subseteq Kernels
      BY <1>0 DEF TypeOK, Uses
  <2>4. ResultsThere'
      BY <1>0, <2>1, <2>2, <2>3 DEF MainInv
  <2> QED
      BY <1>0, <2>1, <2>2, <2>4 DEF MainInv, given
<1>9. ASSUME NEW op \in Ops, NEW n \in Kernels, QueueGoesOn(op, n) PROVE MainInv'
  <2>1. UNCHANGED <<step, i, scans, given, pc, k, device, opened, buffers, harvested, verdict>>
      BY <1>9 DEF QueueGoesOn, Library!Perform
  <2> QED
      BY <1>0, <2>1 DEF MainInv, given
<1>10. CASE ScanExits
    BY <1>0, <1>10, EndStep DEF ScanExits, Library!CheckFails
<1>11. CASE ScanReturns
  <2>1. Before(0) = {}
      BY <1>0, Rounds DEF TypeOK
  <2> QED
      BY <1>0, <1>11, <2>1 DEF MainInv, ScanReturns, libvars, given
<1>12. CASE HarvestKernel
  <2>1. /\ pc = "result" /\ harvested' = [harvested EXCEPT ![k] = result[k]]
        /\ UNCHANGED <<libvars, given, device, opened, buffers, verdict>>
      BY <1>12 DEF HarvestKernel
  <2>2. \/ pc' = pc /\ Before(k') = Before(k) \cup {k}
        \/ pc' = "compare" /\ Before(k) \cup {k} = Kernels
      BY <1>0, <1>12, LoopRound DEF HarvestKernel, TypeOK
  <2>3. result[k] = 1
      BY <1>0, <2>1, IdleLibrary DEF MainInv, TypeOK
  <2>4. \A n \in Before(k) \cup {k} : harvested'[n] = 1
      BY <1>0, <2>1, <2>3 DEF MainInv, TypeOK, Before
  <2> QED
      BY <1>0, <2>1, <2>2, <2>4 DEF MainInv, libvars, given
<1>13. CASE NoResultFile \/ ResultsDiffer \/ \E l \in {"program", "compile", "parse"} : Exits(l)
    BY <1>0, <1>13, EndStep DEF NoResultFile, ResultsDiffer, Exits, libvars
<1>14. CASE ResultsAgree
    BY <1>0, <1>14 DEF MainInv, ResultsAgree, libvars, given
<1>15. CASE CloseLibrary
  <2>1. Before(0) = {}
      BY <1>0, Rounds DEF TypeOK
  <2> QED
      BY <1>0, <1>15, <2>1 DEF MainInv, CloseLibrary, libvars, given
<1>16. CASE FreeBuffers
  <2>1. /\ pc = "free" /\ buffers' = [u \in Uses |-> buffers[u] \ {k}]
        /\ UNCHANGED <<libvars, given, device, opened, harvested>>
      BY <1>16 DEF FreeBuffers, Freed
  <2>2. \A u \in Uses : buffers'[u] = buffers[u] \ {k} /\ buffers[u] \subseteq Kernels
                        /\ buffers[u] \cap Before(k) = {}
      BY <1>0, <2>1 DEF MainInv, TypeOK
  <2>3. CASE MoreRounds
    <3>1. pc' = pc /\ verdict' = verdict /\ Before(k') = Before(k) \cup {k}
        BY <1>0, <1>16, <2>3, Rounds DEF FreeBuffers, MoreRounds, TypeOK
    <3>2. FreedSoFar'
        BY <2>2, <3>1
    <3> QED
        BY <1>0, <2>1, <3>1, <3>2 DEF MainInv, libvars, given
  <2>4. CASE ~ MoreRounds
    <3>1. pc' = "end" /\ verdict' = "passed" /\ Before(k) \cup {k} = Kernels
        BY <1>0, <1>16, <2>4, Rounds DEF FreeBuffers, MoreRounds, End, TypeOK
    <3>2. \A u \in Uses : buffers'[u] = {}
        BY <2>2, <3>1
    <3>3. refused = {}
        BY <1>0, <2>1 DEF MainInv, TypeOK
    <3> QED
        BY <1>0, <2>1, <3>1, <3>2, <3>3 DEF MainInv, libvars, given
  <2> QED
      BY <2>3, <2>4
<1>17. CASE Ended \/ UNCHANGED vars
    BY <1>0, <1>17 DEF MainInv, Ended, vars, libvars, given
<1> QED
    BY <1>1, <1>2, <1>3, <1>4, <1>5, <1>6, <1>7, <1>8, <1>9, <1>10, <1>11, <1>12, <1>13, <1>14,
       <1>15, <1>16, <1>17 DEF Next, Main

LEMMA AInvariant == Spec => []AInv
<1>1. AInv /\ [Next]_vars => AInv'
    BY TypeStep, ScanInvStep, MainStep DEF AInv
<1> QED
    BY <1>1, InitAInv, PTL DEF Spec

-----------------------------------------------------------------------------
(* Every variable of the application and of the scan in it keeps its type.  *)
THEOREM TypeCorrect == Spec => []TypeOK
<1>1. AInv => TypeOK
    BY DEF AInv
<1> QED
    BY <1>1, AInvariant, PTL

(* While the queue holds a command of a kernel, the library is open and the *)
(* application's buffers it works on are there, for every number of kernels *)
(* (csre-st-ocl.cpp:153-169).                                               *)
THEOREM QueueHasItsBuffers == Spec => []BuffersOutliveQueue
<1>1. AInv => BuffersOutliveQueue
  <2> SUFFICES ASSUME AInv, pc # "end", NEW op \in Ops, NEW n \in Kernels, queue[op][n] = "queued"
               PROVE  opened = "open" /\ \A u \in Touches(op) : n \in buffers[u]
      BY DEF BuffersOutliveQueue
  <2>1. step # "idle"
      BY IdleLibrary DEF AInv
  <2>2. pc = "scanning"
      BY <2>1 DEF AInv, MainInv, OneScan, TypeOK, BeforeScan, AfterScan
  <2>3. opened = "open" /\ buffers["regex"] = Kernels /\ buffers["packet"] = Kernels
      BY <2>2 DEF AInv, MainInv, LibraryOpen, InputsThere
  <2>4. step # "setup"
    <3>1. (Scans!None("copy") /\ Scans!None("exec") /\ Scans!None("result")) \/ step # "setup"
        BY DEF AInv, Scans!OInv, Scans!QueueShape
    <3> QED
        BY <3>1, SameOperators DEF Scans!None, Ops
  <2>5. buffers["result"] = Kernels
      BY <2>2, <2>4 DEF AInv, MainInv, ResultsThere
  <2> QED
      BY <2>3, <2>5 DEF Touches
<1> QED
    BY <1>1, AInvariant, PTL

(* An input the library refuses ends the application before it scans, and   *)
(* never in TEST PASSED (README.md:185).                                    *)
THEOREM RefusalStops == Spec => []RefusalStopsBeforeScan
<1>1. AInv => RefusalStopsBeforeScan
    BY DEF AInv, MainInv, RefusedAtCall, RefusalStopsBeforeScan
<1> QED
    BY <1>1, AInvariant, PTL

(* TEST PASSED! is printed only after one scan, with every kernel's results *)
(* read from it, the library closed and every buffer freed.                 *)
THEOREM PassedIsDone == Spec => []PassedMeansDone
<1>1. AInv => PassedMeansDone
    BY DEF AInv, MainInv
<1> QED
    BY <1>1, AInvariant, PTL

(* Seen from the library, csre-st-ocl is a user that calls scan: its steps  *)
(* are steps of OclScan or leave the scan alone (csre-st-ocl.cpp:151-155).  *)
THEOREM ApplicationScans == Spec => Scans!Spec
BY InitScans, StepScans, PTL DEF Spec, Scans!Spec

(* Hence the application keeps what a scan promises: all input is on the    *)
(* device before any kernel starts, and all kernels have run before any     *)
(* result is fetched, up to an exit (csre.cpp:196-309).                     *)
THEOREM ApplicationKeepsPromise == Spec => Scans!KeepsScanPromise
<1>1. NumKernels \in Nat \ {0} /\ 1 \in Nat
    BY SizesAssumption
<1>2. Scans!Spec => Scans!KeepsScanPromise
    BY <1>1, Scans!ScanKeepsPromise
<1> QED
    BY <1>2, ApplicationScans
=============================================================================
