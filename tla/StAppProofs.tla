----------------------------- MODULE StAppProofs -----------------------------
(***************************************************************************)
(* The single-threaded application for every layout and topology of an     *)
(* xclbin, every compute unit asked for and every number of failing calls. *)
(*                                                                         *)
(* The inductive invariant has three parts: what initXRT has counted and   *)
(* found so far; the order of main, which says what the command, the       *)
(* buffers and err can be at each of its places; and, for a run in which   *)
(* no call has failed and no input was refused, what they then are.        *)
(***************************************************************************)
EXTENDS StApp, FiniteSetTheorems, SequenceTheorems, TLAPS

(* The places of main from one on, the end not among them. *)
FromClose    == {"close", "verdict"}
FromFreeing  == {"release regex", "free regex"} \cup FromClose
FromRelease  == {"release", "free"} \cup FromFreeing
FromHarvest  == {"harvest"} \cup FromRelease
FromFetch    == {"fetch"} \cup FromHarvest
FromWait     == {"wait"} \cup FromFetch
FromSubmit   == {"submit"} \cup FromWait
FromExec     == {"exec"} \cup FromSubmit
FromRegex    == {"regex", "packet"} \cup FromExec
FromResult   == {"result"} \cup FromRegex
FromParse    == {"parse"} \cup FromResult
FromCompile  == {"compile"} \cup FromParse
All          == {"init", "context"} \cup FromCompile

-----------------------------------------------------------------------------
(* initXRT: cur_index counts the kernels of the layout before pos, and the  *)
(* address is that of the asked-for one as soon as it has been counted.     *)
KernelsBefore(n) == {j \in Xrt!Kernels : j < n}

FoundUpTo ==
    IF 0 <= cu_index /\ cur_index > cu_index THEN Xrt!IsKernel(cu_base_addr, cu_index)
    ELSE cu_base_addr = Xrt!NoAddress

EarlyCalls == {"probe", "info", "path", "lock", "config", "header", "load", "index"}

XrtShape ==
    /\ call \in EarlyCalls => pos = 0 /\ cur_index = 0 /\ cu_base_addr \in {0, Xrt!NoAddress}
    /\ call \in EarlyCalls \ {"probe", "info"} => cu_base_addr = Xrt!NoAddress
    /\ call \in EarlyCalls \cup {"ips", "banks"} => first_used_mem = Xrt!NoBank
    /\ call = "ips" => /\ pos \in 0 .. Len(ips)
                       /\ cur_index = Cardinality(KernelsBefore(pos)) /\ FoundUpTo
    /\ call = "banks" => /\ pos \in 0 .. Len(banks)
                         /\ \A j \in 0 .. pos - 1 : ~ banks[j + 1]
                         /\ cur_index = Cardinality(Xrt!Kernels) /\ FoundUpTo
    /\ first_used_mem # Xrt!NoBank =>
           /\ Xrt!IsFirstUsed(first_used_mem)
           /\ cur_index = Cardinality(Xrt!Kernels) /\ FoundUpTo

XInv == Xrt!TypeOK /\ XrtShape

-----------------------------------------------------------------------------
(* main, whatever fails. *)
UnitFound == Xrt!IsKernel(cu_base_addr, cu_index) /\ Xrt!IsFirstUsed(first_used_mem)

ContextOrder ==
    /\ pc \in {"init", "context"} => ctx = "none"
    /\ pc = "context" => first_used_mem # Xrt!NoBank
    /\ pc \in FromCompile \ {"verdict"} => ctx = "open"
    /\ pc = "verdict" => ctx = "closed"
    /\ ctx # "none" => UnitFound
    /\ cmd # "none" => ctx # "none"

InputOrder ==
    /\ pc \in {"init", "context", "compile"} => regex = "unread"
    /\ pc \in {"init", "context", "compile", "parse"} => packets = "unread"

CommandOrder ==
    /\ pc \in All \ FromSubmit => cmd = "none"
    /\ pc = "submit" => cmd = "new"
    /\ pc \in FromWait => cmd \in {"running", "stray", "completed"}
    /\ pc \in FromFetch => left # "no"
    /\ left = "signalled" => cmd = "completed"

BufferOrder ==
    /\ \A u \in Inputs : host[u] = "freed" => bo[u] # "open"
    /\ pc \in All \ {"free", "release regex", "free regex", "close", "verdict"} =>
          \A u \in Uses : bo[u] # "freed"
    /\ \A u \in Uses : bo[u] = "freed" => left # "no"
    /\ pc = "free" => bo["packet"] # "open"
    /\ pc = "free regex" => bo["regex"] # "open"

(* What the exit status has to tell, before it is taken modulo 256. *)
ErrBound ==
    /\ err >= - unknown \/ err >= -1
    /\ pc # "end" => verdict = "none"

-----------------------------------------------------------------------------
(* main, when nothing has failed so far. *)
CleanInputs ==
    /\ pc \in FromParse => regex = "taken"
    /\ pc \in FromResult => packets = "taken"

CleanBuffers ==
    /\ pc \in FromParse \ FromFreeing \/ pc = "release regex" => bo["regex"] = "open"
    /\ pc \in FromParse \ FromClose => host["regex"] = "whole"
    /\ pc \in {"free regex"} \cup FromClose => bo["regex"] = "freed"
    /\ pc \in FromClose => host["regex"] = "freed"
    /\ pc \in FromResult \ ({"free"} \cup FromFreeing) => bo["packet"] = "open"
    /\ pc \in FromResult \ FromFreeing => host["packet"] = "whole"
    /\ pc \in FromRegex \ ({"free"} \cup FromFreeing) => bo["result"] = "open"
    /\ pc \in FromSubmit \ ({"free"} \cup FromFreeing) => bo["exec"] = "open"
    /\ pc \in {"free"} \cup FromFreeing => \A u \in JobObjects : bo[u] = "freed"
    /\ pc \in FromFreeing => host["packet"] = "freed"

WrittenWhenDone == written <=> cmd = "completed"

CleanDevice ==
    /\ pc \in All \ FromExec => "packet" \notin synced
    /\ pc = "packet" => "regex" \in synced
    /\ pc \in FromExec => synced = Inputs
    /\ cmd # "stray" /\ WrittenWhenDone
    /\ cmd # "none" => synced = Inputs
    /\ left # "failed"
    /\ pc \in All \ FromHarvest => fetched = "nothing"
    /\ pc \in FromHarvest => fetched = "results"
    /\ pc \in FromRelease => err = 0

CleanOrder == Clean => CleanInputs /\ CleanBuffers /\ CleanDevice

IInv ==
    /\ TypeOK /\ XrtShape
    /\ ContextOrder /\ InputOrder /\ CommandOrder /\ BufferOrder /\ ErrBound
    /\ CleanOrder /\ CleanRunPasses /\ StatusTellsVerdict

-----------------------------------------------------------------------------
(* The cardinality XrtInit speaks of is the one FiniteSetTheorems are about. *)
LEMMA SameCardinality == \A S : Xrt!Cardinality(S) = Cardinality(S)
BY DEF Xrt!Cardinality, Cardinality, Xrt!IsFiniteSet, IsFiniteSet

(* Counting the kernels of a layout. *)
LEMMA Counting ==
    ASSUME ips \in Seq(BOOLEAN)
    PROVE  /\ KernelsBefore(0) = {}
           /\ KernelsBefore(Len(ips)) = Xrt!Kernels
           /\ \A n \in 0 .. Len(ips) : /\ IsFiniteSet(KernelsBefore(n))
                                       /\ Cardinality(KernelsBefore(n)) \in 0 .. n
           /\ \A n \in 0 .. Len(ips) - 1 :
                 KernelsBefore(n + 1) = IF ips[n + 1] THEN KernelsBefore(n) \cup {n}
                                        ELSE KernelsBefore(n)
<1>0. Len(ips) \in Nat
    BY LenProperties
<1>1. KernelsBefore(0) = {} /\ KernelsBefore(Len(ips)) = Xrt!Kernels
    BY <1>0 DEF KernelsBefore, Xrt!Kernels
<1>2. ASSUME NEW n \in 0 .. Len(ips)
      PROVE  IsFiniteSet(KernelsBefore(n)) /\ Cardinality(KernelsBefore(n)) \in 0 .. n
  <2>1. n \in Nat /\ 0 \in Int /\ n - 1 \in Int
      BY <1>0
  <2>2. IsFiniteSet(0 .. n - 1) /\ Cardinality(0 .. n - 1) = n
    <3>1. /\ IsFiniteSet(0 .. n - 1)
          /\ Cardinality(0 .. n - 1) = IF 0 > n - 1 THEN 0 ELSE (n - 1) - 0 + 1
        BY <2>1, FS_Interval
    <3> QED
        BY <2>1, <3>1
  <2>3. KernelsBefore(n) \subseteq 0 .. n - 1
      BY <1>0 DEF KernelsBefore, Xrt!Kernels
  <2> QED
      BY <2>1, <2>2, <2>3, FS_Subset, FS_CardinalityType
<1>3. ASSUME NEW n \in 0 .. Len(ips) - 1
      PROVE  KernelsBefore(n + 1) = IF ips[n + 1] THEN KernelsBefore(n) \cup {n}
                                    ELSE KernelsBefore(n)
    BY <1>0 DEF KernelsBefore, Xrt!Kernels
<1> QED
    BY <1>1, <1>2, <1>3

LEMMA InitXInv == Xrt!Init => XInv
<1> SUFFICES ASSUME Xrt!Init PROVE XInv
    OBVIOUS
<1>1. ips \in Seq(BOOLEAN) /\ banks \in Seq(BOOLEAN)
  <2>1. \A n \in Nat : [1 .. n -> BOOLEAN] \subseteq Seq(BOOLEAN)
      OBVIOUS
  <2>2. \A m \in Nat : \A f \in Xrt!UpTo(m, BOOLEAN) : f \in Seq(BOOLEAN)
    <3> SUFFICES ASSUME NEW m \in Nat, NEW f \in Xrt!UpTo(m, BOOLEAN) PROVE f \in Seq(BOOLEAN)
        OBVIOUS
    <3>1. PICK l \in 0 .. m : f \in [1 .. l -> BOOLEAN]
        BY DEF Xrt!UpTo
    <3> QED
        BY <2>1, <3>1
  <2> QED
      BY <2>2, LayoutAssumption DEF Xrt!Init
<1>2. Len(ips) \in Nat /\ cu_index \in Int
    BY <1>1, LenProperties, LayoutAssumption DEF Xrt!Init
<1>3. Xrt!TypeOK
    BY <1>1, <1>2 DEF Xrt!Init, Xrt!TypeOK, Xrt!Following, Xrt!NoBank, Xrt!NoAddress
<1>4. XrtShape
    BY DEF Xrt!Init, XrtShape, EarlyCalls
<1> QED
    BY <1>3, <1>4 DEF XInv

(* The loop over the layout: each kernel that is met is counted, and the    *)
(* one that is met when cu_index have been before it is the one asked for.  *)
LEMMA LayoutLoop ==
    ASSUME XInv, Xrt!NextIP
    PROVE  XInv'
<1>1. /\ call = "ips" /\ pos \in 0 .. Len(ips) - 1 /\ pos' = pos + 1
      /\ cur_index = Cardinality(KernelsBefore(pos)) /\ FoundUpTo
      /\ UNCHANGED <<bit, ips, banks, cu_index, call, first_used_mem>>
      /\ first_used_mem = Xrt!NoBank
      /\ ips \in Seq(BOOLEAN) /\ Len(ips) \in Nat /\ cu_index \in Int
    BY LenProperties DEF XInv, Xrt!TypeOK, XrtShape, EarlyCalls, Xrt!NextIP, Xrt!file
<1>2. cur_index \in Nat /\ cur_index <= pos /\ IsFiniteSet(KernelsBefore(pos))
  <2>1. pos \in 0 .. Len(ips)
      BY <1>1
  <2> QED
      BY <1>1, <2>1, Counting
<1>3. KernelsBefore(pos + 1) = IF ips[pos + 1] THEN KernelsBefore(pos) \cup {pos}
                               ELSE KernelsBefore(pos)
    BY <1>1, Counting
<1>4. UNCHANGED <<Xrt!Kernels, Xrt!NoAddress, Xrt!NoBank>>
    BY <1>1 DEF Xrt!Kernels, Xrt!NoAddress, Xrt!NoBank
<1>5. KernelsBefore(pos)' = KernelsBefore(pos + 1)
    BY <1>1, <1>4 DEF KernelsBefore
<1>6. CASE ~ ips[pos + 1]
  <2>1. cur_index' = cur_index /\ cu_base_addr' = cu_base_addr
      BY <1>6 DEF Xrt!NextIP
  <2>2. cur_index' = Cardinality(KernelsBefore(pos))'
      BY <1>1, <1>3, <1>5, <1>6, <2>1
  <2>3. FoundUpTo'
      BY <1>1, <1>4, <2>1 DEF FoundUpTo, Xrt!IsKernel
  <2>4. Xrt!TypeOK'
      BY <1>1, <2>1 DEF XInv, Xrt!TypeOK, Xrt!Following, Xrt!NoAddress, Xrt!NoBank
  <2>5. XrtShape'
      BY <1>1, <1>4, <2>2, <2>3 DEF XrtShape, EarlyCalls
  <2> QED
      BY <2>4, <2>5 DEF XInv
<1>7. CASE ips[pos + 1]
  <2>1. /\ cur_index' = cur_index + 1
        /\ cu_base_addr' = IF cur_index = cu_index THEN pos ELSE cu_base_addr
      BY <1>7 DEF Xrt!NextIP, Xrt!IsAskedFor
  <2>2. cur_index' = Cardinality(KernelsBefore(pos))'
    <3>1. pos \notin KernelsBefore(pos)
        BY <1>1 DEF KernelsBefore
    <3>2. Cardinality(KernelsBefore(pos) \cup {pos}) = cur_index + 1
        BY <1>1, <1>2, <3>1, FS_AddElement
    <3> QED
        BY <1>3, <1>5, <1>7, <2>1, <3>2
  <2>3. FoundUpTo'
    <3>1. CASE cur_index = cu_index
      <4>1. pos \in Xrt!Kernels
          BY <1>1, <1>7 DEF Xrt!Kernels
      <4>2. Xrt!IsKernel(pos, cu_index)
          BY <1>1, <3>1, <4>1, SameCardinality DEF Xrt!IsKernel, KernelsBefore
      <4> QED
          BY <1>1, <1>2, <1>4, <2>1, <3>1, <4>2 DEF FoundUpTo, Xrt!IsKernel
    <3>2. CASE cur_index # cu_index
        BY <1>1, <1>2, <1>4, <2>1, <3>2 DEF FoundUpTo, Xrt!IsKernel
    <3> QED
        BY <3>1, <3>2
  <2>4. Xrt!TypeOK'
      BY <1>1, <1>2, <2>1 DEF XInv, Xrt!TypeOK, Xrt!Following, Xrt!NoAddress, Xrt!NoBank
  <2>5. XrtShape'
      BY <1>1, <1>4, <2>2, <2>3 DEF XrtShape, EarlyCalls
  <2> QED
      BY <2>4, <2>5 DEF XInv
<1> QED
    BY <1>6, <1>7

LEMMA XrtUnchanged ==
    ASSUME XInv, UNCHANGED xrtvars
    PROVE  XInv'
<1> QED
    BY DEF xrtvars, XInv, Xrt!TypeOK, XrtShape, FoundUpTo, KernelsBefore, Xrt!Kernels, Xrt!IsKernel,
           Xrt!IsFirstUsed

LEMMA XInvStep == XInv /\ Xrt!Next => XInv'
<1> SUFFICES ASSUME XInv, Xrt!Next PROVE XInv'
    OBVIOUS
<1>0. Xrt!NoAddress = -1 /\ Xrt!NoBank = -1 /\ Len(banks) \in Nat /\ Len(ips) \in Nat
    BY LenProperties DEF Xrt!NoAddress, Xrt!NoBank, XInv, Xrt!TypeOK
<1>1. CASE Xrt!CallSucceeds \/ Xrt!CallThrows \/ Xrt!CheckPath
  <2>1. /\ call \in EarlyCalls \ {"index"} /\ call' \in EarlyCalls \cup {"returned", "threw"}
        /\ call' \in EarlyCalls \ {"probe", "info"} => cu_base_addr' = Xrt!NoAddress
        /\ cu_base_addr' \in {0, Xrt!NoAddress}
        /\ UNCHANGED <<bit, ips, banks, cu_index, pos, cur_index, first_used_mem>>
      BY <1>0, <1>1
      DEF Xrt!CallSucceeds, Xrt!CallThrows, Xrt!CheckPath, Xrt!Following, Xrt!file, EarlyCalls,
          XInv, XrtShape
  <2>2. Xrt!TypeOK'
      BY <1>0, <2>1 DEF XInv, Xrt!TypeOK, EarlyCalls, Xrt!Following
  <2>3. XrtShape'
      BY <1>0, <2>1 DEF XInv, XrtShape, EarlyCalls
  <2> QED
      BY <2>2, <2>3 DEF XInv
<1>2. CASE Xrt!CheckIndex
  <2>1. /\ call = "index" /\ call' \in {"ips", "threw"}
        /\ UNCHANGED <<bit, ips, banks, cu_index, pos, cur_index, cu_base_addr, first_used_mem>>
      BY <1>2 DEF Xrt!CheckIndex, Xrt!file
  <2>2. /\ pos = 0 /\ cur_index = 0 /\ cu_base_addr = Xrt!NoAddress
        /\ first_used_mem = Xrt!NoBank
      BY <2>1 DEF XInv, XrtShape, EarlyCalls
  <2>3. Xrt!TypeOK'
      BY <2>1 DEF XInv, Xrt!TypeOK, Xrt!Following
  <2>4. KernelsBefore(pos)' = {} /\ FoundUpTo'
    <3>1. KernelsBefore(0) = {} /\ cu_index \in Int
        BY Counting DEF XInv, Xrt!TypeOK
    <3> QED
        BY <1>0, <2>1, <2>2, <3>1 DEF KernelsBefore, Xrt!Kernels, FoundUpTo, Xrt!NoAddress
  <2>5. XrtShape'
      BY <1>0, <2>1, <2>2, <2>4, FS_EmptySet DEF XrtShape, EarlyCalls, Xrt!NoBank
  <2> QED
      BY <2>3, <2>5 DEF XInv
<1>3. CASE Xrt!NextIP
    BY <1>3, LayoutLoop
<1>4. CASE Xrt!EndOfLayout
  <2>1. /\ call = "ips" /\ pos = Len(ips) /\ call' = "banks" /\ pos' = 0
        /\ UNCHANGED <<bit, ips, banks, cu_index, cur_index, cu_base_addr, first_used_mem>>
      BY <1>4 DEF Xrt!EndOfLayout, Xrt!file
  <2>2. /\ cur_index = Cardinality(Xrt!Kernels) /\ FoundUpTo
        /\ first_used_mem = Xrt!NoBank
      BY <2>1, Counting DEF XInv, XrtShape, EarlyCalls, Xrt!TypeOK
  <2>3. Xrt!TypeOK'
      BY <2>1 DEF XInv, Xrt!TypeOK, Xrt!Following
  <2>4. (cur_index = Cardinality(Xrt!Kernels) /\ FoundUpTo)'
      BY <2>1, <2>2 DEF Xrt!Kernels, FoundUpTo, Xrt!IsKernel, Xrt!NoAddress
  <2>5. XrtShape'
      BY <1>0, <2>1, <2>2, <2>4 DEF XrtShape, EarlyCalls, Xrt!NoBank
  <2> QED
      BY <2>3, <2>5 DEF XInv
<1>5. CASE Xrt!NextBank \/ Xrt!EndOfTopology
  <2>1. /\ call = "banks" /\ pos \in 0 .. Len(banks)
        /\ UNCHANGED <<bit, ips, banks, cu_index, cur_index, cu_base_addr>>
        /\ cur_index = Cardinality(Xrt!Kernels) /\ FoundUpTo
        /\ first_used_mem = Xrt!NoBank
        /\ \A j \in 0 .. pos - 1 : ~ banks[j + 1]
      BY <1>5 DEF XInv, XrtShape, EarlyCalls, Xrt!NextBank, Xrt!EndOfTopology, Xrt!file
  <2>2. (cur_index = Cardinality(Xrt!Kernels) /\ FoundUpTo)'
      BY <2>1 DEF Xrt!Kernels, FoundUpTo, Xrt!IsKernel, Xrt!NoAddress
  <2>3. CASE call' = "returned" /\ first_used_mem' = pos /\ pos' = pos /\ pos < Len(banks)
             /\ banks[pos + 1]
    <3>1. Xrt!TypeOK'
        BY <1>0, <2>1, <2>3 DEF XInv, Xrt!TypeOK, Xrt!Following
    <3>2. Xrt!IsFirstUsed(first_used_mem)'
        BY <1>0, <2>1, <2>3 DEF Xrt!IsFirstUsed
    <3>3. XrtShape'
        BY <2>2, <2>3, <3>2 DEF XrtShape, EarlyCalls
    <3> QED
        BY <3>1, <3>3 DEF XInv
  <2>4. CASE call' = "banks" /\ pos' = pos + 1 /\ first_used_mem' = first_used_mem
             /\ pos < Len(banks) /\ ~ banks[pos + 1]
    <3>1. Xrt!TypeOK'
        BY <1>0, <2>1, <2>4 DEF XInv, Xrt!TypeOK, Xrt!Following
    <3>2. pos' \in 0 .. Len(banks') /\ \A j \in 0 .. pos' - 1 : ~ banks'[j + 1]
        BY <1>0, <2>1, <2>4
    <3>3. XrtShape'
        BY <2>1, <2>2, <2>4, <3>2 DEF XrtShape, EarlyCalls, Xrt!NoBank
    <3> QED
        BY <3>1, <3>3 DEF XInv
  <2>5. CASE call' = "returned" /\ UNCHANGED <<pos, first_used_mem>>
    <3>1. Xrt!TypeOK'
        BY <2>1, <2>5 DEF XInv, Xrt!TypeOK, Xrt!Following
    <3>2. XrtShape'
        BY <2>1, <2>5 DEF XrtShape, EarlyCalls, Xrt!NoBank
    <3> QED
        BY <3>1, <3>2 DEF XInv
  <2> QED
      BY <1>5, <2>1, <2>3, <2>4, <2>5 DEF Xrt!NextBank, Xrt!EndOfTopology, Xrt!BankHere
<1> QED
    BY <1>1, <1>2, <1>3, <1>4, <1>5 DEF Xrt!Next, Xrt!Step

-----------------------------------------------------------------------------
(* Only initXRT changes its variables. *)
LEMMA XrtStep == XInv /\ [Next]_vars => XInv'
<1> SUFFICES ASSUME XInv, [Next]_vars PROVE XInv'
    OBVIOUS
<1>1. CASE InitXRT
    BY <1>1, XInvStep DEF InitXRT
<1>2. UNCHANGED xrtvars \/ InitXRT
    BY DEF Next, Host, vars, Ended, InitEnds, OpenContext, OpenContextFails, Compile, Parse, CutLine,
           Prepare, SyncRegex, SyncPacket, SyncFails, BuildCommand, ExecBuf, ExecBufFails, ExecWait,
           SyncResult, SyncResultFails, Harvest, HarvestFails, ReleaseJob, FreePackets,
           ReleaseRegex, FreeRegexes, CloseContext, Verdict, ExecWaitFails, KernelFinishes
<1> QED
    BY <1>1, <1>2, XrtUnchanged

(* What becomes of an exit status: the literals, and a small number. *)
LEMMA Statuses ==
    /\ (-1) % 256 # 0 /\ 1 % 256 # 0 /\ 139 % 256 # 0 /\ 134 % 256 # 0
    /\ \A r \in Int : r % 256 \in 0 .. 255
    /\ \A r \in Int : -255 <= r /\ r <= 1 => (r % 256 = 0 <=> r = 0)
<1>1. (-1) % 256 # 0
    OBVIOUS
<1>2. 1 % 256 # 0 /\ 139 % 256 # 0 /\ 134 % 256 # 0
    OBVIOUS
<1>3. \A r \in Int : r % 256 \in 0 .. 255
    OBVIOUS
<1>4. \A r \in Int : -255 <= r /\ r <= 1 => (r % 256 = 0 <=> r = 0)
    OBVIOUS
<1> QED
    BY <1>1, <1>2, <1>3, <1>4

LEMMA FaultTypes ==
    ASSUME faults \in 0 .. MaxFaults, Fault
    PROVE  faults' \in 0 .. MaxFaults /\ faults' # 0
BY FaultsAssumption DEF Fault

(* The place of main, and what the run has ended with. *)
Verdicts == {"passed", "failed", "stopped", "threw", "exited", "crashed"}

PlaceTypes ==
    /\ pc \in All \cup {"end"}
    /\ verdict \in Verdicts \cup {"none"}
    /\ status \in 0 .. 255

(* The types of the rest. *)
OtherTypes ==
    /\ check \in BOOLEAN
    /\ regex \in Regexes \cup {"unread"} /\ packets \in Packets \cup {"unread"}
    /\ host \in [Inputs -> {"none", "whole", "empty", "wild", "freed"}]
    /\ bo \in [Uses -> {"none", "open", "bad", "freed"}]
    /\ synced \subseteq Inputs
    /\ ctx \in {"none", "open", "closed"}
    /\ cmd \in {"none", "new", "running", "stray", "completed"}
    /\ left \in {"no", "signalled", "failed"}
    /\ written \in BOOLEAN
    /\ fetched \in {"nothing", "results", "leftover"}
    /\ unknown \in Counts
    /\ err \in Int /\ err <= 1
    /\ faults \in 0 .. MaxFaults

LEMMA TypeParts == TypeOK <=> Xrt!TypeOK /\ PlaceTypes /\ OtherTypes
<1>1. pc \in All \cup {"end"} <=>
        pc \in Inputs \cup {"init", "context", "compile", "parse", "result", "exec", "submit",
            "wait", "fetch", "harvest", "release", "free", "release regex", "free regex",
            "close", "verdict", "end"}
    BY DEF Inputs, All, FromCompile, FromParse, FromResult, FromRegex, FromExec,
           FromSubmit, FromWait, FromFetch, FromHarvest, FromRelease, FromFreeing, FromClose
<1> QED
    BY <1>1 DEF TypeOK, PlaceTypes, OtherTypes, Verdicts

Leaves == pc' = "end" /\ verdict' \in Verdicts /\ status' \in 0 .. 255
Stays  == UNCHANGED outcome /\ pc' \in All \cup {pc}

LEMMA EndsLeave ==
    ASSUME NEW v \in Verdicts, NEW r \in Int, Ends(v, r)
    PROVE  Leaves
BY Statuses DEF Ends, Leaves

LEMMA PlaceStep == err \in Int /\ [Next]_vars => Leaves \/ Stays
<1> SUFFICES ASSUME err \in Int, [Next]_vars PROVE Leaves \/ Stays
    OBVIOUS
<1>0. /\ "context" \in All /\ "compile" \in All /\ "parse" \in All /\ "result" \in All
      /\ "regex" \in All /\ "packet" \in All /\ "exec" \in All /\ "submit" \in All
      /\ "wait" \in All /\ "fetch" \in All /\ "harvest" \in All /\ "release" \in All
      /\ "free" \in All /\ "release regex" \in All /\ "free regex" \in All
      /\ "close" \in All /\ "verdict" \in All
    BY DEF All, FromCompile, FromParse, FromResult, FromRegex, FromExec, FromSubmit, FromWait,
           FromFetch, FromHarvest, FromRelease, FromFreeing, FromClose
<1>1. CASE OpenContextFails \/ CutLine \/ SyncFails \/ ExecBufFails \/ SyncResultFails \/ Verdict
  <2>1. \/ Ends("threw", -1) \/ Ends("exited", 1) \/ Ends("stopped", 1) \/ Ends("stopped", -1)
        \/ Ends(Printed, err)
      BY <1>1 DEF OpenContextFails, CutLine, SyncFails, ExecBufFails, SyncResultFails, Verdict
  <2> QED
      BY <2>1, EndsLeave DEF Verdicts, Printed
<1>2. CASE InitEnds
  <2>1. Ends("threw", -1) \/ Ends("stopped", 1) \/ Stays
      BY <1>2, <1>0 DEF InitEnds, Stays
  <2> QED
      BY <2>1, EndsLeave DEF Verdicts
<1>3. CASE Prepare \/ BuildCommand \/ HarvestFails
  <2>1. Ends("crashed", 139) \/ Ends("exited", 1) \/ Stays
      BY <1>3, <1>0 DEF Prepare, BuildCommand, HarvestFails, Stays
  <2> QED
      BY <2>1, EndsLeave DEF Verdicts
<1>4. CASE FreePackets
  <2>1. Ends("crashed", 134) \/ Stays
      BY <1>4, <1>0 DEF FreePackets, Stays
  <2> QED
      BY <2>1, EndsLeave DEF Verdicts
<1>5. CASE InitXRT \/ OpenContext \/ Compile \/ Parse \/ SyncRegex \/ SyncPacket
    BY <1>0, <1>5 DEF InitXRT, OpenContext, Compile, Parse, SyncRegex, SyncPacket, Stays, outcome
<1>6. CASE ExecBuf \/ ExecWait \/ ExecWaitFails \/ SyncResult \/ Harvest
    BY <1>0, <1>6 DEF ExecBuf, ExecWait, ExecWaitFails, SyncResult, Harvest, Stays, outcome
<1>7. CASE ReleaseJob \/ ReleaseRegex \/ FreeRegexes \/ CloseContext
    BY <1>0, <1>7 DEF ReleaseJob, ReleaseRegex, FreeRegexes, CloseContext, Stays, outcome
<1>8. CASE KernelFinishes \/ Ended \/ UNCHANGED vars
    BY <1>8 DEF KernelFinishes, Ended, vars, Stays, outcome
<1> QED
    BY <1>1, <1>2, <1>3, <1>4, <1>5, <1>6, <1>7, <1>8 DEF Next, Host

LEMMA PlaceTypesStep == PlaceTypes /\ err \in Int /\ [Next]_vars => PlaceTypes'
BY PlaceStep DEF PlaceTypes, Leaves, Stays, outcome

LEMMA OtherTypesStep == OtherTypes /\ [Next]_vars => OtherTypes'
<1> SUFFICES ASSUME OtherTypes, [Next]_vars PROVE OtherTypes'
    OBVIOUS
<1>0. (Fault \/ UNCHANGED faults) => faults' \in 0 .. MaxFaults
    BY FaultTypes DEF OtherTypes
<1> USE DEF given, memory, device, outcome
<1>1. CASE InitXRT \/ InitEnds \/ OpenContext
    BY <1>1 DEF OtherTypes, InitXRT, InitEnds, OpenContext
<1>1a. CASE SyncRegex \/ SyncPacket \/ ExecBuf
  <2>1. synced' \subseteq Inputs
      BY <1>1a DEF OtherTypes, SyncRegex, SyncPacket, ExecBuf, Inputs
  <2>2. cmd' \in {"none", "new", "running", "stray", "completed"}
      BY <1>1a DEF OtherTypes, SyncRegex, SyncPacket, ExecBuf
  <2> QED
      BY <1>1a, <2>1, <2>2 DEF OtherTypes, SyncRegex, SyncPacket, ExecBuf
<1>2. CASE OpenContextFails \/ CutLine \/ SyncFails \/ ExecBufFails \/ SyncResultFails
    BY <1>0, <1>2
    DEF OtherTypes, OpenContextFails, CutLine, SyncFails, ExecBufFails, SyncResultFails
<1>3. CASE Compile \/ Parse
  <2>1. err' \in Int /\ err' <= 1
      BY <1>3 DEF Compile, Parse, Error
  <2>2. host' \in [Inputs -> {"none", "whole", "empty", "wild", "freed"}]
      BY <1>3 DEF OtherTypes, Compile, Parse, Input, Inputs
  <2>3. bo' \in [Uses -> {"none", "open", "bad", "freed"}] /\ (Fault \/ UNCHANGED faults)
      BY <1>3 DEF OtherTypes, Compile, Parse, AllocUserPtrBO, Uses, Inputs
  <2>4. regex' \in Regexes \cup {"unread"} /\ packets' \in Packets \cup {"unread"} /\ check' = check
      BY <1>3 DEF OtherTypes, Compile, Parse
  <2> QED
      BY <1>0, <1>3, <2>1, <2>2, <2>3, <2>4 DEF OtherTypes, Compile, Parse
<1>4. CASE Prepare \/ BuildCommand
  <2>1. bo' \in [Uses -> {"none", "open", "bad", "freed"}] /\ (Fault \/ UNCHANGED faults)
      BY <1>4 DEF OtherTypes, Prepare, BuildCommand, Uses
  <2>2. cmd' \in {"none", "new", "running", "stray", "completed"}
      BY <1>4 DEF OtherTypes, Prepare, BuildCommand
  <2> QED
      BY <1>0, <1>4, <2>1, <2>2 DEF OtherTypes, Prepare, BuildCommand
<1>5. CASE ExecWait \/ ExecWaitFails \/ SyncResult
    BY <1>0, <1>5 DEF OtherTypes, ExecWait, ExecWaitFails, SyncResult
<1>6. CASE Harvest
  <2>1. unknown' \in Counts /\ err' \in Int /\ err' <= 1
      BY <1>6, CountsAssumption DEF Harvest, Mismatch
  <2> QED
      BY <1>6, <2>1 DEF OtherTypes, Harvest
<1>7. CASE HarvestFails
  <2>1. err' \in Int /\ err' <= 1 /\ Fault
      BY <1>7 DEF OtherTypes, HarvestFails, Mismatch
  <2> QED
      BY <1>0, <1>7, <2>1 DEF OtherTypes, HarvestFails
<1>8. CASE ReleaseJob \/ ReleaseRegex
  <2>1. bo' \in [Uses -> {"none", "open", "bad", "freed"}]
      BY <1>8 DEF OtherTypes, ReleaseJob, ReleaseRegex, FreeBOs
  <2> QED
      BY <1>8, <2>1 DEF OtherTypes, ReleaseJob, ReleaseRegex
<1>9. CASE FreePackets \/ FreeRegexes
  <2>1. host' \in [Inputs -> {"none", "whole", "empty", "wild", "freed"}]
      BY <1>9 DEF OtherTypes, FreePackets, FreeRegexes, Inputs
  <2> QED
      BY <1>9, <2>1 DEF OtherTypes, FreePackets, FreeRegexes
<1>10. CASE CloseContext \/ Verdict
    BY <1>10 DEF OtherTypes, CloseContext, Verdict
<1>11. CASE KernelFinishes
    BY <1>11 DEF OtherTypes, KernelFinishes
<1>12. CASE Ended \/ UNCHANGED vars
    BY <1>12 DEF OtherTypes, Ended, vars
<1> QED
    BY <1>1, <1>1a, <1>2, <1>3, <1>4, <1>5, <1>6, <1>7, <1>8, <1>9, <1>10, <1>11, <1>12
    DEF Next, Host

-----------------------------------------------------------------------------
(* Only in its first place does main change what initXRT has found. *)
LEMMA UnitKept ==
    ASSUME [Next]_vars, pc # "init"
    PROVE  UNCHANGED xrtvars /\ (UnitFound <=> UnitFound')
<1>1. UNCHANGED xrtvars
    BY DEF Next, Host, vars, Ended, InitXRT, InitEnds, OpenContext, OpenContextFails, Compile, Parse,
           CutLine, Prepare, SyncRegex, SyncPacket, SyncFails, BuildCommand, ExecBuf, ExecBufFails,
           ExecWait, SyncResult, SyncResultFails, Harvest, HarvestFails, ReleaseJob, FreePackets,
           ReleaseRegex, FreeRegexes, CloseContext, Verdict, ExecWaitFails, KernelFinishes
<1> QED
    BY <1>1 DEF xrtvars, UnitFound, Xrt!Kernels, Xrt!IsKernel, Xrt!IsFirstUsed

(* The counter is past the number of the compute unit when the context is   *)
(* opened, and so the address is that of this unit.                         *)
LEMMA ContextOnUnit ==
    ASSUME XInv, ContextOrder, OpenContext
    PROVE  UnitFound
<1>1. /\ first_used_mem # Xrt!NoBank
      /\ HasUnit
    BY DEF OpenContext, ContextOrder
<1>2. /\ Xrt!IsFirstUsed(first_used_mem)
      /\ cur_index = Cardinality(Xrt!Kernels) /\ FoundUpTo
    BY <1>1 DEF XInv, XrtShape
<1>3. 0 <= cu_index /\ cur_index > cu_index
    BY <1>1, <1>2 DEF XInv, Xrt!TypeOK, HasUnit
<1> QED
    BY <1>2, <1>3 DEF UnitFound, FoundUpTo

LEMMA ContextStep == XInv /\ err \in Int /\ ContextOrder /\ [Next]_vars => ContextOrder'
<1> SUFFICES ASSUME XInv, err \in Int, ContextOrder, [Next]_vars PROVE ContextOrder'
    OBVIOUS
<1>0. pc # "init" => (UnitFound <=> UnitFound') /\ UNCHANGED first_used_mem
    BY UnitKept DEF xrtvars
<1>a. first_used_mem >= 0 => first_used_mem # Xrt!NoBank
  <2>1. Xrt!NoBank = -1
      BY DEF Xrt!NoBank
  <2>2. first_used_mem \in Int
      BY <2>1, LenProperties DEF XInv, Xrt!TypeOK
  <2> QED
      BY <2>1, <2>2
<1> USE DEF ContextOrder, FromCompile, FromParse, FromResult, FromRegex, FromExec, FromSubmit,
            FromWait, FromFetch, FromHarvest, FromRelease, FromFreeing, FromClose
<1>1. CASE InitXRT
    BY <1>1 DEF InitXRT, device
<1>2. CASE InitEnds
  <2>1. ctx = "none" /\ cmd = "none" /\ UNCHANGED <<ctx, cmd, first_used_mem>>
      BY <1>2 DEF InitEnds, device, xrtvars
  <2>2. Ends("threw", -1) \/ Ends("stopped", 1) \/ (pc' = "context" /\ first_used_mem >= 0)
      BY <1>2 DEF InitEnds
  <2>4. Ends("threw", -1) \/ Ends("stopped", 1) => pc' = "end"
      BY DEF Ends
  <2>5. pc' = "end" \/ (pc' = "context" /\ first_used_mem # Xrt!NoBank)
      BY <1>a, <2>2, <2>4
  <2> QED
      BY <2>1, <2>5 DEF Xrt!NoBank
<1>3. CASE OpenContext
    BY <1>0, <1>3, ContextOnUnit DEF OpenContext, device
<1>4. CASE OpenContextFails \/ CutLine \/ SyncFails \/ ExecBufFails \/ SyncResultFails
    BY <1>0, <1>4
    DEF OpenContextFails, CutLine, SyncFails, ExecBufFails, SyncResultFails, Ends, device, Inputs
<1>5. CASE Compile \/ Parse \/ Prepare
    BY <1>0, <1>5 DEF Compile, Parse, Prepare, Ends, device
<1>6. CASE SyncRegex \/ SyncPacket \/ BuildCommand \/ ExecBuf
    BY <1>0, <1>6 DEF SyncRegex, SyncPacket, BuildCommand, ExecBuf, Ends
<1>7. CASE ExecWait \/ ExecWaitFails \/ SyncResult
    BY <1>0, <1>7 DEF ExecWait, ExecWaitFails, SyncResult, device
<1>8. CASE Harvest \/ HarvestFails \/ ReleaseJob \/ ReleaseRegex
    BY <1>0, <1>8 DEF Harvest, HarvestFails, ReleaseJob, ReleaseRegex, Ends, device
<1>9. CASE FreePackets \/ FreeRegexes
    BY <1>0, <1>9 DEF FreePackets, FreeRegexes, Ends, device
<1>10. CASE CloseContext \/ Verdict
    BY <1>0, <1>10 DEF CloseContext, Verdict, Ends, device
<1>11. CASE KernelFinishes
    BY <1>0, <1>11 DEF KernelFinishes
<1>12. CASE Ended \/ UNCHANGED vars
  <2>1. UNCHANGED <<pc, ctx, device, xrtvars>>
      BY <1>12 DEF Ended, vars
  <2> QED
      BY <2>1 DEF device, xrtvars, UnitFound, Xrt!Kernels, Xrt!IsKernel, Xrt!IsFirstUsed
<1> QED
    BY <1>1, <1>2, <1>3, <1>4, <1>5, <1>6, <1>7, <1>8, <1>9, <1>10, <1>11, <1>12 DEF Next, Host

LEMMA CommandStep == CommandOrder /\ [Next]_vars => CommandOrder'
<1> SUFFICES ASSUME CommandOrder, [Next]_vars PROVE CommandOrder'
    OBVIOUS
<1> USE DEF CommandOrder, All, FromCompile, FromParse, FromResult, FromRegex, FromExec, FromSubmit,
            FromWait, FromFetch, FromHarvest, FromRelease, FromFreeing, FromClose, device, Ends
<1>1. CASE InitXRT \/ InitEnds
    BY <1>1 DEF InitXRT, InitEnds
<1>3. CASE OpenContext
    BY <1>3 DEF OpenContext
<1>4. CASE OpenContextFails \/ CutLine \/ SyncFails \/ ExecBufFails \/ SyncResultFails
    BY <1>4 DEF OpenContextFails, CutLine, SyncFails, ExecBufFails, SyncResultFails
<1>5. CASE Compile \/ Parse \/ Prepare
    BY <1>5 DEF Compile, Parse, Prepare
<1>6. CASE SyncRegex \/ SyncPacket \/ BuildCommand
    BY <1>6 DEF SyncRegex, SyncPacket, BuildCommand
<1>7. CASE ExecBuf
    BY <1>7 DEF ExecBuf
<1>8. CASE ExecWait \/ ExecWaitFails \/ SyncResult
    BY <1>8 DEF ExecWait, ExecWaitFails, SyncResult, Signalled
<1>9. CASE Harvest \/ HarvestFails \/ ReleaseJob \/ ReleaseRegex
    BY <1>9 DEF Harvest, HarvestFails, ReleaseJob, ReleaseRegex
<1>10. CASE FreePackets \/ FreeRegexes \/ CloseContext \/ Verdict
    BY <1>10 DEF FreePackets, FreeRegexes, CloseContext, Verdict
<1>11. CASE KernelFinishes
    BY <1>11 DEF KernelFinishes
<1>12. CASE Ended \/ UNCHANGED vars
    BY <1>12 DEF Ended, vars
<1> QED
    BY <1>1, <1>3, <1>4, <1>5, <1>6, <1>7, <1>8, <1>9, <1>10, <1>11, <1>12 DEF Next, Host

LEMMA BufferStep == OtherTypes /\ CommandOrder /\ BufferOrder /\ [Next]_vars => BufferOrder'
<1> SUFFICES ASSUME OtherTypes, CommandOrder, BufferOrder, [Next]_vars PROVE BufferOrder'
    OBVIOUS
<1>0. /\ DOMAIN bo = Uses /\ DOMAIN host = Inputs
      /\ pc \in FromRelease => left # "no"
    BY DEF OtherTypes, CommandOrder, FromFetch, FromHarvest
<1> USE DEF BufferOrder, All, FromCompile, FromParse, FromResult, FromRegex, FromExec, FromSubmit,
            FromWait, FromFetch, FromHarvest, FromRelease, FromFreeing, FromClose, memory
<1>1. CASE InitXRT \/ InitEnds \/ OpenContext
    BY <1>1 DEF InitXRT, InitEnds, OpenContext, Ends
<1>2. CASE OpenContextFails \/ CutLine \/ SyncFails \/ ExecBufFails \/ SyncResultFails
    BY <1>2 DEF OpenContextFails, CutLine, SyncFails, ExecBufFails, SyncResultFails, Ends, Inputs
<1>3. CASE Compile \/ Parse
  <2>1. \A u \in Inputs : host'[u] = "freed" => host[u] = "freed" /\ bo'[u] = bo[u]
      BY <1>0, <1>3 DEF Compile, Parse, Input, Inputs, Uses, AllocUserPtrBO
  <2>2. \A u \in Uses : bo'[u] \in {"open", "bad", bo[u]}
      BY <1>0, <1>3 DEF Compile, Parse, Inputs, Uses, AllocUserPtrBO
  <2> QED
      BY <1>3, <2>1, <2>2 DEF Compile, Parse
<1>4. CASE Prepare \/ BuildCommand
  <2>1. UNCHANGED <<host, left>> /\ \A u \in Inputs : bo'[u] = bo[u]
      BY <1>0, <1>4 DEF Prepare, BuildCommand, Inputs, Uses
  <2>2. \A u \in Uses : bo'[u] \in {"open", "bad", bo[u]}
      BY <1>0, <1>4 DEF Prepare, BuildCommand, Inputs, Uses
  <2>3. pc \in {"result", "exec"} /\ pc' \in {"end", "regex", "submit"}
      BY <1>4 DEF Prepare, BuildCommand, Ends
  <2> QED
      BY <2>1, <2>2, <2>3
<1>5. CASE SyncRegex \/ SyncPacket \/ ExecBuf
    BY <1>5 DEF SyncRegex, SyncPacket, ExecBuf
<1>6. CASE ExecWait \/ ExecWaitFails \/ SyncResult
    BY <1>6 DEF ExecWait, ExecWaitFails, SyncResult
<1>7. CASE Harvest \/ HarvestFails
    BY <1>7 DEF Harvest, HarvestFails, Ends
<1>8. CASE ReleaseJob
  <2>1. \A u \in Uses : bo'[u] = IF u \in JobObjects /\ bo[u] = "open" THEN "freed" ELSE bo[u]
      BY <1>8 DEF ReleaseJob, FreeBOs
  <2>2. bo'["packet"] # "open"
      BY <2>1 DEF Uses, Inputs, JobObjects
  <2>3. pc = "release" /\ pc' = "free" /\ UNCHANGED <<host, left>>
      BY <1>8 DEF ReleaseJob
  <2> QED
      BY <1>0, <2>1, <2>2, <2>3 DEF Uses
<1>9. CASE ReleaseRegex
  <2>1. \A u \in Uses : bo'[u] = IF u = "regex" /\ bo[u] = "open" THEN "freed" ELSE bo[u]
      BY <1>9 DEF ReleaseRegex, FreeBOs
  <2>2. bo'["regex"] # "open"
      BY <2>1 DEF Uses, Inputs
  <2>3. pc = "release regex" /\ pc' = "free regex" /\ UNCHANGED <<host, left>>
      BY <1>9 DEF ReleaseRegex
  <2> QED
      BY <1>0, <2>1, <2>2, <2>3 DEF Uses
<1>10. CASE FreePackets \/ FreeRegexes
  <2>1. UNCHANGED <<bo, left>>
      BY <1>10 DEF FreePackets, FreeRegexes
  <2>2. \A u \in Inputs : host'[u] = "freed" => bo[u] # "open"
      BY <1>0, <1>10 DEF FreePackets, FreeRegexes
  <2>3. /\ pc \in {"free", "free regex"} /\ pc' \in {"end", "release regex", "close"}
      BY <1>10 DEF FreePackets, FreeRegexes, Ends
  <2> QED
      BY <2>1, <2>2, <2>3
<1>11. CASE CloseContext \/ Verdict
    BY <1>11 DEF CloseContext, Verdict, Ends
<1>12. CASE KernelFinishes \/ Ended \/ UNCHANGED vars
    BY <1>12 DEF KernelFinishes, Ended, vars
<1> QED
    BY <1>1, <1>2, <1>3, <1>4, <1>5, <1>6, <1>7, <1>8, <1>9, <1>10, <1>11, <1>12 DEF Next, Host

-----------------------------------------------------------------------------
(* How main comes to its end: by a failure, whose status is not 0, or by    *)
(* the verdict.                                                             *)
FailsEnd == pc' = "end" /\ verdict' \in Verdicts \ {"passed"} /\ status' # 0

LEMMA FailureEnds ==
    ASSUME NEW v \in Verdicts \ {"passed"}, NEW r \in {-1, 1, 134, 139}, Ends(v, r)
    PROVE  FailsEnd
<1>1. (-1) % 256 # 0 /\ 1 % 256 # 0 /\ 139 % 256 # 0 /\ 134 % 256 # 0
    BY Statuses
<1>2. r % 256 # 0
    BY <1>1
<1> QED
    BY <1>2 DEF Ends, FailsEnd

LEMMA Endings ==
    ASSUME [Next]_vars, pc' = "end"
    PROVE  UNCHANGED vars \/ FailsEnd \/ Verdict
<1>1. CASE OpenContextFails \/ CutLine \/ SyncFails \/ ExecBufFails \/ SyncResultFails
  <2>1. Ends("threw", -1) \/ Ends("exited", 1) \/ Ends("stopped", 1) \/ Ends("stopped", -1)
      BY <1>1 DEF OpenContextFails, CutLine, SyncFails, ExecBufFails, SyncResultFails
  <2> QED
      BY <2>1, FailureEnds DEF Verdicts
<1>2. CASE InitEnds
  <2>1. Ends("threw", -1) \/ Ends("stopped", 1)
      BY <1>2 DEF InitEnds
  <2> QED
      BY <2>1, FailureEnds DEF Verdicts
<1>3. CASE Prepare \/ BuildCommand \/ HarvestFails
  <2>1. Ends("crashed", 139) \/ Ends("exited", 1)
      BY <1>3 DEF Prepare, BuildCommand, HarvestFails
  <2> QED
      BY <2>1, FailureEnds DEF Verdicts
<1>4. CASE FreePackets
  <2>1. Ends("crashed", 134)
      BY <1>4 DEF FreePackets
  <2> QED
      BY <2>1, FailureEnds DEF Verdicts
<1>5. CASE InitXRT \/ OpenContext \/ Compile \/ Parse \/ SyncRegex \/ SyncPacket
    BY <1>5 DEF InitXRT, OpenContext, Compile, Parse, SyncRegex, SyncPacket
<1>6. CASE ExecBuf \/ ExecWait \/ ExecWaitFails \/ SyncResult \/ Harvest
    BY <1>6 DEF ExecBuf, ExecWait, ExecWaitFails, SyncResult, Harvest
<1>7. CASE ReleaseJob \/ ReleaseRegex \/ FreeRegexes \/ CloseContext
    BY <1>7 DEF ReleaseJob, ReleaseRegex, FreeRegexes, CloseContext
<1>8. CASE KernelFinishes \/ Ended
    BY <1>8 DEF KernelFinishes, Ended
<1> QED
    BY <1>1, <1>2, <1>3, <1>4, <1>5, <1>6, <1>7, <1>8 DEF Next, Host

LEMMA ErrStep == OtherTypes /\ ErrBound /\ [Next]_vars => ErrBound'
<1> SUFFICES ASSUME OtherTypes, ErrBound, [Next]_vars PROVE ErrBound'
    OBVIOUS
<1>1. pc' # "end" => verdict' = "none"
  <2>1. pc' # "end" => Stays \/ UNCHANGED vars
      BY PlaceStep DEF OtherTypes, Leaves
  <2>2. pc' # "end" /\ pc = "end" => UNCHANGED vars
      BY DEF Next, Host, Ended, InitXRT, InitEnds, OpenContext, OpenContextFails, Compile, Parse,
             CutLine, Prepare, SyncRegex, SyncPacket, SyncFails, BuildCommand, ExecBuf,
             ExecBufFails, ExecWait, SyncResult, SyncResultFails, Harvest, HarvestFails, ReleaseJob,
             FreePackets, ReleaseRegex, FreeRegexes, CloseContext, Verdict, ExecWaitFails,
             KernelFinishes, Inputs
  <2> QED
      BY <2>1, <2>2 DEF ErrBound, Stays, outcome, vars
<1>2. UNCHANGED <<err, unknown>> \/ Compile \/ Parse \/ Harvest \/ HarvestFails
    BY DEF Next, Host, vars, Ended, InitXRT, InitEnds, OpenContext, OpenContextFails,
           CutLine, Prepare, SyncRegex, SyncPacket, SyncFails, BuildCommand, ExecBuf, ExecBufFails,
           ExecWait, SyncResult, SyncResultFails, ReleaseJob, FreePackets,
           ReleaseRegex, FreeRegexes, CloseContext, Verdict, ExecWaitFails, KernelFinishes
<1>3. CASE Compile \/ Parse
  <2>1. err' \in {0, -1}
      BY <1>3 DEF Compile, Parse, Error
  <2> QED
      BY <1>1, <2>1 DEF ErrBound
<1>4. CASE Harvest
  <2>1. err' >= - unknown' \/ err' >= -1
      BY <1>4, CountsAssumption DEF Harvest, Mismatch
  <2> QED
      BY <1>1, <2>1 DEF ErrBound
<1>5. CASE HarvestFails
  <2>1. err' \in {-1, 0} \/ UNCHANGED <<err, unknown>>
      BY <1>5 DEF HarvestFails, Mismatch
  <2> QED
      BY <1>1, <2>1 DEF ErrBound
<1> QED
    BY <1>1, <1>2, <1>3, <1>4, <1>5 DEF ErrBound

LEMMA StatusStep ==
    OtherTypes /\ ErrBound /\ StatusTellsVerdict /\ [Next]_vars => StatusTellsVerdict'
<1> SUFFICES ASSUME OtherTypes, ErrBound, StatusTellsVerdict, [Next]_vars,
                    pc' = "end", unknown' < 256
             PROVE  status' = 0 <=> verdict' = "passed"
    BY DEF StatusTellsVerdict
<1>1. CASE UNCHANGED vars
    BY <1>1 DEF vars, outcome, StatusTellsVerdict
<1>2. CASE FailsEnd
    BY <1>2 DEF FailsEnd
<1>3. CASE Verdict
  <2>1. verdict' = Printed /\ status' = err % 256 /\ unknown' = unknown
      BY <1>3 DEF Verdict, Ends
  <2>2. err \in Int /\ -255 <= err /\ err <= 1
      BY <2>1, CountsAssumption DEF OtherTypes, ErrBound
  <2>3. status' = 0 <=> err = 0
      BY <2>1, <2>2, Statuses
  <2> QED
      BY <2>1, <2>3 DEF Printed
<1> QED
    BY <1>1, <1>2, <1>3, Endings

-----------------------------------------------------------------------------
(* Both inputs are only read once, and a step that leaves a run clean has   *)
(* found it clean: no call has failed in it.                                *)
LEMMA InputStep == InputOrder /\ [Next]_vars => InputOrder'
<1> SUFFICES ASSUME InputOrder, [Next]_vars PROVE InputOrder'
    OBVIOUS
<1> USE DEF InputOrder, given, Ends
<1>1. CASE InitXRT \/ InitEnds \/ OpenContext \/ OpenContextFails
    BY <1>1 DEF InitXRT, InitEnds, OpenContext, OpenContextFails
<1>2. CASE Compile \/ Parse \/ CutLine \/ Prepare
    BY <1>2 DEF Compile, Parse, CutLine, Prepare
<1>3. CASE SyncRegex \/ SyncPacket \/ SyncFails \/ BuildCommand \/ ExecBuf \/ ExecBufFails
    BY <1>3 DEF SyncRegex, SyncPacket, SyncFails, BuildCommand, ExecBuf, ExecBufFails
<1>4. CASE ExecWait \/ ExecWaitFails \/ SyncResult \/ SyncResultFails \/ Harvest \/ HarvestFails
    BY <1>4 DEF ExecWait, ExecWaitFails, SyncResult, SyncResultFails, Harvest, HarvestFails
<1>5. CASE ReleaseJob \/ FreePackets \/ ReleaseRegex \/ FreeRegexes \/ CloseContext \/ Verdict
    BY <1>5 DEF ReleaseJob, FreePackets, ReleaseRegex, FreeRegexes, CloseContext, Verdict
<1>6. CASE KernelFinishes \/ Ended \/ UNCHANGED vars
    BY <1>6 DEF KernelFinishes, Ended, vars
<1> QED
    BY <1>1, <1>2, <1>3, <1>4, <1>5, <1>6 DEF Next, Host

LEMMA CleanBefore ==
    ASSUME OtherTypes, InputOrder, [Next]_vars, Clean'
    PROVE  Clean /\ ~ Fault
<1>0. faults' = 0 /\ ~ Fault
    BY FaultTypes DEF Clean, OtherTypes
<1>1. faults' = faults
  <2>1. CASE UNCHANGED faults
      BY <2>1
  <2>2. CASE ~ UNCHANGED faults
      BY <1>0, <2>2
      DEF Next, Host, vars, Ended, InitXRT, InitEnds, OpenContext, OpenContextFails, Compile, Parse,
          CutLine, Prepare, SyncRegex, SyncPacket, SyncFails, BuildCommand, ExecBuf, ExecBufFails,
          ExecWait, SyncResult, SyncResultFails, Harvest, HarvestFails, ReleaseJob, FreePackets,
          ReleaseRegex, FreeRegexes, CloseContext, Verdict, ExecWaitFails, KernelFinishes,
          AllocUserPtrBO
  <2> QED
      BY <2>1, <2>2
<1>2. UNCHANGED <<regex, packets>> \/ Compile \/ Parse
    BY DEF Next, Host, vars, given, Ended, InitXRT, InitEnds, OpenContext, OpenContextFails,
           CutLine, Prepare, SyncRegex, SyncPacket, SyncFails, BuildCommand, ExecBuf, ExecBufFails,
           ExecWait, SyncResult, SyncResultFails, Harvest, HarvestFails, ReleaseJob, FreePackets,
           ReleaseRegex, FreeRegexes, CloseContext, Verdict, ExecWaitFails, KernelFinishes
<1>3. Compile => regex = "unread" /\ packets' = packets
    BY DEF Compile, InputOrder
<1>4. Parse => packets = "unread" /\ regex' = regex
    BY DEF Parse, InputOrder
<1> QED
    BY <1>0, <1>1, <1>2, <1>3, <1>4 DEF Clean

LEMMA CleanInputsStep ==
    ASSUME OtherTypes, InputOrder, Clean, CleanInputs, [Next]_vars, Clean'
    PROVE  CleanInputs'
<1> USE DEF CleanInputs, FromCompile, FromParse, FromResult, FromRegex, FromExec, FromSubmit,
            FromWait, FromFetch, FromHarvest, FromRelease, FromFreeing, FromClose, given, Ends
<1>1. CASE InitXRT \/ InitEnds \/ OpenContext \/ OpenContextFails
    BY <1>1 DEF InitXRT, InitEnds, OpenContext, OpenContextFails
<1>2. CASE Compile \/ Parse \/ CutLine \/ Prepare
    BY <1>2 DEF Compile, Parse, CutLine, Prepare, Clean, Regexes, Packets
<1>3. CASE SyncRegex \/ SyncPacket \/ SyncFails \/ BuildCommand \/ ExecBuf \/ ExecBufFails
    BY <1>3 DEF SyncRegex, SyncPacket, SyncFails, BuildCommand, ExecBuf, ExecBufFails
<1>4. CASE ExecWait \/ ExecWaitFails \/ SyncResult \/ SyncResultFails \/ Harvest \/ HarvestFails
    BY <1>4 DEF ExecWait, ExecWaitFails, SyncResult, SyncResultFails, Harvest, HarvestFails
<1>5. CASE ReleaseJob \/ FreePackets \/ ReleaseRegex \/ FreeRegexes \/ CloseContext \/ Verdict
    BY <1>5 DEF ReleaseJob, FreePackets, ReleaseRegex, FreeRegexes, CloseContext, Verdict
<1>6. CASE KernelFinishes \/ Ended \/ UNCHANGED vars
    BY <1>6 DEF KernelFinishes, Ended, vars
<1> QED
    BY <1>1, <1>2, <1>3, <1>4, <1>5, <1>6 DEF Next, Host

LEMMA CleanBuffersStep ==
    ASSUME OtherTypes, InputOrder, Clean, CleanInputs, CleanBuffers, [Next]_vars, Clean'
    PROVE  CleanBuffers'
<1>0. DOMAIN bo = Uses /\ DOMAIN host = Inputs /\ ~ Fault
    BY CleanBefore DEF OtherTypes
<1> USE DEF CleanBuffers, FromCompile, FromParse, FromResult, FromRegex, FromExec, FromSubmit,
            FromWait, FromFetch, FromHarvest, FromRelease, FromFreeing, FromClose, memory
<1>1. CASE InitXRT \/ InitEnds \/ OpenContext
    BY <1>1 DEF InitXRT, InitEnds, OpenContext, Ends
<1>2. CASE OpenContextFails \/ CutLine \/ SyncFails \/ ExecBufFails \/ SyncResultFails
    BY <1>2 DEF OpenContextFails, CutLine, SyncFails, ExecBufFails, SyncResultFails, Ends
<1>3. CASE Compile
  <2>1. regex' = "taken" /\ pc = "compile" /\ pc' = "parse"
      BY <1>3 DEF Compile, Clean, Regexes
  <2>2. host'["regex"] = "whole"
      BY <1>0, <1>3, <2>1 DEF Compile, Input, Inputs
  <2>3. bo'["regex"] = "open"
      BY <1>0, <1>3, <2>2 DEF Compile, AllocUserPtrBO, Uses, Inputs
  <2> QED
      BY <2>1, <2>2, <2>3
<1>4. CASE Parse
  <2>1. packets' = "taken" /\ pc = "parse" /\ pc' = "result"
      BY <1>4 DEF Parse, Clean, Packets
  <2>2. host'["packet"] = "whole" /\ host'["regex"] = "whole"
      BY <1>0, <1>4, <2>1 DEF Parse, Input, Inputs
  <2>3. bo'["packet"] = "open" /\ bo'["regex"] = "open"
      BY <1>0, <1>4, <2>1, <2>2 DEF Parse, AllocUserPtrBO, Uses, Inputs
  <2> QED
      BY <2>1, <2>2, <2>3
<1>5. CASE Prepare
  <2>1. bo'["packet"] = "open" /\ bo'["regex"] = "open" /\ bo'["result"] = "open"
      BY <1>0, <1>5 DEF Prepare, Uses, Inputs
  <2> QED
      BY <1>5, <2>1 DEF Prepare, Ends
<1>6. CASE BuildCommand
  <2>1. \A u \in Uses : bo'[u] = IF u = "exec" THEN "open" ELSE bo[u]
      BY <1>0, <1>6 DEF BuildCommand
  <2> QED
      BY <1>6, <2>1 DEF BuildCommand, Ends, Uses, Inputs
<1>7. CASE SyncRegex \/ SyncPacket \/ ExecBuf
    BY <1>7 DEF SyncRegex, SyncPacket, ExecBuf
<1>8. CASE ExecWait \/ ExecWaitFails \/ SyncResult
    BY <1>8 DEF ExecWait, ExecWaitFails, SyncResult
<1>9. CASE Harvest \/ HarvestFails
    BY <1>9 DEF Harvest, HarvestFails, Ends
<1>10. CASE ReleaseJob
  <2>1. \A u \in Uses : bo'[u] = IF u \in JobObjects /\ bo[u] = "open" THEN "freed" ELSE bo[u]
      BY <1>10 DEF ReleaseJob, FreeBOs
  <2>2. pc = "release" /\ pc' = "free" /\ UNCHANGED host
      BY <1>10 DEF ReleaseJob
  <2>3. \A u \in JobObjects : bo'[u] = "freed"
      BY <2>1, <2>2 DEF Uses, Inputs, JobObjects
  <2>4. bo'["regex"] = "open"
      BY <2>1, <2>2 DEF Uses, Inputs, JobObjects
  <2> QED
      BY <2>2, <2>3, <2>4
<1>11. CASE ReleaseRegex
  <2>1. \A u \in Uses : bo'[u] = IF u = "regex" /\ bo[u] = "open" THEN "freed" ELSE bo[u]
      BY <1>11 DEF ReleaseRegex, FreeBOs
  <2>2. pc = "release regex" /\ pc' = "free regex" /\ UNCHANGED host
      BY <1>11 DEF ReleaseRegex
  <2>3. \A u \in JobObjects : bo'[u] = "freed"
      BY <2>1, <2>2 DEF Uses, Inputs, JobObjects
  <2>4. bo'["regex"] = "freed"
      BY <2>1, <2>2 DEF Uses, Inputs
  <2> QED
      BY <2>2, <2>3, <2>4
<1>12. CASE FreePackets \/ FreeRegexes
    BY <1>0, <1>12 DEF FreePackets, FreeRegexes, Ends, Inputs
<1>13. CASE CloseContext \/ Verdict
    BY <1>13 DEF CloseContext, Verdict, Ends
<1>14. CASE KernelFinishes \/ Ended \/ UNCHANGED vars
    BY <1>14 DEF KernelFinishes, Ended, vars
<1> QED
    BY <1>1, <1>2, <1>3, <1>4, <1>5, <1>6, <1>7, <1>8, <1>9, <1>10, <1>11, <1>12, <1>13, <1>14
    DEF Next, Host

LEMMA CleanDeviceStep ==
    ASSUME OtherTypes, InputOrder, CommandOrder, Clean, CleanBuffers, CleanDevice,
           [Next]_vars, Clean'
    PROVE  CleanDevice'
<1>0. ~ Fault
    BY CleanBefore
<1>w. UNCHANGED <<written, cmd>> => WrittenWhenDone'
    BY DEF CleanDevice, WrittenWhenDone
<1>v. ASSUME cmd # "completed", cmd' # "completed", UNCHANGED written
      PROVE  WrittenWhenDone'
    BY <1>v DEF CleanDevice, WrittenWhenDone
<1> USE DEF CleanDevice, All, FromCompile, FromParse, FromResult, FromRegex, FromExec, FromSubmit,
            FromWait, FromFetch, FromHarvest, FromRelease, FromFreeing, FromClose, device
<1>1. CASE InitXRT \/ InitEnds \/ OpenContext
    BY <1>w, <1>1 DEF InitXRT, InitEnds, OpenContext, Ends
<1>2. CASE OpenContextFails \/ CutLine \/ SyncFails \/ ExecBufFails \/ SyncResultFails
    BY <1>w, <1>2 DEF OpenContextFails, CutLine, SyncFails, ExecBufFails, SyncResultFails, Ends
<1>3. CASE Compile \/ Parse \/ Prepare
    BY <1>w, <1>3 DEF Compile, Parse, Prepare, Ends
<1>4. CASE SyncRegex
  <2>1. cmd = "none"
      BY <1>4 DEF SyncRegex, CommandOrder
  <2> QED
      BY <1>w, <1>4, <2>1 DEF SyncRegex, Inputs
<1>5. CASE SyncPacket
  <2>1. synced' = Inputs
    <3>1. synced \subseteq Inputs
        BY DEF OtherTypes
    <3>2. "regex" \in synced /\ synced' = synced \cup {"packet"}
        BY <1>5 DEF SyncPacket
    <3> QED
        BY <3>1, <3>2 DEF Inputs
  <2> QED
      BY <1>w, <1>5, <2>1 DEF SyncPacket
<1>6. CASE BuildCommand
  <2>1. cmd' = "new" \/ cmd' = cmd
      BY <1>6 DEF BuildCommand
  <2>2. cmd = "none" /\ synced = Inputs
      BY <1>6 DEF BuildCommand, CommandOrder
  <2> QED
      BY <1>v, <1>6, <2>1, <2>2 DEF BuildCommand, Ends
<1>7. CASE ExecBuf
  <2>1. Fit
      BY <1>7 DEF ExecBuf, Fit, CleanBuffers, Inputs
  <2>2. cmd = "new" /\ cmd' = "running"
      BY <1>7, <2>1 DEF ExecBuf, CommandOrder
  <2> QED
      BY <1>v, <1>7, <2>2 DEF ExecBuf
<1>8. CASE ExecWait \/ ExecWaitFails
    BY <1>0, <1>w, <1>8 DEF ExecWait, ExecWaitFails
<1>9. CASE SyncResult
  <2>1. cmd = "completed"
      BY <1>9 DEF SyncResult, CommandOrder, OtherTypes
  <2>2. written
      BY <2>1 DEF WrittenWhenDone
  <2>3. pc = "fetch" /\ fetched' = "results" /\ pc' = "harvest" /\ UNCHANGED <<device, left>>
      BY <1>9, <2>2 DEF SyncResult
  <2> QED
      BY <1>w, <1>9, <2>3
<1>10. CASE Harvest
  <2>1. fetched = "results" /\ pc' = "release" /\ UNCHANGED <<device, left, fetched>>
      BY <1>10 DEF Harvest
  <2>2. err' = 0
      BY <1>10, <2>1 DEF Harvest, Mismatch
  <2> QED
      BY <1>w, <1>10, <2>1, <2>2 DEF Harvest
<1>11. CASE HarvestFails
    BY <1>0, <1>11 DEF HarvestFails
<1>12. CASE ReleaseJob \/ FreePackets \/ ReleaseRegex
    BY <1>w, <1>12 DEF ReleaseJob, FreePackets, ReleaseRegex, Ends
<1>13. CASE FreeRegexes \/ CloseContext \/ Verdict
    BY <1>w, <1>13 DEF FreeRegexes, CloseContext, Verdict, Ends
<1>14. CASE KernelFinishes
  <2>1. cmd = "running" /\ cmd' = "completed" /\ pc' = pc
      BY <1>14 DEF KernelFinishes
  <2>2. WrittenWhenDone'
      BY <1>14, <2>1 DEF KernelFinishes, WrittenWhenDone
  <2>3. UNCHANGED <<synced, left, fetched, err>>
      BY <1>14 DEF KernelFinishes
  <2> QED
      BY <2>1, <2>2, <2>3
<1>15. CASE Ended \/ UNCHANGED vars
    BY <1>w, <1>15 DEF Ended, vars
<1> QED
    BY <1>1, <1>2, <1>3, <1>4, <1>5, <1>6, <1>7, <1>8, <1>9, <1>10, <1>11, <1>12, <1>13, <1>14, <1>15
    DEF Next, Host

(* How a clean run can end: cut off by a line without its end, before it    *)
(* has a context, or with the verdict.                                      *)
LEMMA CleanEndings ==
    ASSUME OtherTypes, InputOrder, CommandOrder, Clean, CleanInputs, CleanBuffers,
           [Next]_vars, Clean', pc' = "end", ctx' # "none", ContextOrder
    PROVE  UNCHANGED vars \/ verdict' = "exited" \/ Verdict
<1>0. ~ Fault
    BY CleanBefore
<1>1. ~ InitEnds /\ ~ OpenContextFails
    BY DEF ContextOrder, InitEnds, OpenContextFails
<1>2. CutLine => verdict' = "exited"
    BY DEF CutLine, Ends
<1>3. ~ Prepare
  <2>1. Prepare => regex = "taken" /\ packets = "taken"
      BY DEF Prepare, CleanInputs, FromParse, FromResult
  <2> QED
      BY <2>1 DEF Prepare, HitsCutLine
<1>4. ~ SyncFails
  <2>1. pc \in Inputs => ~ Unfit
      BY DEF Unfit, CleanBuffers, Inputs, FromParse, FromResult, FromRegex, FromFreeing, FromClose
  <2> QED
      BY <1>0, <2>1 DEF SyncFails
<1>5. ~ BuildCommand /\ ~ ExecBufFails /\ ~ SyncResultFails /\ ~ HarvestFails
    BY <1>0 DEF BuildCommand, ExecBufFails, SyncResultFails, HarvestFails
<1>6. ~ FreePackets
  <2>1. pc = "free" => host["packet"] = "whole"
      BY DEF CleanBuffers, FromResult, FromRegex, FromExec, FromSubmit, FromWait, FromFetch,
             FromHarvest, FromRelease, FromFreeing, FromClose
  <2> QED
      BY <2>1 DEF FreePackets
<1>7. CASE InitXRT \/ OpenContext \/ Compile \/ Parse \/ SyncRegex \/ SyncPacket
    BY <1>7 DEF InitXRT, OpenContext, Compile, Parse, SyncRegex, SyncPacket
<1>8. CASE ExecBuf \/ ExecWait \/ ExecWaitFails \/ SyncResult \/ Harvest
    BY <1>8 DEF ExecBuf, ExecWait, ExecWaitFails, SyncResult, Harvest
<1>9. CASE ReleaseJob \/ ReleaseRegex \/ FreeRegexes \/ CloseContext
    BY <1>9 DEF ReleaseJob, ReleaseRegex, FreeRegexes, CloseContext
<1>10. CASE KernelFinishes \/ Ended
    BY <1>10 DEF KernelFinishes, Ended
<1> QED
    BY <1>1, <1>2, <1>3, <1>4, <1>5, <1>6, <1>7, <1>8, <1>9, <1>10 DEF Next, Host

LEMMA CleanRunStep == IInv /\ OtherTypes /\ [Next]_vars => CleanRunPasses'
<1> SUFFICES ASSUME IInv, OtherTypes, [Next]_vars, pc' = "end", ctx' # "none", faults' = 0,
                    regex' = "taken", packets' = "taken", verdict' # "exited"
             PROVE  /\ verdict' = "passed" /\ fetched' = "results" /\ ctx' = "closed"
                    /\ \A u \in Uses : bo'[u] = "freed"
                    /\ \A u \in Inputs : host'[u] = "freed"
    BY DEF CleanRunPasses
<1>1. Clean' /\ Clean
    BY CleanBefore DEF IInv, Clean
<1>2. CleanInputs /\ CleanBuffers /\ CleanDevice
    BY <1>1 DEF IInv, CleanOrder
<1>3. UNCHANGED vars \/ Verdict
    BY <1>1, <1>2, CleanEndings DEF IInv
<1>4. CASE UNCHANGED vars
    BY <1>4 DEF vars, memory, given, outcome, IInv, CleanRunPasses
<1>5. CASE Verdict
  <2>1. pc = "verdict" /\ verdict' = Printed /\ UNCHANGED <<bo, host, fetched, ctx>>
      BY <1>5 DEF Verdict, Ends, memory
  <2>2. err = 0 /\ fetched = "results"
      BY <1>2, <2>1 DEF CleanDevice, FromHarvest, FromRelease, FromFreeing, FromClose
  <2>3. /\ bo["regex"] = "freed" /\ host["regex"] = "freed" /\ host["packet"] = "freed"
        /\ \A u \in JobObjects : bo[u] = "freed"
      BY <1>2, <2>1 DEF CleanBuffers, FromFreeing, FromClose
  <2>4. ctx = "closed"
      BY <2>1 DEF IInv, ContextOrder
  <2> QED
      BY <2>1, <2>2, <2>3, <2>4 DEF Printed, Uses, Inputs, JobObjects
<1> QED
    BY <1>3, <1>4, <1>5

-----------------------------------------------------------------------------
LEMMA InitIInv == Init => IInv
<1> SUFFICES ASSUME Init PROVE IInv
    OBVIOUS
<1>1. XInv
    BY InitXInv DEF Init
<1>2. PlaceTypes /\ OtherTypes
  <2>1. PlaceTypes
      BY DEF Init, PlaceTypes, All
  <2>2. /\ host \in [Inputs -> {"none", "whole", "empty", "wild", "freed"}]
        /\ bo \in [Uses -> {"none", "open", "bad", "freed"}]
      BY DEF Init
  <2>3. unknown \in Counts /\ err \in Int /\ err <= 1 /\ faults \in 0 .. MaxFaults
      BY CountsAssumption, FaultsAssumption DEF Init
  <2>4. check \in BOOLEAN /\ written \in BOOLEAN
      BY DEF Init
  <2> QED
      BY <2>1, <2>2, <2>3, <2>4 DEF Init, OtherTypes
<1>3. TypeOK /\ XrtShape
    BY <1>1, <1>2, TypeParts DEF XInv
<1>4. ContextOrder /\ InputOrder /\ CommandOrder
    BY DEF Init, ContextOrder, InputOrder, CommandOrder, FromCompile, FromParse, FromResult, FromRegex,
           FromExec, FromSubmit, FromWait, FromFetch, FromHarvest, FromRelease, FromFreeing, FromClose
<1>5. BufferOrder /\ ErrBound
    BY DEF Init, BufferOrder, ErrBound, Inputs, Uses
<1>6. CleanInputs /\ CleanBuffers /\ CleanDevice
    BY DEF Init, CleanInputs, CleanBuffers, CleanDevice, WrittenWhenDone, FromCompile, FromParse,
           FromResult, FromRegex, FromExec, FromSubmit, FromWait, FromFetch, FromHarvest, FromRelease,
           FromFreeing, FromClose
<1>7. CleanRunPasses /\ StatusTellsVerdict
    BY DEF Init, CleanRunPasses, StatusTellsVerdict
<1> QED
    BY <1>3, <1>4, <1>5, <1>6, <1>7 DEF IInv, CleanOrder

LEMMA IInvStep == IInv /\ [Next]_vars => IInv'
<1> SUFFICES ASSUME IInv, [Next]_vars PROVE IInv'
    OBVIOUS
<1>1. XInv /\ PlaceTypes /\ OtherTypes /\ err \in Int
    BY TypeParts DEF IInv, XInv, OtherTypes
<1>2. TypeOK' /\ XrtShape'
  <2>1. XInv' /\ PlaceTypes' /\ OtherTypes'
      BY <1>1, XrtStep, PlaceTypesStep, OtherTypesStep
  <2>2. (TypeOK <=> Xrt!TypeOK /\ PlaceTypes /\ OtherTypes)'
      BY TypeParts, PTL
  <2> QED
      BY <2>1, <2>2 DEF XInv
<1>3. ContextOrder' /\ InputOrder' /\ CommandOrder' /\ BufferOrder' /\ ErrBound'
    BY <1>1, ContextStep, InputStep, CommandStep, BufferStep, ErrStep DEF IInv
<1>4. CleanOrder'
  <2> SUFFICES ASSUME Clean' PROVE CleanInputs' /\ CleanBuffers' /\ CleanDevice'
      BY DEF CleanOrder
  <2>1. Clean /\ InputOrder /\ CommandOrder
      BY <1>1, CleanBefore DEF IInv
  <2>2. CleanInputs /\ CleanBuffers /\ CleanDevice
      BY <2>1 DEF IInv, CleanOrder
  <2> QED
      BY <1>1, <2>1, <2>2, CleanInputsStep, CleanBuffersStep, CleanDeviceStep
<1>5. CleanRunPasses' /\ StatusTellsVerdict'
    BY <1>1, CleanRunStep, StatusStep DEF IInv
<1> QED
    BY <1>2, <1>3, <1>4, <1>5 DEF IInv

LEMMA Invariance == Spec => []IInv
<1> QED
    BY InitIInv, IInvStep, PTL DEF Spec

(* The types of the application, and of initXRT in it. *)
THEOREM TypeCorrect == Spec => []TypeOK
<1>1. IInv => TypeOK
    BY DEF IInv
<1> QED
    BY <1>1, Invariance, PTL

(* A command is only submitted on the compute unit that was asked for and   *)
(* with the first memory in use, however many IPs and memories there are.   *)
THEOREM CommandGoesToUnit == Spec => []CommandOnFoundUnit
<1>1. IInv => CommandOnFoundUnit
    BY DEF IInv, ContextOrder, UnitFound, CommandOnFoundUnit
<1> QED
    BY <1>1, Invariance, PTL

(* Input memory outlives its buffer object, and buffer objects the command, *)
(* unless the wait has failed.                                              *)
THEOREM BuffersOutliveCommand == Spec => []MemoryOutlivesDevice
<1>1. IInv => MemoryOutlivesDevice
  <2> SUFFICES ASSUME IInv PROVE MemoryOutlivesDevice
      OBVIOUS
  <2>1. \A u \in Inputs : host[u] = "freed" => bo[u] # "open"
      BY DEF IInv, BufferOrder
  <2>2. left \in {"no", "signalled", "failed"}
      BY TypeParts DEF IInv, OtherTypes
  <2>3. ASSUME left # "failed", NEW u \in Uses, bo[u] = "freed"
        PROVE  cmd = "completed"
      BY <2>2, <2>3 DEF IInv, BufferOrder, CommandOrder
  <2> QED
      BY <2>1, <2>3 DEF MemoryOutlivesDevice
<1> QED
    BY <1>1, Invariance, PTL

(* A run in which nothing fails passes, with its own results read and       *)
(* everything given back.                                                   *)
THEOREM CleanRunsPass == Spec => []CleanRunPasses
<1>1. IInv => CleanRunPasses
    BY DEF IInv
<1> QED
    BY <1>1, Invariance, PTL

(* The exit status tells the verdict up to 255 unknown records. *)
THEOREM StatusTells == Spec => []StatusTellsVerdict
<1>1. IInv => StatusTellsVerdict
    BY DEF IInv
<1> QED
    BY <1>1, Invariance, PTL

-----------------------------------------------------------------------------
(* The promise of a scan.  A clean step that does something for it is one   *)
(* of three; a step after which the run is not clean gives the scan up.     *)
LEMMA CleanWork ==
    ASSUME [Next]_vars
    PROVE  UNCHANGED <<synced, written, fetched>> \/ SyncRegex \/ SyncPacket
               \/ KernelFinishes \/ SyncResult
BY DEF Next, Host, vars, device, Ended, InitXRT, InitEnds, OpenContext, OpenContextFails, Compile,
       Parse, CutLine, Prepare, SyncFails, BuildCommand, ExecBuf, ExecBufFails, ExecWait,
       SyncResultFails, Harvest, HarvestFails, ReleaseJob, FreePackets, ReleaseRegex, FreeRegexes,
       CloseContext, Verdict, ExecWaitFails

LEMMA CleanRefines ==
    ASSUME IInv, [Next]_vars, Clean, Clean'
    PROVE  [Promise!Next]_(Promise!vars)
<1> USE DEF Done, Promise!vars, Promise!Next, Promise!Copy, Promise!Execute, Promise!Fetch
<1>0. CleanDevice /\ OtherTypes
    BY TypeParts DEF IInv, CleanOrder
<1>1. CASE UNCHANGED <<synced, written, fetched>>
    BY <1>1
<1>2. CASE SyncRegex
  <2>1. synced # Inputs /\ synced' # Inputs /\ UNCHANGED <<written, fetched>>
      BY <1>0, <1>2 DEF SyncRegex, CleanDevice, All, FromCompile, FromParse, FromResult, FromRegex,
                        FromExec, FromSubmit, FromWait, FromFetch, FromHarvest, FromRelease,
                        FromFreeing, FromClose, Inputs
  <2> QED
      BY <2>1
<1>3. CASE SyncPacket
  <2>1. synced # Inputs /\ UNCHANGED <<written, fetched>>
      BY <1>0, <1>3 DEF SyncPacket, CleanDevice, All, FromCompile, FromParse, FromResult, FromRegex,
                        FromExec, FromSubmit, FromWait, FromFetch, FromHarvest, FromRelease,
                        FromFreeing, FromClose, Inputs
  <2>2. synced' = Inputs
    <3>1. synced \subseteq Inputs
        BY <1>0 DEF OtherTypes
    <3>2. "regex" \in synced /\ synced' = synced \cup {"packet"}
        BY <1>0, <1>3 DEF SyncPacket, CleanDevice
    <3> QED
        BY <3>1, <3>2 DEF Inputs
  <2> QED
      BY <2>1, <2>2
<1>4. CASE KernelFinishes
  <2>1. synced = Inputs /\ UNCHANGED <<synced, fetched>> /\ cmd = "running"
      BY <1>0, <1>4 DEF KernelFinishes, CleanDevice
  <2>2. ~ written /\ written'
      BY <1>0, <1>4, <2>1 DEF KernelFinishes, CleanDevice, WrittenWhenDone
  <2> QED
      BY <2>1, <2>2
<1>5. CASE SyncResult
  <2>1. fetched = "nothing" /\ fetched' # "nothing" /\ UNCHANGED <<synced, written>>
      BY <1>0, <1>5 DEF SyncResult, device, CleanDevice, All, FromCompile, FromParse, FromResult,
                        FromRegex, FromExec, FromSubmit, FromWait, FromFetch, FromHarvest, FromRelease,
                        FromFreeing, FromClose
  <2>2. cmd = "completed"
      BY <1>0, <1>5 DEF SyncResult, CleanDevice, IInv, CommandOrder, FromFetch, OtherTypes
  <2>3. written
      BY <1>0, <2>2 DEF CleanDevice, WrittenWhenDone
  <2> QED
      BY <2>1, <2>3
<1> QED
    BY <1>1, <1>2, <1>3, <1>4, <1>5, CleanWork

(* The application implements the promise: up to the first failing call     *)
(* nothing is read back before the kernel has run, and it does not run      *)
(* before both inputs are on the device.                                    *)
THEOREM ApplicationScans == Spec => KeepsScanPromise
<1>1. Init => Promise!Init
  <2>1. Init => Promise!Nothing
      BY DEF Init, Promise!Nothing, Done, Inputs
  <2>2. (~ Clean) \in BOOLEAN
      BY DEF Clean
  <2> QED
      BY <2>1, <2>2 DEF Promise!Init
<1>2. IInv /\ [Next]_vars => [Promise!Next]_(Promise!vars)
  <2> SUFFICES ASSUME IInv, [Next]_vars PROVE [Promise!Next]_(Promise!vars)
      OBVIOUS
  <2>1. CASE ~ Clean
    <3>1. ~ Clean'
        BY <2>1, CleanBefore, TypeParts DEF IInv
    <3> QED
        BY <2>1, <3>1 DEF Done, Promise!vars
  <2>2. CASE Clean /\ ~ Clean'
      BY <2>2 DEF Done, Promise!Next, Promise!Abort
  <2>3. CASE Clean /\ Clean'
      BY <2>3, CleanRefines
  <2> QED
      BY <2>1, <2>2, <2>3
<1> QED
    BY <1>1, <1>2, Invariance, PTL DEF Spec, KeepsScanPromise, Promise!Spec
=============================================================================
