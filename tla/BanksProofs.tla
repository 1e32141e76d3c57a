----------------------------- MODULE BanksProofs -----------------------------
(***************************************************************************)
(* Banks, for any number of kernels and any memory of up to 999 banks.     *)
(* The argument: both step computations agree up to 16 kernels, and past   *)
(* that the host has placed one kernel, at distance 0, when it is refused. *)
(***************************************************************************)
EXTENDS Banks, TLAPS

At(k, s) == [packet |-> k * s, regex |-> k * s + 1, result |-> k * s + 1]
Entries  == [packet : Int, regex : Int, result : Int]

(* What csre-mt has for job j: the bank meant for it, or none. *)
OfJob(e, j) ==
    /\ e.packet \in {2 * j, Refused} /\ e.regex \in {2 * j, Refused}
    /\ e.result \in {2 * j + 1, Refused}

Given ==
    /\ num_kernels \in Nat \ {0}
    /\ host \in Hosts
    /\ num_jobs \in Nat \ {0}
    /\ host = "ocl" => num_jobs = num_kernels

Ports ==
    /\ step \in Int
    /\ pc # "step" => step = GeneratorStep
    /\ pc = "step" => connected = <<>>
    /\ connected \in Seq(Entries)
    /\ Len(connected) <= num_kernels
    /\ \A k \in 1 .. Len(connected) : connected[k] = At(k - 1, step)
    /\ pc \in {"place", "run", "exit"} => Len(connected) = num_kernels

Buffers ==
    /\ pc \in {"step", "connect"} => placed = <<>>
    /\ placed \in Seq(Entries)
    /\ Len(placed) <= num_jobs
    /\ host = "ocl" => \A k \in 1 .. Len(placed) :
          /\ placed[k] = At(k - 1, HostStep)
          /\ (k - 1) * HostStep + 1 < NumBanks
    /\ host = "mt" => \A k \in 1 .. Len(placed) : OfJob(placed[k], k - 1)
    /\ pc = "run" => Len(placed) = num_jobs

Inv == Given /\ Ports /\ Buffers /\ pc \in {"step", "connect", "place", "run", "exit"}

(* Distances are one of a few numbers, and the generator's are the host's   *)
(* up to 16 kernels.                                                        *)
LEMMA Steps ==
    ASSUME num_kernels \in Nat \ {0}
    PROVE  /\ GeneratorStep \in {16, 8, 4, 2, 0} /\ HostStep \in {16, 8, 4, 2, 999}
           /\ num_kernels <= 16 => GeneratorStep = HostStep /\ HostStep # 999
           /\ num_kernels > 16 => HostStep = 999
<1>1. CASE num_kernels <= 2
  BY <1>1 DEF GeneratorStep, HostStep
<1>2. CASE num_kernels \in 3 .. 4
  BY <1>2 DEF GeneratorStep, HostStep
<1>3. CASE num_kernels \in 5 .. 8
  BY <1>3 DEF GeneratorStep, HostStep
<1>4. CASE num_kernels \in 9 .. 16
  BY <1>4 DEF GeneratorStep, HostStep
<1>5. CASE num_kernels > 16
  BY <1>5 DEF GeneratorStep, HostStep
<1> QED BY <1>1, <1>2, <1>3, <1>4, <1>5

(* A kernel is connected to a whole number of banks past 0. *)
LEMMA EntryType ==
    ASSUME NEW k \in Nat, NEW s \in Int
    PROVE  At(k, s) \in Entries
BY DEF At, Entries

(* Kernels at any of the distances in use are apart. *)
LEMMA DistanceSeparates ==
    ASSUME NEW s \in {16, 8, 4, 2, 999}, NEW k \in Nat, NEW l \in Nat, k # l
    PROVE  BanksOf(At(k, s)) \cap BanksOf(At(l, s)) = {}
<1>1. \A b \in BanksOf(At(k, s)) : b = k * s \/ b = k * s + 1
  BY DEF BanksOf, At
<1>2. \A b \in BanksOf(At(l, s)) : b = l * s \/ b = l * s + 1
  BY DEF BanksOf, At
<1>3. /\ k * s # l * s /\ k * s # l * s + 1 /\ k * s + 1 # l * s
      /\ k * s + 1 # l * s + 1
  <2>1. CASE s = 16 BY <2>1
  <2>2. CASE s = 8 BY <2>2
  <2>3. CASE s = 4 BY <2>3
  <2>4. CASE s = 2 BY <2>4
  <2>5. CASE s = 999 BY <2>5
  <2> QED BY <2>1, <2>2, <2>3, <2>4, <2>5
<1> QED BY <1>1, <1>2, <1>3

(* The first memory in use is bank 0: kernel 0 is connected to it. *)
LEMMA FirstMemory ==
    ASSUME Inv, pc = "place"
    PROVE  first_mem = 0
<1>1. step \in {16, 8, 4, 2, 0}
  BY Steps DEF Inv, Given, Ports
<1>2. \A k \in 1 .. Len(connected) : connected[k] = At(k - 1, step)
  BY DEF Inv, Ports
<1>3. connected \in Seq(Entries) /\ Len(connected) \in Nat /\ Len(connected) >= 1
  BY DEF Inv, Given, Ports
<1>4. DOMAIN connected = 1 .. Len(connected)
  BY <1>3
<1>5. \A b \in Used : b \in Int /\ b >= 0
  <2> SUFFICES ASSUME NEW b \in Used PROVE b \in Int /\ b >= 0
    OBVIOUS
  <2>1. PICK p \in Range(connected) : b \in {p.packet, p.regex, p.result}
    BY DEF Used
  <2>2. PICK k \in 1 .. Len(connected) : p = At(k - 1, step)
    BY <2>1, <1>2, <1>4 DEF Range
  <2>3. k - 1 \in Nat
    BY <2>2, <1>3
  <2>4. (k - 1) * step \in Int /\ (k - 1) * step >= 0
    BY <2>3, <1>1
  <2> QED BY <2>1, <2>2, <2>4 DEF At
<1>6. 0 \in Used
  <2>1. connected[1] \in Range(connected)
    BY <1>3, <1>4 DEF Range
  <2>2. connected[1] = At(0, step)
    BY <1>2, <1>3
  <2>3. connected[1].packet = 0
    BY <2>2, <1>1 DEF At
  <2> QED BY <2>1, <2>3 DEF Used
<1>7. \A c \in Used : 0 <= c
  BY <1>5
<1>8. first_mem \in Used /\ \A c \in Used : first_mem <= c
  BY <1>6, <1>7 DEF first_mem
<1> QED BY <1>5, <1>6, <1>8
-----------------------------------------------------------------------------
LEMMA InitInv == Init => Inv
<1> SUFFICES ASSUME Init PROVE Inv
  OBVIOUS
<1>1. Given
  BY BanksAssumption DEF Init, Given
<1>2. <<>> \in Seq(Entries) /\ Len(<<>>) = 0
  OBVIOUS
<1>3. Ports
  BY <1>1, <1>2 DEF Init, Ports, Given
<1>4. Buffers
  BY <1>1, <1>2 DEF Init, Buffers, Given
<1> QED BY <1>1, <1>3, <1>4 DEF Init, Inv

LEMMA StepInv == Inv /\ [Next]_vars => Inv'
<1> SUFFICES ASSUME Inv, [Next]_vars PROVE Inv'
  OBVIOUS
<1> USE DEF Inv
<1>0. ASSUME UNCHANGED given PROVE Given' /\ UNCHANGED GeneratorStep /\ UNCHANGED HostStep
  BY <1>0 DEF given, Given, GeneratorStep, HostStep
<1>1. CASE ChooseStep
  <2>1. Given' /\ UNCHANGED GeneratorStep
    BY <1>0, <1>1 DEF ChooseStep
  <2>2. GeneratorStep \in Int
    BY Steps DEF Given
  <2>3. Ports'
    <3>1. connected' = <<>> /\ pc' = "connect" /\ step' = GeneratorStep
      BY <1>1 DEF ChooseStep, Ports
    <3>2. Len(<<>>) = 0 /\ <<>> \in Seq(Entries)
      OBVIOUS
    <3>3. num_kernels' \in Nat
      BY <2>1 DEF Given
    <3> QED BY <2>1, <2>2, <3>1, <3>2, <3>3 DEF Ports
  <2>4. Buffers'
    BY <1>0, <1>1 DEF ChooseStep, given, Buffers
  <2> QED BY <1>1, <2>1, <2>3, <2>4 DEF ChooseStep
<1>2. CASE Connect
  <2> DEFINE k == Len(connected)
  <2>1. Given' /\ UNCHANGED GeneratorStep
    BY <1>0, <1>2 DEF Connect
  <2>2. k \in Nat /\ connected' = Append(connected, At(k, step))
    BY <1>2 DEF Connect, At, Ports
  <2>3. At(k, step) \in Entries
    BY <2>2, EntryType DEF Ports
  <2>4. /\ connected' \in Seq(Entries) /\ Len(connected') = k + 1
        /\ \A l \in 1 .. k + 1 : connected'[l] = IF l <= k THEN connected[l] ELSE At(k, step)
    BY <2>2, <2>3 DEF Ports
  <2>5. \A l \in 1 .. k + 1 : connected'[l] = At(l - 1, step)
    <3> SUFFICES ASSUME NEW l \in 1 .. k + 1 PROVE connected'[l] = At(l - 1, step)
      OBVIOUS
    <3>1. CASE l <= k
      BY <2>2, <2>4, <3>1 DEF Ports
    <3>2. CASE l = k + 1
      <4>1. l - 1 = k
        BY <2>2, <3>2
      <4> QED BY <2>2, <2>4, <3>2, <4>1
    <3> QED BY <2>2, <3>1, <3>2
  <2>6. Ports'
    BY <1>2, <2>1, <2>2, <2>4, <2>5 DEF Connect, Ports, Given, given
  <2>7. Buffers'
    BY <1>0, <1>2 DEF Connect, given, Buffers
  <2> QED BY <1>2, <2>1, <2>6, <2>7 DEF Connect
<1>3. CASE Connected
  <2>1. Ports'
    BY <1>0, <1>3 DEF Connected, Ports, given
  <2>2. Buffers'
    BY <1>0, <1>3 DEF Connected, given, Buffers
  <2> QED BY <1>0, <1>3, <2>1, <2>2 DEF Connected
<1>4. CASE PlaceOcl
  <2> DEFINE k == Len(placed)
             b == k * HostStep
  <2>1. Ports'
    BY <1>0, <1>4 DEF PlaceOcl, Ports, given
  <2>2. k \in Nat /\ k < num_jobs /\ HostStep \in Int
    BY <1>4, Steps DEF PlaceOcl, Buffers, Given
  <2>3. CASE Exists(b) /\ Exists(b + 1)
    <3>1. placed' = Append(placed, At(k, HostStep)) /\ pc' = pc
      BY <1>4, <2>3 DEF PlaceOcl, At
    <3>2. At(k, HostStep) \in Entries
      BY <2>2, EntryType
    <3>3. /\ placed' \in Seq(Entries) /\ Len(placed') = k + 1
          /\ \A l \in 1 .. k + 1 : placed'[l] = IF l <= k THEN placed[l] ELSE At(k, HostStep)
      BY <2>2, <3>1, <3>2 DEF Buffers
    <3>4. ASSUME NEW l \in 1 .. k + 1
          PROVE  placed'[l] = At(l - 1, HostStep) /\ (l - 1) * HostStep + 1 < NumBanks
      <4>1. CASE l <= k
        BY <1>4, <2>2, <3>3, <4>1 DEF Buffers, PlaceOcl
      <4>2. CASE l = k + 1
        <5>1. l - 1 = k
          BY <2>2, <4>2
        <5>2. b + 1 < NumBanks
          BY <2>2, <2>3, BanksAssumption DEF Exists
        <5> QED BY <2>2, <3>3, <4>2, <5>1, <5>2
      <4> QED BY <2>2, <4>1, <4>2
    <3>5. Buffers'
      BY <1>0, <1>4, <2>2, <3>1, <3>3, <3>4 DEF PlaceOcl, given, Buffers, Given, Hosts
    <3> QED BY <1>0, <1>4, <2>1, <3>1, <3>5 DEF PlaceOcl
  <2>4. CASE ~ (Exists(b) /\ Exists(b + 1))
    <3>1. pc' = "exit" /\ placed' = placed
      BY <1>4, <2>4 DEF PlaceOcl
    <3>2. Buffers'
      BY <1>0, <1>4, <3>1 DEF PlaceOcl, given, Buffers
    <3> QED BY <1>0, <1>4, <2>1, <3>1, <3>2 DEF PlaceOcl
  <2> QED BY <2>3, <2>4
<1>5. CASE PlaceMt
  <2> DEFINE k == Len(placed)
             b == JobBank(k)
             e == [packet |-> Bank(b), regex |-> Bank(b), result |-> Bank(b + 1)]
  <2>1. Ports'
    BY <1>0, <1>5 DEF PlaceMt, Ports, given
  <2>2. k \in Nat /\ k < num_jobs
    BY <1>5 DEF PlaceMt, Buffers, Given
  <2>3. b = 2 * k
    BY <1>5, <2>2, FirstMemory DEF PlaceMt, JobBank
  <2>4. Bank(b) \in {b, Refused} /\ Bank(b + 1) \in {b + 1, Refused}
    BY DEF Bank
  <2>5. OfJob(e, k) /\ e \in Entries
    BY <2>2, <2>3, <2>4 DEF OfJob, Entries, Refused
  <2>6. placed' = Append(placed, e) /\ pc' = pc /\ pc = "place" /\ host = "mt"
    BY <1>5 DEF PlaceMt
  <2> HIDE DEF e
  <2>7. /\ placed' \in Seq(Entries) /\ Len(placed') = k + 1
        /\ \A l \in 1 .. k + 1 : placed'[l] = IF l <= k THEN placed[l] ELSE e
    BY <2>2, <2>5, <2>6 DEF Buffers
  <2>8. ASSUME NEW l \in 1 .. k + 1 PROVE OfJob(placed'[l], l - 1)
    <3>1. CASE l <= k
      BY <2>2, <2>6, <2>7, <3>1 DEF Buffers
    <3>2. CASE l = k + 1
      <4>1. l - 1 = k
        BY <2>2, <3>2
      <4> QED BY <2>2, <2>5, <2>7, <3>2, <4>1
    <3> QED BY <2>2, <3>1, <3>2
  <2>9. Buffers'
    BY <1>0, <1>5, <2>2, <2>6, <2>7, <2>8 DEF PlaceMt, given, Buffers, Given
  <2> QED BY <1>0, <1>5, <2>1, <2>6, <2>9 DEF PlaceMt
<1>6. CASE Placed
  <2>1. Ports'
    BY <1>0, <1>6 DEF Placed, Ports, given
  <2>2. Buffers'
    BY <1>0, <1>6 DEF Placed, given, Buffers
  <2> QED BY <1>0, <1>6, <2>1, <2>2 DEF Placed
<1>7. CASE UNCHANGED vars
  BY <1>7 DEF vars, given, Given, Ports, Buffers, GeneratorStep, HostStep
<1> QED BY <1>1, <1>2, <1>3, <1>4, <1>5, <1>6, <1>7 DEF Next, Done

-----------------------------------------------------------------------------
(* With a kernel other than the first placed there are at most 16 of them.  *)
LEMMA PlacedMeansSupported ==
    ASSUME Inv, host = "ocl", Len(placed) >= 2
    PROVE  num_kernels <= 16
<1>1. (2 - 1) * HostStep + 1 < NumBanks
  BY DEF Inv, Buffers
<1>2. HostStep # 999
  BY <1>1, BanksAssumption
<1> QED BY <1>2, Steps DEF Inv, Given

LEMMA PortsImplied == Inv => BuffersAtPorts
<1> SUFFICES ASSUME Inv, host = "ocl", NEW k \in DOMAIN placed
             PROVE  placed[k] = connected[k]
  BY DEF BuffersAtPorts
<1> USE DEF Inv
<1>1. placed \in Seq(Entries) /\ k \in 1 .. Len(placed) /\ Len(placed) \in Nat
  BY DEF Buffers
<1>2. placed[k] = At(k - 1, HostStep)
  BY <1>1 DEF Buffers
<1>3. pc # "step" /\ step = GeneratorStep /\ Len(connected) = num_kernels
  BY <1>1 DEF Buffers, Ports
<1>4. k \in 1 .. Len(connected)
  BY <1>1, <1>3 DEF Buffers, Given
<1>5. connected[k] = At(k - 1, GeneratorStep)
  BY <1>3, <1>4 DEF Ports
<1>6. CASE k = 1
  <2>1. At(0, HostStep) = At(0, GeneratorStep)
    BY Steps DEF At, Given
  <2> QED BY <1>2, <1>5, <1>6, <2>1
<1>7. CASE k # 1
  <2>1. num_kernels <= 16
    BY <1>1, <1>7, PlacedMeansSupported
  <2> QED BY <1>2, <1>5, <2>1, Steps DEF Given
<1> QED BY <1>6, <1>7

LEMMA OwnImplied == Inv => BanksOfTheirOwn
<1> SUFFICES ASSUME Inv PROVE BanksOfTheirOwn
  OBVIOUS
<1> USE DEF Inv
<1>0. placed \in Seq(Entries) /\ DOMAIN placed = 1 .. Len(placed) /\ Len(placed) \in Nat
  BY DEF Buffers
<1>1. ASSUME NEW k \in DOMAIN placed, NEW l \in DOMAIN placed, k # l
      PROVE  BanksOf(placed[k]) \cap BanksOf(placed[l]) = {}
  <2>1. CASE host = "ocl"
    <3>1. placed[k] = At(k - 1, HostStep) /\ placed[l] = At(l - 1, HostStep)
      BY <1>0, <2>1 DEF Buffers
    <3>2. k - 1 \in Nat /\ l - 1 \in Nat /\ k - 1 # l - 1
      BY <1>0, <1>1
    <3>3. HostStep \in {16, 8, 4, 2, 999}
      BY Steps DEF Given
    <3> QED BY <3>1, <3>2, <3>3, DistanceSeparates
  <2>2. CASE host = "mt"
    <3>1. OfJob(placed[k], k - 1) /\ OfJob(placed[l], l - 1)
      BY <1>0, <2>2 DEF Buffers
    <3>2. \A b \in BanksOf(placed[k]) : b = 2 * (k - 1) \/ b = 2 * (k - 1) + 1
      BY <3>1 DEF OfJob, BanksOf
    <3>3. \A b \in BanksOf(placed[l]) : b = 2 * (l - 1) \/ b = 2 * (l - 1) + 1
      BY <3>1 DEF OfJob, BanksOf
    <3> QED BY <1>0, <1>1, <3>2, <3>3
  <2> QED BY <2>1, <2>2 DEF Given, Hosts
<1>2. ASSUME host = "ocl", pc = "run",
             NEW k \in DOMAIN connected, NEW l \in DOMAIN connected, k # l
      PROVE  BanksOf(connected[k]) \cap BanksOf(connected[l]) = {}
  <2>1. DOMAIN connected = 1 .. num_kernels /\ num_kernels \in Nat /\ Len(placed) = num_kernels
    BY <1>2 DEF Ports, Buffers, Given
  <2>2. k \in DOMAIN placed /\ l \in DOMAIN placed
    BY <1>0, <2>1
  <2>3. placed[k] = connected[k] /\ placed[l] = connected[l]
    BY <1>2, <2>2, PortsImplied DEF BuffersAtPorts
  <2> QED BY <1>1, <1>2, <2>2, <2>3
<1> QED BY <1>1, <1>2 DEF BanksOfTheirOwn, Apart

-----------------------------------------------------------------------------
(* The OpenCL host places each buffer in its port's bank, for every number  *)
(* of kernels.                                                              *)
THEOREM PlacedAtPorts == Spec => []BuffersAtPorts
<1>1. Spec => []Inv
  BY InitInv, StepInv, PTL DEF Spec
<1> QED BY <1>1, PortsImplied, PTL

(* No two kernels share a bank in use, and no OpenCL scan runs on a build   *)
(* that has them share one.                                                 *)
THEOREM NoSharedBanks == Spec => []BanksOfTheirOwn
<1>1. Spec => []Inv
  BY InitInv, StepInv, PTL DEF Spec
<1> QED BY <1>1, OwnImplied, PTL
=============================================================================
