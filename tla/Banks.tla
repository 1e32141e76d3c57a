-------------------------------- MODULE Banks --------------------------------
(***************************************************************************)
(* The memory banks of the kernels.  The build connects the ports of each  *)
(* kernel to banks of the high-bandwidth memory (gen_vitis_config.sh.in);  *)
(* the hosts place the buffers of each kernel in banks they compute on     *)
(* their own: CSRE::scan of runtime/ocl/csre.cpp from the number of        *)
(* kernels, app/multi-thread/csre-mt.cpp from the job.  Nothing in the     *)
(* program compares the two.                                               *)
(*                                                                         *)
(* Relied on of the platform: the memory has NumBanks banks, and a buffer  *)
(* in a bank that does not exist is refused.  One in a bank that no port   *)
(* is connected to may be refused or taken, always the same.               *)
(***************************************************************************)
EXTENDS Integers, Sequences, Functions

CONSTANTS
    NumBanks,       \* banks of the device's memory
    MaxKernels,     \* bound on the kernels of a build
    MaxOtherIPs     \* bound on the IPs of a build that are no kernels

(* No device has a bank at the distance that stands for none. *)
ASSUME BanksAssumption ==
    NumBanks \in 1 .. 999 /\ MaxKernels \in Nat \ {0} /\ MaxOtherIPs \in Nat

VARIABLES
    num_kernels,    \* of the build
    host,           \* "ocl" or "mt"
    num_jobs,       \* kernels the host takes there to be
    strict,         \* the platform refuses banks no port is connected to
    pc,             \* "step", "connect", "place", "run", or "exit" of OCL_CHECK
    step,           \* of the generator
    connected,      \* the banks of the ports, for the kernels connected so far
    placed          \* the banks of the buffers, for the kernels set up so far

given == <<num_kernels, host, num_jobs, strict>>
vars  == <<given, pc, step, connected, placed>>

Hosts   == {"ocl", "mt"}
Refused == -1       \* the bank of a buffer there is not

(* The OpenCL host uses the kernels there are.  csre-mt is told a number of *)
(* jobs: initXRT lets pass one whose last index is at most the number of    *)
(* IPs of any kind (xrt_utils.h:129), and the buffers of all of them are    *)
(* placed before a thread notices that its unit is missing.                 *)
Init ==
    /\ num_kernels \in 1 .. MaxKernels
    /\ host \in Hosts
    /\ \/ host = "ocl" /\ num_jobs = num_kernels
       \/ host = "mt" /\ num_jobs \in 1 .. num_kernels + MaxOtherIPs + 1
    /\ strict \in BOOLEAN
    /\ pc = "step" /\ step = 0
    /\ connected = <<>> /\ placed = <<>>

-----------------------------------------------------------------------------
(* The generator.  Past 16 kernels it prints that this is not supported and *)
(* goes on without a step; the shell's arithmetic takes an unset variable   *)
(* for 0.                                                                   *)
GeneratorStep ==
    CASE num_kernels <= 2  -> 16
      [] num_kernels \in 3 .. 4  -> 8
      [] num_kernels \in 5 .. 8  -> 4
      [] num_kernels \in 9 .. 16 -> 2
      [] OTHER -> 0

ChooseStep ==
    /\ pc = "step"
    /\ step' = GeneratorStep
    /\ pc' = "connect"
    /\ UNCHANGED <<given, connected, placed>>

(* Kernel number k is connected as k+1 of k.  Sequences number from 1, so   *)
(* that element k + 1 is kernel k.  The port named state is the results'.   *)
Connect ==
    /\ pc = "connect" /\ Len(connected) < num_kernels
    /\ LET k == Len(connected) IN
       connected' = Append(connected, [packet |-> k * step, regex  |-> k * step + 1,
                                       result |-> k * step + 1])
    /\ UNCHANGED <<given, pc, step, placed>>

Connected ==
    /\ pc = "connect" /\ Len(connected) = num_kernels
    /\ pc' = "place"
    /\ UNCHANGED <<given, step, connected, placed>>

-----------------------------------------------------------------------------
(* CSRE::scan: the same distances, except for more than 16 kernels.         *)
\* Mutant: the second limit is compared with <.
HostStepStrict ==
    CASE num_kernels <= 2  -> 16
      [] num_kernels = 3 -> 8
      [] num_kernels \in 4 .. 8  -> 4
      [] num_kernels \in 9 .. 16 -> 2
      [] OTHER -> 999
HostStep ==
    CASE num_kernels <= 2  -> 16
      [] num_kernels \in 3 .. 4  -> 8
      [] num_kernels \in 5 .. 8  -> 4
      [] num_kernels \in 9 .. 16 -> 2
      [] OTHER -> 999

Exists(b) == b \in 0 .. NumBanks - 1

PlaceOcl ==
    /\ pc = "place" /\ host = "ocl" /\ Len(placed) < num_jobs
    /\ LET b == Len(placed) * HostStep IN
       IF Exists(b) /\ Exists(b + 1)
       THEN /\ placed' = Append(placed, [packet |-> b, regex |-> b + 1, result |-> b + 1])
            /\ UNCHANGED pc
       ELSE pc' = "exit" /\ UNCHANGED placed
    /\ UNCHANGED <<given, step, connected>>

(* csre-mt counts from the first memory in use, and does not look whether a *)
(* buffer was refused.                                                      *)
Used == UNION {{p.packet, p.regex, p.result} : p \in Range(connected)}
first_mem == CHOOSE b \in Used : \A c \in Used : b <= c

Bank(b) == IF Exists(b) /\ (strict => b \in Used) THEN b ELSE Refused

\* Mutant: one bank for each job.
JobBankNext(j) == first_mem + j
JobBank(j)     == first_mem + 2 * j

PlaceMt ==
    /\ pc = "place" /\ host = "mt" /\ Len(placed) < num_jobs
    /\ LET b == JobBank(Len(placed)) IN
       placed' = Append(placed, [packet |-> Bank(b), regex |-> Bank(b),
                                 result |-> Bank(b + 1)])
    /\ UNCHANGED <<given, pc, step, connected>>

Placed ==
    /\ pc = "place" /\ Len(placed) = num_jobs
    /\ pc' = "run"
    /\ UNCHANGED <<given, step, connected, placed>>

Done == pc \in {"run", "exit"} /\ UNCHANGED vars

Next == ChooseStep \/ Connect \/ Connected \/ PlaceOcl \/ PlaceMt \/ Placed \/ Done

Spec == Init /\ [][Next]_vars

-----------------------------------------------------------------------------
BanksOf(p) == {p.packet, p.regex, p.result} \ {Refused}
Apart(s)   == \A k, l \in DOMAIN s : k # l => BanksOf(s[k]) \cap BanksOf(s[l]) = {}

(* The OpenCL host places every buffer in the bank its port is connected    *)
(* to, for any number of kernels, although host and build compute the banks *)
(* apart from each other (csre.cpp:160-169, gen_vitis_config.sh.in:52-71).  *)
BuffersAtPorts ==
    host = "ocl" => \A k \in DOMAIN placed : placed[k] = connected[k]

(* No two kernels use a bank together, which the bandwidth of the program   *)
(* rests on, in either host; and a build whose kernels do, one of more than *)
(* 16, gets an OpenCL scan no further than its setup.                       *)
BanksOfTheirOwn ==
    /\ Apart(placed)
    /\ host = "ocl" /\ pc = "run" => Apart(connected)
=============================================================================
