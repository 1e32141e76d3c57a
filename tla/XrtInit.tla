------------------------------- MODULE XrtInit -------------------------------
(***************************************************************************)
(* initXRT of include/utils/xrt_utils.h, by which the XRT applications     *)
(* open the device, load the xclbin and look up the compute unit they were *)
(* asked for and the first memory in use.  The library calls it makes may  *)
(* fail, and the xclbin may not be one; it then throws.                    *)
(*                                                                         *)
(* Addresses are the positions of the IPs in the layout.                   *)
(***************************************************************************)
EXTENDS Integers, FiniteSets, Sequences

CONSTANTS
    MaxIPs,      \* bound on the IPs of an xclbin
    MaxBanks     \* bound on the memories of its topology

NoAddress == -1     \* cu_base_addr of all ones
NoBank    == -1     \* the callers' initial first_mem

UpTo(n, S) == UNION {[1 .. l -> S] : l \in 0 .. n}

VARIABLES
    bit,         \* the path of an xclbin was given
    ips,         \* IP_LAYOUT: which of the IPs are kernels
    banks,       \* MEM_TOPOLOGY: which of the memories are used
    cu_index,    \* max_cu_index, a signed number; -1 stands for all that are negative
    call,        \* the call that is made next, "ips", "banks", or how it ended
    pos,         \* the index of the loop
    cur_index,   \* kernels met in the layout
    cu_base_addr,
    first_used_mem

file == <<bit, ips, banks, cu_index>>
vars == <<file, call, pos, cur_index, cu_base_addr, first_used_mem>>

Init ==
    /\ bit \in BOOLEAN
    /\ ips \in UpTo(MaxIPs, BOOLEAN) /\ banks \in UpTo(MaxBanks, BOOLEAN)
    /\ cu_index \in -1 .. MaxIPs + 1
    /\ call = "probe" /\ pos = 0 /\ cur_index = 0
    /\ cu_base_addr = 0 /\ first_used_mem = NoBank

(* The calls up to the layout.  Each throws when it fails: no such device,  *)
(* no information, not locked, a configuration that is refused, a file that *)
(* is no xclbin, a bitstream that does not load.                            *)
Following == [probe |-> "info", info |-> "path", lock |-> "config",
              config |-> "header", header |-> "load", load |-> "index"]

CallSucceeds ==
    /\ call \in DOMAIN Following
    /\ call' = Following[call]
    /\ cu_base_addr' = IF call = "info" THEN NoAddress ELSE cu_base_addr
    /\ UNCHANGED <<file, pos, cur_index, first_used_mem>>

CallThrows ==
    /\ call \in DOMAIN Following
    /\ call' = "threw"
    /\ UNCHANGED <<file, pos, cur_index, cu_base_addr, first_used_mem>>

(* Without a path it returns 0 before it has locked or loaded anything. *)
CheckPath ==
    /\ call = "path"
    /\ call' = IF bit THEN "lock" ELSE "returned"
    /\ UNCHANGED <<file, pos, cur_index, cu_base_addr, first_used_mem>>

(* Compared with the number of IPs of any kind; equality is let pass, and   *)
(* so is a negative index.                                                  *)
CheckIndex ==
    /\ call = "index"
    /\ call' = IF cu_index > Len(ips) THEN "threw" ELSE "ips"
    /\ UNCHANGED <<file, pos, cur_index, cu_base_addr, first_used_mem>>

\* Mutant: the counter is advanced before it is compared.
IsAskedForEarly == cur_index + 1 = cu_index
IsAskedFor      == cur_index = cu_index

NextIP ==
    /\ call = "ips" /\ pos < Len(ips)
    /\ pos' = pos + 1
    /\ IF ips[pos + 1]
       THEN /\ cur_index' = cur_index + 1
            /\ cu_base_addr' = IF IsAskedFor THEN pos ELSE cu_base_addr
       ELSE UNCHANGED <<cur_index, cu_base_addr>>
    /\ UNCHANGED <<file, call, first_used_mem>>

EndOfLayout ==
    /\ call = "ips" /\ pos = Len(ips)
    /\ call' = "banks" /\ pos' = 0
    /\ UNCHANGED <<file, cur_index, cu_base_addr, first_used_mem>>

(* The loop over the memories is left at the first that is used. *)
\* Mutant: the index is advanced before it is stored.
BankAfter == pos + 1
BankHere  == pos

NextBank ==
    /\ call = "banks" /\ pos < Len(banks)
    /\ IF banks[pos + 1]
       THEN first_used_mem' = BankHere /\ call' = "returned" /\ UNCHANGED pos
       ELSE pos' = pos + 1 /\ UNCHANGED <<call, first_used_mem>>
    /\ UNCHANGED <<file, cur_index, cu_base_addr>>

EndOfTopology ==
    /\ call = "banks" /\ pos = Len(banks)
    /\ call' = "returned"
    /\ UNCHANGED <<file, pos, cur_index, cu_base_addr, first_used_mem>>

Step ==
    \/ CallSucceeds \/ CheckPath \/ CheckIndex
    \/ NextIP \/ EndOfLayout \/ NextBank \/ EndOfTopology

Next == Step \/ CallThrows

-----------------------------------------------------------------------------
(* What is looked up, without loops: kernel number n of the layout, counted *)
(* from 0 and among the kernels only, and the least memory that is used.    *)
Kernels == {i \in 0 .. Len(ips) - 1 : ips[i + 1]}

IsKernel(a, n) == a \in Kernels /\ Cardinality({i \in Kernels : i < a}) = n

IsFirstUsed(b) ==
    b \in 0 .. Len(banks) - 1 /\ banks[b + 1] /\ \A i \in 0 .. b - 1 : ~ banks[i + 1]

TypeOK ==
    /\ bit \in BOOLEAN /\ cu_index \in Int
    /\ ips \in Seq(BOOLEAN) /\ banks \in Seq(BOOLEAN)
    /\ call \in DOMAIN Following \cup {"path", "index", "ips", "banks", "returned", "threw"}
    /\ pos \in Nat /\ cur_index \in 0 .. Len(ips)
    /\ cu_base_addr \in {NoAddress, 0} \cup 0 .. Len(ips) - 1
    /\ first_used_mem \in {NoBank} \cup 0 .. Len(banks) - 1
=============================================================================
