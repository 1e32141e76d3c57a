---------------------------- MODULE ResultCheck ----------------------------
(***************************************************************************)
(* Harvesting and checking the results of a scan: csre_result of           *)
(* runtime/ocl/csre.cpp, process_results and the two comparisons of        *)
(* core/core.c; the software reference they ask is RegexRef.               *)
(*                                                                         *)
(* Each kernel writes records of packet, pattern and offset to a buffer of *)
(* its own, in an order of its own, up to a record that ends the list.     *)
(* The host reads the buffers one after the other, copies each record to   *)
(* the result file, looks it up in the reference and compares the number   *)
(* of records at the end.  The kernels are hardware: what they write is    *)
(* right up to a bounded number of faults.                                 *)
(***************************************************************************)
EXTENDS Integers, FiniteSets, SequencesExt

CONSTANTS
    NumKernels,     \* m_number_of_kernels
    NumPackets, NumPatterns, NumOffsets,
    MaxMatches,     \* bound on the matches of a behaviour
    MaxEmpties,     \* bound on the packets that are empty lines
    MaxFaults       \* bound on what the kernels get wrong

ASSUME SizesAssumption ==
    /\ {NumKernels, NumPackets, NumPatterns, NumOffsets} \subseteq Nat \ {0}
    /\ NumKernels <= NumPackets     \* the parser refuses fewer
ASSUME BoundsAssumption == {MaxMatches, MaxEmpties, MaxFaults} \subseteq Nat

Kernels  == 0 .. NumKernels - 1
Packets  == 1 .. NumPackets
Patterns == 1 .. NumPatterns
Records  == [pkt : Packets, patt : Patterns, offset : 1 .. NumOffsets]

(* The packets are dealt out in runs of equal length, the rest to the last. *)
Share    == NumPackets \div NumKernels
Owner(p) == IF (p - 1) \div Share < NumKernels THEN (p - 1) \div Share ELSE NumKernels - 1

VARIABLES
    truth, empties, rejects, ref, packets, patterns, pk, pt, stats, num_matched_packets

Ref == INSTANCE RegexRef

VARIABLES
    check,       \* the caller asks for the comparison
    phase,       \* "scan", "harvest", "count", "done", "crashed"
    buffer,      \* the records each kernel has written
    settled,     \* matches written or lost
    faults,      \* what the kernels got wrong, in order
    kernel, i,   \* the record to be read next
    total,       \* total_processed_results
    err,
    out          \* the records in the result file

refvars == <<truth, empties, rejects, ref, packets, patterns, pk, pt, stats, num_matched_packets>>
vars == <<refvars, check, phase, buffer, settled, faults, kernel, i, total, err, out>>

(* A packet without bytes has no matches. *)
Init ==
    /\ Ref!Init
    /\ truth \in {m \in SUBSET Records : Cardinality(m) <= MaxMatches}
    /\ empties \in {e \in SUBSET Packets : Cardinality(e) <= MaxEmpties}
    /\ \A r \in truth : r.pkt \notin empties
    /\ rejects \in SUBSET Patterns
    /\ check \in BOOLEAN
    /\ phase = "scan"
    /\ buffer = [k \in Kernels |-> <<>>]
    /\ settled = {} /\ faults = <<>>
    /\ kernel = 0 /\ i = 1
    /\ total = 0 /\ err = 0
    /\ out = <<>>

-----------------------------------------------------------------------------
(* The reference is made before the scan, when it is asked for. *)
Prepare ==
    /\ check /\ Ref!Next
    /\ UNCHANGED <<check, phase, buffer, settled, faults, kernel, i, total, err, out>>

Scanning == phase = "scan" /\ (check => ref = "ready")

-----------------------------------------------------------------------------
(* The kernels. *)
host  == <<kernel, i, total, err, out>>
input == <<refvars, check>>

Write(k, r)   == buffer' = [buffer EXCEPT ![k] = Append(@, r)]
Unsettled(k)  == {r \in truth \ settled : Owner(r.pkt) = k}
Fault(kind)   == Len(faults) < MaxFaults /\ faults' = Append(faults, kind)

WriteMatch(k) ==
    /\ Scanning
    /\ \E r \in Unsettled(k) : Write(k, r) /\ settled' = settled \cup {r}
    /\ UNCHANGED <<input, phase, faults, host>>

LoseMatch(k) ==
    /\ Scanning /\ Fault("missing")
    /\ \E r \in Unsettled(k) : settled' = settled \cup {r}
    /\ UNCHANGED <<input, phase, buffer, host>>

RepeatMatch(k) ==
    /\ Scanning /\ Fault("repeated")
    /\ \E n \in 1 .. Len(buffer[k]) : Write(k, buffer[k][n])
    /\ UNCHANGED <<input, phase, settled, host>>

InventMatch(k) ==
    /\ Scanning /\ Fault("invented")
    /\ \E r \in Records \ truth : Write(k, r)
    /\ UNCHANGED <<input, phase, settled, host>>

AlterMatch(k) ==
    /\ Scanning /\ Fault("altered")
    /\ \E r \in Unsettled(k) : settled' = settled \cup {r}
    /\ \E r \in Records \ truth : Write(k, r)
    /\ UNCHANGED <<input, phase, host>>

ScanDone ==
    /\ Scanning
    /\ settled = truth
    /\ phase' = "harvest"
    /\ UNCHANGED <<input, buffer, settled, faults, host>>

-----------------------------------------------------------------------------
(* regex_ref_compare_result: packet, then pattern, then offset are looked   *)
(* up; any of them unknown gives -1.                                        *)
\* Mutant: the offset is not compared.
ComparePair(r) ==
    IF \E s \in stats : s.pkt = r.pkt /\ s.patt = r.patt THEN 0 ELSE -1
compare_result(r) == IF r \in stats THEN 0 ELSE -1

compare_num_matched_pkt(n) == IF n # num_matched_packets THEN 1 ELSE 0

-----------------------------------------------------------------------------
(* process_results: one record of the current buffer. *)
device == <<buffer, settled, faults>>

ReadRecord ==
    /\ phase = "harvest"
    /\ i <= Len(buffer[kernel])
    /\ LET r == buffer[kernel][i] IN
          /\ err' = err + (IF check THEN compare_result(r) ELSE 0)
          /\ out' = Append(out, r)
    /\ total' = total + 1
    /\ i' = i + 1
    /\ UNCHANGED <<input, phase, device, kernel>>

(* The record after the last one has an id of 0 or -1; process_results      *)
(* returns and csre_result goes on with the next kernel, from its start.    *)
\* Mutant: the position is kept from kernel to kernel.
PositionKept  == i
FirstPosition == 1

\* Mutant: one kernel too many.
MoreKernelsOffByOne == kernel < NumKernels
MoreKernels == kernel + 1 < NumKernels

EndOfBuffer ==
    /\ phase = "harvest"
    /\ i > Len(buffer[kernel])
    /\ IF MoreKernels
       THEN kernel' = kernel + 1 /\ i' = FirstPosition /\ UNCHANGED phase
       ELSE phase' = "count" /\ UNCHANGED <<kernel, i>>
    /\ UNCHANGED <<input, device, total, err, out>>

CompareCount ==
    /\ phase = "count"
    /\ err' = err + (IF check THEN compare_num_matched_pkt(total) ELSE 0)
    /\ phase' = "done"
    /\ UNCHANGED <<input, device, kernel, i, total, out>>

(* Without a result file process_results does nothing, and fclose crashes. *)
NoResultFile ==
    /\ phase = "harvest" /\ kernel = 0 /\ i = 1
    /\ phase' = "crashed"
    /\ UNCHANGED <<input, device, host>>

Done == phase \in {"done", "crashed"} /\ UNCHANGED vars

Next ==
    \/ \E k \in Kernels : \/ WriteMatch(k) \/ LoseMatch(k) \/ RepeatMatch(k)
                          \/ InventMatch(k) \/ AlterMatch(k)
    \/ Prepare \/ ScanDone \/ NoResultFile \/ ReadRecord \/ EndOfBuffer \/ CompareCount \/ Done

Spec == Init /\ [][Next]_vars

-----------------------------------------------------------------------------
(* Types; what a record adds to err is never positive, so it is at most 1. *)
TypeOK ==
    /\ truth \subseteq Records /\ settled \subseteq truth
    /\ empties \subseteq Packets /\ rejects \subseteq Patterns
    /\ ref \in {"packets", "patterns", "match", "ready"}
    /\ packets \in Seq(Packets) /\ patterns \in Seq(Patterns)
    /\ pk \in 1 .. NumPackets + 1 /\ pt \in 1 .. NumPatterns + 1
    /\ stats \subseteq Records /\ num_matched_packets \in Nat
    /\ check \in BOOLEAN
    /\ phase \in {"scan", "harvest", "count", "done", "crashed"}
    /\ buffer \in [Kernels -> Seq(Records)]
    /\ faults \in Seq({"missing", "repeated", "invented", "altered"})
    /\ kernel \in Kernels /\ i \in Nat \ {0} /\ total \in Nat
    /\ err \in Int /\ err <= 1
    /\ out \in Seq(Records)

(* The result file holds what the kernels wrote, all of it, kernel after    *)
(* kernel, and total counts it (csre.cpp:322-331, core.c:555-594).          *)
FileHoldsAllBuffers ==
    phase \in {"count", "done"} =>
        /\ out = FlattenSeq([n \in 1 .. NumKernels |-> buffer[n - 1]])
        /\ total = Len(out)

(* What the reference knows, without its loops: of every packet the matches *)
(* of the patterns before the first that does not compile, each under the   *)
(* number of its line, and how many they are (regex_ref.cpp:62-71, 110-136).*)
Tried(r) == \A q \in rejects : r.patt < q

ReferenceKnowsTried ==
    ref = "ready" =>
        /\ stats = {r \in truth : Tried(r)}
        /\ num_matched_packets = Cardinality(stats)

(* No false alarm: when the kernels and the reference both work, the call   *)
(* returns 0, however the matches are spread over kernels and ordered.      *)
FaithfulScanPasses ==
    phase = "done" /\ faults = <<>> /\ rejects = {} => err = 0

(* A single match that is missing, repeated or altered is noticed. *)
OneFaultIsCaught ==
    phase = "done" /\ check /\ rejects = {} /\ Len(faults) = 1 /\ faults[1] # "invented"
        => err # 0

(* libcsre.h:66, "succeeded if 0, failed otherwise": a checked run that     *)
(* returns 0 has no record in its result file that the reference lacks.     *)
ZeroMeansAllKnown ==
    phase = "done" /\ check /\ err = 0 => ToSet(out) \subseteq stats
=============================================================================
