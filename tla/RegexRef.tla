------------------------------ MODULE RegexRef ------------------------------
(***************************************************************************)
(* The software reference, class RegexRef of ref/regex_ref.cpp: the        *)
(* applications push the lines of both files and then match every pattern  *)
(* against every packet.  Ids are positions in the vectors, from 1 on.     *)
(*                                                                         *)
(* The matcher, re_match, is a library; it finds what there is to find, or *)
(* refuses a pattern.  A line of a file is abstracted to its number.       *)
(***************************************************************************)
EXTENDS Integers, Sequences, FiniteSets

CONSTANTS NumPackets, NumPatterns    \* lines of the two files

Packets  == 1 .. NumPackets
Patterns == 1 .. NumPatterns

VARIABLES
    truth,       \* the matches there are, in lines that are not empty
    empties,     \* packet lines that are empty
    rejects,     \* patterns the matcher cannot compile
    ref,         \* what the reference does: "packets", "patterns", "match", "ready"
    packets, patterns,      \* the vectors
    pk, pt,                 \* the loops of run_match
    stats,                  \* the map, as a set of packet, pattern and offset
    num_matched_packets

files == <<truth, empties, rejects>>
vars  == <<files, ref, packets, patterns, pk, pt, stats, num_matched_packets>>

Init ==
    /\ ref = "packets"
    /\ packets = <<>> /\ patterns = <<>>
    /\ pk = 1 /\ pt = 1
    /\ stats = {} /\ num_matched_packets = 0

(* regex_ref_push_packet and regex_ref_push_pattern.  Every line is pushed, *)
(* an empty one too: the parser gives it an id as well.  (A cut last line   *)
(* has ended the process in the compiler or the parser before.)             *)
\* Mutant: an empty line is not pushed.
PushedIfFilled(n) == IF n \in empties THEN packets ELSE Append(packets, n)
Pushed(n) == Append(packets, n)

PushPacket ==
    /\ ref = "packets" /\ pk <= NumPackets
    /\ packets' = Pushed(pk)
    /\ pk' = pk + 1
    /\ UNCHANGED <<files, ref, patterns, pt, stats, num_matched_packets>>

PushPattern ==
    /\ ref = "patterns" /\ pt <= NumPatterns
    /\ patterns' = Append(patterns, pt)
    /\ pt' = pt + 1
    /\ UNCHANGED <<files, ref, packets, pk, stats, num_matched_packets>>

EndOfPackets ==
    /\ ref = "packets" /\ pk > NumPackets
    /\ ref' = "patterns"
    /\ UNCHANGED <<files, packets, patterns, pk, pt, stats, num_matched_packets>>

EndOfPatterns ==
    /\ ref = "patterns" /\ pt > NumPatterns
    /\ ref' = "match" /\ pk' = 1 /\ pt' = 1
    /\ UNCHANGED <<files, packets, patterns, stats, num_matched_packets>>

-----------------------------------------------------------------------------
(* re_match: the offsets at which pattern t matches in line p.  A pattern   *)
(* may match an empty line, too.                                            *)
re_match(t, p) ==
    IF p \in empties THEN {{}, {0}}
    ELSE {{r.offset : r \in {m \in truth : m.pkt = p /\ m.patt = t}}}

(* A pair is met once, so that this never holds when each file is pushed    *)
(* once, as in all applications.                                            *)
HasResults == \E s \in stats : s.pkt = pk /\ s.patt = pt

\* Mutant: the matches of an empty packet are kept.
KeptAlways(p, result) == result # {}
Kept(p, result) == result # {} /\ p \notin empties

(* run_match: gen_result for one packet and one pattern.  When it fails the *)
(* patterns after this one are not tried on this packet.                    *)
\* Mutant: a failing pattern is left out and the next one tried.
GoesOnAfter(failed) == pt < Len(patterns)
GoesOn(failed) == ~ failed /\ pt < Len(patterns)

RunMatch ==
    /\ ref = "match" /\ pk <= Len(packets)
    /\ \E result \in re_match(patterns[pt], packets[pk]) :
       LET refused == patterns[pt] \in rejects
           kept    == ~ refused /\ Kept(packets[pk], result)
       IN /\ IF kept /\ ~ HasResults
             THEN /\ stats' = stats \cup [pkt : {pk}, patt : {pt}, offset : result]
                  /\ num_matched_packets' = num_matched_packets + Cardinality(result)
             ELSE UNCHANGED <<stats, num_matched_packets>>
          /\ IF GoesOn(refused \/ (kept /\ HasResults))
             THEN pt' = pt + 1 /\ UNCHANGED pk
             ELSE pt' = 1 /\ pk' = pk + 1
    /\ UNCHANGED <<files, ref, packets, patterns>>

MatchEnds ==
    /\ ref = "match" /\ pk > Len(packets)
    /\ ref' = "ready"
    /\ UNCHANGED <<files, packets, patterns, pk, pt, stats, num_matched_packets>>

Next ==
    \/ PushPacket \/ PushPattern \/ EndOfPackets \/ EndOfPatterns
    \/ RunMatch \/ MatchEnds
=============================================================================
