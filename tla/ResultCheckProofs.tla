-------------------------- MODULE ResultCheckProofs --------------------------
(***************************************************************************)
(* Harvesting and checking for any number of kernels, packets, patterns    *)
(* and matches, whatever the kernels write.                                *)
(*                                                                         *)
(* The inductive invariant says how far the reference is, how the number   *)
(* of records that have been written relates to the matches that have been *)
(* dealt with and to the faults, and what the harvest loop has added to    *)
(* the result file, to total and to err for the records it has read.  A    *)
(* record is counted by its slot, the kernel and its place in the buffer:  *)
(* the same record may have been written twice.                            *)
(***************************************************************************)
EXTENDS ResultCheck, FiniteSetTheorems, SequenceTheorems, WellFoundedInduction, TLAPS

Harvested == {"harvest", "count", "done"}

-----------------------------------------------------------------------------
(* The reference: the vectors hold each line under its own number, and the  *)
(* loops have dealt with the pairs before the current one.                  *)
Counted(s, n) == Len(s) = n /\ \A j \in 1 .. n : s[j] = j

Before(r, p, t) == r.pkt < p \/ (r.pkt = p /\ r.patt < t)

RefInv ==
    /\ ref = "packets" => Counted(packets, pk - 1) /\ Len(patterns) = 0 /\ pt = 1
    /\ ref = "patterns" => /\ pk = NumPackets + 1 /\ Counted(packets, NumPackets)
                           /\ Counted(patterns, pt - 1)
    /\ ref \in {"packets", "patterns"} => stats = {}
    /\ ref = "match" => /\ Counted(packets, NumPackets) /\ Counted(patterns, NumPatterns)
                        /\ pt <= NumPatterns /\ \A q \in rejects : q >= pt
                        /\ stats = {r \in truth : Tried(r) /\ Before(r, pk, pt)}
    /\ ref = "ready" => stats = {r \in truth : Tried(r)}
    /\ IsFiniteSet(stats) /\ num_matched_packets = Cardinality(stats)
    /\ \A r \in truth : r.pkt \notin empties

-----------------------------------------------------------------------------
(* The kernels: with at most one fault the number of records, and how many  *)
(* of them are wrong, is known.                                             *)
SlotsOf(b)  == UNION {{k} \X (1 .. Len(b[k])) : k \in Kernels}
Slots       == SlotsOf(buffer)
WrongIn(b)  == {s \in SlotsOf(b) : b[s[1]][s[2]] \notin truth}
Wrong       == WrongIn(buffer)

OneFault(kind) == Len(faults) = 1 /\ faults[1] = kind

WriteInv ==
    /\ IsFiniteSet(settled) /\ IsFiniteSet(Slots)
    /\ Len(faults) = 0      => Cardinality(Slots) = Cardinality(settled) /\ Wrong = {}
    /\ OneFault("missing")  => Cardinality(Slots) = Cardinality(settled) - 1
    /\ OneFault("repeated") => Cardinality(Slots) = Cardinality(settled) + 1
    /\ OneFault("missing") \/ OneFault("repeated") => Wrong = {}
    /\ OneFault("altered")  => /\ Cardinality(Slots) = Cardinality(settled)
                               /\ Cardinality(Wrong) = 1

-----------------------------------------------------------------------------
(* The harvest: what has been read so far. *)
ReadSoFar == IF phase = "harvest"
             THEN {s \in Slots : s[1] < kernel \/ (s[1] = kernel /\ s[2] < i)}
             ELSE Slots
Unknown   == {s \in ReadSoFar : buffer[s[1]][s[2]] \notin stats}

CountInv ==
    /\ phase = "scan" => kernel = 0 /\ i = 1 /\ total = 0 /\ err = 0 /\ out = <<>>
    /\ phase \in Harvested => settled = truth /\ (check => ref = "ready")
    /\ phase \in Harvested => total = Cardinality(ReadSoFar) /\ total = Len(out)
    /\ phase # "done" => err <= 0
    /\ phase \in {"harvest", "count"} => err = IF check THEN - Cardinality(Unknown) ELSE 0
    /\ phase = "done" => err = IF check THEN compare_num_matched_pkt(total) - Cardinality(Unknown)
                               ELSE 0

Joined(n) == FlattenSeq([m \in 1 .. n |-> buffer[m - 1]])

FileInv ==
    /\ phase = "harvest" => /\ i <= Len(buffer[kernel]) + 1
                            /\ Joined(kernel) \in Seq(Records)
                            /\ out = Joined(kernel) \o SubSeq(buffer[kernel], 1, i - 1)
    /\ phase \in {"count", "done"} => out = Joined(NumKernels)

IInv == TypeOK /\ RefInv /\ WriteInv /\ CountInv /\ FileInv

-----------------------------------------------------------------------------
(* FlattenSeq, unfolded.  f holds the flattened prefixes of s. *)
Flattens(f, s, n) == f = [j \in 1 .. n |-> IF j = 1 THEN s[j] ELSE f[j - 1] \o s[j]]

Flattened(s) == CHOOSE f : Flattens(f, s, Len(s))

LEMMA FlattenSeqIs ==
    ASSUME NEW s, Len(s) # 0
    PROVE  FlattenSeq(s) = Flattened(s)[Len(s)]
BY Zenon DEF FlattenSeq, Flattened, Flattens

(* There are such prefixes for every length: for a least length without     *)
(* them they would follow from those of the length before.                  *)
LEMMA FlattenExists ==
    ASSUME NEW s, NEW n \in Nat
    PROVE  \E f : Flattens(f, s, n)
<1> DEFINE Without == {m \in Nat : ~ \E f : Flattens(f, s, m)}
<1>1. Without = {}
  <2> SUFFICES ASSUME Without # {} PROVE FALSE
      OBVIOUS
  <2>1. PICK m \in Without : \A l \in Without : ~ (<<l, m>> \in OpToRel(<, Nat))
    <3>1. Without \subseteq Nat
        OBVIOUS
    <3> QED
        BY <3>1, NatLessThanWellFounded, WFMin
  <2>2. m \in Nat /\ ~ \E f : Flattens(f, s, m)
      OBVIOUS
  <2>3. CASE m = 0
    <3>1. Flattens([j \in 1 .. 0 |-> s[j]], s, 0)
        BY DEF Flattens
    <3> QED
        BY <2>2, <2>3, <3>1
  <2>4. CASE m # 0
    <3>1. m - 1 \in Nat /\ m - 1 < m
        BY <2>2, <2>4
    <3>2. <<m - 1, m>> \in OpToRel(<, Nat)
        BY <2>2, <3>1 DEF OpToRel
    <3>3. \E f : Flattens(f, s, m - 1)
        BY <2>1, <3>1, <3>2
    <3>4. PICK f : Flattens(f, s, m - 1)
        BY <3>3
    <3> DEFINE g == [j \in 1 .. m |-> IF j = 1 THEN s[j] ELSE f[j - 1] \o s[j]]
    <3>5. ASSUME NEW j \in 1 .. m - 1 PROVE g[j] = f[j]
      <4>1. j \in 1 .. m
          BY <2>2
      <4>2. f[j] = IF j = 1 THEN s[j] ELSE f[j - 1] \o s[j]
          BY <3>4 DEF Flattens
      <4>3. g[j] = IF j = 1 THEN s[j] ELSE f[j - 1] \o s[j]
          BY <4>1
      <4> QED
          BY <4>2, <4>3
    <3>6. \A j \in 1 .. m : j # 1 => g[j - 1] = f[j - 1]
      <4>1. \A j \in 1 .. m : j # 1 => j - 1 \in 1 .. m - 1
          BY <2>2
      <4> HIDE DEF g
      <4> QED
          BY <3>5, <4>1
    <3>7. g = [j \in 1 .. m |-> IF j = 1 THEN s[j] ELSE g[j - 1] \o s[j]]
        BY <3>6
    <3>8. Flattens(g, s, m)
        BY <3>7 DEF Flattens
    <3> QED
        BY <2>2, <3>8
  <2> QED
      BY <2>3, <2>4
<1> QED
    BY <1>1

(* They are the same as far as two sequences are the same. *)
LEMMA FlattenSame ==
    ASSUME NEW s, NEW t, NEW m \in Nat, NEW n \in Nat, m <= n,
           NEW f, NEW g, Flattens(f, s, m), Flattens(g, t, n),
           \A j \in 1 .. m : s[j] = t[j]
    PROVE  \A j \in 1 .. m : f[j] = g[j]
<1> DEFINE Differ == {j \in 1 .. m : f[j] # g[j]}
<1>1. Differ = {}
  <2> SUFFICES ASSUME Differ # {} PROVE FALSE
      OBVIOUS
  <2>1. PICK k \in Differ : \A l \in Differ : ~ (<<l, k>> \in OpToRel(<, Nat))
    <3>1. Differ \subseteq Nat
        OBVIOUS
    <3> QED
        BY <3>1, NatLessThanWellFounded, WFMin
  <2>2. k \in 1 .. m /\ k \in 1 .. n /\ f[k] # g[k]
      OBVIOUS
  <2>3. CASE k = 1
      BY <2>2, <2>3 DEF Flattens
  <2>4. CASE k # 1
    <3>1. k - 1 \in 1 .. m /\ <<k - 1, k>> \in OpToRel(<, Nat)
        BY <2>2, <2>4 DEF OpToRel
    <3>2. f[k - 1] = g[k - 1]
        BY <2>1, <3>1
    <3>3. f[k] = f[k - 1] \o s[k]
        BY <2>2, <2>4 DEF Flattens
    <3>4. g[k] = g[k - 1] \o t[k]
        BY <2>2, <2>4 DEF Flattens
    <3> QED
        BY <2>2, <3>2, <3>3, <3>4
  <2> QED
      BY <2>3, <2>4
<1> QED
    BY <1>1

LEMMA FlattenStep ==
    ASSUME NEW s, NEW n \in Nat, NEW f, Flattens(f, s, n), NEW j \in 1 .. n
    PROVE  f[j] = IF j = 1 THEN s[j] ELSE f[j - 1] \o s[j]
BY DEF Flattens

(* Appending a sequence to those that are flattened. *)
LEMMA FlattenAppend ==
    ASSUME NEW s, NEW t, NEW m \in Nat, m # 0,
           Len(s) = m, Len(t) = m + 1, \A j \in 1 .. m : s[j] = t[j]
    PROVE  FlattenSeq(t) = FlattenSeq(s) \o t[m + 1]
<1>1. Flattens(Flattened(s), s, m) /\ Flattens(Flattened(t), t, m + 1)
    BY FlattenExists DEF Flattened
<1>2. Flattened(s)[m] = Flattened(t)[m]
    BY <1>1, FlattenSame
<1>3. Flattened(t)[m + 1] = Flattened(t)[m] \o t[m + 1]
  <2>1. m + 1 \in 1 .. m + 1 /\ m + 1 # 1 /\ (m + 1) - 1 = m /\ m + 1 \in Nat
      OBVIOUS
  <2>2. PICK n, f : n \in Nat /\ n = m + 1 /\ f = Flattened(t) /\ Flattens(f, t, n)
      BY <1>1, <2>1
  <2>3. n \in Nat /\ n \in 1 .. n /\ Flattens(f, t, n)
      BY <2>1, <2>2
  <2>4. f[n] = IF n = 1 THEN t[n] ELSE f[n - 1] \o t[n]
      BY <2>3, FlattenStep
  <2> QED
      BY <2>1, <2>2, <2>4
<1>4. m + 1 # 0
    OBVIOUS
<1>5. FlattenSeq(s) = Flattened(s)[m] /\ FlattenSeq(t) = Flattened(t)[m + 1]
    BY <1>4, FlattenSeqIs
<1> QED
    BY <1>2, <1>3, <1>5

LEMMA FlattenOne ==
    ASSUME NEW s, Len(s) = 1
    PROVE  FlattenSeq(s) = s[1]
<1>1. Flattens(Flattened(s), s, 1)
    BY FlattenExists DEF Flattened
<1> QED
    BY <1>1, FlattenSeqIs DEF Flattens

-----------------------------------------------------------------------------
(* The cardinality RegexRef speaks of is the one FiniteSetTheorems are about. *)
LEMMA SameCardinality == \A S : Ref!Cardinality(S) = Cardinality(S)
BY DEF Ref!Cardinality, Cardinality, Ref!IsFiniteSet, IsFiniteSet

LEMMA Sizes ==
    /\ NumKernels \in Nat \ {0} /\ NumPackets \in Nat \ {0}
    /\ NumPatterns \in Nat \ {0} /\ NumOffsets \in Nat \ {0}
BY SizesAssumption

(* The types of the reference, and of the rest. *)
RefTypes ==
    /\ truth \subseteq Records /\ empties \subseteq Packets /\ rejects \subseteq Patterns
    /\ ref \in {"packets", "patterns", "match", "ready"}
    /\ packets \in Seq(Packets) /\ patterns \in Seq(Patterns)
    /\ pk \in 1 .. NumPackets + 1 /\ pt \in 1 .. NumPatterns + 1
    /\ stats \subseteq Records /\ num_matched_packets \in Nat

HostTypes ==
    /\ settled \subseteq truth
    /\ check \in BOOLEAN
    /\ phase \in {"scan", "harvest", "count", "done", "crashed"}
    /\ buffer \in [Kernels -> Seq(Records)]
    /\ faults \in Seq({"missing", "repeated", "invented", "altered"})
    /\ kernel \in Kernels /\ i \in Nat \ {0} /\ total \in Nat
    /\ err \in Int /\ err <= 1
    /\ out \in Seq(Records)

LEMMA TypeParts == TypeOK <=> RefTypes /\ HostTypes
BY DEF TypeOK, RefTypes, HostTypes

-----------------------------------------------------------------------------
(* The reference.  Pushing the lines of both files. *)
LEMMA Pushing ==
    ASSUME NEW s, NEW S, s \in Seq(S), NEW n \in Nat, Counted(s, n), n + 1 \in S
    PROVE  Append(s, n + 1) \in Seq(S) /\ Counted(Append(s, n + 1), n + 1)
BY DEF Counted

LEMMA PushStep ==
    ASSUME RefTypes, RefInv,
           Ref!PushPacket \/ Ref!PushPattern \/ Ref!EndOfPackets \/ Ref!EndOfPatterns
    PROVE  RefTypes' /\ RefInv'
<1>0. UNCHANGED <<truth, empties, rejects, stats, num_matched_packets>>
    BY DEF Ref!PushPacket, Ref!PushPattern, Ref!EndOfPackets, Ref!EndOfPatterns, Ref!files
<1>1. CASE Ref!PushPacket
  <2>1. /\ ref = "packets" /\ ref' = ref /\ pk <= NumPackets /\ pk' = pk + 1
        /\ packets' = Append(packets, pk) /\ UNCHANGED <<patterns, pt>>
      BY <1>1 DEF Ref!PushPacket, Ref!Pushed
  <2>2. pk - 1 \in Nat /\ (pk - 1) + 1 = pk /\ pk \in Packets
      BY <2>1, Sizes DEF RefTypes, Packets
  <2>3. packets' \in Seq(Packets) /\ Counted(packets', pk)
      BY <2>1, <2>2, Pushing DEF RefTypes, RefInv
  <2>4. RefTypes'
      BY <1>0, <2>1, <2>2, <2>3, Sizes DEF RefTypes, Packets
  <2>5. RefInv'
      BY <1>0, <2>1, <2>2, <2>3 DEF RefInv
  <2> QED
      BY <2>4, <2>5
<1>2. CASE Ref!PushPattern
  <2>1. /\ ref = "patterns" /\ ref' = ref /\ pt <= NumPatterns /\ pt' = pt + 1
        /\ patterns' = Append(patterns, pt) /\ UNCHANGED <<packets, pk>>
      BY <1>2 DEF Ref!PushPattern
  <2>2. pt - 1 \in Nat /\ (pt - 1) + 1 = pt /\ pt \in Patterns
      BY <2>1, Sizes DEF RefTypes, Patterns
  <2>3. patterns' \in Seq(Patterns) /\ Counted(patterns', pt)
      BY <2>1, <2>2, Pushing DEF RefTypes, RefInv
  <2>4. RefTypes'
      BY <1>0, <2>1, <2>2, <2>3, Sizes DEF RefTypes, Patterns
  <2>5. RefInv'
      BY <1>0, <2>1, <2>2, <2>3 DEF RefInv
  <2> QED
      BY <2>4, <2>5
<1>3. CASE Ref!EndOfPackets
  <2>1. /\ ref = "packets" /\ ref' = "patterns" /\ pk > NumPackets
        /\ UNCHANGED <<packets, patterns, pk, pt>>
      BY <1>3 DEF Ref!EndOfPackets
  <2>2. pk = NumPackets + 1 /\ pk - 1 = NumPackets /\ pt = 1 /\ pt - 1 = 0
      BY <2>1, Sizes DEF RefTypes, RefInv
  <2>3. Counted(patterns, 0)
      BY <2>1 DEF RefInv, Counted
  <2>4. RefTypes'
      BY <1>0, <2>1 DEF RefTypes
  <2>5. RefInv'
      BY <1>0, <2>1, <2>2, <2>3 DEF RefInv
  <2> QED
      BY <2>4, <2>5
<1>4. CASE Ref!EndOfPatterns
  <2>1. /\ ref = "patterns" /\ ref' = "match" /\ pt > NumPatterns /\ pk' = 1 /\ pt' = 1
        /\ UNCHANGED <<packets, patterns>>
      BY <1>4 DEF Ref!EndOfPatterns
  <2>2. pt - 1 = NumPatterns
      BY <2>1, Sizes DEF RefTypes
  <2>3. {r \in truth : Tried(r) /\ Before(r, 1, 1)} = {}
      BY DEF RefTypes, Records, Before, Packets, Patterns
  <2>4. \A q \in rejects : q >= 1
      BY Sizes DEF RefTypes, Patterns
  <2>5. RefTypes'
      BY <1>0, <2>1, Sizes DEF RefTypes
  <2>6. Counted(packets, NumPackets) /\ Counted(patterns, NumPatterns) /\ stats = {}
      BY <2>1, <2>2 DEF RefInv
  <2>7. {r \in truth' : Tried(r)' /\ Before(r, pk', pt')} = {}
      BY <1>0, <2>1, <2>3 DEF Tried
  <2>8. RefInv'
      BY <1>0, <2>1, <2>4, <2>6, <2>7, Sizes DEF RefInv
  <2> QED
      BY <2>5, <2>8
<1> QED
    BY <1>1, <1>2, <1>3, <1>4

(* What one call of re_match adds: the matches of a pair, one for each      *)
(* offset.                                                                  *)
Pair(p, t)    == {m \in truth : m.pkt = p /\ m.patt = t}
Offsets(p, t) == {r.offset : r \in Pair(p, t)}

LEMMA PairMatches ==
    ASSUME truth \subseteq Records, NEW p \in Packets, NEW t \in Patterns
    PROVE  /\ [pkt : {p}, patt : {t}, offset : Offsets(p, t)] = Pair(p, t)
           /\ IsFiniteSet(Pair(p, t)) /\ Cardinality(Pair(p, t)) = Cardinality(Offsets(p, t))
<1>0. \A r \in Records : r = [pkt |-> r.pkt, patt |-> r.patt, offset |-> r.offset]
    BY DEF Records
<1>1. \A o \in Offsets(p, t) : [pkt |-> p, patt |-> t, offset |-> o] \in Pair(p, t)
  <2> SUFFICES ASSUME NEW o \in Offsets(p, t)
               PROVE  [pkt |-> p, patt |-> t, offset |-> o] \in Pair(p, t)
      OBVIOUS
  <2>1. PICK r \in Pair(p, t) : o = r.offset
      BY DEF Offsets
  <2>2. r = [pkt |-> p, patt |-> t, offset |-> o]
      BY <1>0, <2>1 DEF Pair
  <2> QED
      BY <2>2
<1>2. [pkt : {p}, patt : {t}, offset : Offsets(p, t)] = Pair(p, t)
  <2>1. ASSUME NEW r \in [pkt : {p}, patt : {t}, offset : Offsets(p, t)] PROVE r \in Pair(p, t)
    <3>1. r = [pkt |-> p, patt |-> t, offset |-> r.offset] /\ r.offset \in Offsets(p, t)
        OBVIOUS
    <3> QED
        BY <1>1, <3>1
  <2>2. ASSUME NEW r \in Pair(p, t) PROVE r \in [pkt : {p}, patt : {t}, offset : Offsets(p, t)]
    <3>1. r = [pkt |-> p, patt |-> t, offset |-> r.offset]
        BY <1>0 DEF Pair
    <3>2. r.offset \in Offsets(p, t)
        BY DEF Offsets
    <3> QED
        BY <3>1, <3>2
  <2> QED
      BY <2>1, <2>2
<1>3. IsFiniteSet(Offsets(p, t))
  <2>1. Offsets(p, t) \subseteq 1 .. NumOffsets
      BY DEF Offsets, Pair, Records
  <2>2. IsFiniteSet(1 .. NumOffsets)
      BY Sizes, FS_Interval
  <2> QED
      BY <2>1, <2>2, FS_Subset
<1> DEFINE f == [o \in Offsets(p, t) |-> [pkt |-> p, patt |-> t, offset |-> o]]
<1>4. f \in Bijection(Offsets(p, t), Pair(p, t))
  <2>1. f \in [Offsets(p, t) -> Pair(p, t)]
      BY <1>1
  <2>2. \A a, b \in Offsets(p, t) : f[a] = f[b] => a = b
    <3> SUFFICES ASSUME NEW a \in Offsets(p, t), NEW b \in Offsets(p, t), f[a] = f[b] PROVE a = b
        OBVIOUS
    <3>1. f[a].offset = a /\ f[b].offset = b
        OBVIOUS
    <3> QED
        BY <3>1
  <2>3. \A r \in Pair(p, t) : \E o \in Offsets(p, t) : f[o] = r
    <3> SUFFICES ASSUME NEW r \in Pair(p, t) PROVE \E o \in Offsets(p, t) : f[o] = r
        OBVIOUS
    <3>1. r = [pkt |-> p, patt |-> t, offset |-> r.offset] /\ r.offset \in Offsets(p, t)
        BY <1>0 DEF Pair, Offsets
    <3>2. f[r.offset] = r
        BY <3>1
    <3> QED
        BY <3>1, <3>2
  <2> QED
      BY <2>1, <2>2, <2>3 DEF Bijection, Injection, Surjection, IsInjective
<1> QED
    BY <1>2, <1>3, <1>4, FS_Bijection DEF ExistsBijection

(* A pair is met once, and its matches are added, unless the pattern is     *)
(* refused; an empty packet has none.                                       *)
LEMMA MatchAdds ==
    ASSUME RefTypes, RefInv, Ref!RunMatch
    PROVE  /\ pk \in Packets /\ pt \in Patterns
           /\ stats' = IF pt \in rejects THEN stats ELSE stats \cup Pair(pk, pt)
           /\ IsFiniteSet(stats') /\ num_matched_packets' = Cardinality(stats')
           /\ IF pt \notin rejects /\ pt < NumPatterns THEN pt' = pt + 1 /\ pk' = pk
              ELSE pt' = 1 /\ pk' = pk + 1
<1>1. /\ ref = "match" /\ Counted(packets, NumPackets) /\ Counted(patterns, NumPatterns)
      /\ pt <= NumPatterns /\ pk <= NumPackets
      /\ stats = {r \in truth : Tried(r) /\ Before(r, pk, pt)}
      /\ IsFiniteSet(stats) /\ num_matched_packets = Cardinality(stats)
  <2>1. ref = "match" /\ pk <= Len(packets)
      BY DEF Ref!RunMatch
  <2> QED
      BY <2>1 DEF RefInv, Counted
<1>2. pk \in Packets /\ pt \in Patterns
    BY <1>1, Sizes DEF RefTypes, Packets, Patterns
<1>3. packets[pk] = pk /\ patterns[pt] = pt /\ Len(patterns) = NumPatterns
    BY <1>1, <1>2 DEF Counted, Packets, Patterns
<1>4. ~ Ref!HasResults
  <2>1. \A s \in stats : ~ (s.pkt = pk /\ s.patt = pt)
      BY <1>1, <1>2, Sizes DEF Before, Packets, Patterns
  <2> QED
      BY <2>1 DEF Ref!HasResults
<1>5. PICK result \in Ref!re_match(pt, pk) :
        /\ IF pt \notin rejects /\ result # {} /\ pk \notin empties
           THEN /\ stats' = stats \cup [pkt : {pk}, patt : {pt}, offset : result]
                /\ num_matched_packets' = num_matched_packets + Cardinality(result)
           ELSE UNCHANGED <<stats, num_matched_packets>>
        /\ IF pt \notin rejects /\ pt < NumPatterns THEN pt' = pt + 1 /\ pk' = pk
           ELSE pt' = 1 /\ pk' = pk + 1
    BY <1>3, <1>4, SameCardinality DEF Ref!RunMatch, Ref!Kept, Ref!GoesOn
<1>6. pk \notin empties => result = Offsets(pk, pt)
    BY <1>5 DEF Ref!re_match, Offsets, Pair
<1>7. pk \in empties => Pair(pk, pt) = {}
    BY DEF RefInv, Pair
<1>8. /\ [pkt : {pk}, patt : {pt}, offset : Offsets(pk, pt)] = Pair(pk, pt)
      /\ IsFiniteSet(Pair(pk, pt)) /\ Cardinality(Pair(pk, pt)) = Cardinality(Offsets(pk, pt))
    BY <1>2, PairMatches DEF RefTypes
<1>9. Offsets(pk, pt) = {} => Pair(pk, pt) = {}
    BY DEF Offsets
<1>10. stats' = IF pt \in rejects THEN stats ELSE stats \cup Pair(pk, pt)
    BY <1>5, <1>6, <1>7, <1>8, <1>9
<1>11. IsFiniteSet(stats') /\ num_matched_packets' = Cardinality(stats')
  <2>1. CASE UNCHANGED <<stats, num_matched_packets>>
      BY <1>1, <2>1
  <2>2. CASE stats' = stats \cup Pair(pk, pt) /\
             num_matched_packets' = num_matched_packets + Cardinality(Pair(pk, pt))
    <3>1. stats \cap Pair(pk, pt) = {}
        BY <1>4 DEF Ref!HasResults, Pair
    <3>2. /\ IsFiniteSet(stats \cup Pair(pk, pt))
          /\ Cardinality(stats \cup Pair(pk, pt))
               = Cardinality(stats) + Cardinality(Pair(pk, pt)) - Cardinality(stats \cap Pair(pk, pt))
        BY <1>1, <1>8, FS_Union
    <3>3. Cardinality(stats) \in Nat /\ Cardinality(Pair(pk, pt)) \in Nat
        BY <1>1, <1>8, FS_CardinalityType
    <3> QED
        BY <1>1, <2>2, <3>1, <3>2, <3>3, FS_EmptySet
  <2> QED
      BY <1>5, <1>6, <1>8, <2>1, <2>2
<1> QED
    BY <1>2, <1>5, <1>10, <1>11

(* The loops go on in the order in which Before compares; a refused pattern *)
(* has the rest of the packet left out, and Tried leaves it out as well.    *)
LEMMA MatchOrder ==
    ASSUME RefTypes, NEW p \in Packets, NEW t \in Patterns, \A q \in rejects : q >= t
    PROVE  /\ t \in rejects =>
                {r \in truth : Tried(r) /\ Before(r, p, t)}
                  = {r \in truth : Tried(r) /\ Before(r, p + 1, 1)}
           /\ t \notin rejects =>
                {r \in truth : Tried(r) /\ Before(r, p, t)} \cup Pair(p, t)
                  = {r \in truth : Tried(r) /\ Before(r, p, t + 1)}
           /\ t = NumPatterns =>
                {r \in truth : Tried(r) /\ Before(r, p, t + 1)}
                  = {r \in truth : Tried(r) /\ Before(r, p + 1, 1)}
<1>0. /\ p \in Nat /\ t \in Nat /\ rejects \subseteq Nat
      /\ \A r \in truth : r.pkt \in Nat /\ r.patt \in Nat /\ r.patt >= 1 /\ r.patt <= NumPatterns
    BY Sizes DEF RefTypes, Records, Packets, Patterns
<1>1. ASSUME t \in rejects, NEW r \in truth, Tried(r)
      PROVE  Before(r, p, t) <=> Before(r, p + 1, 1)
  <2>1. r.patt < t
      BY <1>1 DEF Tried
  <2> QED
      BY <1>0, <2>1 DEF Before
<1>2. ASSUME t \notin rejects, NEW r \in truth
      PROVE  Before(r, p, t + 1) <=> Before(r, p, t) \/ r \in Pair(p, t)
    BY <1>0 DEF Before, Pair
<1>3. ASSUME t \notin rejects, NEW r \in Pair(p, t)
      PROVE  r \in truth /\ Tried(r)
  <2>1. r \in truth /\ r.patt = t
      BY DEF Pair
  <2>2. \A q \in rejects : t < q
      BY <1>0, <1>3
  <2> QED
      BY <2>1, <2>2 DEF Tried
<1>4. ASSUME t = NumPatterns, NEW r \in truth
      PROVE  Before(r, p, t + 1) <=> Before(r, p + 1, 1)
    BY <1>0, <1>4 DEF Before
<1>5. t \notin rejects =>
        {r \in truth : Tried(r) /\ Before(r, p, t)} \cup Pair(p, t)
          = {r \in truth : Tried(r) /\ Before(r, p, t + 1)}
    BY <1>2, <1>3
<1>6. t \in rejects =>
        {r \in truth : Tried(r) /\ Before(r, p, t)}
          = {r \in truth : Tried(r) /\ Before(r, p + 1, 1)}
    BY <1>1
<1>7. t = NumPatterns =>
        {r \in truth : Tried(r) /\ Before(r, p, t + 1)}
          = {r \in truth : Tried(r) /\ Before(r, p + 1, 1)}
    BY <1>4
<1> QED
    BY <1>5, <1>6, <1>7

LEMMA MatchStep ==
    ASSUME RefTypes, RefInv, Ref!RunMatch \/ Ref!MatchEnds
    PROVE  RefTypes' /\ RefInv'
<1>0. UNCHANGED <<truth, empties, rejects, packets, patterns>>
    BY DEF Ref!RunMatch, Ref!MatchEnds, Ref!files
<1>1. CASE Ref!RunMatch
  <2>1. /\ ref = "match" /\ ref' = "match"
        /\ Counted(packets, NumPackets) /\ Counted(patterns, NumPatterns)
        /\ \A q \in rejects : q >= pt
        /\ stats = {r \in truth : Tried(r) /\ Before(r, pk, pt)}
      BY <1>1 DEF Ref!RunMatch, RefInv
  <2>2. /\ pk \in Packets /\ pt \in Patterns
        /\ stats' = IF pt \in rejects THEN stats ELSE stats \cup Pair(pk, pt)
        /\ IsFiniteSet(stats') /\ num_matched_packets' = Cardinality(stats')
        /\ IF pt \notin rejects /\ pt < NumPatterns THEN pt' = pt + 1 /\ pk' = pk
           ELSE pt' = 1 /\ pk' = pk + 1
      BY <1>1, MatchAdds
  <2>3. /\ pk' \in 1 .. NumPackets + 1 /\ pt' \in 1 .. NumPatterns
        /\ \A q \in rejects : q >= pt'
      BY <2>1, <2>2, Sizes DEF RefTypes, Packets, Patterns
  <2>4. stats' = {r \in truth : Tried(r) /\ Before(r, pk', pt')}
    <3>1. CASE pt \in rejects
        BY <2>1, <2>2, <3>1, MatchOrder
    <3>2. CASE pt \notin rejects /\ pt < NumPatterns
        BY <2>1, <2>2, <3>2, MatchOrder
    <3>3. CASE pt \notin rejects /\ pt = NumPatterns
        BY <2>1, <2>2, <3>3, MatchOrder, Sizes
    <3> QED
        BY <2>2, <3>1, <3>2, <3>3, Sizes DEF Patterns
  <2>5. stats' \subseteq Records /\ num_matched_packets' \in Nat
      BY <2>2, <2>4, FS_CardinalityType DEF RefTypes
  <2>6. RefTypes'
      BY <1>0, <2>1, <2>3, <2>5, Sizes DEF RefTypes
  <2>7. stats' = {r \in truth' : Tried(r)' /\ Before(r, pk', pt')}
      BY <1>0, <2>4 DEF Tried
  <2>8. RefInv'
      BY <1>0, <2>1, <2>2, <2>3, <2>7, Sizes DEF RefInv
  <2> QED
      BY <2>6, <2>8
<1>2. CASE Ref!MatchEnds
  <2>1. /\ ref = "match" /\ ref' = "ready" /\ pk > Len(packets)
        /\ UNCHANGED <<pk, pt, stats, num_matched_packets>>
      BY <1>2 DEF Ref!MatchEnds
  <2>2. Len(packets) = NumPackets /\ stats = {r \in truth : Tried(r) /\ Before(r, pk, pt)}
      BY <2>1 DEF RefInv, Counted
  <2>3. \A r \in truth : Before(r, pk, pt)
      BY <2>1, <2>2, Sizes DEF RefTypes, Records, Packets, Before
  <2>4. stats' = {r \in truth' : Tried(r)'}
      BY <1>0, <2>1, <2>2, <2>3 DEF Tried
  <2>5. RefTypes'
      BY <1>0, <2>1 DEF RefTypes
  <2>6. RefInv'
      BY <1>0, <2>1, <2>4 DEF RefInv
  <2> QED
      BY <2>5, <2>6
<1> QED
    BY <1>1, <1>2

LEMMA RefStep == RefTypes /\ RefInv /\ [Next]_vars => RefTypes' /\ RefInv'
<1> SUFFICES ASSUME RefTypes, RefInv, [Next]_vars PROVE RefTypes' /\ RefInv'
    OBVIOUS
<1>1. CASE Prepare
    BY <1>1, PushStep, MatchStep DEF Prepare, Ref!Next
<1>2. CASE UNCHANGED refvars
    BY <1>2 DEF refvars, RefTypes, RefInv, Tried
<1>3. Prepare \/ UNCHANGED refvars
    BY DEF Next, vars, Done, WriteMatch, LoseMatch, RepeatMatch, InventMatch, AlterMatch, ScanDone,
           NoResultFile, ReadRecord, EndOfBuffer, CompareCount, input
<1> QED
    BY <1>1, <1>2, <1>3

LEMMA InitRef == Init => RefTypes /\ RefInv
<1> SUFFICES ASSUME Init PROVE RefTypes /\ RefInv
    OBVIOUS
<1>1. /\ truth \subseteq Records /\ empties \subseteq Packets /\ rejects \subseteq Patterns
      /\ \A r \in truth : r.pkt \notin empties
    BY DEF Init
<1>2. RefTypes
    BY <1>1, Sizes DEF Init, Ref!Init, RefTypes
<1>3. RefInv
    BY <1>1, FS_EmptySet DEF Init, Ref!Init, RefInv, Counted
<1> QED
    BY <1>2, <1>3

-----------------------------------------------------------------------------
(* The kernels.  A slot is a kernel and a place in its buffer. *)
LEMMA SlotIs ==
    ASSUME NEW b
    PROVE  /\ \A s \in SlotsOf(b) : s = <<s[1], s[2]>> /\ s[1] \in Kernels /\ s[2] \in 1 .. Len(b[s[1]])
           /\ \A k \in Kernels : \A n \in 1 .. Len(b[k]) : <<k, n>> \in SlotsOf(b)
<1>1. ASSUME NEW s \in SlotsOf(b)
      PROVE  s = <<s[1], s[2]>> /\ s[1] \in Kernels /\ s[2] \in 1 .. Len(b[s[1]])
  <2>1. PICK k \in Kernels : s \in {k} \X (1 .. Len(b[k]))
      BY DEF SlotsOf
  <2> QED
      BY <2>1
<1>2. ASSUME NEW k \in Kernels, NEW n \in 1 .. Len(b[k])
      PROVE  <<k, n>> \in SlotsOf(b)
  <2>1. <<k, n>> \in {k} \X (1 .. Len(b[k]))
      OBVIOUS
  <2> QED
      BY <2>1 DEF SlotsOf
<1> QED
    BY <1>1, <1>2

(* A write adds one slot and leaves what the others hold. *)
LEMMA WriteAdds ==
    ASSUME HostTypes, NEW k \in Kernels, NEW r \in Records, Write(k, r)
    PROVE  /\ buffer' \in [Kernels -> Seq(Records)]
           /\ \E new : /\ new \notin Slots /\ Slots' = Slots \cup {new}
                       /\ buffer'[new[1]][new[2]] = r
           /\ \A s \in Slots : buffer'[s[1]][s[2]] = buffer[s[1]][s[2]]
<1>1. /\ buffer \in [Kernels -> Seq(Records)] /\ buffer' = [buffer EXCEPT ![k] = Append(@, r)]
      /\ buffer[k] \in Seq(Records) /\ Len(buffer[k]) \in Nat
    BY LenProperties DEF HostTypes, Write
<1>2. /\ buffer'[k] = Append(buffer[k], r) /\ \A m \in Kernels \ {k} : buffer'[m] = buffer[m]
      /\ buffer' \in [Kernels -> Seq(Records)]
    BY <1>1
<1>3. /\ Len(buffer'[k]) = Len(buffer[k]) + 1 /\ buffer'[k][Len(buffer[k]) + 1] = r
      /\ \A n \in 1 .. Len(buffer[k]) : buffer'[k][n] = buffer[k][n]
    BY <1>1, <1>2
<1> DEFINE new == <<k, Len(buffer[k]) + 1>>
<1>4. new \notin Slots /\ new \in SlotsOf(buffer')
  <2>1. Len(buffer[k]) + 1 \in 1 .. Len(buffer'[k]) /\ Len(buffer[k]) + 1 \notin 1 .. Len(buffer[k])
      BY <1>1, <1>3
  <2>2. new[1] = k /\ new[2] = Len(buffer[k]) + 1
      OBVIOUS
  <2> QED
      BY <2>1, <2>2, SlotIs DEF Slots
<1>5. ASSUME NEW s \in Slots
      PROVE  s \in SlotsOf(buffer') /\ buffer'[s[1]][s[2]] = buffer[s[1]][s[2]]
  <2>1. s = <<s[1], s[2]>> /\ s[1] \in Kernels /\ s[2] \in 1 .. Len(buffer[s[1]])
      BY SlotIs DEF Slots
  <2>2. s[2] \in 1 .. Len(buffer'[s[1]])
      BY <1>1, <1>2, <1>3, <2>1
  <2>3. s \in SlotsOf(buffer')
      BY <2>1, <2>2, SlotIs
  <2> QED
      BY <1>2, <1>3, <2>1, <2>3
<1>6. ASSUME NEW s \in SlotsOf(buffer')
      PROVE  s \in Slots \/ s = new
  <2>1. s = <<s[1], s[2]>> /\ s[1] \in Kernels /\ s[2] \in 1 .. Len(buffer'[s[1]])
      BY SlotIs
  <2>2. CASE s[1] = k /\ s[2] = Len(buffer[k]) + 1
      BY <2>1, <2>2
  <2>3. CASE ~ (s[1] = k /\ s[2] = Len(buffer[k]) + 1)
    <3>1. s[2] \in 1 .. Len(buffer[s[1]])
        BY <1>1, <1>2, <1>3, <2>1, <2>3
    <3> QED
        BY <2>1, <3>1, SlotIs DEF Slots
  <2> QED
      BY <2>2, <2>3
<1>7. Slots' = Slots \cup {new}
    BY <1>4, <1>5, <1>6 DEF Slots
<1>8. buffer'[new[1]][new[2]] = r
    BY <1>3
<1> QED
    BY <1>2, <1>4, <1>5, <1>7, <1>8

(* The count of the records and of the wrong ones after a write. *)
LEMMA WriteCounts ==
    ASSUME HostTypes, NEW k \in Kernels, NEW r \in Records, Write(k, r),
           IsFiniteSet(Slots), truth' = truth
    PROVE  /\ IsFiniteSet(Slots') /\ Cardinality(Slots') = Cardinality(Slots) + 1
           /\ r \in truth => Wrong' = Wrong
           /\ r \notin truth => Cardinality(Wrong') = Cardinality(Wrong) + 1
<1>1. /\ \A s \in Slots : buffer'[s[1]][s[2]] = buffer[s[1]][s[2]]
      /\ \E new : /\ new \notin Slots /\ Slots' = Slots \cup {new}
                  /\ buffer'[new[1]][new[2]] = r
    BY WriteAdds
<1>2. PICK new : /\ new \notin Slots /\ Slots' = Slots \cup {new}
                 /\ buffer'[new[1]][new[2]] = r
    BY <1>1
<1>3. IsFiniteSet(Slots') /\ Cardinality(Slots') = Cardinality(Slots) + 1
    BY <1>2, FS_AddElement
<1>4. /\ Wrong = {s \in Slots : buffer[s[1]][s[2]] \notin truth}
      /\ Wrong' = {s \in Slots' : buffer'[s[1]][s[2]] \notin truth}
    BY DEF Wrong, WrongIn, Slots
<1>5. r \in truth => Wrong' = Wrong
    BY <1>1, <1>2, <1>4
<1>6. r \notin truth => Wrong' = Wrong \cup {new} /\ new \notin Wrong
    BY <1>1, <1>2, <1>4
<1>7. IsFiniteSet(Wrong)
    BY <1>4, FS_Subset
<1> QED
    BY <1>3, <1>5, <1>6, <1>7, FS_AddElement

(* Nothing but the reference changes what it has been given. *)
LEMMA Given == [Next]_vars => UNCHANGED <<truth, empties, rejects, check>>
<1>1. Ref!Next => UNCHANGED <<truth, empties, rejects>>
    BY DEF Ref!Next, Ref!PushPacket, Ref!PushPattern, Ref!EndOfPackets, Ref!EndOfPatterns,
           Ref!RunMatch, Ref!MatchEnds, Ref!files
<1> QED
    BY <1>1
    DEF Next, vars, Done, WriteMatch, LoseMatch, RepeatMatch, InventMatch, AlterMatch, ScanDone,
        NoResultFile, ReadRecord, EndOfBuffer, CompareCount, Prepare, input, refvars

Kinds == {"missing", "repeated", "invented", "altered"}

LEMMA FaultAdds ==
    ASSUME HostTypes, NEW kind \in Kinds, Fault(kind)
    PROVE  /\ faults' \in Seq(Kinds)
           /\ Len(faults') = Len(faults) + 1 /\ faults'[Len(faults) + 1] = kind
           /\ Len(faults') # 0
           /\ \A other : OneFault(other)' => Len(faults) = 0 /\ other = kind
<1>1. faults \in Seq(Kinds) /\ Len(faults) \in Nat /\ faults' = Append(faults, kind)
    BY LenProperties DEF HostTypes, Fault, Kinds
<1>2. /\ faults' \in Seq(Kinds) /\ Len(faults') = Len(faults) + 1
      /\ faults'[Len(faults) + 1] = kind
    BY <1>1
<1>3. \A other : OneFault(other)' => Len(faults) = 0 /\ other = kind
    BY <1>1, <1>2 DEF OneFault
<1> QED
    BY <1>1, <1>2, <1>3

LEMMA HostTypesStep ==
    HostTypes /\ RefTypes /\ CountInv /\ FileInv /\ [Next]_vars => HostTypes'
<1> SUFFICES ASSUME HostTypes, RefTypes, CountInv, FileInv, [Next]_vars PROVE HostTypes'
    OBVIOUS
<1>0. UNCHANGED <<truth, check>> /\ truth \subseteq Records
    BY Given DEF RefTypes
<1>1. ASSUME NEW k \in Kernels, WriteMatch(k) PROVE HostTypes'
  <2>1. PICK r \in Unsettled(k) : Write(k, r) /\ settled' = settled \cup {r}
      BY <1>1 DEF WriteMatch
  <2>2. r \in truth /\ r \in Records
      BY <1>0 DEF Unsettled
  <2>3. buffer' \in [Kernels -> Seq(Records)]
      BY <2>1, <2>2, WriteAdds
  <2> QED
      BY <1>0, <1>1, <2>1, <2>2, <2>3 DEF WriteMatch, HostTypes, host
<1>2. ASSUME NEW k \in Kernels, LoseMatch(k) PROVE HostTypes'
  <2>1. PICK r \in Unsettled(k) : settled' = settled \cup {r}
      BY <1>2 DEF LoseMatch
  <2>2. r \in truth
      BY DEF Unsettled
  <2>3. faults' \in Seq(Kinds)
      BY <1>2, FaultAdds DEF LoseMatch, Kinds
  <2> QED
      BY <1>0, <1>2, <2>1, <2>2, <2>3 DEF LoseMatch, HostTypes, host, Kinds
<1>3. ASSUME NEW k \in Kernels, RepeatMatch(k) \/ InventMatch(k) PROVE HostTypes'
  <2>1. PICK r \in Records : Write(k, r)
    <3>1. \A n \in 1 .. Len(buffer[k]) : buffer[k][n] \in Records
        BY ElementOfSeq DEF HostTypes
    <3> QED
        BY <1>3, <3>1 DEF RepeatMatch, InventMatch
  <2>2. buffer' \in [Kernels -> Seq(Records)]
      BY <2>1, WriteAdds
  <2>3. faults' \in Seq(Kinds)
      BY <1>3, FaultAdds DEF RepeatMatch, InventMatch, Kinds
  <2> QED
      BY <1>0, <1>3, <2>2, <2>3 DEF RepeatMatch, InventMatch, HostTypes, host, Kinds
<1>4. ASSUME NEW k \in Kernels, AlterMatch(k) PROVE HostTypes'
  <2>1. PICK r \in Unsettled(k) : settled' = settled \cup {r}
      BY <1>4 DEF AlterMatch
  <2>2. PICK w \in Records : Write(k, w)
      BY <1>4 DEF AlterMatch
  <2>3. r \in truth
      BY DEF Unsettled
  <2>4. buffer' \in [Kernels -> Seq(Records)]
      BY <2>2, WriteAdds
  <2>5. faults' \in Seq(Kinds)
      BY <1>4, FaultAdds DEF AlterMatch, Kinds
  <2> QED
      BY <1>0, <1>4, <2>1, <2>3, <2>4, <2>5 DEF AlterMatch, HostTypes, host, Kinds
<1>5. CASE Prepare \/ ScanDone \/ NoResultFile
    BY <1>0, <1>5 DEF Prepare, ScanDone, NoResultFile, HostTypes, host, device
<1>6. CASE ReadRecord
  <2>1. PICK r : /\ r = buffer[kernel][i] /\ out' = Append(out, r)
                 /\ err' = err + (IF check THEN compare_result(r) ELSE 0)
      BY <1>6 DEF ReadRecord
  <2>2. r \in Records
    <3>1. buffer[kernel] \in Seq(Records) /\ i \in 1 .. Len(buffer[kernel])
        BY <1>6, LenProperties DEF ReadRecord, HostTypes
    <3> QED
        BY <2>1, <3>1, ElementOfSeq
  <2>3. out' \in Seq(Records)
      BY <2>1, <2>2 DEF HostTypes
  <2>4. err' \in Int /\ err' <= 1
      BY <2>1 DEF HostTypes, compare_result
  <2> QED
      BY <1>0, <1>6, <2>3, <2>4 DEF ReadRecord, HostTypes, device
<1>7. CASE EndOfBuffer
  <2>1. kernel' \in Kernels /\ i' \in Nat \ {0}
      BY <1>7, Sizes DEF EndOfBuffer, HostTypes, Kernels, MoreKernels, FirstPosition
  <2> QED
      BY <1>0, <1>7, <2>1 DEF EndOfBuffer, HostTypes, device
<1>8. CASE CompareCount
  <2>1. err' \in Int /\ err' <= 1
      BY <1>8 DEF CompareCount, HostTypes, CountInv, compare_num_matched_pkt
  <2> QED
      BY <1>0, <1>8, <2>1 DEF CompareCount, HostTypes, device
<1>9. CASE Done \/ UNCHANGED vars
    BY <1>0, <1>9 DEF Done, vars, HostTypes
<1> QED
    BY <1>1, <1>2, <1>3, <1>4, <1>5, <1>6, <1>7, <1>8, <1>9 DEF Next

(* Dealing with one match more. *)
LEMMA Settles ==
    ASSUME HostTypes, WriteInv, NEW k, NEW r \in Unsettled(k), settled' = settled \cup {r}
    PROVE  /\ r \in truth
           /\ IsFiniteSet(settled') /\ Cardinality(settled') = Cardinality(settled) + 1
BY FS_AddElement DEF Unsettled, WriteInv

LEMMA WriteStep == HostTypes /\ RefTypes /\ WriteInv /\ [Next]_vars => WriteInv'
<1> SUFFICES ASSUME HostTypes, RefTypes, WriteInv, [Next]_vars PROVE WriteInv'
    OBVIOUS
<1>0. /\ UNCHANGED <<truth, check>> /\ truth \subseteq Records
      /\ IsFiniteSet(settled) /\ IsFiniteSet(Slots)
    BY Given DEF RefTypes, WriteInv
<1>n. Cardinality(settled) \in Nat /\ Cardinality(Slots) \in Nat
    BY <1>0, FS_CardinalityType
<1>1. ASSUME NEW k \in Kernels, WriteMatch(k) PROVE WriteInv'
  <2>1. PICK r \in Unsettled(k) : Write(k, r) /\ settled' = settled \cup {r}
      BY <1>1 DEF WriteMatch
  <2>2. r \in truth /\ IsFiniteSet(settled') /\ Cardinality(settled') = Cardinality(settled) + 1
      BY <2>1, Settles
  <2>3. /\ IsFiniteSet(Slots') /\ Cardinality(Slots') = Cardinality(Slots) + 1
        /\ Wrong' = Wrong
      BY <1>0, <2>1, <2>2, WriteCounts
  <2>4. faults' = faults
      BY <1>1 DEF WriteMatch
  <2> QED
      BY <1>n, <2>2, <2>3, <2>4 DEF WriteInv, OneFault
<1>2. ASSUME NEW k \in Kernels, LoseMatch(k) PROVE WriteInv'
  <2>1. PICK r \in Unsettled(k) : settled' = settled \cup {r}
      BY <1>2 DEF LoseMatch
  <2>2. IsFiniteSet(settled') /\ Cardinality(settled') = Cardinality(settled) + 1
      BY <2>1, Settles
  <2>3. Slots' = Slots /\ Wrong' = Wrong
      BY <1>0, <1>2 DEF LoseMatch, Slots, SlotsOf, Wrong, WrongIn
  <2>4. /\ Len(faults') # 0
        /\ \A other : OneFault(other)' => Len(faults) = 0 /\ other = "missing"
      BY <1>2, FaultAdds DEF LoseMatch, Kinds
  <2>5. ~ OneFault("repeated")' /\ ~ OneFault("altered")'
      BY <2>4
  <2>6. OneFault("missing")' => Cardinality(Slots) = Cardinality(settled) /\ Wrong = {}
      BY <2>4 DEF WriteInv
  <2> QED
      BY <1>0, <1>n, <2>2, <2>3, <2>4, <2>5, <2>6 DEF WriteInv
<1>3. ASSUME NEW k \in Kernels, RepeatMatch(k) PROVE WriteInv'
  <2>1. PICK n \in 1 .. Len(buffer[k]) : Write(k, buffer[k][n])
      BY <1>3 DEF RepeatMatch
  <2>2. buffer[k][n] \in Records
      BY ElementOfSeq DEF HostTypes
  <2>3. /\ IsFiniteSet(Slots') /\ Cardinality(Slots') = Cardinality(Slots) + 1
        /\ buffer[k][n] \in truth => Wrong' = Wrong
      BY <1>0, <2>1, <2>2, WriteCounts
  <2>4. Wrong = {} => buffer[k][n] \in truth
    <3>1. <<k, n>> \in Slots
        BY SlotIs DEF Slots
    <3> QED
        BY <3>1 DEF Wrong, WrongIn, Slots
  <2>5. /\ Len(faults') # 0
        /\ \A other : OneFault(other)' => Len(faults) = 0 /\ other = "repeated"
      BY <1>3, FaultAdds DEF RepeatMatch, Kinds
  <2>6. ~ OneFault("missing")' /\ ~ OneFault("altered")'
      BY <2>5
  <2>7. OneFault("repeated")' => Cardinality(Slots) = Cardinality(settled) /\ Wrong = {}
      BY <2>5 DEF WriteInv
  <2>8. settled' = settled
      BY <1>3 DEF RepeatMatch
  <2> QED
      BY <1>0, <1>n, <2>3, <2>4, <2>5, <2>6, <2>7, <2>8 DEF WriteInv
<1>4. ASSUME NEW k \in Kernels, InventMatch(k) PROVE WriteInv'
  <2>1. PICK r \in Records : Write(k, r)
      BY <1>4 DEF InventMatch
  <2>2. IsFiniteSet(Slots')
      BY <1>0, <2>1, WriteCounts
  <2>3. /\ Len(faults') # 0
        /\ \A other : OneFault(other)' => Len(faults) = 0 /\ other = "invented"
      BY <1>4, FaultAdds DEF InventMatch, Kinds
  <2>4. ~ OneFault("missing")' /\ ~ OneFault("altered")' /\ ~ OneFault("repeated")'
      BY <2>3
  <2>5. settled' = settled
      BY <1>4 DEF InventMatch
  <2> QED
      BY <1>0, <2>2, <2>3, <2>4, <2>5 DEF WriteInv
<1>5. ASSUME NEW k \in Kernels, AlterMatch(k) PROVE WriteInv'
  <2>1. PICK r \in Unsettled(k) : settled' = settled \cup {r}
      BY <1>5 DEF AlterMatch
  <2>2. PICK w \in Records \ truth : Write(k, w)
      BY <1>5 DEF AlterMatch
  <2>3. IsFiniteSet(settled') /\ Cardinality(settled') = Cardinality(settled) + 1
      BY <2>1, Settles
  <2>4. /\ IsFiniteSet(Slots') /\ Cardinality(Slots') = Cardinality(Slots) + 1
        /\ Cardinality(Wrong') = Cardinality(Wrong) + 1
      BY <1>0, <2>2, WriteCounts
  <2>5. /\ Len(faults') # 0
        /\ \A other : OneFault(other)' => Len(faults) = 0 /\ other = "altered"
      BY <1>5, FaultAdds DEF AlterMatch, Kinds
  <2>6. ~ OneFault("missing")' /\ ~ OneFault("repeated")'
      BY <2>5
  <2>7. OneFault("altered")' => Cardinality(Slots) = Cardinality(settled) /\ Cardinality(Wrong) = 0
      BY <2>5, FS_EmptySet DEF WriteInv
  <2> QED
      BY <1>n, <2>3, <2>4, <2>5, <2>6, <2>7 DEF WriteInv
<1>6. CASE UNCHANGED <<buffer, settled, faults>>
    BY <1>0, <1>6 DEF WriteInv, Wrong, WrongIn, Slots, SlotsOf, OneFault
<1> QED
    BY <1>1, <1>2, <1>3, <1>4, <1>5, <1>6
    DEF Next, vars, Done, Prepare, ScanDone, NoResultFile, ReadRecord, EndOfBuffer, CompareCount,
        device

-----------------------------------------------------------------------------
(* The harvest.  Once it has begun the reference stands still. *)
LEMMA ReferenceRests ==
    ASSUME CountInv, phase \in Harvested
    PROVE  ~ Prepare
<1>1. check => ref = "ready"
    BY DEF CountInv
<1> QED
    BY <1>1 DEF Prepare, Ref!Next, Ref!PushPacket, Ref!PushPattern, Ref!EndOfPackets,
                Ref!EndOfPatterns, Ref!RunMatch, Ref!MatchEnds

LEMMA FiniteCounts ==
    ASSUME WriteInv
    PROVE  /\ IsFiniteSet(ReadSoFar) /\ Cardinality(ReadSoFar) \in Nat
           /\ IsFiniteSet(Unknown) /\ Cardinality(Unknown) \in Nat
<1>1. ReadSoFar \subseteq Slots /\ Unknown \subseteq ReadSoFar /\ IsFiniteSet(Slots)
    BY DEF ReadSoFar, Unknown, WriteInv
<1> QED
    BY <1>1, FS_Subset, FS_CardinalityType

(* A record that is read is one slot more, and another unknown one when     *)
(* compare_result says so.                                                  *)
LEMMA ReadAdds ==
    ASSUME HostTypes, WriteInv, CountInv, ReadRecord
    PROVE  /\ Cardinality(ReadSoFar') = Cardinality(ReadSoFar) + 1
           /\ Cardinality(Unknown')
                = Cardinality(Unknown) - compare_result(buffer[kernel][i])
<1>1. /\ phase = "harvest" /\ phase' = "harvest" /\ i \in 1 .. Len(buffer[kernel])
      /\ i' = i + 1 /\ UNCHANGED <<kernel, buffer, refvars>> /\ kernel \in Kernels
      /\ i \in Nat /\ kernel \in Nat /\ Len(buffer[kernel]) \in Nat
  <2>1. buffer[kernel] \in Seq(Records)
      BY DEF HostTypes
  <2> QED
      BY <2>1, LenProperties, Sizes DEF ReadRecord, HostTypes, input, device, Kernels
<1>2. UNCHANGED <<Slots, stats>>
    BY <1>1 DEF Slots, SlotsOf, refvars
<1> DEFINE slot == <<kernel, i>>
<1>3. slot \in Slots /\ slot[1] = kernel /\ slot[2] = i
    BY <1>1, SlotIs DEF Slots
<1>4. \A s \in Slots : s = <<s[1], s[2]>> /\ s[1] \in Nat /\ s[2] \in Nat
  <2>1. \A s \in Slots : s = <<s[1], s[2]>> /\ s[1] \in Kernels /\ s[2] \in 1 .. Len(buffer[s[1]])
      BY SlotIs DEF Slots
  <2>2. \A k \in Kernels : Len(buffer[k]) \in Nat /\ k \in Nat
      BY LenProperties, Sizes DEF HostTypes, Kernels
  <2> QED
      BY <2>1, <2>2
<1>5. /\ ReadSoFar = {s \in Slots : s[1] < kernel \/ (s[1] = kernel /\ s[2] < i)}
      /\ ReadSoFar' = {s \in Slots : s[1] < kernel \/ (s[1] = kernel /\ s[2] < i + 1)}
    BY <1>1, <1>2 DEF ReadSoFar
<1>6. ReadSoFar' = ReadSoFar \cup {slot} /\ slot \notin ReadSoFar
  <2>1. slot \notin ReadSoFar
      BY <1>1, <1>3, <1>5
  <2>2. ASSUME NEW s \in Slots
        PROVE  s \in ReadSoFar' <=> s \in ReadSoFar \/ s = slot
    <3>1. s = slot <=> s[1] = kernel /\ s[2] = i
        BY <1>3, <1>4
    <3>2. s[2] < i + 1 <=> s[2] < i \/ s[2] = i
        BY <1>1, <1>4
    <3>3. s \in ReadSoFar <=> s[1] < kernel \/ (s[1] = kernel /\ s[2] < i)
        BY <1>5
    <3>4. s \in ReadSoFar' <=> s[1] < kernel \/ (s[1] = kernel /\ s[2] < i + 1)
        BY <1>5
    <3> QED
        BY <3>1, <3>2, <3>3, <3>4
  <2>3. ReadSoFar \subseteq Slots /\ ReadSoFar' \subseteq Slots
      BY <1>5
  <2> QED
      BY <1>3, <2>1, <2>2, <2>3
<1>7. /\ Unknown = {s \in ReadSoFar : buffer[s[1]][s[2]] \notin stats}
      /\ Unknown' = {s \in ReadSoFar' : buffer[s[1]][s[2]] \notin stats}
    BY <1>1, <1>2 DEF Unknown
<1>8. /\ buffer[kernel][i] \in stats => Unknown' = Unknown
      /\ buffer[kernel][i] \notin stats => Unknown' = Unknown \cup {slot} /\ slot \notin Unknown
    BY <1>3, <1>6, <1>7
<1> HIDE DEF slot
<1>9. Cardinality(ReadSoFar') = Cardinality(ReadSoFar) + 1
    BY <1>6, FiniteCounts, FS_AddElement
<1>10. CASE buffer[kernel][i] \in stats
  <2>1. Unknown' = Unknown /\ Cardinality(Unknown) \in Nat /\ compare_result(buffer[kernel][i]) = 0
      BY <1>8, <1>10, FiniteCounts DEF compare_result
  <2> QED
      BY <1>9, <2>1
<1>11. CASE buffer[kernel][i] \notin stats
  <2>1. /\ Cardinality(Unknown') = Cardinality(Unknown) + 1
        /\ Cardinality(Unknown) \in Nat /\ compare_result(buffer[kernel][i]) = -1
      BY <1>8, <1>11, FiniteCounts, FS_AddElement DEF compare_result
  <2> QED
      BY <1>9, <2>1
<1> QED
    BY <1>10, <1>11

(* At the end of a buffer nothing is left of it to be read. *)
LEMMA EndKeeps ==
    ASSUME HostTypes, EndOfBuffer
    PROVE  ReadSoFar' = ReadSoFar /\ Unknown' = Unknown
<1>1. /\ phase = "harvest" /\ i > Len(buffer[kernel]) /\ kernel \in Kernels
      /\ UNCHANGED <<buffer, refvars>>
      /\ \/ kernel + 1 < NumKernels /\ phase' = phase /\ kernel' = kernel + 1 /\ i' = 1
         \/ kernel + 1 >= NumKernels /\ phase' = "count"
      /\ i \in Nat /\ kernel \in Nat /\ kernel <= NumKernels - 1
  <2>1. kernel \in Nat /\ kernel <= NumKernels - 1 /\ i \in Nat
      BY Sizes DEF HostTypes, Kernels
  <2> QED
      BY <2>1, Sizes DEF EndOfBuffer, HostTypes, input, device, MoreKernels, FirstPosition
<1>2. UNCHANGED <<Slots, stats>>
    BY <1>1 DEF Slots, SlotsOf, refvars
<1>3. ASSUME NEW s \in Slots
      PROVE  /\ s[1] \in Nat /\ s[2] \in Nat /\ s[2] >= 1 /\ s[1] <= NumKernels - 1
             /\ s[1] = kernel => s[2] < i
  <2>1. s[1] \in Kernels /\ s[2] \in 1 .. Len(buffer[s[1]])
      BY SlotIs DEF Slots
  <2>2. Len(buffer[s[1]]) \in Nat
      BY <2>1, LenProperties DEF HostTypes
  <2> QED
      BY <1>1, <2>1, <2>2, Sizes DEF Kernels
<1>4. ReadSoFar = {s \in Slots : s[1] < kernel \/ (s[1] = kernel /\ s[2] < i)}
    BY <1>1 DEF ReadSoFar
<1>5. CASE kernel + 1 < NumKernels /\ phase' = phase /\ kernel' = kernel + 1 /\ i' = 1
  <2>1. ReadSoFar' = {s \in Slots : s[1] < kernel + 1 \/ (s[1] = kernel + 1 /\ s[2] < 1)}
      BY <1>1, <1>2, <1>5 DEF ReadSoFar
  <2>2. ASSUME NEW s \in Slots
        PROVE  s[1] < kernel \/ (s[1] = kernel /\ s[2] < i)
                 <=> s[1] < kernel + 1 \/ (s[1] = kernel + 1 /\ s[2] < 1)
      BY <1>1, <1>3
  <2>3. ReadSoFar' = ReadSoFar
      BY <1>4, <2>1, <2>2
  <2> QED
      BY <1>1, <1>2, <2>3 DEF Unknown
<1>6. CASE kernel + 1 >= NumKernels /\ phase' = "count"
  <2>1. ReadSoFar' = Slots
      BY <1>2, <1>6 DEF ReadSoFar
  <2>2. ASSUME NEW s \in Slots
        PROVE  s[1] < kernel \/ (s[1] = kernel /\ s[2] < i)
    <3>1. s[1] <= kernel
        BY <1>1, <1>3, <1>6, Sizes
    <3> QED
        BY <1>1, <1>3, <3>1
  <2>3. ReadSoFar = Slots
      BY <1>4, <2>2
  <2> QED
      BY <1>1, <1>2, <2>1, <2>3 DEF Unknown
<1> QED
    BY <1>1, <1>5, <1>6

LEMMA CountStep == HostTypes /\ WriteInv /\ CountInv /\ [Next]_vars => CountInv'
<1> SUFFICES ASSUME HostTypes, WriteInv, CountInv, [Next]_vars PROVE CountInv'
    OBVIOUS
<1>0. UNCHANGED <<truth, check>>
    BY Given
<1>1. ASSUME phase = "scan", phase' = "scan", UNCHANGED host PROVE CountInv'
    BY <1>1 DEF CountInv, Harvested, host
<1>2. ASSUME phase \in {"scan", "crashed"}, Prepare PROVE CountInv'
    BY <1>2 DEF CountInv, Harvested, Prepare
<1>3. CASE ScanDone
  <2>1. /\ phase = "scan" /\ phase' = "harvest" /\ settled = truth
        /\ (check => ref = "ready") /\ UNCHANGED <<refvars, buffer, settled, host>>
      BY <1>3 DEF ScanDone, Scanning, input
  <2>2. /\ kernel' = 0 /\ i' = 1 /\ total' = 0 /\ err' = 0 /\ out' = <<>>
        /\ settled' = truth' /\ (check' => ref' = "ready")
      BY <1>0, <2>1 DEF CountInv, host, refvars
  <2>3. ReadSoFar' = {}
    <3>1. ReadSoFar' = {s \in Slots' : s[1] < 0 \/ (s[1] = 0 /\ s[2] < 1)}
        BY <2>1, <2>2 DEF ReadSoFar
    <3>2. Slots' = Slots
        BY <2>1 DEF Slots, SlotsOf
    <3>3. ASSUME NEW s \in Slots PROVE s[1] \in Nat /\ s[2] \in Nat /\ s[2] >= 1
      <4>1. s[1] \in Kernels /\ s[2] \in 1 .. Len(buffer[s[1]])
          BY SlotIs DEF Slots
      <4>2. Len(buffer[s[1]]) \in Nat
          BY <4>1, LenProperties DEF HostTypes
      <4> QED
          BY <4>1, <4>2, Sizes DEF Kernels
    <3> QED
        BY <3>1, <3>2, <3>3
  <2>4. Unknown' = {}
      BY <2>3 DEF Unknown
  <2>5. Cardinality(ReadSoFar') = 0 /\ Cardinality(Unknown') = 0
      BY <2>3, <2>4, FS_EmptySet
  <2>6. Len(out') = 0
      BY <2>2
  <2>7. err' = IF check' THEN - Cardinality(Unknown') ELSE 0
    <3>1. \A c \in Int : c <= 0 /\ c >= 0 => - c = 0
        OBVIOUS
    <3>2. /\ Cardinality(Unknown') \in Int
          /\ Cardinality(Unknown') <= 0 /\ Cardinality(Unknown') >= 0
        BY <2>5
    <3>3. - Cardinality(Unknown') = 0
        BY <3>1, <3>2
    <3> QED
        BY <2>2, <3>3
  <2> QED
      BY <2>1, <2>2, <2>5, <2>6, <2>7 DEF CountInv, Harvested
<1>4. CASE NoResultFile
    BY <1>4 DEF NoResultFile, CountInv, Harvested, host
<1>5. CASE ReadRecord
  <2>1. /\ phase = "harvest" /\ phase' = "harvest" /\ UNCHANGED <<refvars, settled>>
        /\ err' = err + (IF check THEN compare_result(buffer[kernel][i]) ELSE 0)
        /\ total' = total + 1 /\ out' = Append(out, buffer[kernel][i])
      BY <1>5 DEF ReadRecord, input, device
  <2>2. /\ Cardinality(ReadSoFar') = Cardinality(ReadSoFar) + 1
        /\ Cardinality(Unknown') = Cardinality(Unknown) - compare_result(buffer[kernel][i])
      BY <1>5, ReadAdds
  <2>3. Len(out') = Len(out) + 1
      BY <2>1 DEF HostTypes
  <2>4. Cardinality(Unknown) \in Nat /\ compare_result(buffer[kernel][i]) \in {0, -1}
      BY FiniteCounts DEF compare_result
  <2>5. err' = IF check' THEN - Cardinality(Unknown') ELSE 0
      BY <1>0, <2>1, <2>2, <2>4 DEF CountInv
  <2>6. err' <= 0
      BY <2>2, <2>4, <2>5
  <2>7. ref' = ref
      BY <2>1 DEF refvars
  <2> QED
      BY <1>0, <2>1, <2>2, <2>3, <2>5, <2>6, <2>7 DEF CountInv, Harvested
<1>6. CASE EndOfBuffer
  <2>1. /\ phase = "harvest" /\ phase' \in {"harvest", "count"}
        /\ UNCHANGED <<refvars, settled, total, err, out>>
      BY <1>6 DEF EndOfBuffer, input, device
  <2>2. ReadSoFar' = ReadSoFar /\ Unknown' = Unknown /\ ref' = ref
      BY <1>6, <2>1, EndKeeps DEF refvars
  <2> QED
      BY <1>0, <2>1, <2>2 DEF CountInv, Harvested
<1>7. CASE CompareCount
  <2>1. /\ phase = "count" /\ phase' = "done" /\ UNCHANGED <<refvars, buffer, settled, total, out>>
        /\ err' = err + (IF check THEN compare_num_matched_pkt(total) ELSE 0)
      BY <1>7 DEF CompareCount, input, device
  <2>2. /\ ref' = ref /\ compare_num_matched_pkt(total)' = compare_num_matched_pkt(total)
        /\ stats' = stats
      BY <2>1 DEF refvars, compare_num_matched_pkt
  <2>3. ReadSoFar' = ReadSoFar /\ Unknown' = Unknown
      BY <2>1, <2>2 DEF ReadSoFar, Unknown, Slots, SlotsOf
  <2>4. Cardinality(Unknown) \in Nat /\ compare_num_matched_pkt(total) \in {0, 1}
      BY FiniteCounts DEF compare_num_matched_pkt
  <2>5. err' = IF check' THEN compare_num_matched_pkt(total)' - Cardinality(Unknown') ELSE 0
      BY <1>0, <2>1, <2>2, <2>3, <2>4 DEF CountInv
  <2> QED
      BY <1>0, <2>1, <2>2, <2>3, <2>5 DEF CountInv, Harvested
<1>8. CASE UNCHANGED vars
    BY <1>8 DEF vars, refvars, CountInv, ReadSoFar, Unknown, Slots, SlotsOf, compare_num_matched_pkt
<1>9. ASSUME NEW k \in Kernels,
             WriteMatch(k) \/ LoseMatch(k) \/ RepeatMatch(k) \/ InventMatch(k) \/ AlterMatch(k)
      PROVE  phase = "scan" /\ phase' = "scan" /\ UNCHANGED host
    BY <1>9 DEF WriteMatch, LoseMatch, RepeatMatch, InventMatch, AlterMatch, Scanning
<1>10. Prepare => phase \in {"scan", "crashed"}
    BY ReferenceRests DEF HostTypes, Harvested
<1> QED
    BY <1>1, <1>2, <1>3, <1>4, <1>5, <1>6, <1>7, <1>8, <1>9, <1>10 DEF Next, Done

-----------------------------------------------------------------------------
(* The result file.  The buffers are joined one after the other. *)
LEMMA JoinNone == Joined(0) = <<>> /\ Joined(0) \in Seq(Records)
<1> DEFINE s == [m \in 1 .. 0 |-> buffer[m - 1]]
<1>1. s = <<>> /\ Len(s) = 0
    OBVIOUS
<1>2. FlattenSeq(s) = s
    BY <1>1 DEF FlattenSeq
<1>3. Joined(0) = FlattenSeq(s)
    BY DEF Joined
<1>4. <<>> \in Seq(Records)
    BY EmptySeq
<1> HIDE DEF s
<1> QED
    BY <1>1, <1>2, <1>3, <1>4

LEMMA JoinNext ==
    ASSUME HostTypes, NEW n \in Kernels, Joined(n) \in Seq(Records)
    PROVE  Joined(n + 1) = Joined(n) \o buffer[n] /\ Joined(n + 1) \in Seq(Records)
<1> DEFINE Part(l) == [m \in 1 .. l |-> buffer[m - 1]]
<1>0. n \in Nat /\ n + 1 \in Nat /\ buffer[n] \in Seq(Records)
    BY Sizes DEF HostTypes, Kernels
<1>1. \A l \in Nat : Len(Part(l)) = l
    OBVIOUS
<1>2. /\ Part(n + 1)[n + 1] = buffer[n] /\ \A j \in 1 .. n : Part(n)[j] = Part(n + 1)[j]
      /\ Len(Part(n)) = n /\ Len(Part(n + 1)) = n + 1
  <2>1. n + 1 \in 1 .. n + 1 /\ (n + 1) - 1 = n /\ \A j \in 1 .. n : j \in 1 .. n + 1
      BY <1>0
  <2> QED
      BY <1>0, <1>1, <2>1
<1>3. Joined(n) = FlattenSeq(Part(n)) /\ Joined(n + 1) = FlattenSeq(Part(n + 1))
    BY DEF Joined
<1> HIDE DEF Part
<1>4. Joined(n + 1) = Joined(n) \o buffer[n]
  <2>1. CASE n = 0
    <3>1. Joined(n) = <<>>
        BY <2>1, JoinNone
    <3>2. Joined(n + 1) = buffer[n]
      <4>1. Len(Part(n + 1)) = 1 /\ n + 1 = 1
          BY <1>2, <2>1
      <4>2. FlattenSeq(Part(n + 1)) = Part(n + 1)[1]
          BY <4>1, FlattenOne
      <4> QED
          BY <1>2, <1>3, <4>1, <4>2
    <3>3. <<>> \o buffer[n] = buffer[n]
        BY <1>0, ConcatEmptySeq
    <3> QED
        BY <3>1, <3>2, <3>3
  <2>2. CASE n # 0
    <3>1. FlattenSeq(Part(n + 1)) = FlattenSeq(Part(n)) \o Part(n + 1)[n + 1]
        BY <1>0, <1>2, <2>2, FlattenAppend
    <3> QED
        BY <1>2, <1>3, <3>1
  <2> QED
      BY <2>1, <2>2
<1> QED
    BY <1>0, <1>4, ConcatProperties

LEMMA FileStep == HostTypes /\ CountInv /\ FileInv /\ [Next]_vars => FileInv'
<1> SUFFICES ASSUME HostTypes, CountInv, FileInv, [Next]_vars PROVE FileInv'
    OBVIOUS
<1>1. CASE ScanDone
  <2>1. /\ phase' = "harvest" /\ kernel' = 0 /\ i' = 1 /\ out' = <<>> /\ buffer' = buffer
      BY <1>1 DEF ScanDone, Scanning, CountInv, host
  <2>2. Joined(0)' = <<>> /\ Joined(0)' \in Seq(Records)
      BY <2>1, JoinNone DEF Joined
  <2>3. buffer[0] \in Seq(Records) /\ Len(buffer[0]) \in Nat
      BY Sizes, LenProperties DEF HostTypes, Kernels
  <2>4. SubSeq(buffer[0], 1, 0) = <<>> /\ <<>> \o <<>> = <<>>
      BY SubSeqEmpty, ConcatEmptySeq, EmptySeq
  <2>5. Joined(kernel)' = Joined(0)'
      BY <2>1 DEF Joined
  <2>6. SubSeq(buffer'[kernel'], 1, i' - 1) = <<>>
      BY <2>1, <2>4
  <2> QED
      BY <2>1, <2>2, <2>3, <2>4, <2>5, <2>6 DEF FileInv
<1>2. CASE ReadRecord
  <2> DEFINE b == buffer[kernel]
  <2>1. /\ phase = "harvest" /\ phase' = "harvest" /\ i <= Len(b) /\ i' = i + 1
        /\ UNCHANGED <<kernel, buffer>> /\ out' = Append(out, b[i])
      BY <1>2 DEF ReadRecord, device
  <2>2. b \in Seq(Records) /\ Len(b) \in Nat /\ i \in 1 .. Len(b)
      BY <2>1, LenProperties DEF HostTypes
  <2>3. Joined(kernel) \in Seq(Records) /\ out = Joined(kernel) \o SubSeq(b, 1, i - 1)
      BY <2>1 DEF FileInv
  <2> HIDE DEF b
  <2>4. SubSeq(b, 1, i) = SubSeq(b, 1, i - 1) \o <<b[i]>>
    <3>1. 1 \in 1 .. Len(b)
        BY <2>2
    <3> QED
        BY <2>2, <3>1, SubSeqRecursiveSecond
  <2>5. b[i] \in Records /\ <<b[i]>> \in Seq(Records)
      BY <2>2, ElementOfSeq
  <2>6. SubSeq(b, 1, i - 1) \in Seq(Records)
    <3>1. \A j \in 1 .. i - 1 : b[j] \in Records
        BY <2>2, ElementOfSeq
    <3> QED
        BY <2>2, <3>1, SubSeqProperties
  <2>7. out \in Seq(Records) /\ out' = out \o <<b[i]>>
    <3>1. out \in Seq(Records)
        BY DEF HostTypes
    <3> QED
        BY <2>1, <2>5, <3>1 DEF b
  <2>8. out' = Joined(kernel) \o SubSeq(b, 1, i)
    <3>1. \A x, y, z \in Seq(Records) : (x \o y) \o z = x \o (y \o z)
        BY ConcatAssociative
    <3>2. (Joined(kernel) \o SubSeq(b, 1, i - 1)) \o <<b[i]>>
              = Joined(kernel) \o (SubSeq(b, 1, i - 1) \o <<b[i]>>)
        BY <2>3, <2>5, <2>6, <3>1, Zenon
    <3> QED
        BY <2>3, <2>4, <2>7, <3>2, Zenon
  <2>9. Joined(kernel)' = Joined(kernel)
      BY <2>1, Zenon DEF Joined
  <2>10. i' - 1 = i /\ i' <= Len(b) + 1 /\ buffer'[kernel'] = b
      BY <2>1, <2>2 DEF b
  <2>11. SubSeq(buffer'[kernel'], 1, i' - 1) = SubSeq(b, 1, i)
      BY <2>10, Zenon
  <2>12. out' = Joined(kernel)' \o SubSeq(buffer'[kernel'], 1, i' - 1)
      BY <2>8, <2>9, <2>11, Zenon
  <2>13. Joined(kernel)' \in Seq(Records) /\ i' <= Len(buffer'[kernel']) + 1 /\ phase' = "harvest"
      BY <2>1, <2>3, <2>9, <2>10
  <2> QED
      BY <2>12, <2>13 DEF FileInv
<1>3. CASE EndOfBuffer
  <2> DEFINE b == buffer[kernel]
  <2>1. /\ phase = "harvest" /\ i > Len(b) /\ UNCHANGED <<buffer, out>>
        /\ \/ kernel + 1 < NumKernels /\ phase' = phase /\ kernel' = kernel + 1 /\ i' = 1
           \/ kernel + 1 >= NumKernels /\ phase' = "count"
      BY <1>3, Sizes DEF EndOfBuffer, device, MoreKernels, FirstPosition, HostTypes, Kernels
  <2>2. b \in Seq(Records) /\ Len(b) \in Nat /\ kernel \in Kernels /\ i - 1 = Len(b)
      BY <2>1, LenProperties DEF HostTypes, FileInv
  <2>3. Joined(kernel) \in Seq(Records) /\ out = Joined(kernel) \o SubSeq(b, 1, i - 1)
      BY <2>1 DEF FileInv
  <2>4. SubSeq(b, 1, i - 1) = b
      BY <2>2, SubSeqFull
  <2>5. out = Joined(kernel + 1) /\ Joined(kernel + 1) \in Seq(Records)
      BY <2>2, <2>3, <2>4, JoinNext
  <2>6. \A n : Joined(n)' = Joined(n)
      BY <2>1 DEF Joined
  <2>7. CASE kernel + 1 < NumKernels /\ phase' = phase /\ kernel' = kernel + 1 /\ i' = 1
    <3>1. buffer'[kernel'] \in Seq(Records) /\ Len(buffer'[kernel']) \in Nat
      <4>1. kernel + 1 \in Kernels
          BY <2>2, <2>7, Sizes DEF Kernels
      <4> QED
          BY <2>1, <2>7, <4>1, LenProperties DEF HostTypes
    <3>2. SubSeq(buffer'[kernel'], 1, 1 - 1) = <<>>
        BY SubSeqEmpty
    <3>3. Joined(kernel)' = Joined(kernel + 1)
        BY <2>1, <2>7 DEF Joined
    <3>4. out' = Joined(kernel)' \o SubSeq(buffer'[kernel'], 1, i' - 1)
        BY <2>1, <2>5, <2>7, <3>2, <3>3, ConcatEmptySeq
    <3> QED
        BY <2>1, <2>5, <2>7, <3>1, <3>3, <3>4 DEF FileInv
  <2>8. CASE kernel + 1 >= NumKernels /\ phase' = "count"
    <3>1. kernel + 1 = NumKernels
        BY <2>2, <2>8, Sizes DEF Kernels
    <3>2. out' = Joined(NumKernels)'
        BY <2>1, <2>5, <2>6, <3>1
    <3> QED
        BY <2>8, <3>2 DEF FileInv
  <2> QED
      BY <2>1, <2>7, <2>8
<1>4. CASE CompareCount
    BY <1>4 DEF CompareCount, device, FileInv, Joined
<1>5. CASE UNCHANGED vars
    BY <1>5 DEF vars, FileInv, Joined
<1>6. CASE phase' \in {"scan", "crashed"}
    BY <1>6 DEF FileInv
<1>7. ASSUME NEW k \in Kernels,
             WriteMatch(k) \/ LoseMatch(k) \/ RepeatMatch(k) \/ InventMatch(k) \/ AlterMatch(k)
      PROVE  phase' = "scan"
    BY <1>7 DEF WriteMatch, LoseMatch, RepeatMatch, InventMatch, AlterMatch, Scanning
<1>8. Prepare => phase' \in {"scan", "crashed"}
    BY ReferenceRests DEF HostTypes, Harvested, Prepare
<1>9. NoResultFile => phase' = "crashed"
    BY DEF NoResultFile
<1> QED
    BY <1>1, <1>2, <1>3, <1>4, <1>5, <1>6, <1>7, <1>8, <1>9 DEF Next, Done


-----------------------------------------------------------------------------
LEMMA InitIInv == Init => IInv
<1> SUFFICES ASSUME Init PROVE IInv
    OBVIOUS
<1>1. RefTypes /\ RefInv
    BY InitRef
<1>2. /\ phase = "scan" /\ buffer = [k \in Kernels |-> <<>>] /\ settled = {} /\ faults = <<>>
      /\ kernel = 0 /\ i = 1 /\ total = 0 /\ err = 0 /\ out = <<>> /\ check \in BOOLEAN
    BY DEF Init
<1>3. HostTypes
  <2>1. 0 \in Kernels
      BY Sizes DEF Kernels
  <2>2. buffer \in [Kernels -> Seq(Records)]
    <3>1. <<>> \in Seq(Records)
        BY EmptySeq
    <3> QED
        BY <1>2, <3>1
  <2>3. out \in Seq(Records) /\ faults \in Seq({"missing", "repeated", "invented", "altered"})
      BY <1>2, EmptySeq
  <2> QED
      BY <1>2, <2>1, <2>2, <2>3 DEF HostTypes
<1>4. Slots = {} /\ Wrong = {}
  <2>1. \A k \in Kernels : 1 .. Len(buffer[k]) = {}
      BY <1>2
  <2>2. Slots = {}
      BY <2>1 DEF Slots, SlotsOf
  <2> QED
      BY <2>2 DEF Wrong, WrongIn, Slots
<1>5. WriteInv
  <2>1. IsFiniteSet({}) /\ Cardinality({}) = 0
      BY FS_EmptySet
  <2>2. Len(faults) = 0
      BY <1>2
  <2> QED
      BY <1>2, <1>4, <2>1, <2>2 DEF WriteInv, OneFault
<1>6. CountInv
    BY <1>2 DEF CountInv, Harvested
<1>7. FileInv
    BY <1>2 DEF FileInv
<1> QED
    BY <1>1, <1>3, <1>5, <1>6, <1>7, TypeParts DEF IInv

LEMMA IInvStep == IInv /\ [Next]_vars => IInv'
<1> SUFFICES ASSUME IInv, [Next]_vars PROVE IInv'
    OBVIOUS
<1>1. RefTypes /\ HostTypes /\ RefInv /\ WriteInv /\ CountInv /\ FileInv
    BY TypeParts DEF IInv
<1>2. RefTypes' /\ RefInv'
    BY <1>1, RefStep
<1>3. HostTypes'
    BY <1>1, HostTypesStep
<1>4. WriteInv' /\ CountInv' /\ FileInv'
    BY <1>1, WriteStep, CountStep, FileStep
<1>5. (TypeOK <=> RefTypes /\ HostTypes)'
    BY TypeParts, PTL
<1> QED
    BY <1>2, <1>3, <1>4, <1>5 DEF IInv

LEMMA Invariance == Spec => []IInv
<1>1. Init => IInv
    BY InitIInv
<1>2. IInv /\ [Next]_vars => IInv'
    BY IInvStep
<1> QED
    BY <1>1, <1>2, PTL DEF Spec

(* The types; whatever the kernels wrote, err is never above 1              *)
(* (core.c:555-594, csre.cpp:322-336).                                      *)
THEOREM TypeCorrect == Spec => []TypeOK
<1>1. IInv => TypeOK
    BY DEF IInv
<1> QED
    BY <1>1, Invariance, PTL

(* The result file is the concatenation of what the kernels wrote, in the   *)
(* order of the kernels, and total is its length (csre.cpp:322-331).        *)
THEOREM FileIsJoined == Spec => []FileHoldsAllBuffers
<1>1. IInv => FileHoldsAllBuffers
    BY DEF IInv, FileInv, CountInv, Harvested, FileHoldsAllBuffers, Joined
<1> QED
    BY <1>1, Invariance, PTL

(* The reference ends up with the matches of the patterns before the first  *)
(* that does not compile, whatever the lines (regex_ref.cpp:62-71, 110-136). *)
THEOREM ReferenceKnows == Spec => []ReferenceKnowsTried
<1>1. IInv => ReferenceKnowsTried
    BY DEF IInv, RefInv, ReferenceKnowsTried
<1> QED
    BY <1>1, Invariance, PTL

(* What a checked run returns when the reference works: the mismatch of the *)
(* numbers less the records that are no match.                              *)
LEMMA Verdict ==
    ASSUME IInv, phase = "done", check, rejects = {}
    PROVE  /\ err = (IF Cardinality(Slots) # Cardinality(truth) THEN 1 ELSE 0) - Cardinality(Wrong)
           /\ settled = truth
<1>1. /\ ref = "ready" /\ settled = truth /\ total = Cardinality(Slots)
      /\ err = compare_num_matched_pkt(total) - Cardinality(Unknown)
    BY DEF IInv, CountInv, Harvested, ReadSoFar
<1>2. stats = truth /\ num_matched_packets = Cardinality(truth)
    BY <1>1 DEF IInv, RefInv, Tried
<1>3. Unknown = Wrong
    BY <1>2 DEF Unknown, Wrong, WrongIn, ReadSoFar, Slots
<1> QED
    BY <1>1, <1>2, <1>3 DEF compare_num_matched_pkt

(* No false alarm, for any number of kernels, packets, patterns and matches *)
(* and any order of the records (csre.cpp:322-336).                         *)
THEOREM FaithfulPasses == Spec => []FaithfulScanPasses
<1>1. IInv => FaithfulScanPasses
  <2> SUFFICES ASSUME IInv, phase = "done", faults = <<>>, rejects = {} PROVE err = 0
      BY DEF FaithfulScanPasses
  <2>1. CASE ~ check
      BY <2>1 DEF IInv, CountInv
  <2>2. CASE check
    <3>1. Len(faults) = 0
        OBVIOUS
    <3>2. Cardinality(Slots) = Cardinality(settled) /\ Cardinality(Wrong) = 0
        BY <3>1, FS_EmptySet DEF IInv, WriteInv
    <3> QED
        BY <2>2, <3>2, Verdict
  <2> QED
      BY <2>1, <2>2
<1> QED
    BY <1>1, Invariance, PTL

(* A single missing, repeated or altered match fails the run, wherever it   *)
(* happens (core.c:555-594, regex_ref.cpp:139-165).                         *)
THEOREM OneFaultCaught == Spec => []OneFaultIsCaught
<1>1. IInv => OneFaultIsCaught
  <2> SUFFICES ASSUME IInv, phase = "done", check, rejects = {}, Len(faults) = 1,
                      faults[1] # "invented"
               PROVE  err # 0
      BY DEF OneFaultIsCaught
  <2>1. OneFault("missing") \/ OneFault("repeated") \/ OneFault("altered")
    <3>1. faults \in Seq({"missing", "repeated", "invented", "altered"})
        BY DEF IInv, TypeOK
    <3>2. faults[1] \in {"missing", "repeated", "invented", "altered"}
        BY <3>1, ElementOfSeq, Len(faults) = 1
    <3> QED
        BY <3>2 DEF OneFault
  <2>2. settled = truth
        /\ err = (IF Cardinality(Slots) # Cardinality(truth) THEN 1 ELSE 0) - Cardinality(Wrong)
      BY Verdict
  <2>3. Cardinality(truth) \in Nat
      BY <2>2, FS_CardinalityType DEF IInv, WriteInv
  <2>4. CASE OneFault("missing") \/ OneFault("repeated")
    <3>1. Cardinality(Wrong) = 0
        BY <2>4, FS_EmptySet DEF IInv, WriteInv
    <3>2. Cardinality(Slots) = Cardinality(truth) - 1 \/ Cardinality(Slots) = Cardinality(truth) + 1
        BY <2>2, <2>4 DEF IInv, WriteInv
    <3> QED
        BY <2>2, <2>3, <3>1, <3>2
  <2>5. CASE OneFault("altered")
    <3>1. Cardinality(Slots) = Cardinality(truth) /\ Cardinality(Wrong) = 1
        BY <2>2, <2>5 DEF IInv, WriteInv
    <3> QED
        BY <2>2, <3>1
  <2> QED
      BY <2>1, <2>4, <2>5
<1> QED
    BY <1>1, Invariance, PTL
=============================================================================
