------------------------- MODULE PacketParseProofs -------------------------
(***************************************************************************)
(* Theorems about PacketParse, for every number of jobs and every file:    *)
(* no write leaves its buffer, buffers can be walked by their headers, ids *)
(* name lines, and sizes are published for whole shares only.              *)
(*                                                                         *)
(* The invariant says how many packets each buffer holds as a function of  *)
(* lines_read (Filled), and that packet k of a buffer ends at most at      *)
(* k * EntryBytes (Written): the buffer has room for the largest share.    *)
(***************************************************************************)
EXTENDS PacketParse, TLAPS, SequenceTheorems

Bytes == EntryBytes * (PerJob + Rest) + PACKET_HEADER_BYTES

(* Before the reading loop nothing is written. *)
Untouched ==
    pc \in {"open", "alloc", "check"} =>
        lines_read = 0 /\ curr_job_id = 0 /\ pkt_src = 0 /\ ret = "none"

Counted ==
    /\ ~ terminated => Len(file) > 0
    /\ pc \in {"alloc", "check", "read"} =>
          pkt_count = LineCount /\ PerJob >= 1 /\ pkt_count <= MaxPacketCount

Sized ==
    /\ pc = "check" => \A j \in Jobs : capacity[j] \in {Null, Bytes}
    /\ pc = "read"  => \A j \in Jobs : capacity[j] = Bytes

Progress ==
    /\ lines_read <= Len(file)
    /\ pc = "read" => lines_read <= pkt_count
    /\ curr_job_id * PerJob <= lines_read
    /\ curr_job_id # LastJob => lines_read <= (curr_job_id + 1) * PerJob

Held(j) ==
    IF j < curr_job_id THEN PerJob
    ELSE IF j = curr_job_id THEN lines_read - curr_job_id * PerJob ELSE 0
Filled == \A j \in Jobs : Len(pkts[j]) = Held(j)

WrittenAt(j, n) ==
    /\ pkts[j][n].at % AXI_BEAT = 0
    /\ pkts[j][n].at <= EntryBytes * (n - 1)
    /\ pkts[j][n].at = IF n = 1 THEN 0 ELSE NextByHeader(pkts[j][n - 1])
    /\ pkts[j][n].len < PACKET_MAX_SIZE
    /\ pkts[j][n].id = j * PerJob + n
    /\ pkts[j][n].len = file[j * PerJob + n]
    /\ NextByHeader(pkts[j][n]) <= capacity[j]
Written == \A j \in Jobs : \A n \in 1 .. Len(pkts[j]) : WrittenAt(j, n)

EndOf(s) == IF Len(s) = 0 THEN 0 ELSE NextByHeader(s[Len(s)])
AtEnd == pkt_src = EndOf(pkts[curr_job_id])

Sizes ==
    /\ pc \in {"open", "alloc"} => \A j \in Jobs : job_sizes[j] = Unset
    /\ \A j \in Jobs :
          /\ j < curr_job_id => PerJob >= 1 /\ job_sizes[j] = EndOf(pkts[j])
          /\ j >= curr_job_id /\ ret # "ok" => job_sizes[j] \in {0, Unset}

Finished ==
    /\ ret = "ok" <=> pc = "done" /\ ret \notin {"error", "exit"}
    /\ ret = "ok" =>
        /\ curr_job_id = LastJob /\ lines_read = Len(file)
        /\ PerJob >= 1 /\ Len(pkts[LastJob]) = PerJob + Rest
        /\ job_sizes[LastJob] = pkt_src

PInv ==
    /\ TypeOK
    /\ Untouched /\ Counted /\ Sized /\ Progress
    /\ Filled /\ Written /\ AtEnd /\ Sizes /\ Finished

-----------------------------------------------------------------------------
(* Alignment and division by constants. *)
LEMMA Constants ==
    /\ PACKET_HEADER_BYTES = 16 /\ PACKET_MAX_SIZE = 2048 /\ AXI_BEAT = 16 /\ LEN_FIELD = 4096
    /\ EntryBytes = 2064
BY DEF PACKET_HEADER_BYTES, PACKET_MAX_SIZE, AXI_BEAT, LEN_FIELD, EntryBytes, csre_align

(* Where a packet ends, by the padding of fill_one_packet, is where its     *)
(* header says; a packet takes at most EntryBytes.                          *)
LEMMA PacketEnds ==
    ASSUME NEW line \in Nat, line < PACKET_MAX_SIZE,
           NEW at \in Nat, at % AXI_BEAT = 0, NEW id
    PROVE  /\ Packet(line, at, id) = [id |-> id, at |-> at, len |-> line]
           /\ PacketEnd(line, at) = NextByHeader(Packet(line, at, id))
           /\ PacketEnd(line, at) \in Nat
           /\ PacketEnd(line, at) % AXI_BEAT = 0
           /\ at < PacketEnd(line, at) /\ PacketEnd(line, at) <= at + EntryBytes
<1>1. line % LEN_FIELD = line
    BY Constants
<1>2. Packet(line, at, id) = [id |-> id, at |-> at, len |-> line]
    BY <1>1 DEF Packet
<1>3. NextByHeader(Packet(line, at, id)) = at + 16 * ((line + 31) \div 16)
    BY <1>2, Constants DEF NextByHeader
<1>4. PICK q \in Nat : at = 16 * q
  <2>1. at % 16 = 0
      BY Constants
  <2>2. at = 16 * (at \div 16) /\ at \div 16 \in Nat
      BY <2>1
  <2> QED
      BY <2>2
<1>5. PacketEnd(line, at) = at + 16 * ((line + 31) \div 16)
  <2> DEFINE n == 16 * q + 16 + line
  <2>1. PacketEnd(line, at) = IF n % 16 = 0 THEN n ELSE n + (16 - (n % 16))
      BY <1>4, Constants DEF PacketEnd, csre_align
  <2>2. n % 16 = line % 16
      BY <1>4
  <2>3. (IF line % 16 = 0 THEN line + 16 ELSE line + 32 - (line % 16)) = 16 * ((line + 31) \div 16)
      OBVIOUS
  <2> QED
      BY <1>4, <2>1, <2>2, <2>3
<1> QED
  <2>1. (line + 31) \div 16 \in 1 .. 129
      BY Constants
  <2>2. PacketEnd(line, at) = 16 * (q + (line + 31) \div 16)
      BY <1>4, <1>5, <2>1
  <2> QED
      BY <1>2, <1>3, <1>5, <2>1, <2>2, Constants

(* Shares add up to the file. *)
LEMMA SharesAddUp ==
    ASSUME pkt_count \in Nat
    PROVE  /\ PerJob \in Nat /\ Rest \in Nat
           /\ pkt_count = LastJob * PerJob + PerJob + Rest
<1>1. PerJob \in Nat /\ Rest \in Nat /\ pkt_count = NumJobs * PerJob + Rest
    BY NumJobsAssumption DEF PerJob, Rest
<1>2. NumJobs * PerJob = LastJob * PerJob + PerJob
    BY <1>1, NumJobsAssumption DEF LastJob
<1> QED
    BY <1>1, <1>2, NumJobsAssumption DEF LastJob

(* The file is a sequence of lengths. *)
LEMMA FileIsSeq ==
    ASSUME TypeOK
    PROVE  /\ file \in Seq(Lengths) /\ Len(file) \in Nat
           /\ \A n \in 1 .. Len(file) : file[n] \in Nat
<1>1. PICK n \in 0 .. MaxLines : file \in [1 .. n -> Lengths]
    BY DEF TypeOK, Files
<1>2. n \in Nat
    BY LengthsAssumption
<1>3. file \in Seq(Lengths) /\ Len(file) = n
    BY <1>1, <1>2, SeqDef, LenProperties
<1> QED
    BY <1>1, <1>2, <1>3, LengthsAssumption

(* The same, read off the header of a packet that is in a buffer. *)
LEMMA HeaderEnds ==
    ASSUME NEW p \in Packets, p.at % AXI_BEAT = 0, p.len < PACKET_MAX_SIZE
    PROVE  /\ NextByHeader(p) \in Nat
           /\ NextByHeader(p) % AXI_BEAT = 0
           /\ p.at < NextByHeader(p) /\ NextByHeader(p) <= p.at + EntryBytes
<1>1. p = [id |-> p.id, at |-> p.at, len |-> p.len] /\ p.at \in Nat /\ p.len \in Nat
    BY DEF Packets
<1>2. Packet(p.len, p.at, p.id) = p
    BY <1>1, PacketEnds
<1> QED
    BY <1>1, <1>2, PacketEnds

(* The end of what a buffer holds. *)
LEMMA BufferEnds ==
    ASSUME TypeOK, Written, NEW j \in Jobs
    PROVE  /\ EndOf(pkts[j]) \in Nat
           /\ EndOf(pkts[j]) % AXI_BEAT = 0
           /\ EndOf(pkts[j]) <= EntryBytes * Len(pkts[j])
           /\ Len(pkts[j]) > 0 => EndOf(pkts[j]) > 0 /\ EndOf(pkts[j]) <= capacity[j]
<1>1. pkts[j] \in Seq(Packets) /\ Len(pkts[j]) \in Nat
    BY DEF TypeOK
<1>2. CASE Len(pkts[j]) = 0
    BY <1>2, Constants DEF EndOf
<1>3. CASE Len(pkts[j]) > 0
  <2> DEFINE n == Len(pkts[j])
  <2>1. n \in 1 .. n /\ pkts[j][n] \in Packets
      BY <1>1, <1>3
  <2>2. WrittenAt(j, n)
      BY <2>1 DEF Written
  <2>3. EndOf(pkts[j]) = NextByHeader(pkts[j][n])
      BY <1>1, <1>3 DEF EndOf
  <2>4. pkts[j][n].at \in Nat /\ pkts[j][n].at <= EntryBytes * (n - 1)
        /\ NextByHeader(pkts[j][n]) <= capacity[j]
      BY <2>1, <2>2 DEF WrittenAt, Packets
  <2>5. /\ NextByHeader(pkts[j][n]) \in Nat
        /\ NextByHeader(pkts[j][n]) % AXI_BEAT = 0
        /\ pkts[j][n].at < NextByHeader(pkts[j][n])
        /\ NextByHeader(pkts[j][n]) <= pkts[j][n].at + EntryBytes
      BY <2>1, <2>2, HeaderEnds DEF WrittenAt
  <2>6. NextByHeader(pkts[j][n]) <= EntryBytes * n
      BY <2>1, <2>4, <2>5, <1>1, Constants
  <2> QED
      BY <1>3, <2>3, <2>4, <2>5, <2>6
<1> QED
    BY <1>1, <1>2, <1>3

-----------------------------------------------------------------------------
(* The initial states satisfy the invariant. *)
LEMMA InitPInv == Init => PInv
<1> SUFFICES ASSUME Init PROVE PInv
    OBVIOUS
<1> USE NumJobsAssumption DEF Init, Jobs, LastJob, Unset, Null
<1>1. TypeOK
    BY DEF TypeOK
<1>2. file \in Seq(Lengths) /\ Len(file) \in Nat
    BY <1>1, FileIsSeq
<1>3. \A j \in Jobs : Len(pkts[j]) = 0 /\ pkts[j] = <<>>
    OBVIOUS
<1>4. PerJob \in Nat /\ 0 * PerJob = 0
    BY SharesAddUp
<1>5. Untouched /\ Counted /\ Sized
    BY DEF Untouched, Counted, Sized
<1>6. Progress
    BY <1>2, <1>4 DEF Progress
<1>7. Filled
    BY <1>3, <1>4 DEF Filled, Held
<1>8. Written
    BY <1>3 DEF Written
<1>9. AtEnd
    BY <1>3 DEF AtEnd, EndOf
<1>10. Sizes /\ Finished
    BY DEF Sizes, Finished
<1> QED
    BY <1>1, <1>5, <1>6, <1>7, <1>8, <1>9, <1>10 DEF PInv

-----------------------------------------------------------------------------
(* A step that leaves the loop and its buffers as they are keeps what the   *)
(* buffers hold.                                                            *)
LEMMA BuffersKept ==
    ASSUME PInv, UNCHANGED <<file, terminated, pkt_count, capacity,
                             lines_read, curr_job_id, pkt_src, pkts>>
    PROVE  Filled' /\ Written' /\ AtEnd'
<1>1. PerJob' = PerJob
    BY DEF PerJob
<1>2. Filled'
    BY <1>1 DEF PInv, Filled, Held
<1>3. Written'
  <2>1. \A j \in Jobs : \A n \in 1 .. Len(pkts[j]) : WrittenAt(j, n) => WrittenAt(j, n)'
      BY <1>1 DEF WrittenAt, NextByHeader
  <2> QED
      BY <2>1 DEF PInv, Written
<1>4. AtEnd'
    BY DEF PInv, AtEnd, EndOf, NextByHeader
<1> QED
    BY <1>2, <1>3, <1>4

(* fopen fails. *)
LEMMA OpenFailsStep == PInv /\ OpenFails => PInv'
<1> SUFFICES ASSUME PInv, OpenFails PROVE PInv'
    OBVIOUS
<1>1. Filled' /\ Written' /\ AtEnd'
    BY BuffersKept DEF OpenFails
<1>2. TypeOK'
    BY DEF PInv, TypeOK, OpenFails, Return
<1>3. PerJob' = PerJob /\ \A j \in Jobs : EndOf(pkts[j])' = EndOf(pkts[j])
    BY DEF OpenFails, PerJob, EndOf, NextByHeader
<1>4. Untouched' /\ Counted' /\ Sized' /\ Finished'
    BY DEF PInv, Untouched, Counted, Sized, Finished, OpenFails, Return
<1>5. Progress'
    BY <1>3 DEF PInv, Progress, OpenFails, Return
<1>6. Sizes'
    BY <1>3 DEF PInv, Sizes, Untouched, OpenFails, Return
<1> QED
    BY <1>1, <1>2, <1>4, <1>5, <1>6 DEF PInv

(* Nothing is in the buffers while lines_read is 0. *)
LEMMA NothingHeld ==
    ASSUME PInv, pc \in {"open", "alloc", "check"}
    PROVE  /\ lines_read = 0 /\ curr_job_id = 0 /\ pkt_src = 0 /\ ret = "none"
           /\ 0 \in Jobs
           /\ \A j \in Jobs : j \in Nat /\ Len(pkts[j]) = 0
<1>1. lines_read = 0 /\ curr_job_id = 0 /\ pkt_src = 0 /\ ret = "none"
    BY DEF PInv, Untouched
<1>2. PerJob \in Nat /\ 0 * PerJob = 0
    BY SharesAddUp DEF PInv, TypeOK
<1>3. 0 \in Jobs /\ \A j \in Jobs : j \in Nat
    BY NumJobsAssumption DEF Jobs
<1>4. \A j \in Jobs : Len(pkts[j]) = 0
    BY <1>1, <1>2, <1>3 DEF PInv, Filled, Held
<1> QED
    BY <1>1, <1>3, <1>4

(* The first pass: PerJob changes, but nothing has been written yet. *)
LEMMA CountLinesStep == PInv /\ CountLines => PInv'
<1> SUFFICES ASSUME PInv, CountLines PROVE PInv'
    OBVIOUS
<1>1. /\ lines_read = 0 /\ curr_job_id = 0 /\ pkt_src = 0 /\ ret = "none" /\ 0 \in Jobs
      /\ \A j \in Jobs : j \in Nat /\ Len(pkts[j]) = 0
    BY NothingHeld DEF CountLines
<1>2. Len(file) \in Nat /\ LineCount \in Nat /\ pkt_count' = LineCount /\ LineCount' = LineCount
    BY FileIsSeq DEF PInv, Counted, LineCount, CountLines
<1>3. TypeOK'
    BY <1>2 DEF PInv, TypeOK, CountLines, Return
<1>4. PerJob' \in Nat /\ Rest' \in Nat /\ 0 * PerJob' = 0 /\ (0 + 1) * PerJob' = PerJob'
    BY <1>2, NumJobsAssumption DEF PerJob, Rest
<1>5. Untouched' /\ Sized' /\ Finished'
    BY DEF PInv, Untouched, Sized, Finished, CountLines, Return
<1>6. Counted'
  <2>1. ASSUME ~ CountRejected(LineCount) PROVE PerJob' >= 1 /\ LineCount <= MaxPacketCount
      BY <2>1, <1>2, <1>4, LimitAssumption DEF CountRejected, PerJob
  <2> QED
      BY <1>2, <2>1 DEF PInv, Counted, CountLines, Return
<1>7. Progress'
  <2>1. lines_read' = 0 /\ curr_job_id' = 0 /\ pc' # "read" /\ Len(file)' = Len(file)
      BY <1>1 DEF CountLines, Return
  <2>2. curr_job_id' * PerJob' = 0 /\ (curr_job_id' + 1) * PerJob' = PerJob'
      BY <1>4, <2>1
  <2>3. lines_read' <= Len(file)' /\ lines_read' <= PerJob'
      BY <1>2, <1>4, <2>1
  <2> QED
      BY <2>1, <2>2, <2>3 DEF Progress
<1>8. Filled'
    BY <1>1, <1>4 DEF Filled, Held, CountLines
<1>9. Written'
    BY <1>1 DEF Written, CountLines
<1>10. AtEnd'
    BY <1>1 DEF AtEnd, EndOf, CountLines
<1>11. Sizes'
    BY <1>1 DEF PInv, Sizes, CountLines, Return
<1> QED
    BY <1>3, <1>5, <1>6, <1>7, <1>8, <1>9, <1>10, <1>11 DEF PInv

(* The product does not wrap: by the limit on the count. *)
LEMMA BufferBytesFits ==
    ASSUME PInv, pc = "alloc"
    PROVE  BufferBytes + PACKET_HEADER_BYTES = Bytes /\ BufferBytes \in 0 .. IntMax
<1>1. PerJob \in Nat /\ Rest \in Nat /\ pkt_count = LastJob * PerJob + PerJob + Rest
    BY SharesAddUp DEF PInv, TypeOK
<1>2. pkt_count \in Nat /\ pkt_count <= MaxPacketCount
    BY DEF PInv, TypeOK, Counted
<1>3. LastJob * PerJob \in Nat
    BY <1>1, NumJobsAssumption DEF LastJob
<1>4. PerJob + Rest <= MaxPacketCount
    BY <1>1, <1>2, <1>3, LimitAssumption
<1>5. EntryBytes * (PerJob + Rest) \in 0 .. IntMax
  <2>1. EntryBytes = 2064 /\ EntryBytes * MaxPacketCount <= IntMax
      BY Constants, LimitAssumption
  <2>2. PerJob + Rest \in Nat /\ MaxPacketCount \in Nat /\ IntMax \in Nat
      BY <1>1, LimitAssumption
  <2> QED
      BY <1>4, <2>1, <2>2
<1>6. \A n \in 0 .. IntMax : n % (2 * (IntMax + 1)) = n
    BY LimitAssumption
<1> QED
    BY <1>5, <1>6, Constants DEF BufferBytes, Wrapped, Bytes

(* Every buffer is missing or has room for the largest share. *)
LEMMA AllocBuffersStep == PInv /\ AllocBuffers => PInv'
<1> SUFFICES ASSUME PInv, AllocBuffers PROVE PInv'
    OBVIOUS
<1>1. /\ lines_read = 0 /\ curr_job_id = 0 /\ pkt_src = 0 /\ ret = "none" /\ 0 \in Jobs
      /\ \A j \in Jobs : j \in Nat /\ Len(pkts[j]) = 0
    BY NothingHeld DEF AllocBuffers
<1>2. BufferBytes + PACKET_HEADER_BYTES = Bytes /\ BufferBytes \in 0 .. IntMax /\ Bytes \in Nat
    BY BufferBytesFits, Constants, LimitAssumption DEF AllocBuffers
<1>3. capacity' \in [Jobs -> {Null, Bytes}]
    BY <1>2, LimitAssumption DEF AllocBuffers, alloc_mem
<1>4. TypeOK'
    BY <1>2, <1>3 DEF PInv, TypeOK, AllocBuffers
<1>5. PerJob' = PerJob /\ Bytes' = Bytes /\ LineCount' = LineCount
    BY DEF AllocBuffers, PerJob, Rest, Bytes, LineCount
<1>6. Untouched' /\ Finished' /\ Sized' /\ Counted'
    BY <1>3, <1>5 DEF PInv, Untouched, Finished, Sized, Counted, AllocBuffers
<1>7. Progress'
    BY <1>5 DEF PInv, Progress, AllocBuffers
<1>8. Filled'
    BY <1>5 DEF PInv, Filled, Held, AllocBuffers
<1>9. Written'
    BY <1>1 DEF Written, AllocBuffers
<1>10. AtEnd'
    BY <1>1 DEF AtEnd, EndOf, AllocBuffers
<1>11. Sizes'
    BY <1>1 DEF PInv, Sizes, AllocBuffers
<1> QED
    BY <1>4, <1>6, <1>7, <1>8, <1>9, <1>10, <1>11 DEF PInv

(* Reading starts with all buffers there, or the call ends with sizes 0 or unset. *)
LEMMA CheckBuffersStep == PInv /\ CheckBuffers => PInv'
<1> SUFFICES ASSUME PInv, CheckBuffers PROVE PInv'
    OBVIOUS
<1>1. /\ lines_read = 0 /\ curr_job_id = 0 /\ pkt_src = 0 /\ ret = "none" /\ 0 \in Jobs
      /\ \A j \in Jobs : j \in Nat /\ Len(pkts[j]) = 0
    BY NothingHeld DEF CheckBuffers
<1>2. Filled' /\ Written' /\ AtEnd'
    BY BuffersKept DEF CheckBuffers
<1>3. job_sizes' \in [Jobs -> {0, Unset}]
    BY <1>1 DEF PInv, TypeOK, Sizes, CheckBuffers
<1>4. TypeOK'
    BY <1>3 DEF PInv, TypeOK, CheckBuffers, Return
<1>5. PerJob' = PerJob /\ Bytes' = Bytes /\ LineCount' = LineCount
    BY DEF CheckBuffers, PerJob, Rest, Bytes, LineCount
<1>6. Untouched' /\ Finished' /\ Sized' /\ Counted'
    BY <1>5 DEF PInv, Untouched, Finished, Sized, Counted, CheckBuffers, Return
<1>7. Progress'
  <2>1. pkt_count \in Nat
      BY DEF PInv, TypeOK
  <2> QED
      BY <1>1, <1>5, <2>1 DEF PInv, Progress, CheckBuffers, Return
<1>8. Sizes'
    BY <1>1, <1>3 DEF PInv, Sizes, CheckBuffers, Return
<1> QED
    BY <1>2, <1>4, <1>6, <1>7, <1>8 DEF PInv

-----------------------------------------------------------------------------
(* The job a round writes to, once it has been switched: it holds what the  *)
(* earlier jobs' shares leave, and there is room for one more line.         *)
LEMMA Switched ==
    ASSUME PInv, pc = "read", lines_read < Len(file)
    PROVE  /\ WriteJob \in Jobs /\ PerJob \in Nat /\ PerJob >= 1
           /\ WriteJob * PerJob \in Nat /\ WriteJob * PerJob <= lines_read
           /\ \A j \in Jobs : Len(pkts[j]) =
                 IF j < WriteJob THEN PerJob
                 ELSE IF j = WriteJob THEN lines_read - WriteJob * PerJob ELSE 0
           /\ WriteAt = EndOf(pkts[WriteJob])
           /\ WriteJob # LastJob => lines_read + 1 <= (WriteJob + 1) * PerJob
           /\ ~ NewlineMissing => lines_read + 1 <= pkt_count
<1>1. /\ PerJob \in Nat /\ PerJob >= 1 /\ lines_read \in Nat /\ pkt_count \in Nat
      /\ curr_job_id \in Jobs /\ curr_job_id \in Nat
      /\ Len(file) \in Nat /\ pkt_count = LineCount
    BY SharesAddUp, FileIsSeq DEF PInv, TypeOK, Counted, Jobs
<1>2. /\ curr_job_id * PerJob \in Nat /\ curr_job_id * PerJob <= lines_read
      /\ curr_job_id # LastJob => lines_read <= (curr_job_id + 1) * PerJob
      /\ (curr_job_id + 1) * PerJob = curr_job_id * PerJob + PerJob
    BY <1>1 DEF PInv, Progress
<1>3. \A j \in Jobs : j \in Nat /\ Len(pkts[j]) =
         IF j < curr_job_id THEN PerJob
         ELSE IF j = curr_job_id THEN lines_read - curr_job_id * PerJob ELSE 0
    BY DEF PInv, Filled, Held, Jobs
<1>4. ~ NewlineMissing => lines_read + 1 <= pkt_count
    BY <1>1 DEF NewlineMissing, LineCount
<1>5. CASE SwitchesJob
  <2>1. /\ WriteJob = curr_job_id + 1 /\ WriteJob \in Jobs /\ WriteAt = 0
        /\ lines_read = WriteJob * PerJob
      BY <1>1, <1>5, NumJobsAssumption DEF SwitchesJob, WriteJob, WriteAt, Jobs, LastJob
  <2>2. (WriteJob + 1) * PerJob = WriteJob * PerJob + PerJob /\ WriteJob * PerJob \in Nat
      BY <1>1, <2>1
  <2>3. Len(pkts[curr_job_id]) = PerJob
      BY <1>1, <1>2, <1>3, <2>1
  <2>4. Len(pkts[WriteJob]) = 0 /\ EndOf(pkts[WriteJob]) = 0
      BY <1>1, <1>3, <2>1 DEF EndOf
  <2>5. \A j \in Jobs : Len(pkts[j]) =
                 IF j < WriteJob THEN PerJob
                 ELSE IF j = WriteJob THEN lines_read - WriteJob * PerJob ELSE 0
      BY <1>1, <1>3, <2>1, <2>2, <2>3, <2>4
  <2> QED
      BY <1>1, <1>4, <2>1, <2>2, <2>4, <2>5
<1>6. CASE ~ SwitchesJob
  <2>1. WriteJob = curr_job_id /\ WriteAt = pkt_src
      BY <1>6 DEF WriteJob, WriteAt
  <2>2. curr_job_id # LastJob => lines_read + 1 <= (curr_job_id + 1) * PerJob
      BY <1>1, <1>2, <1>6 DEF SwitchesJob
  <2> QED
      BY <1>1, <1>2, <1>3, <1>4, <2>1, <2>2 DEF PInv, AtEnd
<1> QED
    BY <1>5, <1>6

(* What is common to the rounds that end the call and the one that writes:  *)
(* sizes, counters, types of the loop.                                      *)
LEMMA SwitchedSizes ==
    ASSUME PInv, pc = "read", lines_read < Len(file)
    PROVE  /\ SizesAtSwitch \in [Jobs -> Nat \cup {Unset}]
           /\ \A j \in Jobs :
                 /\ j < WriteJob  => SizesAtSwitch[j] = EndOf(pkts[j])
                 /\ j >= WriteJob => SizesAtSwitch[j] \in {0, Unset}
<1>1. /\ job_sizes \in [Jobs -> Nat \cup {Unset}] /\ pkt_src \in Nat
      /\ curr_job_id \in Jobs /\ Jobs \subseteq Nat /\ ret # "ok"
    BY DEF PInv, TypeOK, Jobs, Finished
<1>2. \A j \in Jobs :
          /\ j < curr_job_id  => job_sizes[j] = EndOf(pkts[j])
          /\ j >= curr_job_id => job_sizes[j] \in {0, Unset}
    BY <1>1 DEF PInv, Sizes
<1>3. pkt_src = EndOf(pkts[curr_job_id])
    BY DEF PInv, AtEnd
<1>4. CASE SwitchesJob
  <2>1. WriteJob = curr_job_id + 1 /\ SizesAtSwitch = [job_sizes EXCEPT ![curr_job_id] = pkt_src]
      BY <1>4 DEF WriteJob, SizesAtSwitch
  <2>2. SizesAtSwitch \in [Jobs -> Nat \cup {Unset}]
      BY <1>1, <2>1
  <2>3. \A j \in Jobs : SizesAtSwitch[j] = IF j = curr_job_id THEN pkt_src ELSE job_sizes[j]
      BY <1>1, <2>1
  <2>4. \A j \in Jobs : (j < WriteJob <=> j < curr_job_id \/ j = curr_job_id)
                        /\ (j >= WriteJob <=> j >= curr_job_id /\ j # curr_job_id)
      BY <1>1, <2>1
  <2> QED
      BY <1>2, <1>3, <2>2, <2>3, <2>4
<1>5. CASE ~ SwitchesJob
    BY <1>1, <1>2, <1>5 DEF WriteJob, SizesAtSwitch
<1> QED
    BY <1>4, <1>5

(* A round that ends the call: the job may have been switched, no packet is *)
(* written.                                                                 *)
Ends ==
    /\ pc = "read" /\ lines_read < Len(file)
    /\ job_sizes' = SizesAtSwitch /\ curr_job_id' = WriteJob /\ pkt_src' = WriteAt
    /\ pc' = "done" /\ ret' \in {"exit", "error"}
    /\ UNCHANGED <<file, terminated, pkt_count, capacity, lines_read, pkts>>

(* Such a round keeps the invariant: the switched-to job is still empty. *)
LEMMA EndsStep == PInv /\ Ends => PInv'
<1> SUFFICES ASSUME PInv, Ends PROVE PInv'
    OBVIOUS
<1>1. /\ WriteJob \in Jobs /\ PerJob \in Nat /\ PerJob >= 1
      /\ WriteJob * PerJob <= lines_read
      /\ \A j \in Jobs : Len(pkts[j]) =
            IF j < WriteJob THEN PerJob
            ELSE IF j = WriteJob THEN lines_read - WriteJob * PerJob ELSE 0
      /\ WriteAt = EndOf(pkts[WriteJob])
      /\ WriteJob # LastJob => lines_read + 1 <= (WriteJob + 1) * PerJob
    BY Switched DEF Ends
<1>2. PerJob' = PerJob
    BY DEF Ends, PerJob
<1>3. WriteAt \in Nat
    BY <1>1, BufferEnds DEF PInv
<1>4. TypeOK'
    BY <1>1, <1>3, SwitchedSizes DEF PInv, TypeOK, Ends
<1>5. Untouched' /\ Counted' /\ Sized' /\ Finished'
    BY DEF PInv, Untouched, Counted, Sized, Finished, Ends
<1>6. Progress'
  <2>1. lines_read \in Nat /\ Len(file) \in Nat /\ WriteJob \in Nat /\ (WriteJob + 1) * PerJob \in Nat
      BY <1>1, FileIsSeq DEF PInv, TypeOK, Jobs
  <2> QED
      BY <1>1, <1>2, <2>1 DEF PInv, Progress, Ends
<1>7. Filled'
    BY <1>1, <1>2 DEF Filled, Held, Ends
<1>8. Written'
  <2>1. \A j \in Jobs : \A n \in 1 .. Len(pkts[j]) : WrittenAt(j, n) => WrittenAt(j, n)'
      BY <1>2 DEF WrittenAt, NextByHeader, Ends
  <2> QED
      BY <2>1 DEF PInv, Written, Ends
<1>9. \A j \in Jobs : EndOf(pkts[j])' = EndOf(pkts[j])
    BY DEF EndOf, NextByHeader, Ends
<1>10. AtEnd'
    BY <1>1 DEF AtEnd, EndOf, NextByHeader, Ends
<1>11. Sizes'
    BY <1>1, <1>2, <1>9, SwitchedSizes DEF Sizes, Ends
<1> QED
    BY <1>4, <1>5, <1>6, <1>7, <1>8, <1>10, <1>11 DEF PInv

(* A round that writes a packet: it fits behind those of its job.           *)
LinePacket == Packet(file[lines_read + 1], WriteAt, lines_read + 1)
Writes ==
    /\ pc = "read" /\ lines_read < Len(file)
    /\ job_sizes' = SizesAtSwitch /\ curr_job_id' = WriteJob
    /\ ~ NewlineMissing /\ ~ TooLong
    /\ pkts' = [pkts EXCEPT ![WriteJob] = Append(@, LinePacket)]
    /\ pkt_src' = PacketEnd(file[lines_read + 1], WriteAt)
    /\ lines_read' = lines_read + 1
    /\ UNCHANGED <<pc, ret, file, terminated, pkt_count, capacity>>

(* The packet, its place and its end. *)
LEMMA NewPacket ==
    ASSUME PInv, Writes
    PROVE  /\ LinePacket \in Packets
           /\ LinePacket.id = lines_read + 1 /\ LinePacket.at = WriteAt
           /\ LinePacket.len = file[lines_read + 1] /\ LinePacket.len < PACKET_MAX_SIZE
           /\ WriteAt \in Nat /\ WriteAt % AXI_BEAT = 0
           /\ WriteAt <= EntryBytes * (lines_read - WriteJob * PerJob)
           /\ NextByHeader(LinePacket) = pkt_src' /\ pkt_src' \in Nat
           /\ pkt_src' <= capacity[WriteJob]
<1>1. /\ WriteJob \in Jobs /\ PerJob \in Nat /\ Rest \in Nat
      /\ WriteJob * PerJob \in Nat /\ WriteJob * PerJob <= lines_read
      /\ Len(pkts[WriteJob]) = lines_read - WriteJob * PerJob
      /\ WriteAt = EndOf(pkts[WriteJob])
      /\ WriteJob # LastJob => lines_read + 1 <= (WriteJob + 1) * PerJob
      /\ lines_read + 1 <= pkt_count /\ pkt_count \in Nat
      /\ pkt_count = LastJob * PerJob + PerJob + Rest
      /\ lines_read \in Nat
    BY Switched, SharesAddUp DEF Writes, PInv, TypeOK, Jobs
<1>2. /\ WriteAt \in Nat /\ WriteAt % AXI_BEAT = 0
      /\ WriteAt <= EntryBytes * (lines_read - WriteJob * PerJob)
    BY <1>1, BufferEnds DEF PInv
<1>3. file[lines_read + 1] \in Nat /\ file[lines_read + 1] < PACKET_MAX_SIZE
    BY <1>1, FileIsSeq, Constants DEF Writes, TooLong, PInv
<1>4. /\ LinePacket = [id |-> lines_read + 1, at |-> WriteAt, len |-> file[lines_read + 1]]
      /\ NextByHeader(LinePacket) = pkt_src' /\ pkt_src' \in Nat
      /\ pkt_src' <= WriteAt + EntryBytes
    BY <1>2, <1>3, PacketEnds DEF Writes, LinePacket
<1>5. lines_read + 1 - WriteJob * PerJob <= PerJob + Rest
  <2>1. CASE WriteJob = LastJob
      BY <1>1, <2>1
  <2>2. CASE WriteJob # LastJob
    <3>1. (WriteJob + 1) * PerJob = WriteJob * PerJob + PerJob
        BY <1>1 DEF Jobs
    <3> QED
        BY <1>1, <2>2, <3>1
  <2> QED
      BY <2>1, <2>2
<1>6. pkt_src' <= capacity[WriteJob]
  <2>1. capacity[WriteJob] = 2064 * (PerJob + Rest) + 16
      BY <1>1, Constants DEF PInv, Sized, Writes, Bytes
  <2> DEFINE n == lines_read - WriteJob * PerJob
  <2>2. n \in Nat /\ n + 1 <= PerJob + Rest
      BY <1>1, <1>5
  <2>3. pkt_src' <= 2064 * n + 2064
      BY <1>2, <1>4, <2>2, Constants
  <2> QED
      BY <1>1, <1>4, <2>1, <2>2, <2>3
<1> QED
    BY <1>1, <1>2, <1>3, <1>4, <1>6 DEF Packets

(* Writing keeps the invariant: the packet is the next one of its job. *)
LEMMA WritesStep == PInv /\ Writes => PInv'
<1> SUFFICES ASSUME PInv, Writes PROVE PInv'
    OBVIOUS
<1> DEFINE held == lines_read - WriteJob * PerJob
<1>1. /\ WriteJob \in Jobs /\ WriteJob \in Nat /\ PerJob \in Nat /\ PerJob >= 1
      /\ WriteJob * PerJob \in Nat /\ WriteJob * PerJob <= lines_read
      /\ lines_read \in Nat /\ held \in Nat
      /\ Len(pkts[WriteJob]) = held
      /\ \A j \in Jobs : j \in Nat
      /\ \A j \in Jobs : j # WriteJob =>
            Len(pkts[j]) = IF j < WriteJob THEN PerJob ELSE 0
      /\ WriteAt = EndOf(pkts[WriteJob])
      /\ WriteJob # LastJob => lines_read + 1 <= (WriteJob + 1) * PerJob
      /\ lines_read + 1 <= pkt_count
    BY Switched DEF Writes, PInv, TypeOK, Jobs
<1>2. /\ LinePacket \in Packets
      /\ LinePacket.id = lines_read + 1 /\ LinePacket.at = WriteAt
      /\ LinePacket.len = file[lines_read + 1] /\ LinePacket.len < PACKET_MAX_SIZE
      /\ WriteAt \in Nat /\ WriteAt % AXI_BEAT = 0
      /\ WriteAt <= EntryBytes * held
      /\ NextByHeader(LinePacket) = pkt_src' /\ pkt_src' \in Nat
      /\ pkt_src' <= capacity[WriteJob]
    BY NewPacket
<1>3. PerJob' = PerJob
    BY DEF Writes, PerJob
<1>4. pkts \in [Jobs -> Seq(Packets)] /\ pkts[WriteJob] \in Seq(Packets)
    BY <1>1 DEF PInv, TypeOK
<1>5. \A j \in Jobs : j # WriteJob => pkts'[j] = pkts[j]
    BY <1>4 DEF Writes
<1>6. /\ pkts'[WriteJob] = Append(pkts[WriteJob], LinePacket)
      /\ Len(pkts'[WriteJob]) = held + 1
      /\ pkts'[WriteJob][held + 1] = LinePacket
      /\ \A n \in 1 .. held : pkts'[WriteJob][n] = pkts[WriteJob][n]
  <2>1. pkts'[WriteJob] = Append(pkts[WriteJob], LinePacket)
      BY <1>1, <1>4 DEF Writes
  <2>2. Len(pkts[WriteJob]) = held
      BY <1>1
  <2> HIDE DEF held
  <2> QED
      BY <1>1, <1>2, <1>4, <2>1, <2>2
<1>7. TypeOK'
  <2>1. pkts' \in [Jobs -> Seq(Packets)]
      BY <1>1, <1>2, <1>4, AppendProperties DEF Writes
  <2>2. job_sizes' \in [Jobs -> Nat \cup {Unset}]
      BY SwitchedSizes DEF Writes
  <2>3. curr_job_id' \in Jobs /\ pkt_src' \in Nat /\ lines_read' \in Nat
      BY <1>1, <1>2 DEF Writes
  <2> QED
      BY <2>1, <2>2, <2>3 DEF PInv, TypeOK, Writes
<1>8. Untouched' /\ Counted' /\ Sized' /\ Finished'
  <2>1. LineCount' = LineCount /\ Bytes' = Bytes
      BY DEF Writes, LineCount, Bytes, PerJob, Rest
  <2> QED
      BY <1>3, <2>1 DEF PInv, Untouched, Counted, Sized, Finished, Writes
<1>9. Progress'
  <2>1. lines_read + 1 <= Len(file)
      BY <1>1, FileIsSeq DEF Writes, PInv
  <2> QED
      BY <1>1, <1>3, <2>1 DEF Progress, Writes
<1>10. Filled'
  <2>1. held + 1 = lines_read' - curr_job_id' * PerJob'
      BY <1>1, <1>3 DEF Writes
  <2> HIDE DEF held
  <2>2. \A j \in Jobs : j # WriteJob =>
           Len(pkts'[j]) = IF j < WriteJob THEN PerJob ELSE 0
      BY <1>1, <1>5
  <2> QED
      BY <1>1, <1>3, <1>6, <2>1, <2>2 DEF Filled, Held, Writes
<1>11. Written'
  <2> SUFFICES ASSUME NEW j \in Jobs, NEW n \in 1 .. Len(pkts'[j])
               PROVE  WrittenAt(j, n)'
      BY DEF Written
  <2>1. /\ WrittenAt(j, n)' <=>
            /\ pkts'[j][n].at % AXI_BEAT = 0
            /\ pkts'[j][n].at <= EntryBytes * (n - 1)
            /\ pkts'[j][n].at = IF n = 1 THEN 0 ELSE NextByHeader(pkts'[j][n - 1])
            /\ pkts'[j][n].len < PACKET_MAX_SIZE
            /\ pkts'[j][n].id = j * PerJob + n
            /\ pkts'[j][n].len = file[j * PerJob + n]
            /\ NextByHeader(pkts'[j][n]) <= capacity[j]
      BY <1>3 DEF WrittenAt, NextByHeader, Writes
  <2>2. CASE j # WriteJob
      BY <1>5, <2>1, <2>2 DEF PInv, Written, WrittenAt
  <2>3. CASE j = WriteJob /\ n # held + 1
    <3> HIDE DEF held
    <3>1. n \in 1 .. held /\ held = Len(pkts[j]) /\ (n # 1 => n - 1 \in 1 .. held)
        BY <1>1, <1>6, <2>3
    <3>2. WrittenAt(j, n)
        BY <3>1 DEF PInv, Written
    <3> QED
        BY <1>6, <2>1, <2>3, <3>1, <3>2 DEF WrittenAt
  <2>4. CASE j = WriteJob /\ n = held + 1
    <3>1. WriteJob * PerJob + n = lines_read + 1
        BY <1>1, <2>4
    <3> HIDE DEF held
    <3>2. WriteAt = IF n = 1 THEN 0 ELSE NextByHeader(pkts'[j][n - 1])
      <4>1. Len(pkts[WriteJob]) = held
          BY <1>1
      <4>2. held # 0 => held \in 1 .. held
          BY <1>1
      <4> QED
          BY <1>1, <1>6, <2>4, <4>1, <4>2 DEF EndOf
    <3>3. n - 1 = held
        BY <1>1, <2>4
    <3> QED
        BY <1>2, <1>6, <2>1, <2>4, <3>1, <3>2, <3>3
  <2> QED
      BY <2>2, <2>3, <2>4
<1>12. AtEnd'
  <2> HIDE DEF held
  <2>1. EndOf(pkts[curr_job_id])' = NextByHeader(LinePacket)
      BY <1>1, <1>6 DEF EndOf, NextByHeader, Writes
  <2> QED
      BY <1>2, <2>1 DEF AtEnd
<1>13. Sizes'
  <2>1. \A j \in Jobs : j < WriteJob => j # WriteJob
      BY <1>1
  <2>2. \A j \in Jobs : j < WriteJob => EndOf(pkts[j])' = EndOf(pkts[j])
      BY <1>5, <2>1 DEF EndOf, NextByHeader
  <2> QED
      BY <1>1, <1>3, <2>2, SwitchedSizes DEF Sizes, Writes
<1> QED
    BY <1>7, <1>8, <1>9, <1>10, <1>11, <1>12, <1>13 DEF PInv

(* The end of the file: every line counted has been read, so that the last  *)
(* job has been switched to.                                                *)
LEMMA EndOfFileStep == PInv /\ EndOfFile => PInv'
<1> SUFFICES ASSUME PInv, EndOfFile PROVE PInv'
    OBVIOUS
<1>1. /\ PerJob \in Nat /\ PerJob >= 1 /\ Rest \in Nat
      /\ pkt_count = LastJob * PerJob + PerJob + Rest
      /\ curr_job_id \in Jobs /\ curr_job_id \in Nat /\ LastJob \in Nat /\ LastJob \in Jobs
      /\ curr_job_id <= LastJob
    BY SharesAddUp, NumJobsAssumption DEF PInv, TypeOK, Counted, EndOfFile, Jobs, LastJob
<1>2. lines_read = pkt_count /\ Len(file) \in Nat
    BY FileIsSeq DEF PInv, Progress, Counted, LineCount, TypeOK, EndOfFile
<1>3. curr_job_id = LastJob
  <2> SUFFICES ASSUME curr_job_id < LastJob PROVE FALSE
      BY <1>1
  <2>1. (curr_job_id + 1) * PerJob <= LastJob * PerJob
    <3>1. PICK d \in Nat : LastJob = (curr_job_id + 1) + d
      <4>1. LastJob - (curr_job_id + 1) \in Nat
          BY <1>1
      <4> QED
          BY <1>1, <4>1
    <3>2. ((curr_job_id + 1) + d) * PerJob = (curr_job_id + 1) * PerJob + d * PerJob
        BY <1>1
    <3>3. d * PerJob \in Nat /\ (curr_job_id + 1) * PerJob \in Nat
        BY <1>1
    <3> QED
        BY <3>1, <3>2, <3>3
  <2>2. LastJob * PerJob \in Nat /\ (curr_job_id + 1) * PerJob \in Nat
      BY <1>1
  <2>3. lines_read <= (curr_job_id + 1) * PerJob
      BY <1>1 DEF PInv, Progress
  <2> QED
      BY <1>1, <1>2, <2>1, <2>2, <2>3
<1>4. Filled' /\ Written' /\ AtEnd'
    BY BuffersKept DEF EndOfFile
<1>5. pkt_src \in Nat /\ job_sizes \in [Jobs -> Nat \cup {Unset}] /\ pkt_src = EndOf(pkts[curr_job_id])
    BY DEF PInv, TypeOK, AtEnd
<1>6. TypeOK'
    BY <1>1, <1>5 DEF PInv, TypeOK, EndOfFile, Return
<1>7. PerJob' = PerJob /\ Rest' = Rest
    BY DEF EndOfFile, PerJob, Rest
<1>8. Untouched' /\ Counted' /\ Sized'
    BY DEF PInv, Untouched, Counted, Sized, EndOfFile, Return
<1>9. Progress'
    BY <1>7 DEF PInv, Progress, EndOfFile, Return
<1>10. Sizes'
  <2>1. \A j \in Jobs : j < curr_job_id => job_sizes'[j] = job_sizes[j]
      BY <1>1, <1>5 DEF EndOfFile
  <2>2. \A j \in Jobs : EndOf(pkts[j])' = EndOf(pkts[j])
      BY DEF EndOf, NextByHeader, EndOfFile
  <2> QED
      BY <1>7, <2>1, <2>2 DEF PInv, Sizes, EndOfFile, Return
<1>11. Finished'
  <2>1. Len(pkts[LastJob]) = lines_read - LastJob * PerJob
      BY <1>1, <1>3 DEF PInv, Filled, Held
  <2>2. Len(pkts[LastJob]) = PerJob + Rest
      BY <1>1, <1>2, <2>1
  <2>3. job_sizes'[LastJob] = pkt_src
      BY <1>1, <1>3, <1>5 DEF EndOfFile
  <2> QED
      BY <1>1, <1>2, <1>3, <1>7, <2>2, <2>3 DEF Finished, EndOfFile, Return
<1> QED
    BY <1>4, <1>6, <1>8, <1>9, <1>10, <1>11 DEF PInv

-----------------------------------------------------------------------------
(* The invariant holds of every behaviour of the call. *)
LEMMA StepPInv == PInv /\ [Next]_vars => PInv'
<1> SUFFICES ASSUME PInv, [Next]_vars PROVE PInv'
    OBVIOUS
<1>1. CASE OpenFails
    BY <1>1, OpenFailsStep
<1>2. CASE CountLines
    BY <1>2, CountLinesStep
<1>3. CASE AllocBuffers
    BY <1>3, AllocBuffersStep
<1>4. CASE CheckBuffers
    BY <1>4, CheckBuffersStep
<1>5. CASE ReadLine
  <2>1. Ends \/ Writes
      BY <1>5 DEF ReadLine, Ends, Writes, LinePacket, Return
  <2> QED
      BY <2>1, EndsStep, WritesStep
<1>6. CASE EndOfFile
    BY <1>6, EndOfFileStep
<1>7. CASE UNCHANGED vars
  <2>1. Filled' /\ Written' /\ AtEnd'
      BY <1>7, BuffersKept DEF vars
  <2>2. PerJob' = PerJob /\ Bytes' = Bytes /\ LineCount' = LineCount
      BY <1>7 DEF vars, PerJob, Rest, Bytes, LineCount
  <2>3. TypeOK' /\ Untouched' /\ Counted' /\ Sized'
      BY <1>7, <2>2 DEF PInv, TypeOK, Untouched, Counted, Sized, vars
  <2>4. Progress'
      BY <1>7, <2>2 DEF PInv, Progress, vars
  <2>5. Sizes'
    <3>1. \A j \in Jobs : EndOf(pkts[j])' = EndOf(pkts[j])
        BY <1>7 DEF vars, EndOf, NextByHeader
    <3> QED
        BY <1>7, <2>2, <3>1 DEF PInv, Sizes, vars
  <2>6. Finished'
    <3>1. Rest' = Rest
        BY <1>7 DEF vars, Rest
    <3> QED
        BY <1>7, <2>2, <3>1 DEF PInv, Finished, vars
  <2> QED
      BY <2>1, <2>3, <2>4, <2>5, <2>6 DEF PInv
<1> QED
    BY <1>1, <1>2, <1>3, <1>4, <1>5, <1>6, <1>7 DEF Next, Returned

(* The invariant behind the properties of the parser. *)
THEOREM Invariance == Spec => []PInv
BY InitPInv, StepPInv, PTL DEF Spec

(* The types of the parser's variables. *)
THEOREM TypesHold == Spec => []TypeOK
<1>1. PInv => TypeOK
    BY DEF PInv
<1> QED
    BY <1>1, Invariance, PTL

(* For every number of jobs, every file and every set of line lengths, no   *)
(* packet is written past the end of its job's buffer.                      *)
THEOREM BuffersNeverOverflow == Spec => []NoOverflow
<1>1. PInv => NoOverflow
  <2> SUFFICES ASSUME PInv PROVE NoOverflow
      OBVIOUS
  <2>1. pc = "read" => pkt_src <= capacity[curr_job_id]
    <3> SUFFICES ASSUME pc = "read" PROVE pkt_src <= capacity[curr_job_id]
        OBVIOUS
    <3>1. curr_job_id \in Jobs /\ pkt_src = EndOf(pkts[curr_job_id])
        BY DEF PInv, TypeOK, AtEnd
    <3>2. CASE Len(pkts[curr_job_id]) > 0
        BY <3>1, <3>2, BufferEnds DEF PInv
    <3>3. CASE Len(pkts[curr_job_id]) = 0
      <4>1. capacity[curr_job_id] = Bytes /\ pkt_src = 0
          BY <3>1, <3>3 DEF PInv, Sized, EndOf
      <4>2. PerJob \in Nat /\ Rest \in Nat
          BY SharesAddUp DEF PInv, TypeOK
      <4> QED
          BY <4>1, <4>2, Constants DEF Bytes
    <3>4. Len(pkts[curr_job_id]) \in Nat
        BY <3>1 DEF PInv, TypeOK
    <3> QED
        BY <3>2, <3>3, <3>4
  <2>2. \A j \in Jobs : \A k \in 1 .. Len(pkts[j]) : NextByHeader(pkts[j][k]) <= capacity[j]
      BY DEF PInv, Written, WrittenAt
  <2> QED
      BY <2>1, <2>2 DEF NoOverflow
<1> QED
    BY <1>1, Invariance, PTL

(* Buffers can be walked by the lengths in their headers, at every moment.  *)
THEOREM HeadersLeadOn == Spec => []WalkedByLength
<1>1. PInv => WalkedByLength
    BY DEF PInv, Written, WrittenAt, WalkedByLength
<1> QED
    BY <1>1, Invariance, PTL

(* The id of a packet names the line it came from. *)
THEOREM PacketsNameLines == Spec => []IdsNameLines
<1>1. PInv => IdsNameLines
    BY DEF PInv, Written, WrittenAt, IdsNameLines
<1> QED
    BY <1>1, Invariance, PTL

(* A job's size is published with its whole share only. *)
THEOREM OnlyWholeShares == Spec => []PublishedSizeIsWhole
<1>1. PInv => PublishedSizeIsWhole
  <2> SUFFICES ASSUME PInv, NEW j \in Jobs, job_sizes[j] \in Nat \ {0}
               PROVE  Len(pkts[j]) = Share(j) /\ job_sizes[j] = NextByHeader(pkts[j][Len(pkts[j])])
      BY DEF PublishedSizeIsWhole
  <2>1. /\ curr_job_id \in Nat /\ curr_job_id <= LastJob /\ LastJob \in Nat
        /\ j \in Nat /\ j <= LastJob /\ PerJob \in Nat /\ Rest \in Nat
      BY NumJobsAssumption, SharesAddUp DEF PInv, TypeOK, Jobs, LastJob
  <2>2. CASE j < curr_job_id
    <3>1. PerJob >= 1 /\ job_sizes[j] = EndOf(pkts[j]) /\ Len(pkts[j]) = PerJob /\ j # LastJob
        BY <2>1, <2>2 DEF PInv, Sizes, Filled, Held
    <3> QED
        BY <2>1, <3>1 DEF EndOf, Share
  <2>3. CASE j >= curr_job_id
    <3>1. ret = "ok"
        BY <2>3 DEF PInv, Sizes, Unset
    <3>2. j = LastJob /\ Len(pkts[j]) = PerJob + Rest /\ PerJob >= 1
          /\ job_sizes[j] = EndOf(pkts[j])
        BY <2>1, <2>3, <3>1 DEF PInv, Finished, AtEnd
    <3> QED
        BY <2>1, <3>2 DEF EndOf, Share
  <2> QED
      BY <2>1, <2>2, <2>3
<1> QED
    BY <1>1, Invariance, PTL

(* A call that succeeds has read the file to its end, given every job a     *)
(* share and published every size.                                          *)
THEOREM SuccessIsComplete == Spec => []SuccessCoversFile
<1>1. PInv => SuccessCoversFile
  <2> SUFFICES ASSUME PInv, ret = "ok" PROVE SuccessCoversFile
      BY DEF SuccessCoversFile
  <2>1. curr_job_id = LastJob /\ lines_read = Len(file) /\ PerJob >= 1
        /\ Len(pkts[LastJob]) = PerJob + Rest /\ job_sizes[LastJob] = pkt_src
      BY DEF PInv, Finished
  <2>2. PerJob \in Nat /\ Rest \in Nat
      BY SharesAddUp DEF PInv, TypeOK
  <2>3. \A j \in Jobs : j \in Nat /\ j <= LastJob /\ LastJob \in Nat
      BY NumJobsAssumption DEF Jobs, LastJob
  <2>4. ASSUME NEW j \in Jobs
        PROVE  Len(pkts[j]) = Share(j) /\ Share(j) > 0 /\ job_sizes[j] = EndOf(pkts[j])
    <3>1. CASE j = LastJob
        BY <2>1, <2>2, <3>1 DEF Share, PInv, AtEnd
    <3>2. CASE j # LastJob
        BY <2>1, <2>2, <2>3, <3>2 DEF Share, PInv, Filled, Held, Sizes
    <3> QED
        BY <3>1, <3>2
  <2>5. \A j \in Jobs : job_sizes[j] > 0
      BY <2>4, BufferEnds DEF PInv
  <2> QED
      BY <2>1, <2>4, <2>5 DEF SuccessCoversFile
<1> QED
    BY <1>1, Invariance, PTL
=============================================================================
