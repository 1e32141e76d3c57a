---------------------------- MODULE PacketParse ----------------------------
(***************************************************************************)
(* Splitting a packet file over jobs: csre_parse_packet of                 *)
(* runtime/common/compile.cpp together with packet_parse_file and          *)
(* fill_one_packet of core/core.c.                                         *)
(*                                                                         *)
(* The function counts the lines of the file, allocates one buffer per job *)
(* from that count, reads the file a second time and writes each line, as  *)
(* a packet with a header, behind the previous one in the buffer of the    *)
(* current job.  A packet's bytes are abstracted to its identifier, the    *)
(* offset it is written at and the length its header carries; a line of    *)
(* the file is abstracted to its length.                                   *)
(***************************************************************************)
EXTENDS Integers, Sequences

CONSTANTS
    NumJobs,            \* number_of_kernels
    MaxPacketCount,     \* MAX_PACKET_COUNT, 1024000 in constants.h
    IntMax,             \* INT_MAX of the build, 2147483647
    Lengths,            \* line lengths a file may have
    MaxLines            \* bound on the lines of a file

PACKET_HEADER_BYTES == 16   \* preamble 4, length 2, reserve 6, id 4
PACKET_MAX_SIZE     == 2048
AXI_BEAT            == 16   \* AXI4_IF_DATA_WIDTH_BYTES
LEN_FIELD           == 4096 \* the header keeps 8 + 4 bits of the length

(* csre_align, and the padding loop of fill_one_packet for a page-aligned base *)
csre_align(n) == IF n % AXI_BEAT = 0 THEN n ELSE n + (AXI_BEAT - (n % AXI_BEAT))

EntryBytes == csre_align(PACKET_HEADER_BYTES + PACKET_MAX_SIZE)

ASSUME NumJobsAssumption == NumJobs \in Nat \ {0}
ASSUME LengthsAssumption == Lengths \subseteq Nat /\ MaxLines \in Nat
(* The product in compile.cpp:66 is an int: it must not wrap at the limit. *)
ASSUME LimitAssumption ==
    /\ MaxPacketCount \in Nat
    /\ IntMax \in Nat
    /\ EntryBytes * MaxPacketCount <= IntMax

Jobs    == 0 .. NumJobs - 1
LastJob == NumJobs - 1
Null    == -1     \* a buffer posix_memalign did not give
Unset   == -1     \* a job size nobody has written: the caller mallocs the array

VARIABLES
    file,         \* the lines of the file, by length
    terminated,   \* the last line ends in a newline
    pc,           \* where the call is
    ret,          \* its outcome: "none" until it returns, "exit" for exit(3)
    pkt_count,    \* lines counted in the first pass
    capacity,     \* bytes of each job's buffer
    job_sizes,    \* the sizes handed back, one per job
    lines_read, curr_job_id, pkt_src,   \* the reading loop
    pkts          \* the packets written into each job's buffer

vars == <<file, terminated, pc, ret, pkt_count, capacity, job_sizes,
          lines_read, curr_job_id, pkt_src, pkts>>

Files   == UNION {[1 .. n -> Lengths] : n \in 0 .. MaxLines}
Packets == [id : Nat, at : Nat, len : Nat]
PerJob  == pkt_count \div NumJobs
Rest    == pkt_count % NumJobs

Init ==
    /\ file \in Files
    /\ terminated \in BOOLEAN
    /\ ~ terminated => Len(file) > 0 /\ file[Len(file)] > 0
    /\ pc = "open" /\ ret = "none"
    /\ pkt_count = 0
    /\ capacity  = [j \in Jobs |-> Null]
    /\ job_sizes = [j \in Jobs |-> Unset]
    /\ lines_read = 0 /\ curr_job_id = 0 /\ pkt_src = 0
    /\ pkts = [j \in Jobs |-> <<>>]

Return(r) == pc' = "done" /\ ret' = r

-----------------------------------------------------------------------------
(* fopen fails: nothing has been written to the caller's arrays. *)
OpenFails ==
    /\ pc = "open"
    /\ Return("error")
    /\ UNCHANGED <<file, terminated, pkt_count, capacity, job_sizes,
                   lines_read, curr_job_id, pkt_src, pkts>>

(* get_file_line_count counts newlines, so a cut last line is not counted. *)
LineCount == IF terminated THEN Len(file) ELSE Len(file) - 1
\* Mutant: the test for fewer packets than jobs is forgotten.
CountRejectedWithoutMinimum(n) == MaxPacketCount < n
CountRejected(n) == MaxPacketCount < n \/ n \div NumJobs = 0

CountLines ==
    /\ pc = "open"
    /\ pkt_count' = LineCount
    /\ IF CountRejected(LineCount)
       THEN Return("error")
       ELSE pc' = "alloc" /\ UNCHANGED ret
    /\ UNCHANGED <<file, terminated, capacity, job_sizes,
                   lines_read, curr_job_id, pkt_src, pkts>>

(* The size of every job's buffer; both branches of compile.cpp:65 agree.   *)
(* A product past INT_MAX comes out negative or short (two's complement);   *)
(* the negative one, made a size_t, is more than posix_memalign can give.   *)
(* alloc_mem asks for one header more than it is told.                      *)
Wrapped(n) == n % (2 * (IntMax + 1))
\* Mutant: the remainder is not added.
BufferBytesNoRest == Wrapped(EntryBytes * PerJob)
BufferBytes == Wrapped(EntryBytes * (PerJob + Rest))
alloc_mem(size) == IF size > IntMax THEN {Null} ELSE {size + PACKET_HEADER_BYTES, Null}

AllocBuffers ==
    /\ pc = "alloc"
    /\ capacity' \in [Jobs -> alloc_mem(BufferBytes)]
    /\ pc' = "check"
    /\ UNCHANGED <<file, terminated, ret, pkt_count, job_sizes,
                   lines_read, curr_job_id, pkt_src, pkts>>

(* The head of packet_parse_file: sizes are zeroed up to the first buffer   *)
(* that is missing.                                                         *)
CheckBuffers ==
    /\ pc = "check"
    /\ job_sizes' = [j \in Jobs |-> IF \A k \in 0 .. j : capacity[k] # Null
                                    THEN 0 ELSE job_sizes[j]]
    /\ IF \E j \in Jobs : capacity[j] = Null
       THEN Return("error")
       ELSE pc' = "read" /\ UNCHANGED ret
    /\ UNCHANGED <<file, terminated, pkt_count, capacity,
                   lines_read, curr_job_id, pkt_src, pkts>>

-----------------------------------------------------------------------------
(* One round of the getline loop.  The job is switched first, then the      *)
(* newline is removed, then the length is checked, then the packet written. *)
Share(j) == IF j = LastJob THEN PerJob + Rest ELSE PerJob

\* Mutants: the last job is switched too; the switch comes one line late.
SwitchesLastJob == lines_read = (curr_job_id + 1) * PerJob
SwitchesJobLate == curr_job_id # LastJob /\ lines_read = (curr_job_id + 1) * PerJob + 1
SwitchesJob == curr_job_id # LastJob /\ lines_read = (curr_job_id + 1) * PerJob

WriteJob == IF SwitchesJob THEN curr_job_id + 1 ELSE curr_job_id
WriteAt  == IF SwitchesJob THEN 0 ELSE pkt_src
\* Mutant: the running size is stored in every round.
SizesEveryRound == [job_sizes EXCEPT ![curr_job_id] = pkt_src]
SizesAtSwitch ==
    IF SwitchesJob THEN [job_sizes EXCEPT ![curr_job_id] = pkt_src] ELSE job_sizes

NewlineMissing == ~ terminated /\ lines_read + 1 = Len(file)
TooLong        == file[lines_read + 1] >= PACKET_MAX_SIZE

(* fill_one_packet: what is written, and where the next packet starts. *)
\* Mutant: the high byte of the length is not written.
PacketLowLength(line, at, id) == [id |-> id, at |-> at, len |-> line % 256]
Packet(line, at, id) == [id |-> id, at |-> at, len |-> line % LEN_FIELD]
PacketEnd(line, at)  == csre_align(at + PACKET_HEADER_BYTES + line)

ReadLine ==
    /\ pc = "read"
    /\ lines_read < Len(file)
    /\ job_sizes' = SizesAtSwitch
    /\ curr_job_id' = WriteJob
    /\ \/ /\ NewlineMissing                          \* remove_newline exits
          /\ Return("exit")
          /\ pkt_src' = WriteAt
          /\ UNCHANGED <<lines_read, pkts>>
       \/ /\ ~ NewlineMissing /\ TooLong
          /\ Return("error")
          /\ pkt_src' = WriteAt
          /\ UNCHANGED <<lines_read, pkts>>
       \/ /\ ~ NewlineMissing /\ ~ TooLong
          /\ pkts' = [pkts EXCEPT ![WriteJob] =
                        Append(@, Packet(file[lines_read + 1], WriteAt, lines_read + 1))]
          /\ pkt_src' = PacketEnd(file[lines_read + 1], WriteAt)
          /\ lines_read' = lines_read + 1
          /\ UNCHANGED <<pc, ret>>
    /\ UNCHANGED <<file, terminated, pkt_count, capacity>>

EndOfFile ==
    /\ pc = "read"
    /\ lines_read = Len(file)
    /\ job_sizes' = [job_sizes EXCEPT ![curr_job_id] = pkt_src]
    /\ Return("ok")
    /\ UNCHANGED <<file, terminated, pkt_count, capacity,
                   lines_read, curr_job_id, pkt_src, pkts>>

Returned == pc = "done" /\ UNCHANGED vars

Next == \/ OpenFails \/ CountLines \/ AllocBuffers \/ CheckBuffers
        \/ ReadLine \/ EndOfFile \/ Returned

Spec == Init /\ [][Next]_vars

-----------------------------------------------------------------------------
(* Types. *)
TypeOK ==
    /\ file \in Files
    /\ terminated \in BOOLEAN
    /\ pc \in {"open", "alloc", "check", "read", "done"}
    /\ ret \in {"none", "ok", "error", "exit"}
    /\ pkt_count \in Nat
    /\ capacity \in [Jobs -> Nat \cup {Null}]
    /\ job_sizes \in [Jobs -> Nat \cup {Unset}]
    /\ lines_read \in Nat
    /\ curr_job_id \in Jobs
    /\ pkt_src \in Nat
    /\ pkts \in [Jobs -> Seq(Packets)]

(* What a reader of the buffer takes from a header: where the next one is.  *)
NextByHeader(p) == p.at + AXI_BEAT * ((PACKET_HEADER_BYTES + p.len + AXI_BEAT - 1) \div AXI_BEAT)

(* No packet is ever written past the end of its job's buffer, whatever the *)
(* lines are: the buffer is sized from the first pass over the file and     *)
(* filled by the second (compile.cpp:64-68, core.c:499-523).                *)
NoOverflow ==
    /\ pc = "read" => pkt_src <= capacity[curr_job_id]
    /\ \A j \in Jobs : \A k \in 1 .. Len(pkts[j]) :
          NextByHeader(pkts[j][k]) <= capacity[j]

(* A kernel finds the packets of a buffer by their headers alone: the first *)
(* is at offset 0 and each next one where the previous length says, on a    *)
(* bus beat.  This is so at every moment, hence also in the buffers of a    *)
(* call that failed halfway (core.c:207-277).                               *)
WalkedByLength ==
    \A j \in Jobs : \A k \in 1 .. Len(pkts[j]) :
        /\ pkts[j][k].at % AXI_BEAT = 0
        /\ pkts[j][k].at = IF k = 1 THEN 0 ELSE NextByHeader(pkts[j][k - 1])

(* The packets of job j carry the ids of one run of consecutive lines, the  *)
(* runs follow each other in job order, and each packet has the length of   *)
(* the line its id names: results can be traced back to lines of the file   *)
(* (ids are file-wide, the reference model numbers lines the same way).     *)
IdsNameLines ==
    \A j \in Jobs : \A k \in 1 .. Len(pkts[j]) :
        /\ pkts[j][k].id = j * PerJob + k
        /\ pkts[j][k].len = file[j * PerJob + k]

(* A size is published for a job only when its share is complete: the main  *)
(* programs go on after a failed parse, and what they then tell a kernel to *)
(* read is a whole share, nothing, or a size that was never written.        *)
PublishedSizeIsWhole ==
    \A j \in Jobs : job_sizes[j] \in Nat \ {0} =>
        /\ Len(pkts[j]) = Share(j)
        /\ job_sizes[j] = NextByHeader(pkts[j][Len(pkts[j])])

(* When the call succeeds every line went to exactly one job, no job is     *)
(* empty and all sizes are published: the switch at core.c:500 has happened *)
(* NumJobs - 1 times whatever the remainder of the division is.             *)
SuccessCoversFile ==
    ret = "ok" =>
        /\ lines_read = Len(file)
        /\ \A j \in Jobs : Len(pkts[j]) = Share(j) /\ Share(j) > 0
        /\ \A j \in Jobs : job_sizes[j] > 0
=============================================================================
