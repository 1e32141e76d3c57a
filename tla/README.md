# A TLA+ model of the CSRE host software

CSRE is a regular-expression accelerator for Xilinx cards with HBM.  The
repository holds the *host* side in C and C++ (`src/host`): it compiles
expressions into pattern tables, splits a packet file over the compute units,
drives them through XRT or OpenCL, and checks the matches against a software
reference.  The accelerator itself and the expression compiler are binary
(an encrypted netlist and two libraries).  This directory models the host
software, checks it with TLC and proves its main guarantees with TLAPS.

Paths below are relative to `src/host` unless they start with `src/`.

## 1. The system

| Component | Where | State it keeps | Operations |
|---|---|---|---|
| Packet parser | `runtime/common/compile.cpp`, `core/core.c` | the file position, one buffer and one size per job | `csre_parse_packet`, `packet_parse_file`, `fill_one_packet` |
| Expression front end | same | the static `PATTERN_ID`, the configuration `csre_config`, a buffer, the caller's size | `csre_compile`, `csre_compile_file`, `regex_compile(_file)`, `fill_one_pattern`, `update_csre_regex_configs` |
| Result harvest | `runtime/ocl/csre.cpp`, `core/core.c` | the position in each result buffer, totals, the result file | `csre_result`, `process_results`, `compare_num_matched_pkt`, `compare_result_id` |
| Software reference | `ref/regex_ref.cpp` | packets, patterns, `stats`, `num_matched_packets` | `push_*`, `run_match`, `compare_result` |
| OpenCL runtime | `runtime/ocl/csre.cpp` | `global_csre`, the out-of-order queue, kernels, buffers | `csre_init_hardware`, `csre_scan`, `csre_close_hardware` |
| Multi-threaded application | `app/multi-thread/csre-mt.cpp` | threads per job, one shared device handle, commands, `err` | three phases of threads, harvest, verdict |
| Single-threaded application | `app/single-thread/csre-st.cpp` | one context, four buffer objects, one command, `err` | one job: initialise, compile, parse, copy, run, wait, check, release |
| OpenCL application | `app/single-thread/csre-st-ocl.cpp` | `err` | init, compile, parse, scan, result, close |
| XRT initialisation | `include/utils/xrt_utils.h`, `xclbin_utils.h` | handle, base address, first memory | `initXRT`, key values of the xclbin |
| HBM bank assignment | `src/kernel/src/gen_vitis_config.sh.in`, `runtime/ocl/csre.cpp`, `csre-mt.cpp` | the banks of ports and of buffers | arithmetic on the kernel index, on either side |

**How they interact.**  The applications call the front ends in order: compile
(once per kernel), parse, (reference), scan, result.  Buffers and sizes are
handed over by pointer; `csre_config`, `PATTERN_ID` and `global_csre` are
process-wide.  Kernels run concurrently with the host.  In `csre-mt` every job
has a thread per phase and all threads share one device handle, whose
`xclExecWait` reports *some* finished command, not a particular one.

**What is hard here.**  (a) Workers that take each other's completions, with
only the joins between the phases to put that right.  (b) An out-of-order
queue whose order comes from wait lists and finishes.  (c) Buffers that are
never cleared, so an early fetch yields an earlier run's results; memory the
device works on in place, so an early free pulls it away.  (d) Error
returns that are dropped, overwritten, or added up with opposite signs.
(e) Two passes over a file: the first sizes the buffers, the second fills
them without a check.  (f) Counters, sizes and configurations that outlive a failed call.  (g) Numbers
computed on two sides that nothing compares: banks, widths, ids.
Hardly any of it is reachable by the tests in `src/test`, which need a card
and run each application once.

**What makes each component correct.**  Parser: no write past a buffer,
packets found by their headers, ids that name lines, no job given part of its
share.  Front end: tables that fit, agree between kernels and number patterns
by line.  Harvest: nothing lost or skipped, no false alarm, a wrong scan is
noticed.  Scan and multi-threaded application: copy, then execute, then fetch,
for all jobs; results of this run only; they end.

Every hazard, with its line and the properties that cover it (or why none
does), is in `PROJECT.json`.

## 2. Modules

| Module | Models | Kind |
|---|---|---|
| `PacketParse` | `csre_parse_packet` down to `fill_one_packet` | component |
| `RegexCompile` | `csre_compile`, `csre_compile_file` down to `fill_one_pattern`, over several calls | component |
| `ResultCheck` | `csre_result`, `process_results`, both comparisons; kernels that may err; composed with `RegexRef` | component with an environment |
| `RegexRef` | class `RegexRef` and the functions that push the files into it | component |
| `MtApp` | `csre-mt` from the prepared input to its verdict | concurrent component |
| `XrtInit` | `initXRT` | component |
| `StApp` | `csre-st` from `initXRT` (composed with `XrtInit`) to the exit status, the device beside it | concurrent component, composition |
| `Banks` | the generated connectivity and the banks two hosts compute | pure algorithm on both sides |
| `OclScan` | `CSRE::scan`, repeated, and the command queue | concurrent component |
| `OclApp` | `csre-st-ocl` with `csre_init_hardware`, `csre_result`, `csre_close_hardware` around `OclScan` | composition |
| `Batch` | what a scan promises, whichever host drives it | abstract specification |
| `PacketParseProofs`, `RegexCompileProofs`, `ResultCheckProofs`, `MtAppProofs`, `StAppProofs`, `OclScanProofs`, `OclAppProofs`, `BanksProofs` | theorems about the component of that name; `StAppProofs` is also about `XrtInit`, `ResultCheckProofs` about `RegexRef` | proofs |
| `MC*` | values of the constants for TLC | instances |

`MtApp`, `OclScan` and `StApp` contain `Promise == INSTANCE Batch WITH ...`; the
property `KeepsScanPromise` is that instance's `Spec`.

### PacketParse

`CountLines` is the first pass (newlines are counted, so a last line without
one is not), `AllocBuffers` the allocation loop, `CheckBuffers` the head of
`packet_parse_file`, `ReadLine` one round of its getline loop in the code's
order (switch job, remove newline, check length, write), `EndOfFile` the end.
`OpenFails` and the error disjuncts are the early returns; `remove_newline`'s
`exit` has the outcome "exit".  A line is its length, a packet its id, offset
and the length the header carries (12 bits).  Sizes are integers in bytes; the
`int` product of `compile.cpp:66` wraps at `IntMax`.

### RegexCompile

A process makes a sequence of calls.  `CompileFile`/`CountPatterns` is
`csre_compile_file` up to the reset of the counter, `CompileSingle` is
`csre_compile`, `FillPattern` one `fill_one_pattern`, `CallEnds` the return.
The counter is advanced before the compiler is asked, as in the code.
`Configure` is `update_csre_regex_configs` and what both callers do with its
result; it stores first and checks then, so the refused configuration is in
force while the process ends.  `RegexWidthBits` is the equation of
`core.c:80-90`, the header's length has 11 bits.  `fregex_get_config` is the
constant `ConfigLen`, for each pattern and kernel, 0 for a refused pattern, at
most the width of the kernel.  Call and configuration are in any order; the
three applications configure once, before they compile.

### ResultCheck and RegexRef

`RegexRef` pushes the lines of both files and runs its two loops, one pair of
packet and pattern per step; `re_match` is a choice for an empty line, which a
pattern may match.  `GoesOn` is the `break` at the first pattern PCRE refuses.
`ResultCheck` composes it (`Prepare`) with the kernels, which write the matches
of their own packets in any order, with up to `MaxFaults` of four faults
(lost, repeated, invented, altered), and with the host: `ReadRecord`,
`EndOfBuffer` and `CompareCount` are the loop of `process_results`, its return
into the loop of `csre_result`, and the final comparison.

### MtApp

`phase` is what the main thread does, `pc` where each job's thread is in that
phase; each library call of the three lambdas is an action, and a failing call
an action of its own.  `completions` is the counter of the shared handle.
`JoinAll` is the join loop together with the start of the next phase's threads
(between the two the main thread only reads the clock).  `Verdict` is the
harvest over all jobs, `err`, and the line printed.  A timeout of `xclExecWait`
prints and changes nothing, so it is a stutter.  `OpenContextFails` is the
uncaught exception in a thread: `std::terminate`.  Return values of the
lambdas go nowhere because `std::thread` drops them.  The input is the sum of
what `csre_compile_file`, called once per job and failing for all of them or
for some (`Compiled`), and `csre_parse_packet` (`Parsed`) return; `lost` are
the jobs that got none.  `bad` are the buffer objects that were refused, a
job's input or its result, which the code notices only when a copyer, a
resulter or the harvest uses them: a refused result buffer can never be mapped
and always adds -1.  `BuildCrashes` is the start command written through the
null pointer of a refused one.  `VerdictCrashes` is `fclose` without a result
file and the release of pointers that a failed parse has not written.

### XrtInit and StApp

`XrtInit` walks through `initXRT`: the calls that throw when they fail
(`Following` is their order), the comparison of the index with the number of
IPs *of any kind*, the loop over the layout, which counts kernels only, and the
loop over the memories.  Addresses are positions.  The index is a signed number
and a negative one passes the comparison; -1 stands for all of them, since no
counter ever equals one, and `StApp!HasUnit` has the context refused for it.

`StApp` declares the variables of `XrtInit` and takes its steps while main is
in "init", then goes on call by call to the exit status (modulo 256).  Results
main looks at end it at once (`Ends`); those it does not look at change only
what later calls find: `bo` tells an open buffer object from a refused one,
`host` whether the memory behind it is whole, empty (a refused file) or wild
(pointer and size as `malloc` gave them).  `regex`, `packets` are what becomes
of the files, `left` and `unknown` are history.  The reference reads both files
a second time and to their ends, so it may come to a last line that is cut and
that the first reading, refused before, did not reach (`HitsCutLine`).  `KernelFinishes` interleaves
with main from the submission on.  What is relied on of XRT is said in the
module's head: above all, a buffer of no bytes may be refused or taken.

### Banks

`ChooseStep`, `Connect` are the generator with its shell arithmetic (an unset
`step` counts as 0), `PlaceOcl` is one round of the setup loop of `CSRE::scan`
with `OCL_CHECK`, `PlaceMt` one of `csre-mt`, which looks at no result.  The
OpenCL host uses the kernels there are; `csre-mt` may be asked for more jobs
than kernels, as long as the last index is at most the number of IPs of any
kind (`MaxOtherIPs`), and then places buffers for all of them.  That a
buffer in a bank of no port is refused or taken is a choice of the platform
(`strict`).

### OclScan

`step` and `i` walk through the loops of `CSRE::scan`; `queue` is the state of
each command, `Perform` the queue executing one whose wait list is complete.
The result migration's event is not kept, exactly as in the code, so only the
last `finish` orders it before the return.  `CheckFails` is `OCL_CHECK`: print
and `exit`.  Data is the number of the scan it belongs to, so that stale data
is visible; device buffers are new in every scan, host buffers are not.

### OclApp

`main` of the application, call by call: `InitLibrary`, `ProgramDevice` and
`DeviceFails` are `csre_init_hardware` (the device loop; for a device that
fails, the number of kernels is an uninitialised value and the resize may
throw, so it is a choice), then the compile loop, the parse, the allocation of
result buffers (unchecked, so it may leave one out), the scan, the harvest,
the close and the frees.  `Exits` is a failing `OCL_CHECK`.  The scan is
`Library == INSTANCE OclScan`, on variables declared here: main is in
"scanning" while `Library!Host` moves, and the queue moves on its own.  Host
memory is `buffers`, because the queue works on it in place.  That `cl::Buffer`
refuses a null pointer is taken from the OpenCL standard.

### Batch

`Copy`, `Execute`, `Fetch` per job, each phase only when the previous one is
complete for *all* jobs, `Restart` for the next scan, `Abort` when a call
fails (`src/README.md:188-191`).  `MtApp` refines it up to its first failing
call and with all input prepared; `OclScan` unconditionally, `exit` being the
abort.

## 3. Runs

| Run | Instance and why it is enough |
|---|---|
| `packet_parse` | 3 jobs; all files of at most 7 lines of lengths 1, 2047, 2048, with and without a final newline; `MAX_PACKET_COUNT` 6.  Covers fewer lines than jobs, an even split, both remainders, a count above the limit, the longest accepted and the first refused length. |
| `mt_app` | 3 jobs, 1 failing call or refused buffer, 1 match per job, all outcomes of the input; all interleavings, with fairness and so without symmetry.  Three workers are needed for one to be woken by a second's command while a third waits.  With one failing wait the bound of `PhaseBarrier` is reached.  Every outcome of the input is in: `err` starts anywhere from 0 to -4. |
| `result_check` | 2 kernels, 3 packets (the last kernel has two), at most one of them empty, 2 patterns, 2 offsets, 2 matches, 1 fault: a record can be wrong in each field, a buffer can be empty, a pattern can be refused before or after the one that matches. |
| `regex_compile` | 3 calls on files of at most 3 patterns (short, as wide as the kernel allows, refused), limit 2, the built-in configuration and two xclbins, one of which lacks a key: a refused call between two good ones, a single expression before a file, another kernel between two files. |
| `ocl_scan` | 4 kernels, 3 scans, a failing call anywhere: a later scan meets the host buffers of an earlier one. |
| `ocl_app` | 3 kernels, 2 devices, any subset of the two input files refused, any subset of the result buffers missing, any call failing. |
| `st_app` | every xclbin of at most 3 IPs and 2 memories and every index from -1 up to one past them, each outcome of both files, 1 failing call, counts 0, 1, 2 and 255: the loops of `initXRT` have an IP that is no kernel before, at and behind the one asked for; `err` passes through 0 and through the width of an exit status. |
| `banks` | 1 to 18 kernels on 32 banks, two past the supported number, with up to 2 IPs that are no kernels, so up to three jobs more than kernels; the theorems remove the bounds. |

Each property of a passing run has a mutant in `PROJECT.json`: a definition
and a plausible mistake in it that makes TLC find the property violated.

Four runs are **expected to be violated**: each states what the repository
says and TLC shows a behaviour of the code that contradicts it.

| Run | What it shows |
|---|---|
| `mt_failed_test` | a run can print `FAILED TEST` for a command it could not submit and end with `TEST PASSED!`, although all its input and buffers are there: neither the copyer that failed nor the worker touches `err`, so it is 0 at the end, with `-d` always and with a check whenever the number of records found is the number expected. |
| `st_refusal` | `csre-st` overwrites the error of a refused expression twice and can end in `TEST PASSED!`, where `src/README.md:185` says it stops and reports. |
| `result_zero` | one record the reference does not know (-1) and the resulting wrong count (+1) cancel: `csre_result` returns 0. |
| `regex_count_limit` | the number of expressions is compared with the packet limit, though the message names `MAX_REGEX_COUNT` (8). |

**Fairness.**  `MtApp!Fairness`: threads and the main thread are scheduled by
the operating system, a library call returns, a compute unit finishes a built
command that has input.  It is stated for the successful and for the waiting
calls; no call is *required* to fail, and nothing is assumed of a command that
was never built or has no input: `Terminates` excepts those, because
`csre-mt` waits for them without a limit.  `OclScan!Fairness`: the host goes
on and a command whose wait list is complete runs; `finish` has no timeout, so
without it `ScansReturn` would not hold of the code either.  `OclApp!Fairness`
is the same for main and the queue; a null buffer is refused, and no other
call of a scan is required to fail, and kernels are taken to finish.  The only
failing calls `MtApp` requires are the last one a copyer makes on a refused
buffer of its job and the one a resulter makes on a refused result buffer.  `StApp!Fairness`:
the process is scheduled and a kernel finishes a command with proper input;
whether `xclExecWait` fails is left open, and nothing is assumed of a command
without input, which `Terminates` excepts.

## 4. Theorems

All are proved by TLAPS for every value of the constants that the `ASSUME`s
allow (a finite, non-empty set of jobs or kernels; natural bounds).

`PacketParseProofs`: `TypesHold`, `BuffersNeverOverflow` (`NoOverflow`),
`HeadersLeadOn` (`WalkedByLength`), `PacketsNameLines` (`IdsNameLines`),
`OnlyWholeShares` (`PublishedSizeIsWhole`), `SuccessIsComplete`
(`SuccessCoversFile`): every property of the run, for any number of jobs, lines
and lengths.  The buffer is sized from the count of the first pass, in bytes
per largest packet, and filled by the second from lengths, so neither `NoOverflow`
nor the shares are inductive.  The invariant `PInv` adds how many packets each
job holds as a function of `lines_read` (`Filled`, `Progress`: the switch comes
exactly at a multiple of the share), that packet *k* starts at most at
`EntryBytes * (k - 1)` (`Written`), that `pkt_src` is the end of the current
buffer (`AtEnd`) and which sizes are published (`Sizes`).  At the end of the
file the lines read are the lines counted, so the current job is the last one
(`EndOfFileStep`).  `LimitAssumption` (`EntryBytes * MaxPacketCount <= IntMax`)
makes the int product of `compile.cpp:66` exact (`BufferBytesFits`);
`MCPacketParse` checks it for the build's numbers.

`MtAppProofs`: `TypeCorrect`, `CompletionsAreConserved`,
`ResultsAfterAllCommands` (`PhaseBarrier`), `LeftoversStayOut`,
`ThreadsKeepPromise` (refinement of `Batch`), `CleanRunsPass`,
`OneErrorAtMost` (`OneErrorCancelled`), `WorkersAreServed`.  The properties are not
inductive.  The invariant `IInv` adds where a context can be open, that
nothing is submitted before the workers' phase and nothing fetched before the
resulters', what each worker's place says of its command (`WorkersOK`), and
`AllWaited`: behind the join the submitted commands *are* the workers that
took a completion or gave up.  The argument for the barrier is then a count:
commands submitted = completions taken + workers that gave up, and completions
left + taken = commands finished (`CompletionsConserved`).  Submitted commands
are finished or pending, so the pending ones are at most as many as the
workers that gave up, and none if nobody did (`NothingPending`).  It is a
cardinality argument over the whole set of jobs; no per-worker invariant
exists, since no worker knows whose completion it took.  For the refinement
`CleanInv` says what holds of each job as long as no call has failed.
`CleanRunsPass` (`CleanRunPasses`) adds `PassInv`: in such a run a context is
open exactly between a thread's first and last call, a resulter that returned
has fetched results (by the barrier they are there), and `err` is 0.  The
verdict then needs that the sum over the jobs of no unknown record is 0
(`SumOfZeros`, below).  `OneErrorAtMost` is about every run: the sum of unknown
records is never negative (`SumOfNaturals`), so the harvest adds at most the 1
of a wrong count (`HarvestAddsOne`), and `err` was -1 at least if the total is 0.
`WorkersAreServed` is the safety half of `Terminates`:
a worker in its loop always has a completion to take or a command yet to
finish, by the same count as the barrier, whatever has failed.

`OclScanProofs`: `TypeCorrect`, `ReturnsItsOwnResults`
(`ResultsAreOfThisScan`), `ScanKeepsPromise`.  The invariant `OInv` says, per
step of the host, which commands of which operation are queued or complete
(`QueueShape`), that loops start from 0, and that a complete command's data is
of this scan (`DataOfThisScan`).  `NoCommandWaits` is the safety half of
`ScansReturn`: every queued command's wait list is complete, so no `finish`
blocks on commands that wait for each other.

`OclAppProofs`: `TypeCorrect`, `QueueHasItsBuffers` (`BuffersOutliveQueue`),
`RefusalStops` (`RefusalStopsBeforeScan`), `PassedIsDone` (`PassedMeansDone`),
`ApplicationScans`, `ApplicationKeepsPromise`.  The module instantiates
`OclScanProofs` with a single scan; that the assumptions of `OclScan` hold for
this instance is part of the proofs.  `SameOperators` and `StepScans` show that
every step of the application is a step of `OclScan` or leaves the scan alone
(`ApplicationScans`), so the invariant of `OclScanProofs` and the refinement of
`Batch` carry over instead of being proved again.  `MainInv` adds where main
is: one scan between its call and its return, which inputs were taken and which
buffers exist up to the current round of each loop.  `BuffersOutliveQueue`
needs both halves: what is queued at which step of the scan, and what main has
allocated by then.

`StAppProofs`: `TypeCorrect`, `CommandGoesToUnit` (`CommandOnFoundUnit`),
`BuffersOutliveCommand` (`MemoryOutlivesDevice`), `CleanRunsPass`,
`StatusTells` (`StatusTellsVerdict`), `ApplicationScans` (`KeepsScanPromise`).
`XrtShape` is the invariant of the loops of `initXRT`: `cur_index` is the number
of kernels before `pos`, a cardinality, and the address is that of the
asked-for kernel once it has been counted.  `ContextOrder`, `InputOrder`,
`CommandOrder`, `BufferOrder` say what can be open, taken, queued or freed at
each call of main whatever has failed; the `Clean*` parts what holds as long as
nothing failed; `ErrBound` that `err` is at least minus the number of unknown
records, so that it stays off the multiples of 256.

`RegexCompileProofs`: `TypeCorrect`, `WidthFollowsKernel` (`WidthIsOfKernel`),
`TablesFit` (`TableFits`), `TablesOfOneFileAgree` (`TablesAgree`),
`SizeFollowsTable` (`SizeIsOfLatestTable`).  The buffer is sized from a count of
lines and the widest pattern, the table grows by the length of each, so
`TableFits` is not inductive: `Building` adds that the offset of the next
pattern is the end of the one before (`LaidOut`) and at most one aligned
widest entry per line done.  `TablesAgree` compares tables built in different
calls; `TablesOK` remembers of each finished table that its entries follow from
file and kernel, and two such tables are equal because there is no least entry
in which they differ.  `WidthAssumption` (a kernel's width fits the header's
field, an expression is at most as wide as its kernel) is what the library
promises; `MCRegexCompile` checks it for the widths of the build.

`ResultCheckProofs`: `TypeCorrect`, `FileIsJoined` (`FileHoldsAllBuffers`),
`ReferenceKnows` (`ReferenceKnowsTried`), `FaithfulPasses`
(`FaithfulScanPasses`), `OneFaultCaught` (`OneFaultIsCaught`).  `RefInv` says
that the two loops of the reference have dealt with the pairs before the
current one, and that the ids pushed are the numbers of the lines.  The verdict
is a count, so the rest of the invariant counts: a record is identified by its
slot, kernel and place, since a kernel may write the same one twice.
`WriteInv`: without a fault there are as many slots as settled matches and none
is wrong; with exactly one, one less, one more, or one wrong.  `CountInv`:
`total` is the number of slots read, `err` minus the number of those the
reference does not know.  `FileInv`: the file is the buffers of the kernels
before, joined, and the part of the current one that was read.  At the end
`err` is (1 if the numbers of slots and of matches differ) - (wrong slots)
(`Verdict`), from which both theorems follow.  The invented record is the
fault for which the two cancel: the run `result_zero`.

**Lemmas about folds.**  `FlattenSeq` and `SumFunction` of the community modules are
recursive functions picked by `CHOOSE`, about which the provers know nothing.
`FlattenExists`, `FlattenSame`, `FlattenAppend` (in `ResultCheckProofs`) and
`SumFunctionIs`, `SumOfZeros`, `PartSumsAgree`, `PartSumsExist`, `SumOfNaturals`
(in `MtAppProofs`) show that such functions exist and what they return, by a
least counterexample in a well-founded order (`WFMin`), in place of the
induction theorems the provers cannot instantiate.

**What the proofs changed in the models.**  `StApp!Input` was a `CASE` whose
guards overlapped; TLC takes the first that holds, TLA+ leaves the choice open,
and the proof failed on the other one.  It is an `IF` now.  `MtApp!Parsed` had
`SUBSET Jobs \ {{}}` without parentheses, which the two parsers read differently.

`BanksProofs`: `PlacedAtPorts` (`BuffersAtPorts`), `NoSharedBanks`
(`BanksOfTheirOwn`), for any number of kernels and up to 999 banks.  The
invariant `Inv` of that module gives the element *k* of both sequences by its formula.  Up to
16 kernels the two tables of steps are equal and at least 2, so distances of
kernels are at least 2 and the pairs of banks do not meet; past 16 the host's
step of 999 leaves the memory at kernel 1, so that only kernel 0, which every
step puts at bank 0, is placed before the refusal.

**Model-checked only.**  Liveness (`Terminates` of both applications,
`ScansReturn`, `Ends`) is outside the prover's reach, as is `ENABLED`.  Every
other property of a passing run is stated by a theorem.
`CompletionsAreConserved`, `LeftoversStayOut`, `WorkersAreServed`,
`NoCommandWaits` and the two refinements of `OclAppProofs` state formulas no run
lists.  The four runs that
find a violation are counterexamples and need no proof.

## 5. Not modelled

The expression compiler and the PCRE matcher (binary libraries, external
inputs); the FPGA engine (encrypted, nondeterministic output); vendored
`xcl2`; the test driver and packaging scripts (sequential, no shared state);
`csre-comp-example` (a sequential caller of `csre_compile_file` and `csre_parse_packet` that prints the
result; its calls are among those of `RegexCompile` and `PacketParse`); command lines, hex dumps,
printing of times; bytes of payloads and tables.

Some states are left out because no program of the repository reaches them: a
second `csre_init_hardware` or `csre_close_hardware`, or a scan after the
close.  `global_csre` is not cleared, so a user of the library who makes such
calls gets undefined behaviour.  A packet file that changes between the
parser's two passes is outside the model: `NoOverflow` assumes it does not.
Kernels that hang are left out of the fairness.  `MtApp` starts at the threads:
runs that the reference ends before, at a file it cannot read, are in `StApp`
only.  What a process ended by `std::terminate` or `exit` leaves unreleased is
the operating system's affair.
Numbers of records in a buffer beyond the buffer's size, and the truncation of
pattern ids to 16 bits, are limits of the kernel that the repository does not
state; they are listed as hazards without a property.

## 6. Plan

Every safety property of the runs is proved.  What is left:

1. An abstract specification of the parser, one that deals lines to jobs, and
   `PacketParse` as its refinement.
2. Safety halves of the other two liveness properties (`OclApp!Ends`,
   `StApp!Terminates`), as `WorkersAreServed` and `NoCommandWaits` are for theirs.
