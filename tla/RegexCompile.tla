--------------------------- MODULE RegexCompile ---------------------------
(***************************************************************************)
(* Compiling expressions into pattern tables: csre_compile_file and        *)
(* csre_compile of runtime/common/compile.cpp, regex_compile_file,         *)
(* regex_compile, fill_one_pattern and update_csre_regex_configs of        *)
(* core/core.c.                                                            *)
(*                                                                         *)
(* One process makes several calls: every application compiles the same    *)
(* file once per kernel, and a user of the library may mix files and       *)
(* single expressions, and load another xclbin in between.  The calls      *)
(* share the counter PATTERN_ID, the configuration csre_config and the     *)
(* size the caller passes in.  Calls run one at a time.                    *)
(*                                                                         *)
(* The compiler behind fregex_get_config is external: for each pattern it  *)
(* gives a number of bytes, which depends on the configuration of the      *)
(* loaded kernel, or refuses it.                                           *)
(***************************************************************************)
EXTENDS Integers, Sequences

CONSTANTS
    Patterns,       \* lines a file may have
    Xclbins,        \* key values an xclbin may have, -1 for a missing key
    ConfigLen,      \* bytes of each pattern on each kernel, 0 when refused
    MaxPacketCount, \* MAX_PACKET_COUNT, which also limits patterns
    MaxLines,       \* bound on the lines of a file
    MaxCalls        \* bound on the calls of a process

REGEX_HEADER_BYTES == 16   \* preamble 4, length 2, reserve 6, id 4
REGEX_ID_WIDTH     == 32
AXI_BEAT           == 16
LEN_FIELD          == 2048 \* a header's length has 8 + 3 bits
MAX_REGEX_COUNT    == 8

(* csre_config without its two widths, which are in the variable width.     *)
Keys    == {"TOKEN_NUM", "STATE_NUM", "CHAR_NUM", "CHAR_PER_TOKEN", "COUNT_NUM"}
Configs == [Keys -> Int]

(* The value csre_config has before any xclbin is read. *)
DefaultConfig == [TOKEN_NUM |-> 16, STATE_NUM |-> 16, CHAR_NUM |-> 32,
                  CHAR_PER_TOKEN |-> 16, COUNT_NUM |-> 4]
DefaultWidth  == 230

Usable(c) == \A f \in Keys : c[f] > 0

RegexWidthBits(c) ==
    REGEX_ID_WIDTH + c["CHAR_NUM"] * 16 + c["STATE_NUM"] * 8 + 8 + 8
        + c["STATE_NUM"] + c["STATE_NUM"] * c["CHAR_NUM"]
        + c["STATE_NUM"] * c["STATE_NUM"] + c["STATE_NUM"] * c["STATE_NUM"]
        + c["STATE_NUM"] + c["COUNT_NUM"] * 32

\* Mutant: the bytes of the id are not taken off.
WidthWithId(c) == RegexWidthBits(c) \div 8
RegexWidth(c) == (RegexWidthBits(c) \div 8) - (REGEX_ID_WIDTH \div 8)

Kernels == {DefaultConfig} \cup {c \in Xclbins : Usable(c)}

(* The kernels that are built have a width the header can hold, and the     *)
(* compiler does not need more of it than there is.                         *)
ASSUME WidthAssumption ==
    /\ Xclbins \subseteq Configs
    /\ \A c \in Kernels : RegexWidth(c) \in 0 .. LEN_FIELD - 1
    /\ ConfigLen \in [Patterns -> [Kernels -> Nat]]
    /\ \A p \in Patterns, c \in Kernels : ConfigLen[p][c] <= RegexWidth(c)
ASSUME BoundsAssumption == {MaxPacketCount, MaxLines, MaxCalls} \subseteq Nat

csre_align(n) == IF n % AXI_BEAT = 0 THEN n ELSE n + (AXI_BEAT - (n % AXI_BEAT))

Null    == -1

(* alloc_mem asks for one header more than it is told. *)
alloc_mem(bytes) == {bytes + REGEX_HEADER_BYTES, Null}

Files   == UNION {[1 .. n -> Patterns] : n \in 0 .. MaxLines}
Entries == [id : Nat, len : 0 .. LEN_FIELD - 1, at : Nat, patt : Patterns]

VARIABLES
    PATTERN_ID,   \* the static counter of core.c
    csre_config,  \* the configuration in force
    width,        \* its CSRE_REGEX_WIDTH_WITHOUT_ID_BYTES
    pc,           \* "idle", "count", "fill", "exited"
    call,         \* the call being made: "file" or "single"
    lines,        \* its input
    terminated,   \* the last line of the file ends in a newline
    line,         \* lines done
    capacity,     \* bytes of the buffer of this call
    patt_src,     \* where the next pattern goes
    table,        \* the patterns written to the buffer
    size,         \* the size the caller sees
    ret,          \* the result of the last call
    calls,        \* calls made
    tables,       \* history: each file compiled with success, for which kernel
    latest        \* history: the last successful call, its kernel and table

history == <<tables, latest>>
config  == <<csre_config, width>>
vars == <<PATTERN_ID, config, pc, call, lines, terminated, line, capacity, patt_src,
          table, size, ret, calls, history>>

Init ==
    /\ PATTERN_ID = 0
    /\ csre_config = DefaultConfig /\ width = DefaultWidth
    /\ pc = "idle" /\ call = "single"
    /\ lines = <<>> /\ terminated = TRUE /\ line = 0
    /\ capacity = Null /\ patt_src = 0 /\ table = <<>>
    /\ size = 0 /\ ret = "none"
    /\ calls = 0
    /\ tables = {}
    /\ latest = [kernel |-> DefaultConfig, table |-> <<>>]

input == <<call, lines, terminated>>

Begin(p) ==
    /\ pc = "idle" /\ calls < MaxCalls
    /\ calls' = calls + 1
    /\ pc' = p
    /\ line' = 0 /\ patt_src' = 0 /\ table' = <<>>
    /\ UNCHANGED <<config, size, ret, history>>

Return(r) == pc' = "idle" /\ ret' = r

-----------------------------------------------------------------------------
\* Mutants: the last pattern is not counted; the header is not counted.
BytesForOneLess(n) == csre_align(REGEX_HEADER_BYTES + width) * (n - 1)
BytesWithoutHeader(n) == csre_align(width) * n
BufferBytes(n) == csre_align(REGEX_HEADER_BYTES + width) * n

(* update_csre_regex_configs, when an xclbin is loaded.  The configuration  *)
(* is stored before it is looked at: after a refusal it stays, with the     *)
(* caller's uninitialised widths.  Both callers then give up the process,   *)
(* init_hardware by exit, initXRT by an exception.                          *)
\* Mutant: the callers do not look at the result.
CallerGoesOn == UNCHANGED pc
CallerStops  == pc' = "exited"

Configure ==
    /\ pc = "idle" /\ calls < MaxCalls
    /\ calls' = calls + 1
    /\ csre_config' \in Xclbins
    /\ IF Usable(csre_config')
       THEN width' = RegexWidth(csre_config') /\ UNCHANGED pc
       ELSE width' \in {0, DefaultWidth} /\ CallerStops
    /\ UNCHANGED <<PATTERN_ID, input, line, capacity, patt_src, table, size, ret, history>>

(* csre_compile: a buffer for one pattern; the counter is not reset. *)
CompileSingle ==
    /\ Begin("fill")
    /\ call' = "single"
    /\ lines' \in [1 .. 1 -> Patterns] /\ terminated' = TRUE
    /\ capacity' = BufferBytes(1) + REGEX_HEADER_BYTES
    /\ UNCHANGED PATTERN_ID

(* csre_compile_file up to its allocation.  The first pass counts newlines. *)
CompileFile ==
    /\ Begin("count")
    /\ call' = "file"
    /\ lines' \in Files
    /\ terminated' \in BOOLEAN
    /\ ~ terminated' => lines' # <<>>
    /\ UNCHANGED <<capacity, PATTERN_ID>>

(* fopen fails, or csre_compile gets no buffer. *)
CallFailsEarly ==
    /\ pc = "idle" /\ calls < MaxCalls
    /\ calls' = calls + 1
    /\ ret' = "error"
    /\ UNCHANGED <<PATTERN_ID, config, pc, input, line, capacity, patt_src, table, size, history>>

RegexCount == IF terminated THEN Len(lines) ELSE Len(lines) - 1

\* Mutant: the counter goes on from the last call.
CounterKept  == PATTERN_ID
CounterReset == 0

(* The limit, the allocation, the reset of the counter, the test for a      *)
(* missing buffer: in this order.                                           *)
CountPatterns ==
    /\ pc = "count"
    /\ \/ /\ MaxPacketCount < RegexCount
          /\ Return("error") /\ UNCHANGED <<capacity, PATTERN_ID>>
       \/ /\ MaxPacketCount >= RegexCount
          /\ capacity' \in alloc_mem(BufferBytes(RegexCount))
          /\ PATTERN_ID' = CounterReset
          /\ IF capacity' = Null THEN Return("error") ELSE pc' = "fill" /\ UNCHANGED ret
    /\ UNCHANGED <<config, input, line, patt_src, table, size, calls, history>>

-----------------------------------------------------------------------------
(* One line.  remove_newline ends the process at a cut line.  The counter   *)
(* is advanced before the compiler is asked, so that a refused pattern uses *)
(* up an id.  The header's length is the width, whatever the pattern needs. *)
Cut == ~ terminated /\ line + 1 = Len(lines)

FillPattern ==
    /\ pc = "fill" /\ line < Len(lines) /\ ~ Cut
    /\ PATTERN_ID' = PATTERN_ID + 1
    /\ LET p == lines[line + 1]
           config_len == ConfigLen[p][csre_config]
       IN IF config_len = 0
          THEN Return("error") /\ UNCHANGED <<line, patt_src, table>>
          ELSE /\ table' = Append(table, [id |-> PATTERN_ID', len |-> width % LEN_FIELD,
                                          at |-> patt_src, patt |-> p])
               /\ patt_src' = csre_align(patt_src + REGEX_HEADER_BYTES + config_len)
               /\ line' = line + 1
               /\ UNCHANGED <<pc, ret>>
    /\ UNCHANGED <<config, input, capacity, size, calls, history>>

CutLine ==
    /\ pc = "fill" /\ line < Len(lines) /\ Cut
    /\ pc' = "exited"
    /\ UNCHANGED <<PATTERN_ID, config, input, line, capacity, patt_src, table, size, ret,
                   calls, history>>

\* Mutant: the offset of the last pattern is returned.
LastOffset == IF table = <<>> THEN 0 ELSE table[Len(table)].at
BytesUsed  == patt_src

CallEnds ==
    /\ pc = "fill" /\ line = Len(lines)
    /\ size' = BytesUsed
    /\ Return("ok")
    /\ latest' = [kernel |-> csre_config, table |-> table]
    /\ tables' = IF call = "file"
                 THEN tables \cup {[file |-> lines, kernel |-> csre_config, table |-> table]}
                 ELSE tables
    /\ UNCHANGED <<PATTERN_ID, config, input, line, capacity, patt_src, table, calls>>

Stopped ==
    /\ \/ pc = "exited"
       \/ pc = "idle" /\ calls = MaxCalls
    /\ UNCHANGED vars

Next == \/ Configure \/ CompileSingle \/ CompileFile \/ CallFailsEarly
        \/ CountPatterns \/ FillPattern \/ CutLine \/ CallEnds \/ Stopped

Spec == Init /\ [][Next]_vars

-----------------------------------------------------------------------------
(* Types. *)
TypeOK ==
    /\ PATTERN_ID \in Nat
    /\ csre_config \in Configs /\ width \in Nat
    /\ pc \in {"idle", "count", "fill", "exited"}
    /\ call \in {"file", "single"}
    /\ lines \in Seq(Patterns) /\ terminated \in BOOLEAN
    /\ line \in 0 .. Len(lines)
    /\ capacity \in Nat \cup {Null}
    /\ patt_src \in Nat
    /\ table \in Seq(Entries)
    /\ size \in Nat
    /\ ret \in {"none", "ok", "error"}
    /\ calls \in 0 .. MaxCalls
    /\ tables \subseteq [file : Seq(Patterns), kernel : Kernels, table : Seq(Entries)]
    /\ latest \in [kernel : Kernels, table : Seq(Entries)]

(* As long as the process runs the width in force belongs to the            *)
(* configuration in force, and that is one a kernel can have, although a    *)
(* refused one is stored too (core.c:71-78); and the width the file starts  *)
(* with, a literal, is what the equation gives for the other literals       *)
(* (core.c:67, 82-96).                                                      *)
WidthIsOfKernel ==
    pc # "exited" => csre_config \in Kernels /\ width = RegexWidth(csre_config)

(* Every pattern fits in the buffer of its call (compile.cpp:83, 111).      *)
TableFits == pc = "fill" => patt_src <= capacity

(* The kernels' tables agree with each other and with the reference, which  *)
(* numbers patterns by line: whatever was compiled before, in whatever      *)
(* order and for whichever kernel, with or without success, a file gives    *)
(* one table per kernel, the id of a pattern is its line and its length is  *)
(* the kernel's width (core.c:327, 382, regex_ref.cpp:65).                  *)
TablesAgree ==
    /\ \A t \in tables :
          /\ Len(t.table) = Len(t.file)
          /\ \A n \in 1 .. Len(t.table) :
                /\ t.table[n].id = n /\ t.table[n].patt = t.file[n]
                /\ t.table[n].len = RegexWidth(t.kernel)
    /\ \A t, u \in tables : t.file = u.file /\ t.kernel = u.kernel => t.table = u.table

(* The size the caller holds is that of the last table that was completed,  *)
(* up to the last byte of its last pattern and on a bus beat: a call that   *)
(* fails, early or halfway, leaves it alone, while the buffer it hands back *)
(* is another one (core.c:405-408, 427).                                    *)
TableEnd(t) ==
    LET e == t.table[Len(t.table)] IN e.at + REGEX_HEADER_BYTES + ConfigLen[e.patt][t.kernel]

SizeIsOfLatestTable ==
    IF latest.table = <<>> THEN size = 0
    ELSE size % AXI_BEAT = 0 /\ size - TableEnd(latest) \in 0 .. AXI_BEAT - 1

(* compile.cpp:107 reports that the number of expressions exceeds           *)
(* MAX_REGEX_COUNT: no file with more of them is compiled.                  *)
AtMostMaxRegex == \A t \in tables : Len(t.table) <= MAX_REGEX_COUNT
=============================================================================
