------------------------- MODULE RegexCompileProofs -------------------------
(***************************************************************************)
(* RegexCompile for every set of expressions and of kernels whose width    *)
(* the header can hold, and for every number of lines and of calls: the    *)
(* tables fit their buffers and agree, and the size is the latest table's. *)
(*                                                                         *)
(* The inductive invariant says what a table under construction looks      *)
(* like: its entries follow each other as a chain of offsets, each given   *)
(* by the entry before it, and the next offset is at most as many aligned  *)
(* entries of the kernel's width as there are lines done.                  *)
(***************************************************************************)
EXTENDS RegexCompile, SequenceTheorems, WellFoundedInduction, TLAPS

(* Where a table ends: at the bus beat after its last pattern. *)
After(e, c) == csre_align(e.at + REGEX_HEADER_BYTES + ConfigLen[e.patt][c])
EndOf(t, c) == IF t = <<>> THEN 0 ELSE After(t[Len(t)], c)

(* The entries of a table follow each other, with the length of the kernel. *)
LaidOut(t, c) ==
    \A n \in 1 .. Len(t) :
        /\ t[n].at = IF n = 1 THEN 0 ELSE After(t[n - 1], c)
        /\ t[n].len = RegexWidth(c)

(* The entries are those of the first lines of a file, and numbered if it   *)
(* is one; a single expression takes the number the counter is at.          *)
OfLines(t, ls)  == \A n \in 1 .. Len(t) : t[n].patt = ls[n]
Numbered(t)     == \A n \in 1 .. Len(t) : t[n].id = n

Aligned == csre_align(REGEX_HEADER_BYTES + width)

(* Only a line can be cut. *)
CutHasLine == terminated \/ lines # <<>>

(* Every call starts at the start. *)
FreshCount == pc = "count" => line = 0 /\ patt_src = 0 /\ table = <<>>

Building ==
    pc = "fill" =>
        /\ Len(table) = line /\ line <= RegexCount
        /\ OfLines(table, lines)
        /\ call = "file" => PATTERN_ID = line /\ Numbered(table)
        /\ LaidOut(table, csre_config)
        /\ patt_src = EndOf(table, csre_config)
        /\ patt_src <= Aligned * line
        /\ capacity = BufferBytes(RegexCount) + REGEX_HEADER_BYTES

TablesOK ==
    \A t \in tables :
        /\ Len(t.table) = Len(t.file)
        /\ OfLines(t.table, t.file) /\ Numbered(t.table) /\ LaidOut(t.table, t.kernel)

LatestOK == size = EndOf(latest.table, latest.kernel)

IInv == TypeOK /\ WidthIsOfKernel /\ CutHasLine /\ FreshCount /\ Building /\ TablesOK /\ LatestOK

-----------------------------------------------------------------------------
(* Rounding up to a bus beat. *)
LEMMA AlignType ==
    ASSUME NEW n \in Nat
    PROVE  csre_align(n) \in Nat /\ csre_align(n) % 16 = 0 /\ csre_align(n) - n \in 0 .. 15
BY DEF csre_align, AXI_BEAT

LEMMA AlignMonotone ==
    ASSUME NEW n \in Nat, NEW m \in Nat, n <= m
    PROVE  csre_align(n) <= csre_align(m)
BY DEF csre_align, AXI_BEAT

LEMMA AlignAfterBeat ==
    ASSUME NEW n \in Nat, NEW m \in Nat, m % 16 = 0
    PROVE  csre_align(m + n) = m + csre_align(n)
<1>1. (m + n) % 16 = n % 16
    OBVIOUS
<1> QED
    BY <1>1 DEF csre_align, AXI_BEAT

(* The width csre_config has before any xclbin is that of its other values. *)
LEMMA DefaultIsKernel ==
    DefaultConfig \in Configs /\ DefaultConfig \in Kernels /\ RegexWidth(DefaultConfig) = DefaultWidth
<1>1. DefaultConfig \in Configs /\ DefaultConfig \in Kernels
    BY DEF DefaultConfig, Configs, Keys, Kernels
<1>2. /\ DefaultConfig["STATE_NUM"] = 16 /\ DefaultConfig["CHAR_NUM"] = 32
      /\ DefaultConfig["COUNT_NUM"] = 4
    BY DEF DefaultConfig
<1>3. RegexWidthBits(DefaultConfig) = 1872
    BY <1>2 DEF RegexWidthBits, REGEX_ID_WIDTH
<1> QED
    BY <1>1, <1>3 DEF RegexWidth, REGEX_ID_WIDTH, DefaultWidth

LEMMA KernelTypes ==
    ASSUME NEW c \in Kernels
    PROVE  /\ c \in Configs
           /\ RegexWidth(c) \in 0 .. LEN_FIELD - 1
           /\ RegexWidth(c) \in Nat /\ RegexWidth(c) % LEN_FIELD = RegexWidth(c)
           /\ \A p \in Patterns : ConfigLen[p][c] \in Nat /\ ConfigLen[p][c] <= RegexWidth(c)
<1>1. c \in Configs /\ RegexWidth(c) \in 0 .. LEN_FIELD - 1
    BY WidthAssumption, DefaultIsKernel DEF Kernels
<1>2. \A w \in 0 .. LEN_FIELD - 1 : w \in Nat /\ w % LEN_FIELD = w
    BY DEF LEN_FIELD
<1> QED
    BY <1>1, <1>2, WidthAssumption

-----------------------------------------------------------------------------
(* What a table looks like when an entry is added at its end. *)
LEMMA AfterType ==
    ASSUME NEW e \in Entries, NEW c \in Kernels
    PROVE  /\ After(e, c) \in Nat /\ After(e, c) % 16 = 0
           /\ After(e, c) - (e.at + REGEX_HEADER_BYTES + ConfigLen[e.patt][c]) \in 0 .. 15
<1>1. e.at + REGEX_HEADER_BYTES + ConfigLen[e.patt][c] \in Nat
    BY KernelTypes DEF Entries, REGEX_HEADER_BYTES
<1> QED
    BY <1>1, AlignType DEF After

LEMMA EndType ==
    ASSUME NEW t \in Seq(Entries), NEW c \in Kernels
    PROVE  EndOf(t, c) \in Nat /\ EndOf(t, c) % 16 = 0
<1>1. CASE t = <<>>
    BY <1>1 DEF EndOf
<1>2. CASE t # <<>>
  <2>1. Len(t) \in 1 .. Len(t) /\ t[Len(t)] \in Entries
      BY <1>2, EmptySeq, ElementOfSeq
  <2> QED
      BY <1>2, <2>1, AfterType DEF EndOf
<1> QED
    BY <1>1, <1>2

LEMMA AppendEntry ==
    ASSUME NEW t \in Seq(Entries), NEW e \in Entries, NEW c \in Kernels,
           LaidOut(t, c), e.at = EndOf(t, c), e.len = RegexWidth(c)
    PROVE  /\ Append(t, e) \in Seq(Entries) /\ Len(Append(t, e)) = Len(t) + 1
           /\ \A n \in 1 .. Len(t) : Append(t, e)[n] = t[n]
           /\ Append(t, e)[Len(t) + 1] = e
           /\ LaidOut(Append(t, e), c)
           /\ EndOf(Append(t, e), c) = After(e, c)
<1> DEFINE u == Append(t, e)
<1>1. /\ u \in Seq(Entries) /\ Len(u) = Len(t) + 1 /\ Len(t) \in Nat
      /\ \A n \in 1 .. Len(t) : u[n] = t[n]
      /\ u[Len(t) + 1] = e
    BY AppendProperties, LenProperties
<1>2. EndOf(u, c) = After(e, c)
    BY <1>1, EmptySeq DEF EndOf
<1>3. e.at = IF Len(t) + 1 = 1 THEN 0 ELSE After(t[Len(t)], c)
    BY <1>1, EmptySeq DEF EndOf
<1>4. ASSUME NEW n \in 1 .. Len(u)
      PROVE  /\ u[n].at = IF n = 1 THEN 0 ELSE After(u[n - 1], c)
             /\ u[n].len = RegexWidth(c)
  <2>1. CASE n = Len(t) + 1
    <3>1. n # 1 => u[n - 1] = t[Len(t)]
        BY <1>1, <2>1
    <3> QED
        BY <1>1, <1>3, <2>1, <3>1
  <2>2. CASE n \in 1 .. Len(t)
    <3>1. u[n] = t[n] /\ (n # 1 => u[n - 1] = t[n - 1])
        BY <1>1, <2>2
    <3> QED
        BY <2>2, <3>1 DEF LaidOut
  <2> QED
      BY <1>1, <2>1, <2>2
<1>5. LaidOut(u, c)
    BY <1>4 DEF LaidOut
<1> QED
    BY <1>1, <1>2, <1>5

(* Two tables of the same file and kernel are the same: the offsets follow  *)
(* from each other, so that a least entry that differs cannot be.           *)
LEMMA TablesOfOneFile ==
    ASSUME NEW t \in Seq(Entries), NEW u \in Seq(Entries), NEW ls, NEW c \in Kernels,
           Len(t) = Len(ls), OfLines(t, ls), Numbered(t), LaidOut(t, c),
           Len(u) = Len(ls), OfLines(u, ls), Numbered(u), LaidOut(u, c)
    PROVE  t = u
<1> DEFINE Differ == {n \in 1 .. Len(t) : t[n].at # u[n].at}
<1>1. Len(t) \in Nat /\ Len(u) = Len(t)
    BY LenProperties
<1>2. Differ = {}
  <2> SUFFICES ASSUME Differ # {} PROVE FALSE
      OBVIOUS
  <2>1. Differ \subseteq Nat
      BY <1>1
  <2>2. PICK n \in Differ : \A m \in Differ : ~ (<<m, n>> \in OpToRel(<, Nat))
      BY <2>1, NatLessThanWellFounded, WFMin
  <2>3. n \in 1 .. Len(t) /\ n \in 1 .. Len(u) /\ t[n].at # u[n].at
      BY <1>1
  <2>4. CASE n = 1
      BY <2>3, <2>4 DEF LaidOut
  <2>5. CASE n # 1
    <3>1. n - 1 \in 1 .. Len(t) /\ n - 1 < n /\ n - 1 \in Nat /\ n \in Nat
        BY <1>1, <2>3, <2>5
    <3>2. <<n - 1, n>> \in OpToRel(<, Nat)
        BY <3>1 DEF OpToRel
    <3>3. t[n - 1].at = u[n - 1].at
        BY <2>2, <3>1, <3>2
    <3>4. t[n - 1].patt = u[n - 1].patt
        BY <1>1, <3>1 DEF OfLines
    <3>5. After(t[n - 1], c) = After(u[n - 1], c)
        BY <3>3, <3>4 DEF After
    <3> QED
        BY <2>3, <2>5, <3>5 DEF LaidOut
  <2> QED
      BY <2>4, <2>5
<1>3. ASSUME NEW n \in 1 .. Len(t) PROVE t[n] = u[n]
  <2>1. t[n] \in Entries /\ u[n] \in Entries
      BY <1>1, ElementOfSeq
  <2>2. /\ t[n].id = u[n].id /\ t[n].patt = u[n].patt
        /\ t[n].len = u[n].len /\ t[n].at = u[n].at
      BY <1>1, <1>2 DEF Numbered, OfLines, LaidOut
  <2>3. \A e \in Entries : e = [id |-> e.id, len |-> e.len, at |-> e.at, patt |-> e.patt]
      BY DEF Entries
  <2> QED
      BY <2>1, <2>2, <2>3
<1> QED
    BY <1>1, <1>3, SeqEqual

-----------------------------------------------------------------------------
(* The initial state satisfies the invariant. *)
LEMMA InitIInv == Init => IInv
<1> SUFFICES ASSUME Init PROVE IInv
    OBVIOUS
<1>0. /\ <<>> \in Seq(Patterns) /\ <<>> \in Seq(Entries) /\ Len(<<>>) = 0
      /\ 0 \in 0 .. MaxCalls
    BY BoundsAssumption
<1>1. TypeOK
    BY <1>0, DefaultIsKernel DEF Init, TypeOK, DefaultWidth
<1>2. WidthIsOfKernel
    BY DefaultIsKernel DEF Init, WidthIsOfKernel
<1>3. CutHasLine /\ FreshCount /\ Building /\ TablesOK /\ LatestOK
    BY DEF Init, CutHasLine, FreshCount, Building, TablesOK, LatestOK, EndOf
<1> QED
    BY <1>1, <1>2, <1>3 DEF IInv

(* What a call reads is a sequence of expressions. *)
LEMMA InputTypes ==
    /\ Files \subseteq Seq(Patterns)
    /\ [1 .. 1 -> Patterns] \subseteq Seq(Patterns)
<1>1. \A n \in Nat : [1 .. n -> Patterns] \subseteq Seq(Patterns)
    OBVIOUS
<1>2. ASSUME NEW f \in Files PROVE f \in Seq(Patterns)
  <2>1. PICK n \in 0 .. MaxLines : f \in [1 .. n -> Patterns]
      BY DEF Files
  <2> QED
      BY <1>1, <2>1, BoundsAssumption
<1> QED
    BY <1>1, <1>2

(* The sizes of buffers are numbers. *)
LEMMA BufferTypes ==
    ASSUME width \in Nat, NEW n \in Nat
    PROVE  /\ Aligned \in Nat /\ BufferBytes(n) = Aligned * n
           /\ BufferBytes(n) \in Nat /\ BufferBytes(n) + REGEX_HEADER_BYTES \in Nat
<1>1. Aligned \in Nat
    BY AlignType DEF Aligned, REGEX_HEADER_BYTES
<1>2. Aligned * n \in Nat
    BY <1>1
<1> QED
    BY <1>1, <1>2 DEF BufferBytes, Aligned, REGEX_HEADER_BYTES

LEMMA CountType ==
    ASSUME TypeOK, CutHasLine
    PROVE  RegexCount \in Nat
BY LenProperties, EmptySeq DEF TypeOK, RegexCount, CutHasLine

(* A line that is compiled adds its entry to the table. *)
LEMMA FilledEntry ==
    ASSUME IInv, FillPattern, ConfigLen[lines[line + 1]][csre_config] # 0
    PROVE  \E e \in Entries :
              /\ e.id = PATTERN_ID' /\ e.len = RegexWidth(csre_config)
              /\ e.at = patt_src /\ e.patt = lines[line + 1]
              /\ table' = Append(table, e)
              /\ patt_src' = After(e, csre_config)
              /\ line' = line + 1 /\ line' \in 1 .. Len(lines)
              /\ PATTERN_ID' = PATTERN_ID + 1
              /\ UNCHANGED <<pc, ret, config, input, capacity, size, calls, history>>
<1> DEFINE e == [id |-> PATTERN_ID', len |-> width % LEN_FIELD,
                 at |-> patt_src, patt |-> lines[line + 1]]
<1>1. TypeOK /\ csre_config \in Kernels /\ width = RegexWidth(csre_config)
    BY DEF IInv, WidthIsOfKernel, FillPattern
<1>2. line + 1 \in 1 .. Len(lines) /\ lines[line + 1] \in Patterns
    BY <1>1, LenProperties, ElementOfSeq DEF FillPattern, TypeOK
<1>3. PATTERN_ID' \in Nat /\ patt_src \in Nat
    BY <1>1 DEF FillPattern, TypeOK
<1>4. e.len = RegexWidth(csre_config) /\ e.len \in 0 .. LEN_FIELD - 1
    BY <1>1, KernelTypes
<1>5. e \in Entries
    BY <1>2, <1>3, <1>4 DEF Entries
<1>6. /\ table' = Append(table, e)
      /\ patt_src' = After(e, csre_config)
      /\ line' = line + 1 /\ PATTERN_ID' = PATTERN_ID + 1
      /\ UNCHANGED <<pc, ret, config, input, capacity, size, calls, history>>
    BY DEF FillPattern, After
<1> QED
    BY <1>2, <1>4, <1>5, <1>6

(* Types are preserved, and the process goes on only with a configuration   *)
(* that is a kernel's, and with its width.                                  *)
LEMMA TypeStep == IInv /\ [Next]_vars => TypeOK' /\ WidthIsOfKernel'
<1> SUFFICES ASSUME IInv, [Next]_vars PROVE TypeOK' /\ WidthIsOfKernel'
    OBVIOUS
<1>0. TypeOK /\ WidthIsOfKernel
    BY DEF IInv
<1>1. CASE Configure
  <2>1. csre_config' \in Xclbins /\ csre_config' \in Configs
      BY <1>1, WidthAssumption DEF Configure
  <2>2. calls' \in 0 .. MaxCalls
      BY <1>0, <1>1, BoundsAssumption DEF Configure, TypeOK
  <2>3. CASE Usable(csre_config')
    <3>1. csre_config' \in Kernels /\ width' = RegexWidth(csre_config') /\ pc' = pc
        BY <1>1, <2>1, <2>3 DEF Configure, Kernels
    <3>2. width' \in Nat
        BY <3>1, KernelTypes
    <3> QED
        BY <1>0, <1>1, <2>1, <2>2, <3>1, <3>2
        DEF Configure, input, history, TypeOK, WidthIsOfKernel
  <2>4. CASE ~ Usable(csre_config')
    <3>1. width' \in Nat /\ pc' = "exited"
        BY <1>1, <2>4 DEF Configure, CallerStops, DefaultWidth
    <3> QED
        BY <1>0, <1>1, <2>1, <2>2, <3>1
        DEF Configure, input, history, TypeOK, WidthIsOfKernel
  <2> QED
      BY <2>3, <2>4
<1>2. CASE CompileSingle \/ CompileFile
  <2>1. calls' \in 0 .. MaxCalls
      BY <1>0, <1>2, BoundsAssumption DEF CompileSingle, CompileFile, Begin, TypeOK
  <2>2. lines' \in Seq(Patterns) /\ 0 \in 0 .. Len(lines')
      BY <1>2, InputTypes, LenProperties DEF CompileSingle, CompileFile
  <2>3. capacity' \in Nat \cup {Null}
    <3>1. BufferBytes(1) + REGEX_HEADER_BYTES \in Nat
        BY <1>0, BufferTypes DEF TypeOK
    <3> QED
        BY <1>0, <1>2, <3>1 DEF CompileSingle, CompileFile, TypeOK
  <2>4. PATTERN_ID' = PATTERN_ID /\ call' \in {"file", "single"} /\ terminated' \in BOOLEAN
        /\ pc' \in {"count", "fill"} /\ pc = "idle"
      BY <1>2 DEF CompileSingle, CompileFile, Begin
  <2>5. /\ line' = 0 /\ patt_src' = 0 /\ table' = <<>>
        /\ UNCHANGED <<csre_config, width, size, ret, tables, latest>>
      BY <1>2 DEF CompileSingle, CompileFile, Begin, config, history
  <2>6. <<>> \in Seq(Entries)
      BY EmptySeq
  <2> QED
      BY <1>0, <2>1, <2>2, <2>3, <2>4, <2>5, <2>6 DEF TypeOK, WidthIsOfKernel
<1>3. CASE CallFailsEarly
  <2>1. calls' \in 0 .. MaxCalls
      BY <1>0, <1>3, BoundsAssumption DEF CallFailsEarly, TypeOK
  <2> QED
      BY <1>0, <1>3, <2>1 DEF CallFailsEarly, config, input, history, TypeOK, WidthIsOfKernel
<1>4. CASE CountPatterns
  <2>1. /\ pc' \in {"idle", "count", "fill"} /\ pc = "count" /\ ret' \in {"none", "ok", "error"}
        /\ PATTERN_ID' \in Nat
        /\ UNCHANGED <<config, input, line, patt_src, table, size, calls, history>>
      BY <1>0, <1>4 DEF CountPatterns, Return, CounterReset, TypeOK
  <2>2. capacity' \in Nat \cup {Null}
    <3>1. CASE UNCHANGED capacity
        BY <1>0, <3>1 DEF TypeOK
    <3>2. CASE capacity' \in alloc_mem(BufferBytes(RegexCount))
      <4>1. RegexCount \in Nat
          BY CountType DEF IInv
      <4> QED
          BY <1>0, <3>2, <4>1, BufferTypes DEF alloc_mem, TypeOK
    <3> QED
        BY <1>4, <3>1, <3>2 DEF CountPatterns
  <2> QED
      BY <1>0, <2>1, <2>2 DEF config, input, history, TypeOK, WidthIsOfKernel
<1>5. CASE FillPattern
  <2>1. CASE ConfigLen[lines[line + 1]][csre_config] = 0
    <3>1. /\ PATTERN_ID' \in Nat /\ pc' = "idle" /\ ret' = "error"
          /\ UNCHANGED <<line, patt_src, table, config, input, capacity, size, calls, history>>
        BY <1>0, <1>5, <2>1 DEF FillPattern, Return, TypeOK
    <3> QED
        BY <1>0, <1>5, <3>1 DEF FillPattern, config, input, history, TypeOK, WidthIsOfKernel
  <2>2. CASE ConfigLen[lines[line + 1]][csre_config] # 0
    <3>1. PICK e \in Entries :
              /\ table' = Append(table, e)
              /\ patt_src' = After(e, csre_config)
              /\ line' = line + 1 /\ line' \in 1 .. Len(lines)
              /\ PATTERN_ID' = PATTERN_ID + 1
              /\ UNCHANGED <<pc, ret, config, input, capacity, size, calls, history>>
        BY <1>5, <2>2, FilledEntry
    <3>2. patt_src' \in Nat /\ table' \in Seq(Entries) /\ line' \in 0 .. Len(lines)
        BY <1>0, <1>5, <3>1, AfterType, AppendProperties, LenProperties
        DEF FillPattern, TypeOK, WidthIsOfKernel
    <3> QED
        BY <1>0, <3>1, <3>2 DEF config, input, history, TypeOK, WidthIsOfKernel
  <2> QED
      BY <2>1, <2>2
<1>6. CASE CutLine
    BY <1>0, <1>6 DEF CutLine, config, input, history, TypeOK, WidthIsOfKernel
<1>7. CASE CallEnds
  <2>1. csre_config \in Kernels
      BY <1>0, <1>7 DEF CallEnds, WidthIsOfKernel
  <2>2. /\ size' = patt_src /\ pc' = "idle" /\ pc = "fill" /\ ret' = "ok"
        /\ UNCHANGED <<PATTERN_ID, config, input, line, capacity, patt_src, table, calls>>
      BY <1>7 DEF CallEnds, Return, BytesUsed
  <2>3. /\ latest' \in [kernel : Kernels, table : Seq(Entries)]
        /\ tables' \subseteq [file : Seq(Patterns), kernel : Kernels, table : Seq(Entries)]
      BY <1>0, <1>7, <2>1 DEF CallEnds, TypeOK
  <2> QED
      BY <1>0, <2>2, <2>3 DEF config, input, TypeOK, WidthIsOfKernel
<1>8. CASE Stopped \/ UNCHANGED vars
  <2>1. UNCHANGED vars
      BY <1>8 DEF Stopped
  <2> QED
      BY <1>0, <2>1 DEF vars, config, input, history, TypeOK, WidthIsOfKernel
<1> QED
    BY <1>1, <1>2, <1>3, <1>4, <1>5, <1>6, <1>7, <1>8 DEF Next

-----------------------------------------------------------------------------
(* The table under construction. *)
LEMMA BuildingStep == IInv /\ [Next]_vars => CutHasLine' /\ Building'
<1> SUFFICES ASSUME IInv, [Next]_vars PROVE CutHasLine' /\ Building'
    OBVIOUS
<1>0. TypeOK /\ WidthIsOfKernel /\ CutHasLine /\ Building
    BY DEF IInv
<1>1. CASE Configure
  <2>1. pc' # "fill" /\ UNCHANGED <<lines, terminated>>
      BY <1>1 DEF Configure, CallerStops, input
  <2> QED
      BY <1>0, <2>1 DEF Building, CutHasLine
<1>2. CASE CompileSingle
  <2>1. /\ call' = "single" /\ Len(lines') = 1 /\ terminated' = TRUE /\ line' = 0
        /\ patt_src' = 0 /\ table' = <<>> /\ width' = width
        /\ capacity' = BufferBytes(1) + REGEX_HEADER_BYTES
      BY <1>2, LenProperties, InputTypes DEF CompileSingle, Begin, config
  <2>2. RegexCount' = 1 /\ Aligned' * 0 = 0 /\ (BufferBytes(RegexCount))' = BufferBytes(1)
    <3>1. RegexCount' = 1 /\ Aligned' = Aligned
        BY <2>1 DEF RegexCount, Aligned
    <3> QED
        BY <1>0, <2>1, <3>1, BufferTypes DEF TypeOK, BufferBytes
  <2>3. /\ OfLines(<<>>, lines') /\ LaidOut(<<>>, csre_config')
        /\ EndOf(<<>>, csre_config') = 0 /\ Len(<<>>) = 0
      BY DEF OfLines, LaidOut, EndOf
  <2> QED
      BY <2>1, <2>2, <2>3 DEF Building, CutHasLine
<1>3. CASE CompileFile
    BY <1>3 DEF CompileFile, Begin, Building, CutHasLine
<1>4. CASE CallFailsEarly
  <2>1. pc' # "fill" /\ UNCHANGED <<lines, terminated>>
      BY <1>4 DEF CallFailsEarly, input
  <2> QED
      BY <1>0, <2>1 DEF Building, CutHasLine
<1>5. CASE CountPatterns
  <2>1. pc = "count" /\ UNCHANGED <<config, input, line, patt_src, table>>
      BY <1>5 DEF CountPatterns
  <2>2. CutHasLine' /\ Aligned' = Aligned /\ RegexCount' = RegexCount
      BY <1>0, <2>1 DEF input, config, CutHasLine, RegexCount, Aligned
  <2>3. CASE pc' = "fill"
    <3>1. /\ capacity' = BufferBytes(RegexCount) + REGEX_HEADER_BYTES
          /\ PATTERN_ID' = 0
        BY <1>5, <2>1, <2>3 DEF CountPatterns, Return, CounterReset, alloc_mem
    <3>2. line = 0 /\ patt_src = 0 /\ table = <<>>
        BY <1>0, <2>1 DEF FreshCount, IInv
    <3>3. /\ OfLines(<<>>, lines) /\ LaidOut(<<>>, csre_config)
          /\ EndOf(<<>>, csre_config) = 0 /\ Len(<<>>) = 0 /\ Numbered(<<>>)
        BY DEF OfLines, LaidOut, EndOf, Numbered
    <3>4. 0 <= RegexCount /\ 0 <= Aligned * 0
      <4>1. RegexCount \in Nat /\ Aligned \in Nat
          BY <1>0, CountType, BufferTypes, 0 \in Nat DEF TypeOK
      <4> QED
          BY <4>1
    <3>5. (BufferBytes(RegexCount))' = BufferBytes(RegexCount)
        BY <2>1, <2>2 DEF BufferBytes, config
    <3>6. Building'
        BY <2>1, <2>2, <3>1, <3>2, <3>3, <3>4, <3>5 DEF Building, config, input
    <3> QED
        BY <2>2, <3>6
  <2> QED
      BY <2>2, <2>3 DEF Building
<1>6. CASE FillPattern
  <2>0. pc = "fill" /\ line < Len(lines) /\ ~ Cut
      BY <1>6 DEF FillPattern
  <2>1. UNCHANGED <<config, input, capacity>>
      BY <1>6 DEF FillPattern
  <2>2. CutHasLine' /\ Aligned' = Aligned /\ RegexCount' = RegexCount
      BY <1>0, <2>1 DEF input, config, CutHasLine, RegexCount, Aligned
  <2>3. CASE ConfigLen[lines[line + 1]][csre_config] = 0
    <3>1. pc' = "idle"
        BY <1>6, <2>3 DEF FillPattern, Return
    <3> QED
        BY <2>2, <3>1 DEF Building
  <2>4. CASE ConfigLen[lines[line + 1]][csre_config] # 0
    <3>1. PICK e \in Entries :
              /\ e.id = PATTERN_ID' /\ e.len = RegexWidth(csre_config)
              /\ e.at = patt_src /\ e.patt = lines[line + 1]
              /\ table' = Append(table, e)
              /\ patt_src' = After(e, csre_config)
              /\ line' = line + 1 /\ PATTERN_ID' = PATTERN_ID + 1
        BY <1>6, <2>4, FilledEntry
    <3>2. csre_config \in Kernels /\ table \in Seq(Entries) /\ line \in Nat /\ patt_src \in Nat
          /\ Len(table) = line
        BY <1>0, <2>0 DEF WidthIsOfKernel, TypeOK, Building
    <3>3. /\ Len(table') = line'
          /\ \A n \in 1 .. line : table'[n] = table[n]
          /\ table'[line + 1] = e
          /\ LaidOut(table', csre_config)
          /\ patt_src' = EndOf(table', csre_config)
        BY <1>0, <2>0, <3>1, <3>2, AppendEntry DEF Building
    <3>4. \A n \in 1 .. line + 1 : n \in 1 .. line \/ n = line + 1
        BY <3>2
    <3>5. OfLines(table', lines)
        BY <1>0, <2>0, <3>1, <3>2, <3>3, <3>4 DEF Building, OfLines
    <3>6. call = "file" => PATTERN_ID' = line' /\ Numbered(table')
        BY <1>0, <2>0, <3>1, <3>2, <3>3, <3>4 DEF Building, Numbered
    <3>7. line' <= RegexCount
        BY <1>0, <2>0, <3>1, <3>2, LenProperties DEF Cut, RegexCount, TypeOK
    <3>8. patt_src' <= Aligned * line'
      <4>1. ConfigLen[e.patt][csre_config] \in Nat /\ ConfigLen[e.patt][csre_config] <= width
            /\ width \in Nat
          BY <1>0, <2>0, <3>2, KernelTypes DEF Entries, WidthIsOfKernel, TypeOK
      <4>2. /\ REGEX_HEADER_BYTES + ConfigLen[e.patt][csre_config] \in Nat
            /\ REGEX_HEADER_BYTES + width \in Nat
            /\ REGEX_HEADER_BYTES + ConfigLen[e.patt][csre_config] <= REGEX_HEADER_BYTES + width
          BY <4>1 DEF REGEX_HEADER_BYTES
      <4>3. csre_align(REGEX_HEADER_BYTES + ConfigLen[e.patt][csre_config]) <= Aligned
          BY <4>2, AlignMonotone DEF Aligned
      <4>4. patt_src % 16 = 0
          BY <1>0, <2>0, <3>2, EndType DEF Building
      <4>5. patt_src' = patt_src + csre_align(REGEX_HEADER_BYTES + ConfigLen[e.patt][csre_config])
        <5>1. patt_src + REGEX_HEADER_BYTES + ConfigLen[e.patt][csre_config]
                = patt_src + (REGEX_HEADER_BYTES + ConfigLen[e.patt][csre_config])
            BY <3>2, <4>1 DEF REGEX_HEADER_BYTES
        <5> QED
            BY <3>1, <3>2, <4>2, <4>4, <5>1, AlignAfterBeat DEF After
      <4>6. patt_src <= Aligned * line /\ Aligned \in Nat
          BY <1>0, <2>0, <4>1, BufferTypes DEF Building
      <4>7. Aligned * (line + 1) = Aligned * line + Aligned
          BY <3>2, <4>6
      <4>8. csre_align(REGEX_HEADER_BYTES + ConfigLen[e.patt][csre_config]) \in Nat
            /\ Aligned * line \in Nat
        <5>1. csre_align(REGEX_HEADER_BYTES + ConfigLen[e.patt][csre_config]) \in Nat
            BY <4>2, AlignType
        <5>2. \A a, b \in Nat : a * b \in Nat
            OBVIOUS
        <5> QED
            BY <3>2, <4>6, <5>1, <5>2
      <4> QED
          BY <3>1, <3>2, <4>3, <4>5, <4>6, <4>7, <4>8
    <3>9. capacity' = (BufferBytes(RegexCount) + REGEX_HEADER_BYTES)'
        BY <1>0, <2>0, <2>1, <2>2 DEF Building, BufferBytes, config
    <3>10. Building'
        BY <2>1, <2>2, <3>3, <3>5, <3>6, <3>7, <3>8, <3>9 DEF Building, config, input
    <3> QED
        BY <2>2, <3>10
  <2> QED
      BY <2>3, <2>4
<1>7. CASE CutLine \/ CallEnds
  <2>1. pc' # "fill" /\ UNCHANGED <<lines, terminated>>
      BY <1>7 DEF CutLine, CallEnds, Return, input
  <2> QED
      BY <1>0, <2>1 DEF Building, CutHasLine
<1>8. CASE Stopped \/ UNCHANGED vars
  <2>1. UNCHANGED vars
      BY <1>8 DEF Stopped
  <2> QED
      BY <1>0, <2>1
      DEF vars, config, input, Building, CutHasLine, RegexCount, Aligned, BufferBytes
<1> QED
    BY <1>1, <1>2, <1>3, <1>4, <1>5, <1>6, <1>7, <1>8 DEF Next

LEMMA FreshStep == IInv /\ [Next]_vars => FreshCount'
<1> SUFFICES ASSUME IInv, [Next]_vars, pc' = "count"
             PROVE  line' = 0 /\ patt_src' = 0 /\ table' = <<>>
    BY DEF FreshCount
<1>1. CASE CompileFile
    BY <1>1 DEF CompileFile, Begin
<1>2. CASE pc = "count" /\ UNCHANGED <<line, patt_src, table>>
    BY <1>2 DEF IInv, FreshCount
<1>3. (pc = "count" /\ UNCHANGED <<line, patt_src, table>>) \/ CompileFile
  <2>1. ~ (Configure \/ CompileSingle \/ CallFailsEarly \/ FillPattern \/ CutLine \/ CallEnds)
      BY DEF Configure, CallerStops, CompileSingle, Begin, CallFailsEarly, FillPattern,
             CutLine, CallEnds, Return
  <2> QED
      BY <2>1 DEF Next, CountPatterns, Stopped, vars
<1> QED
    BY <1>1, <1>2, <1>3

(* The tables that were completed, and the size of the last of them.        *)
LEMMA HistoryStep == IInv /\ [Next]_vars => TablesOK' /\ LatestOK'
<1> SUFFICES ASSUME IInv, [Next]_vars PROVE TablesOK' /\ LatestOK'
    OBVIOUS
<1>0. TypeOK /\ TablesOK /\ LatestOK
    BY DEF IInv
<1>1. CASE UNCHANGED <<tables, latest, size>>
    BY <1>0, <1>1 DEF TablesOK, LatestOK
<1>2. CASE CallEnds
  <2>1. pc = "fill" /\ line = Len(lines) /\ Building
      BY <1>2 DEF CallEnds, IInv
  <2>2. LatestOK'
      BY <1>2, <2>1 DEF CallEnds, BytesUsed, Building, LatestOK
  <2>3. CASE call = "file"
    <3> DEFINE t == [file |-> lines, kernel |-> csre_config, table |-> table]
    <3>1. tables' = tables \cup {t}
        BY <1>2, <2>3 DEF CallEnds
    <3>2. /\ Len(t.table) = Len(t.file)
          /\ OfLines(t.table, t.file) /\ Numbered(t.table) /\ LaidOut(t.table, t.kernel)
        BY <2>1, <2>3 DEF Building
    <3> QED
        BY <1>0, <2>2, <3>1, <3>2 DEF TablesOK
  <2>4. CASE call # "file"
      BY <1>0, <1>2, <2>2, <2>4 DEF CallEnds, TablesOK
  <2> QED
      BY <2>3, <2>4
<1>3. CallEnds \/ UNCHANGED <<tables, latest, size>>
    BY DEF Next, vars, history, Configure, CompileSingle, CompileFile, Begin, CallFailsEarly,
           CountPatterns, FillPattern, CutLine, Stopped
<1> QED
    BY <1>1, <1>2, <1>3

LEMMA Invariant == Spec => []IInv
<1>1. IInv /\ [Next]_vars => IInv'
    BY TypeStep, BuildingStep, FreshStep, HistoryStep DEF IInv
<1> QED
    BY <1>1, InitIInv, PTL DEF Spec

-----------------------------------------------------------------------------
(* Every variable keeps its type, the length in a header the range of its   *)
(* field.                                                                   *)
THEOREM TypeCorrect == Spec => []TypeOK
<1>1. IInv => TypeOK
    BY DEF IInv
<1> QED
    BY <1>1, Invariant, PTL

(* The width in force is that of the kernel in force, whatever xclbins are  *)
(* loaded: a configuration that is refused is stored, but the process does  *)
(* not go on with it (core.c:71-96).                                        *)
THEOREM WidthFollowsKernel == Spec => []WidthIsOfKernel
<1>1. IInv => WidthIsOfKernel
    BY DEF IInv
<1> QED
    BY <1>1, Invariant, PTL

(* No table outgrows the buffer of its call, for every number of lines and  *)
(* every widths of patterns up to the kernel's (compile.cpp:83, 111).       *)
THEOREM TablesFit == Spec => []TableFits
<1>1. IInv => TableFits
  <2> SUFFICES ASSUME IInv, pc = "fill" PROVE patt_src <= capacity
      BY DEF TableFits
  <2>1. /\ line <= RegexCount /\ patt_src <= Aligned * line
        /\ capacity = BufferBytes(RegexCount) + REGEX_HEADER_BYTES
      BY DEF IInv, Building
  <2>2. RegexCount \in Nat /\ line \in Nat /\ width \in Nat /\ patt_src \in Nat
      BY CountType DEF IInv, TypeOK
  <2>3. Aligned \in Nat /\ BufferBytes(RegexCount) = Aligned * RegexCount
      BY <2>2, BufferTypes
  <2>4. \A a, m, n \in Nat : m <= n => a * m \in Nat /\ a * n \in Nat /\ a * m <= a * n
      OBVIOUS
  <2>5. /\ Aligned * line \in Nat /\ Aligned * RegexCount \in Nat
        /\ Aligned * line <= Aligned * RegexCount
      BY <2>1, <2>2, <2>3, <2>4
  <2> QED
      BY <2>1, <2>2, <2>3, <2>5 DEF REGEX_HEADER_BYTES
<1> QED
    BY <1>1, Invariant, PTL

(* However many calls were made before, a file gives one table per kernel,  *)
(* with the number of its line as the id of each pattern (core.c:327, 382). *)
THEOREM TablesOfOneFileAgree == Spec => []TablesAgree
<1>1. IInv => TablesAgree
  <2> SUFFICES ASSUME IInv PROVE TablesAgree
      OBVIOUS
  <2>1. ASSUME NEW t \in tables
        PROVE  /\ t.kernel \in Kernels /\ t.table \in Seq(Entries)
               /\ Len(t.table) = Len(t.file) /\ OfLines(t.table, t.file)
               /\ Numbered(t.table) /\ LaidOut(t.table, t.kernel)
      BY DEF IInv, TypeOK, TablesOK
  <2>2. ASSUME NEW t \in tables, NEW n \in 1 .. Len(t.table)
        PROVE  /\ t.table[n].id = n /\ t.table[n].patt = t.file[n]
               /\ t.table[n].len = RegexWidth(t.kernel)
      BY <2>1 DEF OfLines, Numbered, LaidOut
  <2>3. ASSUME NEW t \in tables, NEW u \in tables, t.file = u.file, t.kernel = u.kernel
        PROVE  t.table = u.table
      BY <2>1, <2>3, TablesOfOneFile
  <2> QED
      BY <2>1, <2>2, <2>3 DEF TablesAgree
<1> QED
    BY <1>1, Invariant, PTL

(* The size the caller holds ends on the bus beat after the last pattern of *)
(* the last table that was completed (core.c:405-408, 427).                 *)
THEOREM SizeFollowsTable == Spec => []SizeIsOfLatestTable
<1>1. IInv => SizeIsOfLatestTable
  <2> SUFFICES ASSUME IInv, latest.table # <<>>
               PROVE  size % AXI_BEAT = 0 /\ size - TableEnd(latest) \in 0 .. AXI_BEAT - 1
      BY DEF SizeIsOfLatestTable, IInv, LatestOK, EndOf
  <2> DEFINE e == latest.table[Len(latest.table)]
  <2>1. latest.kernel \in Kernels /\ latest.table \in Seq(Entries)
      BY DEF IInv, TypeOK
  <2>2. e \in Entries
    <3>1. Len(latest.table) \in 1 .. Len(latest.table)
        BY <2>1, EmptySeq, LenProperties
    <3> QED
        BY <2>1, <3>1, ElementOfSeq
  <2>3. size = After(e, latest.kernel)
      BY DEF IInv, LatestOK, EndOf
  <2>4. TableEnd(latest) = e.at + REGEX_HEADER_BYTES + ConfigLen[e.patt][latest.kernel]
      BY DEF TableEnd
  <2>5. /\ After(e, latest.kernel) % 16 = 0
        /\ After(e, latest.kernel) - (e.at + REGEX_HEADER_BYTES + ConfigLen[e.patt][latest.kernel])
              \in 0 .. 15
      BY <2>1, <2>2, AfterType
  <2>6. AXI_BEAT = 16 /\ AXI_BEAT - 1 = 15
      BY DEF AXI_BEAT
  <2> QED
      BY <2>3, <2>4, <2>5, <2>6
<1> QED
    BY <1>1, Invariant, PTL
=============================================================================
