-------------------------- MODULE MCRegexCompile --------------------------
(* RegexCompile with two patterns the kernels take, one of them as wide as  *)
(* a kernel allows, and one they refuse; two xclbins, the one README.md     *)
(* describes and one without the key for counters.                          *)
EXTENDS RegexCompile

ReadmeKernel == [DefaultConfig EXCEPT !["STATE_NUM"] = 8]
MCXclbins    == {ReadmeKernel, [ReadmeKernel EXCEPT !["COUNT_NUM"] = -1]}
MCPatterns   == {"short", "widest", "refused"}
MCConfigLen  ==
    [p \in MCPatterns |-> [c \in {DefaultConfig, ReadmeKernel} |->
        CASE p = "short" -> 20 [] p = "widest" -> RegexWidth(c) [] p = "refused" -> 0]]

NoXclbins    == {}
OnePattern   == {"short"}
OneConfigLen == [p \in OnePattern |-> [c \in {DefaultConfig} |-> 20]]
=============================================================================
