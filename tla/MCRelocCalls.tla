---------------------------- MODULE MCRelocCalls ----------------------------
(***************************************************************************)
(* Three sub-programs A, B, C in .text and entry programs in two other     *)
(* sections, with every choice of callee, or none, for six call sites:     *)
(* all call graphs with up to two calls per program, cycles included.      *)
(***************************************************************************)
EXTENDS RelocCalls, TLC

Plain == [call |-> FALSE, imm |-> 0]
CallInsn(imm) == [call |-> TRUE, imm |-> imm]

StartOf == [A |-> 0, B |-> 2, C |-> 3, out |-> 9, none |-> 0]   \* first instruction in .text
Target == {"none", "A", "B", "C"}

(***************************************************************************)
(* The ways a compiler emits a call: within .text without a relocation,    *)
(* from elsewhere against the symbol (imm -1) or against the section.      *)
(***************************************************************************)
Local(t, pos) == IF t = "none" THEN Plain ELSE CallInsn(StartOf[t] - pos - 1)
Global(t) == IF t = "none" THEN Plain ELSE CallInsn(-1)
Static(t) == IF t = "none" THEN Plain ELSE CallInsn(StartOf[t] - 1)

Relo(t, k, off) == IF t = "none" THEN {} ELSE {[insn_idx |-> k, sym_off |-> off]}

Prog(sec, off, code, relos) ==
    [sec_idx |-> sec, sec_insn_off |-> off, sec_insn_cnt |-> Len(code), insns |-> code,
     relos |-> relos]

Obj(o) ==
    [text_shndx |-> 2,
     progs |->
       (0 :> Prog(1, 0, <<Global(o.x), Plain, Static(o.y)>>,
                  Relo(o.x, 0, 8 * StartOf[o.x]) \cup Relo(o.y, 2, 0)) @@
        1 :> Prog(2, 0, <<Local(o.a, 0), Plain>>, {}) @@
        2 :> Prog(2, 2, <<Local(o.b, 2)>>, {}) @@
        3 :> Prog(2, 3, <<Plain, Local(o.c, 4)>>, {}) @@
        4 :> Prog(4, 0, <<Global(o.z)>>, Relo(o.z, 0, 8 * StartOf[o.z]))),
     info |-> [k \in Kinds |->
       (1 :> (IF o.recs = "main" THEN <<>> ELSE <<0>>) @@
        2 :> (IF o.recs = "sub" THEN <<0, 16>>
              ELSE IF k = "func" THEN <<0, 16, 24>> ELSE <<0, 8, 16, 24, 32>>) @@
        4 :> <<0>>)]]

(***************************************************************************)
(* Records for every program; none for the first entry program; none for   *)
(* sub-program C; and a call that leads past the end of .text.             *)
(***************************************************************************)
CallGraphs ==
    [a : Target, b : Target, c : Target, x : Target, y : {"none", "C"}, z : Target,
     recs : {"all"}]
    \cup [a : {"B"}, b : {"none", "C"}, c : {"none", "A"}, x : Target, y : {"C"}, z : Target,
           recs : {"main", "sub"}]
    \cup [a : {"B"}, b : {"none"}, c : {"A"}, x : Target, y : {"C"}, z : {"out"},
           recs : {"all"}]

MCObjects == [o \in CallGraphs |-> Obj(o)]

(***************************************************************************)
(* An entry program that calls a function of its own section: such a call  *)
(* has no relocation.                                                      *)
(***************************************************************************)
SameSection ==
    [o \in {"same"} |->
       [text_shndx |-> 2,
        progs |-> (0 :> Prog(2, 0, <<Plain, Plain>>, {}) @@
                   1 :> Prog(4, 0, <<CallInsn(0)>>, {}) @@
                   2 :> Prog(4, 1, <<Plain>>, {})),
        info |-> [k \in Kinds |-> (2 :> <<>> @@ 4 :> <<>>)]]]

(***************************************************************************)
(* The hypotheses of the theorems hold of the objects above, except that   *)
(* the call of SameSection is outside .text.                               *)
(***************************************************************************)
ASSUME Hypotheses ==
    /\ EntryOutsideText /\ InfoInOrder
    /\ Cardinality(DOMAIN Objects) > 1 => CallsInText
=============================================================================
