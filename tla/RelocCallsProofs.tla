-------------------------- MODULE RelocCallsProofs --------------------------
(***************************************************************************)
(* Call relocation of an object with any programs and any call graph:      *)
(* reloc_code() works on the main program alone, and its recursion is      *)
(* bounded by the number of programs.                                      *)
(***************************************************************************)
EXTENDS RelocCalls, FiniteSetTheorems, WellFoundedInduction, TLAPS

(***************************************************************************)
(* The inductive invariant.  The outermost activation is that of the main  *)
(* program, which is not a sub-program; every other one is of a program    *)
(* that has been marked as appended, and of no other activation's program. *)
(* Marking works because a main program is never empty: 0 is no position   *)
(* of a copy.                                                              *)
(***************************************************************************)
Frames ==
    /\ stack # <<>> => m \in Progs /\ ~IsSubprog(m) /\ stack[1].prog = m
    /\ \A a \in 2 .. Len(stack) : sub_insn_off[stack[a].prog] # 0
    /\ \A a, b \in 2 .. Len(stack) : a # b => stack[a].prog # stack[b].prog
    /\ Len(stack) >= 2 /\ LastIdx(progs) # 0 =>
         \A a \in 2 .. Len(stack) : stack[a].prog # m

NonEmpty == \A p \in Progs : Len(insns[p]) > 0

IInv == TypeOK /\ Frames /\ NonEmpty /\ SubprogsUntouched

LEMMA ObjectFacts ==
    ASSUME id \in DOMAIN Objects
    PROVE  /\ LastIdx(progs) \in Nat /\ Progs = 0 .. LastIdx(progs)
           /\ \A p \in Progs : /\ progs[p].insns \in Seq(Insns)
                               /\ Len(progs[p].insns) > 0
                               /\ progs[p].sec_insn_cnt \in Nat
BY ObjectsWellFormed DEF progs, Progs, WellFormed, IsProgram

(***************************************************************************)
(* What reloc_code() takes for the callee is a program of .text, so it is  *)
(* the main program only where that is the only program.                   *)
(***************************************************************************)
LEMMA CalleeFacts ==
    ASSUME Callee # NULL
    PROVE  Callee \in Progs /\ progs[Callee].sec_idx = text_shndx
<1>1. PICK p \in Progs : Owns(progs[p], text_shndx, SubInsnIdx(Top, Insn.imm))
  BY DEF Callee, OwnerOf, Progs
<1>2. Callee \in Progs /\ Owns(progs[Callee], text_shndx, SubInsnIdx(Top, Insn.imm))
  BY <1>1 DEF Callee, OwnerOf, Progs
<1> QED BY <1>2 DEF Owns

LEMMA CalleeNotMain ==
    ASSUME Callee # NULL, m \in Progs, ~IsSubprog(m), id \in DOMAIN Objects,
           LastIdx(progs) # 0
    PROVE  Callee # m
BY CalleeFacts, ObjectFacts DEF IsSubprog

LEMMA InitIInv == Init => IInv
<1>1. SUFFICES ASSUME Init PROVE IInv
  OBVIOUS
<1>2. id \in DOMAIN Objects
  BY <1>1 DEF Init
<1>3. TypeOK
  BY <1>1, <1>2, ObjectFacts DEF Init, TypeOK
<1>4. Frames
  BY <1>1 DEF Init, Frames
<1>5. NonEmpty
  BY <1>1, <1>2, ObjectFacts DEF Init, NonEmpty
<1>6. SubprogsUntouched
  BY <1>1 DEF Init, SubprogsUntouched
<1> QED BY <1>3, <1>4, <1>5, <1>6 DEF IInv

(***************************************************************************)
(* The object does not change, and neither does what is read from it.      *)
(***************************************************************************)
LEMMA SameObject ==
    ASSUME id' = id
    PROVE  /\ progs' = progs /\ Progs' = Progs /\ text_shndx' = text_shndx
           /\ LastIdx(progs)' = LastIdx(progs)
           /\ \A p : IsSubprog(p)' <=> IsSubprog(p)
BY DEF progs, Progs, text_shndx, IsSubprog

(***************************************************************************)
(* A step changes no code that must stay when it changes at most the code  *)
(* of the main program, and moves on to the next program or to none.       *)
(***************************************************************************)
LEMMA OthersKept ==
    /\ IInv /\ id' = id
    /\ \/ insns' = insns /\ (m' = m \/ m' = m + 1)
       \/ /\ m' = m /\ m \in Progs /\ ~IsSubprog(m)
          /\ \A p \in Progs \ {m} : insns'[p] = insns[p]
    => SubprogsUntouched'
<1>1. SUFFICES ASSUME IInv, id' = id,
                      \/ insns' = insns /\ (m' = m \/ m' = m + 1)
                      \/ /\ m' = m /\ m \in Progs /\ ~IsSubprog(m)
                         /\ \A p \in Progs \ {m} : insns'[p] = insns[p],
                      NEW p \in Progs, IsSubprog(p) \/ p > m'
               PROVE  insns'[p] = progs[p].insns
  BY SameObject DEF SubprogsUntouched
<1>2. m \in Nat /\ p \in Nat
  BY <1>1, ObjectFacts DEF IInv, TypeOK
<1>3. IsSubprog(p) \/ p > m
  BY <1>1, <1>2
<1>4. insns[p] = progs[p].insns
  BY <1>1, <1>3 DEF IInv, SubprogsUntouched
<1>5. insns'[p] = insns[p]
  BY <1>1, <1>2
<1> QED BY <1>4, <1>5

LEMMA SetImm ==
    ASSUME NEW s \in Seq(Insns), NEW q \in Int, NEW v \in Int
    PROVE  /\ [s EXCEPT ![q].imm = v] \in Seq(Insns)
           /\ Len([s EXCEPT ![q].imm = v]) = Len(s)
<1> DEFINE t == [s EXCEPT ![q].imm = v]
<1>1. Len(s) \in Nat /\ s \in [1 .. Len(s) -> Insns]
  OBVIOUS
<1>2. ASSUME NEW x \in 1 .. Len(s) PROVE t[x] \in Insns
  <2>1. s[x] \in Insns
    BY <1>1
  <2>2. [s[x] EXCEPT !.imm = v] \in Insns
    BY <2>1 DEF Insns
  <2>3. t[x] = IF x = q THEN [s[x] EXCEPT !.imm = v] ELSE s[x]
    BY <1>1
  <2> QED BY <2>1, <2>2, <2>3
<1>3. t = [x \in 1 .. Len(s) |-> t[x]]
  BY <1>1
<1> HIDE DEF t
<1>4. t \in [1 .. Len(s) -> Insns]
  BY <1>2, <1>3
<1>5. t \in Seq(Insns) /\ Len(t) = Len(s)
  BY <1>1, <1>4
<1> QED BY <1>5 DEF t

(***************************************************************************)
(* Pointing a call at its callee: one imm of the main program.             *)
(***************************************************************************)
LEMMA PatchedFacts ==
    ASSUME TypeOK, NonEmpty, m \in Progs,
           NEW f \in [prog : Progs, insn_idx : Nat], NEW c \in Progs
    PROVE  /\ Patched(f, c) \in [Progs -> Seq(Insns)]
           /\ \A p \in Progs : Len(Patched(f, c)[p]) > 0
           /\ \A p \in Progs \ {m} : Patched(f, c)[p] = insns[p]
<1> DEFINE v == Displacement(sub_insn_off[c], At(f))
           g == [insns[m] EXCEPT ![At(f) + 1].imm = v]
<1>1. v \in Int /\ At(f) + 1 \in Int
  <2>1. f.prog \in Progs /\ f.insn_idx \in Nat
    OBVIOUS
  <2>2. sub_insn_off[f.prog] \in Nat /\ sub_insn_off[c] \in Nat
    BY <2>1 DEF TypeOK
  <2> QED BY <2>1, <2>2 DEF Displacement, At
<1>2. insns[m] \in Seq(Insns) /\ Len(insns[m]) > 0
  BY DEF TypeOK, NonEmpty
<1>3. g \in Seq(Insns) /\ Len(g) = Len(insns[m])
  <2> HIDE DEF v
  <2> QED BY <1>1, <1>2, SetImm
<1>4. Patched(f, c) = [insns EXCEPT ![m] = g]
  BY DEF Patched
<1> HIDE DEF g
<1> QED BY <1>2, <1>3, <1>4 DEF TypeOK, NonEmpty

Frame == [prog : Progs, insn_idx : Nat]

LEMMA TopFacts ==
    ASSUME TypeOK, stack # <<>>
    PROVE  /\ stack \in Seq(Frame) /\ Len(stack) \in Nat /\ Len(stack) >= 1
           /\ \A a \in 1 .. Len(stack) :
                stack[a] \in Frame /\ stack[a].prog \in Progs /\ stack[a].insn_idx \in Nat
           /\ Top \in Frame /\ Top.prog \in Progs /\ Top.insn_idx \in Nat
<1>1. stack \in Seq(Frame)
  BY DEF TypeOK, Frame
<1>2. Len(stack) \in Nat /\ Len(stack) >= 1 /\ stack \in [1 .. Len(stack) -> Frame]
  BY <1>1
<1>3. ASSUME NEW f \in Frame PROVE f.prog \in Progs /\ f.insn_idx \in Nat
  BY <1>3 DEF Frame
<1>4. \A a \in 1 .. Len(stack) : stack[a] \in Frame
  BY <1>2
<1>5. Top \in Frame
  BY <1>2, <1>4 DEF Top
<1> QED BY <1>1, <1>2, <1>3, <1>4, <1>5

(***************************************************************************)
(* The next instruction of the innermost activation.                       *)
(***************************************************************************)
LEMMA AdvanceFacts ==
    ASSUME NEW s \in Seq(Frame), s # <<>>
    PROVE  /\ Advance(s) \in Seq(Frame) /\ Len(Advance(s)) = Len(s) /\ Advance(s) # <<>>
           /\ \A a \in 1 .. Len(s) : Advance(s)[a].prog = s[a].prog
<1> DEFINE t == Advance(s)
<1>1. Len(s) \in Nat /\ Len(s) >= 1 /\ s \in [1 .. Len(s) -> Frame]
  OBVIOUS
<1>2. ASSUME NEW a \in 1 .. Len(s)
      PROVE  t[a] \in Frame /\ t[a].prog = s[a].prog
  <2>1. s[a] \in Frame
    BY <1>1
  <2>2. [s[a] EXCEPT !.insn_idx = s[a].insn_idx + 1] \in Frame
    BY <2>1 DEF Frame
  <2>3. [s[a] EXCEPT !.insn_idx = s[a].insn_idx + 1].prog = s[a].prog
    BY <2>1 DEF Frame
  <2>4. t[a] = IF a = Len(s) THEN [s[a] EXCEPT !.insn_idx = s[a].insn_idx + 1] ELSE s[a]
    BY <1>1 DEF Advance
  <2> QED BY <2>1, <2>2, <2>3, <2>4
<1>3. t = [a \in 1 .. Len(s) |-> t[a]]
  BY <1>1 DEF Advance
<1> HIDE DEF t
<1>4. t \in [1 .. Len(s) -> Frame]
  BY <1>2, <1>3
<1>5. t \in Seq(Frame) /\ Len(t) = Len(s) /\ t # <<>>
  BY <1>1, <1>4
<1> QED BY <1>2, <1>5 DEF t

LEMMA FunctionIsSeq ==
    ASSUME NEW S, NEW n \in Nat, NEW f \in [1 .. n -> S]
    PROVE  f \in Seq(S) /\ Len(f) = n
OBVIOUS

LEMMA UnderFacts ==
    ASSUME NEW s \in Seq(Frame), Len(s) > 1
    PROVE  /\ Under(s) \in Seq(Frame) /\ Len(Under(s)) = Len(s) - 1 /\ Under(s) # <<>>
           /\ \A a \in 1 .. Len(s) - 1 : Under(s)[a] = s[a]
<1>1. Len(s) \in Nat /\ Len(s) - 1 \in Nat /\ s \in [1 .. Len(s) -> Frame]
  OBVIOUS
<1>2. /\ 1 \in 1 .. Len(s) + 1 /\ Len(s) - 1 \in 0 .. Len(s)
      /\ 1 .. Len(s) - 1 \subseteq 1 .. Len(s) /\ (Len(s) - 1) - 1 + 1 = Len(s) - 1
  BY <1>1
<1>3. Under(s) = [a \in 1 .. Len(s) - 1 |-> s[a]]
  BY <1>1 DEF Under
<1>4. \A a \in 1 .. Len(s) - 1 : s[a] \in Frame
  BY <1>1, <1>2
<1>5. Under(s) \in [1 .. Len(s) - 1 -> Frame]
  BY <1>3, <1>4
<1>6. Under(s) \in Seq(Frame) /\ Len(Under(s)) = Len(s) - 1
  BY <1>1, <1>5, FunctionIsSeq
<1>7. Under(s) # <<>>
  BY <1>1, <1>6
<1>8. ASSUME NEW a \in 1 .. Len(s) - 1 PROVE Under(s)[a] = s[a]
  BY <1>3
<1> QED BY <1>6, <1>7, <1>8

(***************************************************************************)
(* The next instruction of an activation, or the return to the caller:     *)
(* the programs of the stack are those of the stack before, or fewer.      *)
(***************************************************************************)
LEMMA FramesKept ==
    ASSUME IInv, id' = id, m' = m,
           \A p \in Progs : sub_insn_off[p] # 0 => sub_insn_off'[p] # 0,
           stack # <<>>, stack' \in Seq(Frame), stack' # <<>>, Len(stack') <= Len(stack),
           \A a \in 1 .. Len(stack') : stack'[a].prog = stack[a].prog
    PROVE  Frames'
<1>1. Len(stack) \in Nat /\ Len(stack') \in Nat /\ Len(stack') >= 1
  <2>1. Len(stack) \in Nat
    BY TopFacts DEF IInv
  <2>2. Len(stack') \in Nat /\ Len(stack') >= 1
    OBVIOUS
  <2> QED BY <2>1, <2>2
<1>2. \A a \in 2 .. Len(stack') :
        /\ a \in 2 .. Len(stack)
        /\ stack'[a].prog = stack[a].prog /\ stack[a].prog \in Progs
  <2>1. \A a \in 1 .. Len(stack) : stack[a].prog \in Progs
    BY TopFacts DEF IInv
  <2> QED BY <1>1, <2>1
<1>3. stack'[1].prog = stack[1].prog
  BY <1>1
<1>4. Len(stack') >= 2 => Len(stack) >= 2
  BY <1>1
<1>5. Frames
  BY DEF IInv
<1>6. stack' # <<>> => m' \in Progs' /\ ~IsSubprog(m)' /\ stack'[1].prog = m'
  BY <1>3, <1>5, SameObject DEF Frames
<1>7. \A a \in 2 .. Len(stack') : sub_insn_off'[stack'[a].prog] # 0
  BY <1>2, <1>5 DEF Frames
<1>8. \A a, b \in 2 .. Len(stack') : a # b => stack'[a].prog # stack'[b].prog
  BY <1>2, <1>5 DEF Frames
<1>9. Len(stack') >= 2 /\ LastIdx(progs)' # 0 =>
        \A a \in 2 .. Len(stack') : stack'[a].prog # m'
  BY <1>2, <1>4, <1>5, SameObject DEF Frames
<1> QED BY <1>6, <1>7, <1>8, <1>9 DEF Frames

(***************************************************************************)
(* A new activation: of a program that had not been marked, so of none     *)
(* that is on the stack.                                                   *)
(***************************************************************************)
LEMMA FramesPushed ==
    ASSUME IInv, id' = id, m' = m, stack # <<>>, NEW c \in Progs,
           sub_insn_off[c] = 0, sub_insn_off' = [sub_insn_off EXCEPT ![c] = Len(insns[m])],
           LastIdx(progs) # 0 => c # m,
           stack' = Append(stack, [prog |-> c, insn_idx |-> 0])
    PROVE  Frames'
<1>1. Len(stack) \in Nat /\ Len(stack) >= 1
  BY TopFacts DEF IInv
<1>2. /\ Len(stack') = Len(stack) + 1 /\ stack'[Len(stack) + 1].prog = c
      /\ \A a \in 1 .. Len(stack) : stack'[a] = stack[a]
  <2>1. stack \in Seq(Frame)
    BY TopFacts DEF IInv
  <2> QED BY <2>1, <1>1
<1>3. Frames /\ TypeOK /\ NonEmpty
  BY DEF IInv
<1>4. m \in Progs /\ ~IsSubprog(m) /\ stack[1].prog = m
  BY <1>3 DEF Frames
<1>5. Len(insns[m]) # 0
  <2>1. insns[m] \in Seq(Insns)
    BY <1>3, <1>4 DEF TypeOK
  <2> QED BY <1>3, <1>4, <2>1 DEF NonEmpty
<1>6. \A a \in 2 .. Len(stack) :
        /\ stack[a].prog \in Progs /\ sub_insn_off[stack[a].prog] # 0
        /\ stack[a].prog # c /\ stack'[a] = stack[a]
  <2>1. \A a \in 2 .. Len(stack) : a \in 1 .. Len(stack)
    BY <1>1
  <2>2. \A a \in 1 .. Len(stack) : stack[a].prog \in Progs
    BY TopFacts, <1>3
  <2>3. \A a \in 2 .. Len(stack) : sub_insn_off[stack[a].prog] # 0
    BY <1>3 DEF Frames
  <2> QED BY <1>2, <2>1, <2>2, <2>3
<1>7. \A a \in 2 .. Len(stack') : a \in 2 .. Len(stack) \/ a = Len(stack) + 1
  BY <1>1, <1>2
<1>8. stack'[1].prog = m
  BY <1>1, <1>2, <1>4
<1>9. \A p \in Progs : sub_insn_off'[p] = IF p = c THEN Len(insns[m]) ELSE sub_insn_off[p]
  BY <1>3 DEF TypeOK
<1>10. stack' # <<>> => m' \in Progs' /\ ~IsSubprog(m)' /\ stack'[1].prog = m'
  BY <1>4, <1>8, SameObject
<1>11. ASSUME NEW a \in 2 .. Len(stack') PROVE sub_insn_off'[stack'[a].prog] # 0
  BY <1>2, <1>5, <1>6, <1>7, <1>9
<1>12. ASSUME NEW a \in 2 .. Len(stack'), NEW b \in 2 .. Len(stack'), a # b
       PROVE  stack'[a].prog # stack'[b].prog
  <2>1. CASE a \in 2 .. Len(stack) /\ b \in 2 .. Len(stack)
    BY <1>3, <1>6, <1>12, <2>1 DEF Frames
  <2>2. CASE a \in 2 .. Len(stack) /\ b = Len(stack) + 1
    BY <1>2, <1>6, <2>2
  <2>3. CASE a = Len(stack) + 1 /\ b \in 2 .. Len(stack)
    BY <1>2, <1>6, <2>3
  <2> QED BY <1>7, <1>12, <2>1, <2>2, <2>3
<1>13. ASSUME LastIdx(progs)' # 0, NEW a \in 2 .. Len(stack')
       PROVE  stack'[a].prog # m'
  <2>1. CASE a \in 2 .. Len(stack)
    <3>1. Len(stack) >= 2
      BY <1>1, <2>1
    <3> QED BY <1>3, <1>6, <1>13, <2>1, <3>1, SameObject DEF Frames
  <2>2. CASE a = Len(stack) + 1
    BY <1>2, <1>13, <2>2, SameObject
  <2> QED BY <1>7, <2>1, <2>2
<1> QED BY <1>10, <1>11, <1>12, <1>13 DEF Frames

(***************************************************************************)
(* The steps of the loop that stay in the stack of activations: no code    *)
(* changes, or one imm of the main program does.                           *)
(***************************************************************************)
LEMMA LoopStep ==
    ASSUME IInv, id' = id, m' = m, err' = err, sub_insn_off' = sub_insn_off,
           stack # <<>>, NEW s \in Seq(Frame), s # <<>>, Len(s) <= Len(stack),
           \A a \in 1 .. Len(s) : s[a].prog = stack[a].prog,
           stack' = Advance(s),
           \/ insns' = insns
           \/ \E f \in Frame, c \in Progs : insns' = Patched(f, c)
    PROVE  IInv'
<1>1. TypeOK /\ Frames /\ NonEmpty /\ m \in Progs /\ ~IsSubprog(m)
  BY DEF IInv, Frames
<1>2. /\ stack' \in Seq(Frame) /\ stack' # <<>> /\ Len(stack') <= Len(stack)
      /\ \A a \in 1 .. Len(stack') : stack'[a].prog = stack[a].prog
  BY AdvanceFacts
<1>3. Frames'
  BY <1>2, FramesKept
<1>4. /\ insns' \in [Progs -> Seq(Insns)]
      /\ \A p \in Progs : Len(insns'[p]) > 0
      /\ \A p \in Progs \ {m} : insns'[p] = insns[p]
  <2>1. CASE insns' = insns
    BY <1>1, <2>1 DEF TypeOK, NonEmpty
  <2>2. CASE \E f \in Frame, c \in Progs : insns' = Patched(f, c)
    <3>1. PICK f \in Frame, c \in Progs : insns' = Patched(f, c)
      BY <2>2
    <3>2. f \in [prog : Progs, insn_idx : Nat]
      BY DEF Frame
    <3> QED BY <1>1, <3>1, <3>2, PatchedFacts
  <2> QED BY <2>1, <2>2
<1>5. NonEmpty'
  BY <1>4, SameObject DEF NonEmpty
<1>6. TypeOK'
  BY <1>1, <1>2, <1>4, SameObject DEF TypeOK, Frame
<1>7. SubprogsUntouched'
  BY <1>1, <1>4, OthersKept
<1> QED BY <1>3, <1>5, <1>6, <1>7 DEF IInv

(***************************************************************************)
(* Moving on to the next program, with no activation.                      *)
(***************************************************************************)
LEMMA NextProgram ==
    ASSUME IInv, id' = id, m' = m + 1, err' = err, sub_insn_off' = sub_insn_off,
           stack' = <<>>, insns' = insns
    PROVE  IInv'
<1>1. TypeOK /\ NonEmpty
  BY DEF IInv
<1>2. TypeOK'
  BY <1>1, SameObject DEF TypeOK
<1>3. Frames'
  BY DEF Frames
<1>4. NonEmpty'
  BY <1>1, SameObject DEF NonEmpty
<1>5. SubprogsUntouched'
  BY OthersKept
<1> QED BY <1>2, <1>3, <1>4, <1>5 DEF IInv

LEMMA StartStep == IInv /\ StartProg => IInv'
<1>1. SUFFICES ASSUME IInv, StartProg PROVE IInv'
  OBVIOUS
<1>2. /\ id' = id /\ m' = m /\ insns' = insns
      /\ m \in Progs /\ ~IsSubprog(m) /\ sub_insn_off' = ResetOffsets
      /\ stack' = <<>> \/ stack' = <<[prog |-> m, insn_idx |-> 0]>>
  BY <1>1 DEF StartProg
<1>3. TypeOK /\ NonEmpty
  BY <1>1 DEF IInv
<1>4. err' \in {"none", "RELOC", "ENOENT", "ENOMEM"}
  BY <1>1, <1>3 DEF StartProg, InfoFails, TypeOK
<1>5. ResetOffsets \in [Progs -> Nat]
  BY <1>3 DEF TypeOK, ResetOffsets
<1>6. /\ stack' \in Seq([prog : Progs, insn_idx : Nat])
      /\ stack' = <<>> \/ (Len(stack') = 1 /\ stack'[1].prog = m)
  <2>1. CASE stack' = <<>>
    BY <2>1
  <2>2. CASE stack' = <<[prog |-> m, insn_idx |-> 0]>>
    BY <1>2, <2>2
  <2> QED BY <1>2, <2>1, <2>2
<1>7. TypeOK'
  BY <1>2, <1>3, <1>4, <1>5, <1>6, SameObject DEF TypeOK
<1>8. Frames'
  BY <1>2, <1>6, SameObject DEF Frames
<1>9. NonEmpty'
  BY <1>2, <1>3, SameObject DEF NonEmpty
<1>10. SubprogsUntouched'
  BY <1>1, <1>2, OthersKept
<1> QED BY <1>7, <1>8, <1>9, <1>10 DEF IInv

(***************************************************************************)
(* The first call of a sub-program, whether or not its instructions could  *)
(* be appended.                                                            *)
(***************************************************************************)
LEMMA NewStep == IInv /\ (CallNew \/ CallNoMemory) => IInv'
<1>1. SUFFICES ASSUME IInv, CallNew \/ CallNoMemory PROVE IInv'
  OBVIOUS
<1>2. /\ id' = id /\ m' = m /\ stack # <<>> /\ Callee # NULL /\ sub_insn_off[Callee] = 0
      /\ sub_insn_off' = [sub_insn_off EXCEPT ![Callee] = Len(insns[m])]
      /\ err' \in {"none", "RELOC", "ENOENT", "ENOMEM"}
  <2>1. err \in {"none", "RELOC", "ENOENT", "ENOMEM"}
    BY <1>1 DEF IInv, TypeOK
  <2> QED BY <1>1, <2>1 DEF CallNew, CallNoMemory, InfoFails, InLoop, MarkAppended
<1>3. insns' = insns \/ insns' = [insns EXCEPT ![m] = insns[m] \o insns[Callee]]
  BY <1>1 DEF CallNew, CallNoMemory
<1>4. stack' = stack \/ stack' = Append(stack, [prog |-> Callee, insn_idx |-> 0])
  BY <1>1 DEF CallNew, CallNoMemory
<1>5. TypeOK /\ Frames /\ NonEmpty /\ m \in Progs /\ ~IsSubprog(m) /\ id \in DOMAIN Objects
  BY <1>1, <1>2 DEF IInv, Frames, TypeOK
<1>6. Callee \in Progs /\ (LastIdx(progs) # 0 => Callee # m)
  BY <1>2, <1>5, CalleeFacts, CalleeNotMain
<1> DEFINE c == Callee
<1> HIDE DEF c
<1>7. c \in Progs /\ (LastIdx(progs) # 0 => c # m) /\ sub_insn_off[c] = 0
      /\ sub_insn_off' = [sub_insn_off EXCEPT ![c] = Len(insns[m])]
  BY <1>2, <1>6 DEF c
<1>8. /\ insns[m] \in Seq(Insns) /\ insns[c] \in Seq(Insns)
      /\ Len(insns[m]) \in Nat /\ Len(insns[m]) > 0 /\ Len(insns[c]) \in Nat
  BY <1>5, <1>7 DEF TypeOK, NonEmpty
<1>9. /\ insns[m] \o insns[c] \in Seq(Insns)
      /\ Len(insns[m] \o insns[c]) = Len(insns[m]) + Len(insns[c])
  BY <1>8
<1>10. /\ insns' \in [Progs -> Seq(Insns)]
       /\ \A p \in Progs : Len(insns'[p]) > 0
       /\ \A p \in Progs \ {m} : insns'[p] = insns[p]
  <2>1. CASE insns' = insns
    BY <1>5, <2>1 DEF TypeOK, NonEmpty
  <2>2. CASE insns' = [insns EXCEPT ![m] = insns[m] \o insns[c]]
    <3> DEFINE g == insns[m] \o insns[c]
    <3>1. insns' = [insns EXCEPT ![m] = g]
      BY <2>2
    <3>2. g \in Seq(Insns) /\ Len(g) = Len(insns[m]) + Len(insns[c])
      BY <1>9
    <3> HIDE DEF g
    <3>3. Len(g) > 0
      <4>1. ASSUME NEW x \in Nat, NEW y \in Nat, x > 0 PROVE x + y > 0
        BY <4>1
      <4> QED BY <1>8, <3>2, <4>1
    <3> QED BY <1>5, <3>1, <3>2, <3>3 DEF TypeOK, NonEmpty
  <2> QED BY <1>3, <2>1, <2>2 DEF c
<1>11. stack \in Seq(Frame)
  BY <1>2, <1>5, TopFacts
<1>12. stack' \in Seq(Frame)
  <2>1. [prog |-> c, insn_idx |-> 0] \in Frame
    BY <1>7 DEF Frame
  <2> QED BY <1>4, <1>11, <2>1 DEF c
<1>13. sub_insn_off' \in [Progs -> Nat]
  BY <1>5, <1>7, <1>8 DEF TypeOK
<1>14. TypeOK'
  BY <1>2, <1>5, <1>10, <1>12, <1>13, SameObject DEF TypeOK, Frame
<1>15. NonEmpty'
  BY <1>2, <1>10, SameObject DEF NonEmpty
<1>16. SubprogsUntouched'
  BY <1>1, <1>2, <1>5, <1>10, OthersKept
<1>17. Frames'
  <2>1. CASE stack' = stack
    <3>1. \A p \in Progs : sub_insn_off[p] # 0 => sub_insn_off'[p] # 0
      BY <1>5, <1>7, <1>8 DEF TypeOK
    <3>2. Len(stack') <= Len(stack)
      BY <1>11, <2>1
    <3> QED BY <1>1, <1>2, <1>11, <2>1, <3>1, <3>2, FramesKept
  <2>2. CASE stack' = Append(stack, [prog |-> c, insn_idx |-> 0])
    BY <1>1, <1>2, <1>7, <2>2, FramesPushed
  <2> QED BY <1>4, <2>1, <2>2 DEF c
<1> QED BY <1>14, <1>15, <1>16, <1>17 DEF IInv

LEMMA StepIInv == IInv /\ [Next]_vars => IInv'
<1>1. SUFFICES ASSUME IInv, [Next]_vars PROVE IInv'
  OBVIOUS
<1>2. CASE SkipSubprog
  BY <1>1, <1>2, NextProgram DEF SkipSubprog
<1>3. CASE StartProg
  BY <1>1, <1>3, StartStep
<1>4. CASE SkipInsn
  <2>1. stack # <<>> /\ stack \in Seq(Frame) /\ Len(stack) <= Len(stack)
    BY <1>1, <1>4, TopFacts DEF SkipInsn, InLoop, IInv
  <2> QED BY <1>1, <1>4, <2>1, LoopStep DEF SkipInsn
<1>5. CASE CallKnown
  <2>1. stack # <<>> /\ stack \in Seq(Frame) /\ Len(stack) <= Len(stack) /\ Top \in Frame
    BY <1>1, <1>5, TopFacts DEF CallKnown, InLoop, IInv
  <2>2. Callee \in Progs /\ insns' = Patched(Top, Callee)
    BY <1>5, CalleeFacts DEF CallKnown
  <2>3. \E f \in Frame, c \in Progs : insns' = Patched(f, c)
    BY <2>1, <2>2
  <2> QED BY <1>1, <1>5, <2>1, <2>3, LoopStep DEF CallKnown
<1>6. CASE CallNew \/ CallNoMemory
  BY <1>1, <1>6, NewStep
<1>7. CASE ReturnToCaller
  <2>1. Len(stack) > 1 /\ stack # <<>> /\ stack \in Seq(Frame) /\ Len(stack) \in Nat
    <3>1. stack \in Seq(Frame)
      BY <1>1 DEF IInv, TypeOK, Frame
    <3> QED BY <1>7, <3>1 DEF ReturnToCaller
  <2>2. /\ Under(stack) \in Seq(Frame) /\ Under(stack) # <<>>
        /\ Len(Under(stack)) = Len(stack) - 1
        /\ \A a \in 1 .. Len(stack) - 1 : Under(stack)[a] = stack[a]
    BY <2>1, UnderFacts
  <2>3. Len(Under(stack)) <= Len(stack)
    BY <2>1, <2>2
  <2>4. \A a \in 1 .. Len(Under(stack)) : Under(stack)[a].prog = stack[a].prog
    BY <2>2
  <2>5. stack[Len(stack) - 1] \in Frame /\ Top.prog \in Progs
    <3>1. Len(stack) - 1 \in 1 .. Len(stack)
      BY <2>1
    <3> QED BY <1>1, <2>1, <3>1, TopFacts DEF IInv
  <2>6. \E f \in Frame, c \in Progs : insns' = Patched(f, c)
    BY <1>7, <2>5 DEF ReturnToCaller
  <2> DEFINE s == Under(stack)
  <2>7. s \in Seq(Frame) /\ s # <<>> /\ Len(s) <= Len(stack) /\ stack' = Advance(s)
        /\ \A a \in 1 .. Len(s) : s[a].prog = stack[a].prog
    BY <1>7, <2>2, <2>3, <2>4 DEF ReturnToCaller
  <2> HIDE DEF s
  <2>8. id' = id /\ m' = m /\ err' = err /\ sub_insn_off' = sub_insn_off
    BY <1>7 DEF ReturnToCaller
  <2> QED BY <1>1, <2>1, <2>6, <2>7, <2>8, LoopStep
<1>8. CASE FinishProg
  BY <1>1, <1>8, NextProgram DEF FinishProg
<1>9. CASE CallNowhere \/ Finished \/ UNCHANGED vars
  <2>1. id' = id /\ m' = m /\ stack' = stack /\ insns' = insns /\ sub_insn_off' = sub_insn_off
        /\ (err' = err \/ err' = "RELOC")
    BY <1>9 DEF CallNowhere, Finished, vars
  <2>2. TypeOK' /\ Frames' /\ NonEmpty'
    BY <1>1, <2>1, SameObject DEF IInv, TypeOK, Frames, NonEmpty
  <2>3. SubprogsUntouched'
    BY <1>1, <2>1, OthersKept
  <2> QED BY <2>2, <2>3 DEF IInv
<1> QED BY <1>1, <1>2, <1>3, <1>4, <1>5, <1>6, <1>7, <1>8, <1>9 DEF Next

LEMMA FramesBoundRecursion == IInv => NoReentry
<1>1. SUFFICES ASSUME IInv, NEW a \in DOMAIN stack, NEW b \in DOMAIN stack,
                      a # b, stack[a].prog = stack[b].prog
               PROVE  LastIdx(progs) = 0 /\ Len(stack) = 2
  BY DEF NoReentry
<1>2. stack \in Seq(Frame)
  BY <1>1 DEF IInv, TypeOK, Frame
<1>3. /\ Len(stack) \in Nat /\ a \in 1 .. Len(stack) /\ b \in 1 .. Len(stack)
      /\ stack # <<>>
  BY <1>1, <1>2
<1>4. Frames /\ stack[1].prog = m /\ m \in Progs
  BY <1>1, <1>3 DEF IInv, Frames
<1>5. a \in 2 .. Len(stack) => b = 1
  <2>1. b \in 2 .. Len(stack) \/ b = 1
    BY <1>3
  <2> QED BY <1>1, <1>4, <2>1 DEF Frames
<1>6. (a = 1 /\ b \in 2 .. Len(stack)) \/ (b = 1 /\ a \in 2 .. Len(stack))
  BY <1>1, <1>3, <1>5
<1>7. PICK c \in 2 .. Len(stack) : stack[c].prog = m
  BY <1>1, <1>4, <1>6
<1>8. Len(stack) >= 2
  BY <1>3, <1>7
<1>9. LastIdx(progs) = 0
  BY <1>4, <1>7, <1>8 DEF Frames
<1>10. Progs = {0}
  BY <1>1, <1>9, ObjectFacts DEF IInv, TypeOK
<1>11. \A d \in 2 .. Len(stack) : stack[d].prog = 0
  <2>1. \A d \in 2 .. Len(stack) : d \in 1 .. Len(stack)
    BY <1>3
  <2>2. \A d \in 1 .. Len(stack) : stack[d].prog \in Progs
    BY <1>1, <1>3, TopFacts DEF IInv
  <2> QED BY <1>10, <2>1, <2>2
<1>12. Len(stack) = 2
  <2>1. SUFFICES ASSUME Len(stack) # 2 PROVE FALSE
    OBVIOUS
  <2>2. 2 \in 2 .. Len(stack) /\ 3 \in 2 .. Len(stack) /\ 2 # 3
    <3> DEFINE n == Len(stack)
    <3>1. n \in Nat /\ n >= 2 /\ n # 2
      BY <1>3, <1>8, <2>1
    <3> HIDE DEF n
    <3>2. 2 \in 2 .. n /\ 3 \in 2 .. n
      BY <3>1
    <3> USE DEF n
    <3> QED BY <3>2
  <2> QED BY <1>4, <1>11, <2>2 DEF Frames
<1> QED BY <1>9, <1>12

(***************************************************************************)
(* Whatever the programs of the object and however they call each other,   *)
(* relocating the main programs one after another leaves every sub-program *)
(* and every main program not reached yet as it was in the ELF file, also  *)
(* when relocation stops at an error.                                      *)
(***************************************************************************)
THEOREM SubprogsStayUntouched == Spec => []SubprogsUntouched
<1>1. IInv => SubprogsUntouched
  BY DEF IInv
<1> QED BY InitIInv, StepIInv, <1>1, PTL DEF Spec

(***************************************************************************)
(* Whatever the call graph, cycles included, bpf_object__reloc_code() has  *)
(* at most one activation per program, so its recursion is no deeper than  *)
(* the object has programs (or 2, for an object with one).                 *)
(***************************************************************************)
THEOREM RecursionBounded == Spec => []NoReentry
BY InitIInv, StepIInv, FramesBoundRecursion, PTL DEF Spec

(***************************************************************************)
(* The types of the relocation's state, sub_insn_off never negative, hold  *)
(* in every object.                                                        *)
(***************************************************************************)
THEOREM RelocTypes == Spec => []TypeOK
<1>1. IInv => TypeOK
  BY DEF IInv
<1> QED BY InitIInv, StepIInv, <1>1, PTL DEF Spec

-----------------------------------------------------------------------------
(***************************************************************************)
(* While reloc_code() works on a main program, copies lie side by side     *)
(* (Layout), every activation is of a copied program and waits for the one *)
(* above it (Waiting), and an instruction is relocated as soon as no       *)
(* activation of its program has it ahead, and untouched before (Code).    *)
(***************************************************************************)
Working == err = "none" /\ stack # <<>>

Offsets == \A p \in Progs : ~IsSubprog(p) => sub_insn_off[p] = 0

Fresh == err = "none" /\ stack = <<>> => \A p \in Progs : p >= m => insns[p] = progs[p].insns

Layout ==
    /\ \A p \in Appended : sub_insn_off[p] + progs[p].sec_insn_cnt <= Len(insns[m])
    /\ \A p, q \in Appended :
         p # q => \/ sub_insn_off[p] + progs[p].sec_insn_cnt <= sub_insn_off[q]
                  \/ sub_insn_off[q] + progs[q].sec_insn_cnt <= sub_insn_off[p]
    /\ \A pos \in 0 .. Len(insns[m]) - 1 : \E p \in Appended : Holds(p, pos)

Waiting ==
    \A a \in DOMAIN stack :
      /\ stack[a].prog \in Appended
      /\ stack[a].insn_idx <= progs[stack[a].prog].sec_insn_cnt
      /\ a < Len(stack) => /\ stack[a].insn_idx \in Calls(stack[a].prog)
                           /\ CalleeInElf(stack[a].prog, stack[a].insn_idx) = stack[a + 1].prog

Settled(p, k) == \A a \in DOMAIN stack : stack[a].prog = p => k < stack[a].insn_idx

CodeOf(p, k) ==
    IF Settled(p, k) THEN Resolved(p, k)
    ELSE insns[m][sub_insn_off[p] + k + 1] = progs[p].insns[k + 1]

Code == \A p \in Appended : \A k \in 0 .. progs[p].sec_insn_cnt - 1 : CodeOf(p, k)

CopyInv ==
    /\ Offsets /\ Fresh
    /\ Working => Layout /\ Waiting /\ Code /\ Appended \subseteq Needed(m)

LEMMA SameElf ==
    ASSUME id' = id
    PROVE  /\ \A p : Calls(p)' = Calls(p)
           /\ \A p, k : CalleeInElf(p, k)' = CalleeInElf(p, k)
           /\ \A p : Needed(p)' = Needed(p)
<1>1. progs' = progs /\ Progs' = Progs /\ text_shndx' = text_shndx
  BY SameObject
<1>2. \A p : Calls(p)' = Calls(p)
  BY <1>1 DEF Calls
<1>3. \A p, k : CalleeInElf(p, k)' = CalleeInElf(p, k)
  BY <1>1 DEF CalleeInElf, SubInsnIdx
<1>4. \A q : Callees(q)' = Callees(q)
  BY <1>2, <1>3 DEF Callees
<1>5. \A p : Needed(p)' = Needed(p)
  BY <1>1, <1>4 DEF Needed, Closed
<1> QED BY <1>2, <1>3, <1>5

LEMMA NeededClosed ==
    ASSUME NEW p, NEW q \in Needed(p), NEW c \in Callees(q) \cap Progs
    PROVE  c \in Needed(p)
BY DEF Needed, Closed

LEMMA NeededHasItself ==
    ASSUME NEW p \in Progs
    PROVE  p \in Needed(p)
BY DEF Needed

LEMMA NeededIsLeast ==
    ASSUME NEW p, NEW S \in SUBSET Progs, p \in S,
           \A q \in S : \A c \in Callees(q) : c \in Progs => c \in S
    PROVE  Needed(p) \subseteq S
BY DEF Needed, Closed

(***************************************************************************)
(* Every activation is of a program of its own.                            *)
(***************************************************************************)
LEMMA FramesDiffer ==
    ASSUME IInv, Offsets, NEW a \in DOMAIN stack, NEW b \in DOMAIN stack,
           stack[a].prog = stack[b].prog
    PROVE  a = b
<1>1. SUFFICES ASSUME a # b PROVE FALSE
  OBVIOUS
<1>2. LastIdx(progs) = 0 /\ Len(stack) = 2
  BY <1>1, FramesBoundRecursion DEF NoReentry
<1>3. stack # <<>>
  BY <1>2
<1>4. stack[2].prog \in Progs /\ sub_insn_off[stack[2].prog] # 0
  BY <1>2, <1>3, TopFacts DEF IInv, Frames
<1>5. IsSubprog(stack[2].prog)
  BY <1>4 DEF Offsets
<1> QED BY <1>2, <1>5 DEF IsSubprog

(***************************************************************************)
(* The copies and where they are, in numbers.                              *)
(***************************************************************************)
LEMMA CopyFacts ==
    ASSUME TypeOK
    PROVE  /\ \A p \in Progs : /\ sub_insn_off[p] \in Nat
                               /\ progs[p].sec_insn_cnt \in Nat /\ progs[p].sec_insn_cnt > 0
                               /\ progs[p].insns \in Seq(Insns)
                               /\ Len(progs[p].insns) = progs[p].sec_insn_cnt
                               /\ insns[p] \in Seq(Insns) /\ Len(insns[p]) \in Nat
           /\ Appended \subseteq Progs
<1>1. \A p \in Progs : /\ progs[p].sec_insn_cnt \in Nat /\ progs[p].sec_insn_cnt > 0
                       /\ progs[p].insns \in Seq(Insns)
                       /\ Len(progs[p].insns) = progs[p].sec_insn_cnt
  BY ObjectsWellFormed DEF TypeOK, progs, Progs, WellFormed, IsProgram
<1>2. \A p \in Progs : sub_insn_off[p] \in Nat /\ insns[p] \in Seq(Insns) /\ Len(insns[p]) \in Nat
  BY DEF TypeOK
<1> QED BY <1>1, <1>2 DEF Appended

LEMMA PlacesDiffer ==
    ASSUME TypeOK, Layout, NEW p \in Appended, NEW q \in Appended,
           NEW k \in 0 .. progs[p].sec_insn_cnt - 1, NEW l \in 0 .. progs[q].sec_insn_cnt - 1,
           sub_insn_off[p] + k = sub_insn_off[q] + l
    PROVE  p = q /\ k = l
<1>1. /\ sub_insn_off[p] \in Nat /\ sub_insn_off[q] \in Nat
      /\ progs[p].sec_insn_cnt \in Nat /\ progs[q].sec_insn_cnt \in Nat
  BY CopyFacts
<1>2. p = q
  <2>1. SUFFICES ASSUME p # q PROVE FALSE
    OBVIOUS
  <2>2. \/ sub_insn_off[p] + progs[p].sec_insn_cnt <= sub_insn_off[q]
        \/ sub_insn_off[q] + progs[q].sec_insn_cnt <= sub_insn_off[p]
    BY <2>1 DEF Layout
  <2> QED BY <1>1, <2>2
<1> QED BY <1>1, <1>2

LEMMA PlaceIn ==
    ASSUME TypeOK, Layout, NEW p \in Appended, NEW k \in 0 .. progs[p].sec_insn_cnt - 1
    PROVE  sub_insn_off[p] + k + 1 \in 1 .. Len(insns[m])
<1>1. /\ sub_insn_off[p] \in Nat /\ progs[p].sec_insn_cnt \in Nat
      /\ sub_insn_off[p] + progs[p].sec_insn_cnt <= Len(insns[m])
  BY CopyFacts DEF Layout
<1>2. Len(insns[m]) \in Int
  <2>1. CASE m \in Progs
    BY <2>1, CopyFacts
  <2>2. CASE m \notin Progs
    BY <1>1, <2>2, CopyFacts DEF Layout
  <2> QED BY <2>1, <2>2
<1> QED BY <1>1, <1>2

(***************************************************************************)
(* The instruction under the loop is still that of the ELF file, and so is *)
(* its callee.                                                             *)
(***************************************************************************)
LEMMA TopIsAhead ==
    ASSUME IInv, CopyInv, InLoop
    PROVE  /\ Working /\ Top.prog \in Appended /\ Top.insn_idx \in 0 .. progs[Top.prog].sec_insn_cnt - 1
           /\ ~Settled(Top.prog, Top.insn_idx)
           /\ Insn = progs[Top.prog].insns[Top.insn_idx + 1]
<1>1. Working /\ stack # <<>> /\ Layout /\ Waiting /\ Code /\ TypeOK
  BY DEF CopyInv, Working, InLoop, IInv
<1>2. Len(stack) \in DOMAIN stack /\ Top.prog \in Progs /\ Top.insn_idx \in Nat
  BY <1>1, TopFacts
<1>3. Top.prog \in Appended
  BY <1>1, <1>2 DEF Waiting, Top
<1>4. Top.insn_idx \in 0 .. progs[Top.prog].sec_insn_cnt - 1
  BY <1>1, <1>2, CopyFacts DEF InLoop
<1>5. ~Settled(Top.prog, Top.insn_idx)
  BY <1>2 DEF Settled, Top
<1>6. CodeOf(Top.prog, Top.insn_idx)
  BY <1>1, <1>3, <1>4 DEF Code
<1>7. Insn = insns[m][sub_insn_off[Top.prog] + Top.insn_idx + 1]
  BY DEF Insn, At
<1> QED BY <1>1, <1>3, <1>4, <1>5, <1>6, <1>7 DEF CodeOf

LEMMA TopCallee ==
    ASSUME CallsInText, TypeOK, Top.prog \in Progs, Insn.call,
           Top.insn_idx \in 0 .. progs[Top.prog].sec_insn_cnt - 1,
           Insn = progs[Top.prog].insns[Top.insn_idx + 1]
    PROVE  /\ Top.insn_idx \in Calls(Top.prog)
           /\ Callee = CalleeInElf(Top.prog, Top.insn_idx)
<1>1. Top.insn_idx \in Calls(Top.prog)
  BY DEF Calls
<1>2. progs[Top.prog].sec_idx # text_shndx => \E d \in progs[Top.prog].relos : d.insn_idx = Top.insn_idx
  BY DEF CallsInText, TypeOK, progs, Progs, text_shndx
<1>3. \A v : SubInsnIdx([prog |-> Top.prog, insn_idx |-> Top.insn_idx], v) = SubInsnIdx(Top, v)
  BY DEF SubInsnIdx
<1>4. CalleeInElf(Top.prog, Top.insn_idx) =
        OwnerOf(progs, text_shndx, SubInsnIdx(Top, progs[Top.prog].insns[Top.insn_idx + 1].imm))
  BY <1>2, <1>3 DEF CalleeInElf
<1> QED BY <1>1, <1>4 DEF Callee

LEMMA AdvanceIdx ==
    ASSUME NEW s \in Seq(Frame), s # <<>>, NEW a \in 1 .. Len(s)
    PROVE  /\ Advance(s)[a].prog = s[a].prog
           /\ Advance(s)[a].insn_idx = IF a = Len(s) THEN s[a].insn_idx + 1 ELSE s[a].insn_idx
<1>1. Len(s) \in Nat /\ s \in [1 .. Len(s) -> Frame] /\ s[a] \in Frame
  OBVIOUS
<1>2. Advance(s)[a] = IF a = Len(s) THEN [s[a] EXCEPT !.insn_idx = s[a].insn_idx + 1] ELSE s[a]
  BY <1>1 DEF Advance
<1>3. /\ [s[a] EXCEPT !.insn_idx = s[a].insn_idx + 1].prog = s[a].prog
      /\ [s[a] EXCEPT !.insn_idx = s[a].insn_idx + 1].insn_idx = s[a].insn_idx + 1
  BY <1>1 DEF Frame
<1> QED BY <1>2, <1>3

(***************************************************************************)
(* A step that settles one instruction, the k0-th of p0, and changes at    *)
(* most that one.                                                          *)
(***************************************************************************)
LEMMA SettleOne ==
    ASSUME IInv, Layout, Code, Appended \subseteq Needed(m), m \in Progs,
           id' = id, m' = m, sub_insn_off' = sub_insn_off,
           NEW p0 \in Appended, NEW k0 \in 0 .. progs[p0].sec_insn_cnt - 1,
           \A p \in Appended : \A k \in 0 .. progs[p].sec_insn_cnt - 1 :
             Settled(p, k)' <=> (Settled(p, k) \/ (p = p0 /\ k = k0)),
           Len(insns'[m]) = Len(insns[m]),
           \A x \in 1 .. Len(insns[m]) :
             x # sub_insn_off[p0] + k0 + 1 => insns'[m][x] = insns[m][x],
           Resolved(p0, k0)'
    PROVE  Layout' /\ Code' /\ (Appended \subseteq Needed(m))'
<1>1. progs' = progs /\ Progs' = Progs /\ TypeOK
  BY SameObject DEF IInv
<1>2. Appended' = Appended
  BY <1>1 DEF Appended
<1>3. \A p, pos : Holds(p, pos)' <=> Holds(p, pos)
  BY <1>1 DEF Holds
<1>4. Layout'
  BY <1>1, <1>2, <1>3 DEF Layout
<1>5. ASSUME NEW p \in Appended, NEW k \in 0 .. progs[p].sec_insn_cnt - 1
      PROVE  CodeOf(p, k)'
  <2>1. CASE p = p0 /\ k = k0
    BY <2>1 DEF CodeOf
  <2>2. CASE ~(p = p0 /\ k = k0)
    <3>1. sub_insn_off[p] + k + 1 \in 1 .. Len(insns[m])
      BY <1>1, PlaceIn
    <3>2. sub_insn_off[p] + k # sub_insn_off[p0] + k0
      BY <1>1, <2>2, PlacesDiffer
    <3>3. sub_insn_off[p] + k + 1 # sub_insn_off[p0] + k0 + 1
      <4> DEFINE u == sub_insn_off[p]
                 w == sub_insn_off[p0]
      <4>1. u \in Nat /\ w \in Nat /\ k \in Int /\ k0 \in Int /\ u + k # w + k0
        BY <1>1, <3>2, CopyFacts
      <4> HIDE DEF u, w
      <4>2. u + k + 1 # w + k0 + 1
        BY <4>1
      <4> QED BY <4>2 DEF u, w
    <3>4. insns'[m'][sub_insn_off'[p] + k + 1] = insns[m][sub_insn_off[p] + k + 1]
      BY <3>1, <3>3
    <3>5. Resolved(p, k)' <=> Resolved(p, k)
      BY <1>1, <1>2, <3>4, SameElf DEF Resolved
    <3>6. CodeOf(p, k)
      BY DEF Code
    <3>7. Settled(p, k)' <=> Settled(p, k)
      BY <2>2
    <3>8. CASE Settled(p, k)
      BY <3>5, <3>6, <3>7, <3>8 DEF CodeOf
    <3>9. CASE ~Settled(p, k)
      <4>1. insns[m][sub_insn_off[p] + k + 1] = progs[p].insns[k + 1]
        BY <3>6, <3>9 DEF CodeOf
      <4>2. (insns[m][sub_insn_off[p] + k + 1] = progs[p].insns[k + 1])'
        BY <1>1, <3>4, <4>1
      <4> QED BY <3>7, <3>9, <4>2 DEF CodeOf
    <3> QED BY <3>8, <3>9
  <2> QED BY <2>1, <2>2
<1>6. Code'
  BY <1>1, <1>2, <1>5 DEF Code
<1>7. (Appended \subseteq Needed(m))'
  BY <1>2, SameElf
<1> QED BY <1>4, <1>6, <1>7

(***************************************************************************)
(* Pointing call k0 of p0, which calls c in the ELF file, at the copy of c.*)
(***************************************************************************)
LEMMA PatchResolves ==
    ASSUME IInv, Layout, m \in Progs, id' = id, m' = m, sub_insn_off' = sub_insn_off,
           NEW f \in Frame, f.prog \in Appended, f.insn_idx \in Calls(f.prog),
           f.insn_idx \in 0 .. progs[f.prog].sec_insn_cnt - 1,
           insns[m][sub_insn_off[f.prog] + f.insn_idx + 1].call,
           NEW c \in Appended, c = CalleeInElf(f.prog, f.insn_idx),
           insns' = Patched(f, c)
    PROVE  /\ Len(insns'[m]) = Len(insns[m])
           /\ \A x \in 1 .. Len(insns[m]) :
                x # sub_insn_off[f.prog] + f.insn_idx + 1 => insns'[m][x] = insns[m][x]
           /\ Resolved(f.prog, f.insn_idx)'
<1> DEFINE y == sub_insn_off[f.prog] + f.insn_idx + 1
           v == Displacement(sub_insn_off[c], At(f))
           g == [insns[m] EXCEPT ![y].imm = v]
<1>1. TypeOK /\ insns[m] \in Seq(Insns) /\ insns \in [Progs -> Seq(Insns)]
  BY DEF IInv, TypeOK
<1>2. y \in 1 .. Len(insns[m])
  BY <1>1, PlaceIn
<1>3. sub_insn_off[f.prog] \in Nat /\ sub_insn_off[c] \in Nat /\ f.insn_idx \in Nat
  BY <1>1, CopyFacts
<1>4. v \in Int /\ sub_insn_off[f.prog] + f.insn_idx + 1 + v = sub_insn_off[c]
  BY <1>3 DEF Displacement, At
<1>5. insns'[m] = g
  BY <1>1 DEF Patched, At
<1> HIDE DEF v
<1>6. Len(g) = Len(insns[m])
  BY <1>1, <1>2, <1>4, SetImm
<1>7. \A x \in 1 .. Len(insns[m]) : x # y => g[x] = insns[m][x]
  BY <1>1
<1>8. g[y].call = insns[m][y].call /\ g[y].imm = v
  <2>1. insns[m][y] \in Insns
    BY <1>1, <1>2
  <2>2. g[y] = [insns[m][y] EXCEPT !.imm = v]
    BY <1>1, <1>2
  <2> QED BY <2>1, <2>2 DEF Insns
<1>9. progs' = progs /\ Appended' = Appended
  BY SameObject DEF Appended
<1>10. insns'[m'][sub_insn_off'[f.prog] + f.insn_idx + 1] = g[y]
  BY <1>5
<1> HIDE DEF g
<1>11. Resolved(f.prog, f.insn_idx)'
  BY <1>4, <1>8, <1>9, <1>10, SameElf DEF Resolved
<1> QED BY <1>5, <1>6, <1>7, <1>11

(***************************************************************************)
(* The innermost activation of s moves on by one instruction, s being the  *)
(* stack, or the stack without an activation that is through.              *)
(***************************************************************************)
LEMMA AdvanceSettles ==
    ASSUME IInv, Offsets, id' = id,
           NEW s \in Seq(Frame), s # <<>>, Len(s) <= Len(stack),
           \A a \in 1 .. Len(s) : s[a] = stack[a], stack' = Advance(s),
           \A a \in DOMAIN stack :
             a > Len(s) => stack[a].insn_idx >= progs[stack[a].prog].sec_insn_cnt,
           NEW p \in Progs, NEW k \in 0 .. progs[p].sec_insn_cnt - 1
    PROVE  Settled(p, k)' <=>
             (Settled(p, k) \/ (p = s[Len(s)].prog /\ k = s[Len(s)].insn_idx))
<1> DEFINE n == Len(s)
<1>1. TypeOK /\ stack \in Seq(Frame) /\ Len(stack) \in Nat /\ DOMAIN stack = 1 .. Len(stack)
  <2>1. TypeOK /\ stack \in Seq(Frame)
    BY DEF IInv, TypeOK, Frame
  <2> QED BY <2>1
<1>2. n \in 1 .. Len(stack) /\ 1 .. n \subseteq 1 .. Len(stack) /\ n \in Nat
  BY <1>1
<1>3. stack # <<>>
  BY <1>1, <1>2
<1>4. \A a \in 1 .. Len(stack) : stack[a].insn_idx \in Nat /\ stack[a].prog \in Progs
  BY <1>1, <1>3, TopFacts
<1>5. progs[p].sec_insn_cnt \in Nat /\ k \in Nat
  BY <1>1, CopyFacts
<1>6. DOMAIN stack' = 1 .. n
  BY <1>1, <1>2, AdvanceFacts
<1>7. \A a \in 1 .. n : /\ stack'[a].prog = stack[a].prog
                        /\ stack'[a].insn_idx = IF a = n THEN stack[a].insn_idx + 1
                                                ELSE stack[a].insn_idx
  BY AdvanceIdx
<1>8. s[n] = stack[n]
  BY <1>2
<1> HIDE DEF n
<1>9. ASSUME Settled(p, k)', ~(p = s[n].prog /\ k = s[n].insn_idx) PROVE Settled(p, k)
  <2>1. SUFFICES ASSUME NEW a \in DOMAIN stack, stack[a].prog = p PROVE k < stack[a].insn_idx
    BY DEF Settled
  <2>2. CASE a > n
    BY <1>1, <1>4, <1>5, <2>1, <2>2 DEF n
  <2>3. CASE a = n
    BY <1>2, <1>4, <1>5, <1>6, <1>7, <1>8, <1>9, <2>1, <2>3 DEF Settled
  <2>4. CASE a < n
    <3>1. a \in 1 .. n /\ a # n
      BY <1>1, <1>2, <2>1, <2>4
    <3> QED BY <1>6, <1>7, <1>9, <2>1, <3>1 DEF Settled
  <2> QED BY <1>1, <1>2, <2>1, <2>2, <2>3, <2>4
<1>10. ASSUME Settled(p, k) \/ (p = s[n].prog /\ k = s[n].insn_idx) PROVE Settled(p, k)'
  <2>1. SUFFICES ASSUME NEW a \in 1 .. n, stack[a].prog = p PROVE k < stack'[a].insn_idx
    BY <1>6, <1>7 DEF Settled
  <2>2. a \in DOMAIN stack /\ stack[a].insn_idx \in Nat
    BY <1>1, <1>2, <1>4, <2>1
  <2>3. CASE Settled(p, k)
    BY <1>5, <1>7, <2>1, <2>2, <2>3 DEF Settled
  <2>4. CASE p = s[n].prog /\ k = s[n].insn_idx
    <3>1. a = n
      BY <1>1, <1>2, <1>8, <2>1, <2>2, <2>4, FramesDiffer
    <3> QED BY <1>5, <1>7, <1>8, <2>4, <3>1
  <2> QED BY <1>10, <2>3, <2>4
<1> QED BY <1>9, <1>10 DEF n

LEMMA AdvanceWaits ==
    ASSUME IInv, Waiting, id' = id, m' = m, sub_insn_off' = sub_insn_off,
           NEW s \in Seq(Frame), s # <<>>, Len(s) <= Len(stack),
           \A a \in 1 .. Len(s) : s[a] = stack[a], stack' = Advance(s),
           s[Len(s)].insn_idx < progs[s[Len(s)].prog].sec_insn_cnt
    PROVE  Waiting'
<1> DEFINE n == Len(s)
<1>1. TypeOK /\ stack \in Seq(Frame) /\ Len(stack) \in Nat /\ DOMAIN stack = 1 .. Len(stack)
  <2>1. TypeOK /\ stack \in Seq(Frame)
    BY DEF IInv, TypeOK, Frame
  <2> QED BY <2>1
<1>2. n \in 1 .. Len(stack) /\ 1 .. n \subseteq 1 .. Len(stack) /\ n \in Nat
  BY <1>1
<1>3. stack # <<>>
  BY <1>1, <1>2
<1>4. \A a \in 1 .. Len(stack) : stack[a].insn_idx \in Nat /\ stack[a].prog \in Progs
  BY <1>1, <1>3, TopFacts
<1>5. progs' = progs /\ Appended' = Appended
  BY SameObject DEF Appended
<1>6. DOMAIN stack' = 1 .. n /\ Len(stack') = n
  BY <1>1, <1>2, AdvanceFacts
<1>7. \A a \in 1 .. n : /\ stack'[a].prog = stack[a].prog
                        /\ stack'[a].insn_idx = IF a = n THEN stack[a].insn_idx + 1
                                                ELSE stack[a].insn_idx
  BY AdvanceIdx
<1>8. s[n] = stack[n] /\ stack[n].insn_idx < progs[stack[n].prog].sec_insn_cnt
  BY <1>2
<1> HIDE DEF n
<1>9. SUFFICES ASSUME NEW a \in 1 .. n
               PROVE  /\ stack'[a].prog \in Appended
                      /\ stack'[a].insn_idx <= progs[stack'[a].prog].sec_insn_cnt
                      /\ a < n => /\ stack'[a].insn_idx \in Calls(stack'[a].prog)
                                  /\ CalleeInElf(stack'[a].prog, stack'[a].insn_idx) =
                                       stack'[a + 1].prog
  BY <1>5, <1>6, SameElf DEF Waiting
<1>10. a \in DOMAIN stack /\ stack[a].insn_idx \in Nat
  BY <1>1, <1>2, <1>4
<1>11. stack'[a].prog \in Appended
  BY <1>7, <1>10 DEF Waiting
<1>12. CASE a = n
  <2>1. progs[stack[n].prog].sec_insn_cnt \in Nat
    BY <1>1, <1>2, <1>4, CopyFacts
  <2>2. stack'[a].insn_idx <= progs[stack'[a].prog].sec_insn_cnt
    BY <1>7, <1>8, <1>10, <1>12, <2>1
  <2> QED BY <1>2, <1>11, <1>12, <2>2
<1>13. CASE a # n
  <2>1. a < n /\ a + 1 \in 1 .. n /\ a < Len(stack)
    BY <1>1, <1>2, <1>13
  <2>2. stack'[a + 1].prog = stack[a + 1].prog
    BY <1>7, <2>1
  <2> QED BY <1>7, <1>10, <1>11, <1>13, <2>1, <2>2 DEF Waiting
<1> QED BY <1>12, <1>13

(***************************************************************************)
(* The three kinds of rounds that settle an instruction.                   *)
(***************************************************************************)
LEMMA SkipCopy ==
    ASSUME IInv, CopyInv, SkipInsn
    PROVE  Layout' /\ Waiting' /\ Code' /\ (Appended \subseteq Needed(m))'
<1>1. /\ InLoop /\ ~Insn.call /\ stack' = Advance(stack)
      /\ id' = id /\ m' = m /\ insns' = insns /\ sub_insn_off' = sub_insn_off
  BY DEF SkipInsn
<1>2. /\ Working /\ Top.prog \in Appended /\ Top.insn_idx \in 0 .. progs[Top.prog].sec_insn_cnt - 1
      /\ Insn = progs[Top.prog].insns[Top.insn_idx + 1]
  BY <1>1, TopIsAhead
<1>3. TypeOK /\ Layout /\ Waiting /\ Code /\ Appended \subseteq Needed(m) /\ Offsets /\ stack # <<>>
  BY <1>2 DEF IInv, CopyInv, Working
<1>4. m \in Progs
  BY <1>3 DEF IInv, Frames
<1>5. stack \in Seq(Frame) /\ Len(stack) \in Nat /\ DOMAIN stack = 1 .. Len(stack)
  BY <1>3, TopFacts
<1>6. \A p \in Appended : \A k \in 0 .. progs[p].sec_insn_cnt - 1 :
        Settled(p, k)' <=> (Settled(p, k) \/ (p = Top.prog /\ k = Top.insn_idx))
  <2>1. ASSUME NEW p \in Progs, NEW k \in 0 .. progs[p].sec_insn_cnt - 1
        PROVE  Settled(p, k)' <=>
                 (Settled(p, k) \/ (p = stack[Len(stack)].prog /\ k = stack[Len(stack)].insn_idx))
    <3>1. /\ Len(stack) <= Len(stack)
          /\ \A a \in DOMAIN stack :
               a > Len(stack) => stack[a].insn_idx >= progs[stack[a].prog].sec_insn_cnt
      BY <1>5
    <3> QED BY <1>1, <1>3, <1>5, <3>1, AdvanceSettles
  <2> QED BY <2>1 DEF Top, Appended
<1>7. Top.insn_idx \notin Calls(Top.prog)
  BY <1>1, <1>2 DEF Calls
<1>8. Resolved(Top.prog, Top.insn_idx)
  BY <1>2, <1>7 DEF Resolved, Insn, At
<1>9. PICK p0 \in Appended : p0 = Top.prog
  BY <1>2
<1>10. PICK k0 \in 0 .. progs[p0].sec_insn_cnt - 1 : k0 = Top.insn_idx
  BY <1>2, <1>9
<1>11. Resolved(p0, k0)'
  <2>1. progs' = progs /\ Appended' = Appended
    BY <1>1, SameObject DEF Appended
  <2> QED BY <1>1, <1>8, <1>9, <1>10, <2>1, SameElf DEF Resolved
<1>12. Layout' /\ Code' /\ (Appended \subseteq Needed(m))'
  BY <1>1, <1>3, <1>4, <1>6, <1>9, <1>10, <1>11, SettleOne
<1>13. Waiting'
  <2>1. stack[Len(stack)].insn_idx < progs[stack[Len(stack)].prog].sec_insn_cnt
    BY <1>1 DEF InLoop, Top
  <2>2. Len(stack) <= Len(stack)
    BY <1>5
  <2> QED BY <1>1, <1>3, <1>5, <2>1, <2>2, AdvanceWaits
<1> QED BY <1>12, <1>13

LEMMA KnownCopy ==
    ASSUME IInv, CopyInv, CallsInText, CallKnown
    PROVE  Layout' /\ Waiting' /\ Code' /\ (Appended \subseteq Needed(m))'
<1>1. /\ InLoop /\ Insn.call /\ stack' = Advance(stack) /\ Callee # NULL /\ sub_insn_off[Callee] # 0
      /\ id' = id /\ m' = m /\ insns' = Patched(Top, Callee) /\ sub_insn_off' = sub_insn_off
  BY DEF CallKnown
<1>2. /\ Working /\ Top.prog \in Appended /\ Top.insn_idx \in 0 .. progs[Top.prog].sec_insn_cnt - 1
      /\ Insn = progs[Top.prog].insns[Top.insn_idx + 1]
  BY <1>1, TopIsAhead
<1>3. TypeOK /\ Layout /\ Waiting /\ Code /\ Appended \subseteq Needed(m) /\ Offsets /\ stack # <<>>
  BY <1>2 DEF IInv, CopyInv, Working
<1>4. m \in Progs
  BY <1>3 DEF IInv, Frames
<1>5. stack \in Seq(Frame) /\ Len(stack) \in Nat /\ DOMAIN stack = 1 .. Len(stack) /\ Top \in Frame
  BY <1>3, TopFacts
<1>6. \A p \in Appended : \A k \in 0 .. progs[p].sec_insn_cnt - 1 :
        Settled(p, k)' <=> (Settled(p, k) \/ (p = Top.prog /\ k = Top.insn_idx))
  <2>1. ASSUME NEW p \in Progs, NEW k \in 0 .. progs[p].sec_insn_cnt - 1
        PROVE  Settled(p, k)' <=>
                 (Settled(p, k) \/ (p = stack[Len(stack)].prog /\ k = stack[Len(stack)].insn_idx))
    <3>1. /\ Len(stack) <= Len(stack)
          /\ \A a \in DOMAIN stack :
               a > Len(stack) => stack[a].insn_idx >= progs[stack[a].prog].sec_insn_cnt
      BY <1>5
    <3> QED BY <1>1, <1>3, <1>5, <3>1, AdvanceSettles
  <2> QED BY <2>1 DEF Top, Appended
<1>7. Top.insn_idx \in Calls(Top.prog) /\ Callee = CalleeInElf(Top.prog, Top.insn_idx)
  BY <1>1, <1>2, <1>3, CopyFacts, TopCallee
<1>8. Callee \in Appended
  BY <1>1, CalleeFacts DEF Appended
<1>9. PICK f \in Frame : f = Top
  BY <1>5
<1>10. PICK c \in Appended : c = Callee
  BY <1>8
<1>11. insns[m][sub_insn_off[f.prog] + f.insn_idx + 1].call
  BY <1>1, <1>9 DEF Insn, At
<1>12. /\ f.prog \in Appended /\ f.insn_idx \in Calls(f.prog)
       /\ f.insn_idx \in 0 .. progs[f.prog].sec_insn_cnt - 1
       /\ c = CalleeInElf(f.prog, f.insn_idx) /\ insns' = Patched(f, c)
  BY <1>1, <1>2, <1>7, <1>9, <1>10
<1>13. /\ Len(insns'[m]) = Len(insns[m])
       /\ \A x \in 1 .. Len(insns[m]) :
            x # sub_insn_off[f.prog] + f.insn_idx + 1 => insns'[m][x] = insns[m][x]
       /\ Resolved(f.prog, f.insn_idx)'
  BY <1>1, <1>3, <1>4, <1>11, <1>12, PatchResolves
<1>14. Layout' /\ Code' /\ (Appended \subseteq Needed(m))'
  <2>1. PICK p0 \in Appended : p0 = f.prog
    BY <1>12
  <2>2. PICK k0 \in 0 .. progs[p0].sec_insn_cnt - 1 : k0 = f.insn_idx
    BY <1>12, <2>1
  <2>3. Resolved(p0, k0)'
    BY <1>13, <2>1, <2>2
  <2>4. /\ Len(insns'[m]) = Len(insns[m])
        /\ \A x \in 1 .. Len(insns[m]) :
             x # sub_insn_off[p0] + k0 + 1 => insns'[m][x] = insns[m][x]
    BY <1>13, <2>1, <2>2
  <2>5. \A p \in Appended : \A k \in 0 .. progs[p].sec_insn_cnt - 1 :
          Settled(p, k)' <=> (Settled(p, k) \/ (p = p0 /\ k = k0))
    BY <1>6, <1>9, <2>1, <2>2
  <2> QED BY <1>1, <1>3, <1>4, <2>3, <2>4, <2>5, SettleOne
<1>15. Waiting'
  <2>1. stack[Len(stack)].insn_idx < progs[stack[Len(stack)].prog].sec_insn_cnt
    BY <1>1 DEF InLoop, Top
  <2>2. Len(stack) <= Len(stack)
    BY <1>5
  <2> QED BY <1>1, <1>3, <1>5, <2>1, <2>2, AdvanceWaits
<1> QED BY <1>14, <1>15

LEMMA ReturnCopy ==
    ASSUME IInv, CopyInv, ReturnToCaller
    PROVE  Layout' /\ Waiting' /\ Code' /\ (Appended \subseteq Needed(m))'
<1> DEFINE s == Under(stack)
           n == Len(stack)
<1>1. /\ err = "none" /\ n > 1 /\ Top.insn_idx >= progs[Top.prog].sec_insn_cnt
      /\ stack' = Advance(s) /\ id' = id /\ m' = m /\ sub_insn_off' = sub_insn_off
      /\ insns' = Patched(stack[n - 1], Top.prog)
  BY DEF ReturnToCaller
<1>2. TypeOK /\ stack \in Seq(Frame)
  BY DEF IInv, TypeOK, Frame
<1>3. n \in Nat /\ DOMAIN stack = 1 .. n /\ stack # <<>>
  BY <1>1, <1>2
<1>4. Layout /\ Waiting /\ Code /\ Appended \subseteq Needed(m) /\ Offsets
  BY <1>1, <1>3 DEF CopyInv, Working
<1>5. m \in Progs
  BY <1>3 DEF IInv, Frames
<1>6. /\ s \in Seq(Frame) /\ s # <<>> /\ Len(s) = n - 1
      /\ \A a \in 1 .. n - 1 : s[a] = stack[a]
  BY <1>1, <1>2, UnderFacts
<1>7. n - 1 \in 1 .. n /\ n \in 1 .. n /\ Len(s) <= Len(stack)
  BY <1>1, <1>3, <1>6
<1> HIDE DEF s
<1>8. PICK f \in Frame : f = stack[n - 1]
  BY <1>2, <1>3, <1>7, TopFacts
<1>9. s[Len(s)] = f
  <2>1. n - 1 \in 1 .. n - 1
    BY <1>1, <1>3
  <2> QED BY <1>6, <1>8, <2>1
<1>10. stack[n].prog \in Appended /\ n - 1 < n /\ n - 1 + 1 = n
  BY <1>3, <1>4, <1>7 DEF Waiting
<1>11. /\ f.prog \in Appended /\ f.insn_idx \in Calls(f.prog)
       /\ CalleeInElf(f.prog, f.insn_idx) = stack[n].prog
  BY <1>3, <1>4, <1>7, <1>8, <1>10 DEF Waiting
<1>12. f.insn_idx \in 0 .. progs[f.prog].sec_insn_cnt - 1
  BY <1>11 DEF Calls
<1>13. PICK c \in Appended : c = stack[n].prog
  BY <1>10
<1>14. insns[m][sub_insn_off[f.prog] + f.insn_idx + 1].call
  <2>1. ~Settled(f.prog, f.insn_idx)
    <3>1. f.insn_idx \in Nat
      BY DEF Frame
    <3> QED BY <1>3, <1>7, <1>8, <3>1 DEF Settled
  <2>2. CodeOf(f.prog, f.insn_idx)
    BY <1>4, <1>11, <1>12 DEF Code
  <2> QED BY <1>11, <2>1, <2>2 DEF CodeOf, Calls
<1>15. /\ Len(insns'[m]) = Len(insns[m])
       /\ \A x \in 1 .. Len(insns[m]) :
            x # sub_insn_off[f.prog] + f.insn_idx + 1 => insns'[m][x] = insns[m][x]
       /\ Resolved(f.prog, f.insn_idx)'
  <2>1. c = CalleeInElf(f.prog, f.insn_idx) /\ insns' = Patched(f, c)
    BY <1>1, <1>8, <1>11, <1>13 DEF Top
  <2> QED BY <1>1, <1>4, <1>5, <1>11, <1>12, <1>14, <2>1, PatchResolves
<1>16. \A a \in DOMAIN stack :
         a > Len(s) => stack[a].insn_idx >= progs[stack[a].prog].sec_insn_cnt
  <2>1. ASSUME NEW x \in Nat PROVE \A a \in 1 .. x : a > x - 1 => a = x
    OBVIOUS
  <2>2. \A a \in 1 .. n : a > n - 1 => a = n
    <3> HIDE DEF n
    <3> QED BY <1>3, <2>1
  <2> QED BY <1>1, <1>3, <1>6, <2>2 DEF Top
<1>17. \A a \in 1 .. Len(s) : s[a] = stack[a]
  BY <1>6
<1>18. ASSUME NEW p \in Progs, NEW k \in 0 .. progs[p].sec_insn_cnt - 1
       PROVE  Settled(p, k)' <=>
                (Settled(p, k) \/ (p = s[Len(s)].prog /\ k = s[Len(s)].insn_idx))
  BY <1>1, <1>4, <1>6, <1>7, <1>16, <1>17, AdvanceSettles
<1>19. Layout' /\ Code' /\ (Appended \subseteq Needed(m))'
  <2>1. PICK p0 \in Appended : p0 = f.prog
    BY <1>11
  <2>2. PICK k0 \in 0 .. progs[p0].sec_insn_cnt - 1 : k0 = f.insn_idx
    BY <1>12, <2>1
  <2>3. Resolved(p0, k0)'
    BY <1>15, <2>1, <2>2
  <2>4. /\ Len(insns'[m]) = Len(insns[m])
        /\ \A x \in 1 .. Len(insns[m]) :
             x # sub_insn_off[p0] + k0 + 1 => insns'[m][x] = insns[m][x]
    BY <1>15, <2>1, <2>2
  <2>5. \A p \in Appended : \A k \in 0 .. progs[p].sec_insn_cnt - 1 :
          Settled(p, k)' <=> (Settled(p, k) \/ (p = p0 /\ k = k0))
    BY <1>9, <1>18, <2>1, <2>2 DEF Appended
  <2> QED BY <1>1, <1>4, <1>5, <2>3, <2>4, <2>5, SettleOne
<1>20. Waiting'
  <2>1. s[Len(s)].insn_idx < progs[s[Len(s)].prog].sec_insn_cnt
    <3>1. progs[f.prog].sec_insn_cnt \in Nat
      BY <1>2, <1>11, CopyFacts
    <3> QED BY <1>9, <1>12, <3>1
  <2> QED BY <1>1, <1>4, <1>6, <1>7, <1>17, <2>1, AdvanceWaits
<1> QED BY <1>19, <1>20


(***************************************************************************)
(* A callee is in .text, so it is a sub-program: the only program is not.  *)
(***************************************************************************)
LEMMA CalleeIsSubprog ==
    ASSUME EntryOutsideText, TypeOK, Callee # NULL
    PROVE  Callee \in Progs /\ IsSubprog(Callee)
<1>1. Callee \in Progs /\ progs[Callee].sec_idx = text_shndx
  BY CalleeFacts
<1>2. LastIdx(progs) \in Nat /\ Progs = 0 .. LastIdx(progs)
  BY ObjectFacts DEF TypeOK
<1>3. LastIdx(progs) = 0 => progs[0].sec_idx # text_shndx
  BY DEF EntryOutsideText, TypeOK, progs, text_shndx
<1>4. LastIdx(progs) # 0
  BY <1>1, <1>2, <1>3
<1> QED BY <1>1, <1>2, <1>4 DEF IsSubprog

LEMMA ConcatFacts ==
    ASSUME NEW s \in Seq(Insns), NEW t \in Seq(Insns)
    PROVE  /\ Len(s \o t) = Len(s) + Len(t) /\ s \o t \in Seq(Insns)
           /\ \A x \in 1 .. Len(s) : (s \o t)[x] = s[x]
           /\ \A x \in 1 .. Len(t) : (s \o t)[Len(s) + x] = t[x]
OBVIOUS

(***************************************************************************)
(* A first call: the copy of c goes behind what is there, untouched, and   *)
(* nothing else moves.                                                     *)
(***************************************************************************)
LEMMA AppendCopy ==
    ASSUME IInv, Layout, Waiting, Code, Appended \subseteq Needed(m), stack # <<>>,
           id' = id, m' = m, NEW c \in Progs, c \notin Appended,
           insns[c] = progs[c].insns,
           sub_insn_off' = [sub_insn_off EXCEPT ![c] = Len(insns[m])],
           insns' = [insns EXCEPT ![m] = insns[m] \o insns[c]],
           stack' = Append(stack, [prog |-> c, insn_idx |-> 0]),
           Top.insn_idx \in Calls(Top.prog), CalleeInElf(Top.prog, Top.insn_idx) = c
    PROVE  Layout' /\ Waiting' /\ Code' /\ (Appended \subseteq Needed(m))'
<1> DEFINE L == Len(insns[m])
           n == Len(stack)
<1>1. TypeOK /\ m \in Progs
  BY DEF IInv, Frames
<1>2. stack \in Seq(Frame)
  BY <1>1, TopFacts
<1>3. n \in Nat /\ n >= 1 /\ DOMAIN stack = 1 .. n /\ n \in 1 .. n
  BY <1>2
<1>4. /\ Len(stack') = n + 1 /\ DOMAIN stack' = 1 .. n + 1
      /\ \A a \in 1 .. n : stack'[a] = stack[a]
      /\ stack'[n + 1] = [prog |-> c, insn_idx |-> 0]
  BY <1>2, <1>3
<1>5. progs' = progs /\ Progs' = Progs
  BY SameObject
<1>6. /\ L \in Nat /\ L > 0 /\ insns[m] \in Seq(Insns) /\ progs[c].insns \in Seq(Insns)
      /\ progs[c].sec_insn_cnt \in Nat /\ Len(progs[c].insns) = progs[c].sec_insn_cnt
      /\ sub_insn_off \in [Progs -> Nat] /\ insns \in [Progs -> Seq(Insns)]
      /\ progs[c].sec_insn_cnt > 0
  BY <1>1, CopyFacts DEF IInv, NonEmpty, TypeOK
<1>7. \A p \in Progs : sub_insn_off'[p] = IF p = c THEN L ELSE sub_insn_off[p]
  BY <1>6
<1>8. Appended' = Appended \cup {c} /\ Appended \subseteq Progs
  BY <1>5, <1>6, <1>7 DEF Appended
<1>9. insns'[m] = insns[m] \o progs[c].insns
  BY <1>1, <1>6
<1>10. /\ Len(insns'[m]) = L + progs[c].sec_insn_cnt
       /\ \A x \in 1 .. L : insns'[m][x] = insns[m][x]
       /\ \A k \in 0 .. progs[c].sec_insn_cnt - 1 : insns'[m][L + k + 1] = progs[c].insns[k + 1]
  <2> DEFINE g == insns[m]
             h == progs[c].insns
             d == progs[c].sec_insn_cnt
  <2>1. g \in Seq(Insns) /\ h \in Seq(Insns) /\ L = Len(g) /\ Len(h) = d /\ d \in Nat /\ L \in Nat
    BY <1>6
  <2>2. insns'[m] = g \o h
    BY <1>9
  <2> HIDE DEF L, g, h, d
  <2>3. Len(g \o h) = L + d /\ \A x \in 1 .. L : (g \o h)[x] = g[x]
    <3>1. Len(g \o h) = Len(g) + Len(h) /\ \A x \in 1 .. Len(g) : (g \o h)[x] = g[x]
      BY <2>1, ConcatFacts
    <3> QED BY <2>1, <3>1
  <2>4. ASSUME NEW k \in 0 .. d - 1 PROVE (g \o h)[L + k + 1] = h[k + 1]
    <3>1. k + 1 \in 1 .. Len(h) /\ L + k + 1 = Len(g) + (k + 1)
      BY <2>1
    <3> QED BY <2>1, <3>1, ConcatFacts
  <2> QED BY <2>2, <2>3, <2>4 DEF g, h, d
<1> HIDE DEF L, n
<1>11. Layout'
  <2>1. \A p \in Appended : /\ p # c /\ p \in Progs /\ sub_insn_off'[p] = sub_insn_off[p]
                            /\ sub_insn_off[p] \in Nat /\ progs[p].sec_insn_cnt \in Nat
                            /\ sub_insn_off[p] + progs[p].sec_insn_cnt <= L
    BY <1>1, <1>7, <1>8, CopyFacts DEF Layout, L
  <2>2. sub_insn_off'[c] = L
    BY <1>7
  <2>3. \A p \in Appended' : sub_insn_off'[p] + progs'[p].sec_insn_cnt <= Len(insns'[m'])
    <3>1. SUFFICES ASSUME NEW p \in Appended \cup {c}
                   PROVE  sub_insn_off'[p] + progs[p].sec_insn_cnt <= L + progs[c].sec_insn_cnt
      BY <1>5, <1>8, <1>10
    <3>2. CASE p = c
      BY <1>6, <2>2, <3>2
    <3>3. CASE p # c
      <4> DEFINE u == sub_insn_off[p]
                 w == progs[p].sec_insn_cnt
                 v == progs[c].sec_insn_cnt
      <4>1. u \in Nat /\ w \in Nat /\ v \in Nat /\ L \in Nat /\ u + w <= L /\ sub_insn_off'[p] = u
        BY <1>6, <2>1, <3>1, <3>3
      <4> HIDE DEF u, w, v
      <4>2. u + w <= L + v
        BY <4>1
      <4> QED BY <4>1, <4>2 DEF w, v
    <3> QED BY <3>2, <3>3
  <2>4. ASSUME NEW p \in Appended \cup {c}, NEW q \in Appended \cup {c}, p # q
        PROVE  \/ sub_insn_off'[p] + progs[p].sec_insn_cnt <= sub_insn_off'[q]
               \/ sub_insn_off'[q] + progs[q].sec_insn_cnt <= sub_insn_off'[p]
    <3>1. CASE p = c
      BY <2>1, <2>2, <2>4, <3>1
    <3>2. CASE q = c
      BY <2>1, <2>2, <2>4, <3>2
    <3>3. CASE p # c /\ q # c
      BY <2>1, <2>4, <3>3 DEF Layout
    <3> QED BY <3>1, <3>2, <3>3
  <2>5. ASSUME NEW pos \in 0 .. L + progs[c].sec_insn_cnt - 1
        PROVE  \E p \in Appended \cup {c} : Holds(p, pos)'
    <3>1. CASE pos < L
      <4>1. pos \in 0 .. L - 1
        BY <1>6, <3>1
      <4>2. PICK p \in Appended : Holds(p, pos)
        BY <4>1 DEF Layout, L
      <4> QED BY <1>5, <2>1, <4>2 DEF Holds
    <3>2. CASE pos >= L
      <4> DEFINE w == progs[c].sec_insn_cnt
      <4>1. pos \in 0 .. L + w - 1 /\ L \in Nat /\ w \in Nat
        BY <1>6, <2>5
      <4> HIDE DEF w
      <4>2. pos >= L /\ pos < L + w
        BY <3>2, <4>1
      <4> QED BY <1>5, <2>2, <4>2 DEF Holds, w
    <3>3. pos \in Int
      OBVIOUS
    <3> QED BY <1>6, <3>1, <3>2, <3>3
  <2>6. PICK N : N = Len(insns'[m']) /\ N = L + progs[c].sec_insn_cnt
    BY <1>10
  <2>7. \A p, q \in Appended' :
          p # q => \/ sub_insn_off'[p] + progs'[p].sec_insn_cnt <= sub_insn_off'[q]
                   \/ sub_insn_off'[q] + progs'[q].sec_insn_cnt <= sub_insn_off'[p]
    BY <1>5, <1>8, <2>4
  <2>8. ASSUME NEW pos \in 0 .. N - 1 PROVE \E p \in Appended' : Holds(p, pos)'
    <3>1. pos \in 0 .. L + progs[c].sec_insn_cnt - 1
      <4> DEFINE w == progs[c].sec_insn_cnt
      <4>1. L \in Nat /\ w \in Nat /\ N = L + w
        BY <1>6, <2>6
      <4> HIDE DEF w
      <4>2. pos \in 0 .. L + w - 1
        BY <2>8, <4>1
      <4> QED BY <4>2 DEF w
    <3>2. \E p \in Appended \cup {c} : Holds(p, pos)'
      BY <2>5, <3>1
    <3> QED BY <1>8, <3>2
  <2> QED BY <2>3, <2>6, <2>7, <2>8 DEF Layout
<1>12. Waiting'
  <2>1. SUFFICES ASSUME NEW a \in 1 .. n + 1
                 PROVE  /\ stack'[a].prog \in Appended \cup {c}
                        /\ stack'[a].insn_idx <= progs[stack'[a].prog].sec_insn_cnt
                        /\ a < n + 1 => /\ stack'[a].insn_idx \in Calls(stack'[a].prog)
                                        /\ CalleeInElf(stack'[a].prog, stack'[a].insn_idx) =
                                             stack'[a + 1].prog
    BY <1>4, <1>5, <1>8, SameElf DEF Waiting
  <2>2. CASE a = n + 1
    BY <1>3, <1>4, <1>6, <2>2
  <2>3. CASE a = n
    <3>1. stack'[n] = Top /\ stack'[n + 1].prog = c /\ n \in DOMAIN stack
      BY <1>3, <1>4 DEF Top, n
    <3>2. Top.prog \in Appended /\ Top.insn_idx <= progs[Top.prog].sec_insn_cnt
      BY <3>1 DEF Waiting, Top, n
    <3> QED BY <2>3, <3>1, <3>2
  <2>4. CASE a < n
    <3>1. a \in 1 .. n /\ a + 1 \in 1 .. n
      BY <1>3, <2>4
    <3>2. stack'[a] = stack[a] /\ stack'[a + 1] = stack[a + 1] /\ a \in DOMAIN stack
      BY <1>3, <1>4, <3>1
    <3>3. a < Len(stack)
      BY <2>4 DEF n
    <3> QED BY <3>2, <3>3 DEF Waiting
  <2> QED BY <1>3, <2>2, <2>3, <2>4
<1>13. Code'
  <2>1. ASSUME NEW p \in Appended, NEW k \in 0 .. progs[p].sec_insn_cnt - 1
        PROVE  CodeOf(p, k)'
    <3>1. p \in Progs /\ p # c /\ sub_insn_off'[p] = sub_insn_off[p]
      BY <1>7, <1>8
    <3>2. sub_insn_off[p] + k + 1 \in 1 .. L
      BY <1>1, PlaceIn DEF L
    <3>3. insns'[m'][sub_insn_off'[p] + k + 1] = insns[m][sub_insn_off[p] + k + 1]
      BY <1>10, <3>1, <3>2
    <3>4. Settled(p, k)' <=> Settled(p, k)
      <4>1. \A a \in 1 .. n + 1 : a \in 1 .. n \/ a = n + 1
        BY <1>3
      <4>2. 1 .. n \subseteq 1 .. n + 1
        BY <1>3
      <4> QED BY <1>3, <1>4, <3>1, <4>1, <4>2 DEF Settled
    <3>5. Resolved(p, k) => Resolved(p, k)'
      <4>1. k \in Calls(p) /\ Resolved(p, k) =>
              /\ CalleeInElf(p, k) \in Appended
              /\ sub_insn_off'[CalleeInElf(p, k)] = sub_insn_off[CalleeInElf(p, k)]
        BY <1>7, <1>8 DEF Resolved
      <4> QED BY <1>5, <1>8, <3>1, <3>3, <4>1, SameElf DEF Resolved
    <3>6. CodeOf(p, k)
      BY DEF Code
    <3>7. CASE Settled(p, k)
      BY <3>4, <3>5, <3>6, <3>7 DEF CodeOf
    <3>8. CASE ~Settled(p, k)
      BY <1>5, <3>3, <3>4, <3>6, <3>8 DEF CodeOf
    <3> QED BY <3>7, <3>8
  <2>2. ASSUME NEW k \in 0 .. progs[c].sec_insn_cnt - 1 PROVE CodeOf(c, k)'
    <3>1. n + 1 \in DOMAIN stack' /\ stack'[n + 1].prog = c /\ ~(k < stack'[n + 1].insn_idx)
      BY <1>3, <1>4, <1>6
    <3>2. ~Settled(c, k)'
      BY <3>1 DEF Settled
    <3>3. insns'[m'][sub_insn_off'[c] + k + 1] = progs'[c].insns[k + 1]
      BY <1>5, <1>7, <1>10
    <3> QED BY <3>2, <3>3 DEF CodeOf
  <2> QED BY <1>5, <1>8, <2>1, <2>2 DEF Code
<1>14. (Appended \subseteq Needed(m))'
  <2>1. Top.prog \in Appended
    BY <1>3 DEF Waiting, Top, n
  <2>2. c \in Callees(Top.prog) \cap Progs
    BY DEF Callees
  <2>3. c \in Needed(m)
    BY <2>1, <2>2, NeededClosed
  <2> QED BY <1>8, <2>3, SameElf
<1> QED BY <1>11, <1>12, <1>13, <1>14

LEMMA NewCopy ==
    ASSUME CallsInText, EntryOutsideText, IInv, CopyInv, CallNew, err' = "none"
    PROVE  Layout' /\ Waiting' /\ Code' /\ (Appended \subseteq Needed(m))'
<1>1. /\ InLoop /\ Insn.call /\ Callee # NULL /\ sub_insn_off[Callee] = 0
      /\ id' = id /\ m' = m /\ sub_insn_off' = [sub_insn_off EXCEPT ![Callee] = Len(insns[m])]
      /\ insns' = [insns EXCEPT ![m] = insns[m] \o insns[Callee]]
  BY DEF CallNew, MarkAppended
<1>2. stack' = Append(stack, [prog |-> Callee, insn_idx |-> 0])
  BY DEF CallNew, InfoFails
<1>3. /\ Working /\ Top.prog \in Appended /\ Top.insn_idx \in 0 .. progs[Top.prog].sec_insn_cnt - 1
      /\ Insn = progs[Top.prog].insns[Top.insn_idx + 1]
  BY <1>1, TopIsAhead
<1>4. TypeOK /\ Layout /\ Waiting /\ Code /\ Appended \subseteq Needed(m) /\ stack # <<>>
  BY <1>3 DEF IInv, CopyInv, Working
<1>5. Top.insn_idx \in Calls(Top.prog) /\ Callee = CalleeInElf(Top.prog, Top.insn_idx)
  BY <1>1, <1>3, <1>4, TopCallee DEF Appended
<1>6. PICK c \in Progs : c = Callee /\ IsSubprog(c)
  BY <1>1, <1>4, CalleeIsSubprog
<1>7. c # m
  BY <1>4, <1>6 DEF IInv, Frames
<1>8. c \notin Appended
  BY <1>1, <1>6, <1>7 DEF Appended
<1>9. insns[c] = progs[c].insns
  BY <1>6 DEF IInv, SubprogsUntouched
<1> QED BY <1>1, <1>2, <1>4, <1>5, <1>6, <1>8, <1>9, AppendCopy


(***************************************************************************)
(* reloc_code() is entered for a main program: its own code is all there   *)
(* is, and the offsets of the previous main program are forgotten.         *)
(***************************************************************************)
LEMMA StartCopy ==
    ASSUME IInv, CopyInv, StartProg, err' = "none"
    PROVE  Layout' /\ Waiting' /\ Code' /\ (Appended \subseteq Needed(m))'
<1>1. /\ err = "none" /\ stack = <<>> /\ m \in Progs /\ ~IsSubprog(m)
      /\ id' = id /\ m' = m /\ insns' = insns /\ sub_insn_off' = ResetOffsets
      /\ stack' = <<[prog |-> m, insn_idx |-> 0]>>
  BY DEF StartProg, InfoFails
<1>2. TypeOK /\ Offsets
  BY DEF IInv, CopyInv
<1>3. progs' = progs /\ Progs' = Progs
  BY <1>1, SameObject
<1>4. \A p \in Progs : sub_insn_off'[p] = 0
  BY <1>1, <1>2 DEF ResetOffsets, Offsets
<1>5. PICK p0 \in Progs : p0 = m
  BY <1>1
<1>6. Appended' = {p0} /\ m' = p0
  BY <1>1, <1>3, <1>4, <1>5 DEF Appended
<1>7. m \in Int /\ insns'[p0] = progs[p0].insns
  BY <1>1, <1>2, <1>5 DEF CopyInv, Fresh, TypeOK
<1>8. /\ progs[p0].sec_insn_cnt \in Nat /\ progs[p0].sec_insn_cnt > 0
      /\ Len(progs[p0].insns) = progs[p0].sec_insn_cnt
  BY <1>2, CopyFacts
<1>9. /\ Len(stack') = 1 /\ DOMAIN stack' = {1}
      /\ stack'[1].prog = p0 /\ stack'[1].insn_idx = 0
  BY <1>1, <1>5
<1>10. Layout'
  <2>1. \A p \in Appended' : sub_insn_off'[p] + progs'[p].sec_insn_cnt <= Len(insns'[m'])
    BY <1>3, <1>4, <1>6, <1>7, <1>8
  <2>2. \A pos \in 0 .. Len(insns'[m']) - 1 : Holds(p0, pos)'
    BY <1>3, <1>4, <1>6, <1>7, <1>8 DEF Holds
  <2>3. \A p, q \in Appended' : p = q
    BY <1>6
  <2>4. \A pos \in 0 .. Len(insns'[m']) - 1 : \E p \in Appended' : Holds(p, pos)'
    BY <1>6, <2>2
  <2> QED BY <2>1, <2>3, <2>4 DEF Layout
<1>11. Waiting'
  <2>1. SUFFICES ASSUME NEW a \in DOMAIN stack' PROVE a = 1
    BY <1>3, <1>6, <1>8, <1>9 DEF Waiting
  <2> QED BY <1>9
<1>12. Code'
  <2>1. SUFFICES ASSUME NEW k \in 0 .. progs[p0].sec_insn_cnt - 1 PROVE CodeOf(p0, k)'
    BY <1>3, <1>6 DEF Code
  <2>2. ~Settled(p0, k)'
    <3>1. 1 \in DOMAIN stack' /\ ~(k < stack'[1].insn_idx)
      BY <1>8, <1>9
    <3> QED BY <1>9, <3>1 DEF Settled
  <2>3. sub_insn_off'[p0] + k + 1 = k + 1
    BY <1>4
  <2>4. insns'[m'][sub_insn_off'[p0] + k + 1] = progs'[p0].insns[k + 1]
    BY <1>3, <1>6, <1>7, <2>3
  <2> QED BY <2>2, <2>4 DEF CodeOf
<1>13. (Appended \subseteq Needed(m))'
  BY <1>1, <1>5, <1>6, NeededHasItself, SameElf
<1> QED BY <1>10, <1>11, <1>12, <1>13

LEMMA InitCopy == Init => CopyInv
<1>1. SUFFICES ASSUME Init PROVE CopyInv
  OBVIOUS
<1>2. Offsets /\ Fresh /\ ~Working
  BY <1>1 DEF Init, Offsets, Fresh, Working
<1> QED BY <1>2 DEF CopyInv

(***************************************************************************)
(* A step inside a main program: the stack never becomes empty, so Fresh   *)
(* has nothing to say.                                                     *)
(***************************************************************************)
LEMMA InsideCopy ==
    ASSUME Offsets, id' = id, m' = m, sub_insn_off' = sub_insn_off,
           stack' # <<>> \/ err' # "none",
           Working' => Layout' /\ Waiting' /\ Code' /\ (Appended \subseteq Needed(m))'
    PROVE  CopyInv'
<1>1. Offsets'
  BY SameObject DEF Offsets
<1>2. Fresh'
  BY DEF Fresh
<1> QED BY <1>1, <1>2 DEF CopyInv

LEMMA BetweenCopy ==
    ASSUME IInv, CopyInv, SkipSubprog \/ FinishProg
    PROVE  CopyInv'
<1>1. /\ id' = id /\ m' = m + 1 /\ stack' = <<>> /\ insns' = insns /\ sub_insn_off' = sub_insn_off
      /\ SkipSubprog \/ stack # <<>>
  BY DEF SkipSubprog, FinishProg
<1>2. TypeOK /\ Offsets /\ SubprogsUntouched
  BY DEF IInv, CopyInv
<1>3. progs' = progs /\ Progs' = Progs
  BY <1>1, SameObject
<1>4. Offsets'
  BY <1>1, <1>2, SameObject DEF Offsets
<1>5. m \in Nat /\ Progs \subseteq Nat
  BY <1>2, ObjectFacts DEF TypeOK
<1>6. \A p \in Progs : p >= m + 1 => p > m
  BY <1>5
<1>7. Fresh'
  BY <1>1, <1>2, <1>3, <1>6 DEF Fresh, SubprogsUntouched
<1>8. ~Working'
  BY <1>1 DEF Working
<1> QED BY <1>4, <1>7, <1>8 DEF CopyInv

LEMMA FirstCallOffsets ==
    ASSUME EntryOutsideText, IInv, CopyInv, CallNew \/ CallNoMemory
    PROVE  Offsets'
<1>1. /\ id' = id /\ Callee # NULL
      /\ sub_insn_off' = [sub_insn_off EXCEPT ![Callee] = Len(insns[m])]
  BY DEF CallNew, CallNoMemory, MarkAppended
<1>2. TypeOK /\ Offsets
  BY DEF IInv, CopyInv
<1>3. PICK c \in Progs : c = Callee /\ IsSubprog(c)
  BY <1>1, <1>2, CalleeIsSubprog
<1>4. \A p \in Progs : p # c => sub_insn_off'[p] = sub_insn_off[p]
  BY <1>1, <1>2, <1>3 DEF TypeOK
<1> QED BY <1>1, <1>2, <1>3, <1>4, SameObject DEF Offsets

LEMMA StepCopy ==
    ASSUME CallsInText, EntryOutsideText, IInv, CopyInv, [Next]_vars
    PROVE  CopyInv'
<1>1. TypeOK /\ Offsets
  BY DEF IInv, CopyInv
<1>2. CASE SkipSubprog \/ FinishProg
  BY <1>2, BetweenCopy
<1>3. CASE StartProg
  <2>1. id' = id /\ m' = m /\ sub_insn_off' = ResetOffsets
    BY <1>3 DEF StartProg
  <2>2. Offsets'
    BY <1>1, <2>1, SameObject DEF Offsets, ResetOffsets
  <2>3. stack' # <<>> \/ err' # "none"
    BY <1>3 DEF StartProg, InfoFails
  <2>4. Fresh'
    BY <2>3 DEF Fresh
  <2> QED BY <1>3, <2>2, <2>4, StartCopy DEF CopyInv, Working
<1>4. CASE SkipInsn
  <2>1. stack' # <<>>
    BY <1>1, <1>4, TopFacts, AdvanceFacts DEF SkipInsn, InLoop
  <2> QED BY <1>1, <1>4, <2>1, SkipCopy, InsideCopy DEF SkipInsn
<1>5. CASE CallNowhere
  <2>1. err' # "none" /\ ~Working'
    BY <1>5 DEF CallNowhere, Working
  <2> QED BY <1>1, <1>5, <2>1, InsideCopy DEF CallNowhere
<1>6. CASE CallKnown
  <2>1. stack' # <<>>
    BY <1>1, <1>6, TopFacts, AdvanceFacts DEF CallKnown, InLoop
  <2> QED BY <1>1, <1>6, <2>1, KnownCopy, InsideCopy DEF CallKnown
<1>7. CASE CallNew
  <2>1. Offsets'
    BY <1>7, FirstCallOffsets
  <2>2. stack' # <<>>
    <3>1. stack # <<>> /\ stack \in Seq(Frame)
      BY <1>1, <1>7, TopFacts DEF CallNew, InLoop
    <3>2. stack' = stack \/ stack' = Append(stack, [prog |-> Callee, insn_idx |-> 0])
      BY <1>7 DEF CallNew
    <3>3. \A x : Append(stack, x) # <<>>
      BY <3>1
    <3> QED BY <3>1, <3>2, <3>3
  <2>3. Fresh'
    BY <2>2 DEF Fresh
  <2> QED BY <1>7, <2>1, <2>3, NewCopy DEF CopyInv, Working
<1>8. CASE CallNoMemory
  <2>1. Offsets'
    BY <1>8, FirstCallOffsets
  <2>2. Fresh' /\ ~Working'
    BY <1>8 DEF CallNoMemory, Fresh, Working
  <2> QED BY <2>1, <2>2 DEF CopyInv
<1>9. CASE ReturnToCaller
  <2>1. stack' # <<>>
    <3>1. stack \in Seq(Frame) /\ Len(stack) > 1 /\ stack' = Advance(Under(stack))
      BY <1>1, <1>9 DEF ReturnToCaller, TypeOK, Frame
    <3> QED BY <3>1, UnderFacts, AdvanceFacts
  <2> QED BY <1>1, <1>9, <2>1, ReturnCopy, InsideCopy DEF ReturnToCaller
<1>10. CASE UNCHANGED vars
  <2>1. /\ id' = id /\ m' = m /\ stack' = stack /\ insns' = insns
        /\ sub_insn_off' = sub_insn_off /\ err' = err
    BY <1>10 DEF vars
  <2>2. progs' = progs /\ Progs' = Progs /\ Appended' = Appended
    BY <2>1, SameObject DEF Appended
  <2>3. Offsets' /\ Fresh'
    BY <2>1, <2>2, SameObject DEF CopyInv, Offsets, Fresh
  <2>4. ASSUME Working'
        PROVE  Layout' /\ Waiting' /\ Code' /\ (Appended \subseteq Needed(m))'
    <3>1. Layout /\ Waiting /\ Code /\ Appended \subseteq Needed(m)
      BY <2>1, <2>4 DEF CopyInv, Working
    <3>2. Layout'
      BY <2>1, <2>2, <3>1 DEF Layout, Holds
    <3>3. Waiting'
      BY <2>1, <2>2, <3>1, SameElf DEF Waiting
    <3>4. \A p, k : CodeOf(p, k)' <=> CodeOf(p, k)
      <4>1. \A p, k : Resolved(p, k)' <=> Resolved(p, k)
        BY <2>1, <2>2, SameElf DEF Resolved
      <4>2. \A p, k : Settled(p, k)' <=> Settled(p, k)
        BY <2>1 DEF Settled
      <4> QED BY <2>1, <2>2, <4>1, <4>2 DEF CodeOf
    <3>5. Code'
      BY <2>2, <3>1, <3>4 DEF Code
    <3>6. (Appended \subseteq Needed(m))'
      BY <2>1, <2>2, <3>1, SameElf
    <3> QED BY <3>2, <3>3, <3>5, <3>6
  <2> QED BY <2>3, <2>4 DEF CopyInv
<1> QED
  BY <1>2, <1>3, <1>4, <1>5, <1>6, <1>7, <1>8, <1>9, <1>10 DEF Next, Finished

(***************************************************************************)
(* When the main program is through, no activation has anything ahead.     *)
(***************************************************************************)
LEMMA AllSettled ==
    ASSUME IInv, CopyInv, Relocated
    PROVE  /\ Layout /\ Appended \subseteq Needed(m) /\ m \in Progs
           /\ \A p \in Appended : \A k \in 0 .. progs[p].sec_insn_cnt - 1 : Resolved(p, k)
<1>1. /\ err = "none" /\ Len(stack) = 1 /\ Top.insn_idx >= progs[Top.prog].sec_insn_cnt
  BY DEF Relocated
<1>2. stack # <<>>
  BY <1>1
<1>3. TypeOK /\ Layout /\ Code /\ Appended \subseteq Needed(m) /\ m \in Progs
  BY <1>1, <1>2 DEF IInv, CopyInv, Working, Frames
<1>4. DOMAIN stack = {1} /\ stack[1] = Top /\ Top.prog \in Progs /\ Top.insn_idx \in Nat
  BY <1>1, <1>2, <1>3, TopFacts DEF Top
<1>5. ASSUME NEW p \in Appended, NEW k \in 0 .. progs[p].sec_insn_cnt - 1
      PROVE  Resolved(p, k)
  <2>1. p \in Progs /\ progs[p].sec_insn_cnt \in Nat
    BY <1>3, CopyFacts
  <2>2. Settled(p, k)
    BY <1>1, <1>4, <2>1 DEF Settled
  <2> QED BY <1>3, <2>2 DEF Code, CodeOf
<1> QED BY <1>3, <1>5

LEMMA CopyInvariant ==
    ASSUME CallsInText, EntryOutsideText
    PROVE  Spec => [](IInv /\ CopyInv)
<1>1. Init => IInv /\ CopyInv
  BY InitIInv, InitCopy
<1>2. (IInv /\ CopyInv) /\ [Next]_vars => (IInv /\ CopyInv)'
  BY StepIInv, StepCopy
<1> QED BY <1>1, <1>2, PTL DEF Spec

(***************************************************************************)
(* In a relocated main program every call leads to the copy of the         *)
(* function it calls in the ELF file, and no other instruction differs     *)
(* from the one it was copied from, for any programs and any call graph,   *)
(* recursive or not.                                                       *)
(***************************************************************************)
THEOREM CallsAreResolved ==
    ASSUME CallsInText, EntryOutsideText
    PROVE  Spec => []CallsResolved
<1>1. IInv /\ CopyInv => CallsResolved
  BY AllSettled DEF CallsResolved
<1> QED BY <1>1, CopyInvariant, PTL

(***************************************************************************)
(* It consists of its own code and one copy of each sub-program it needs,  *)
(* directly or not, of nothing else, without gaps.                         *)
(***************************************************************************)
LEMMA NeededIsAppended ==
    ASSUME IInv, CopyInv, Relocated
    PROVE  Appended = Needed(m)
<1>1. /\ Appended \subseteq Needed(m) /\ m \in Progs
      /\ \A p \in Appended : \A k \in 0 .. progs[p].sec_insn_cnt - 1 : Resolved(p, k)
  BY AllSettled
<1>2. ASSUME NEW q \in Appended, NEW c \in Callees(q), c \in Progs PROVE c \in Appended
  <2>1. PICK k \in Calls(q) : c = CalleeInElf(q, k)
    BY DEF Callees
  <2>2. k \in 0 .. progs[q].sec_insn_cnt - 1
    BY DEF Calls
  <2> QED BY <1>1, <2>1, <2>2 DEF Resolved
<1>3. Appended \in SUBSET Progs /\ m \in Appended
  BY <1>1 DEF Appended
<1> QED BY <1>1, <1>2, <1>3, NeededIsLeast

LEMMA OneHolder ==
    ASSUME TypeOK, Layout, NEW pos \in 0 .. Len(insns[m]) - 1
    PROVE  Cardinality({p \in Appended : Holds(p, pos)}) = 1
<1>1. PICK p \in Appended : Holds(p, pos)
  BY DEF Layout
<1>2. pos \in Int
  OBVIOUS
<1>3. ASSUME NEW q \in Appended, Holds(q, pos) PROVE q = p
  <2>1. SUFFICES ASSUME q # p PROVE FALSE
    OBVIOUS
  <2>2. /\ sub_insn_off[p] \in Nat /\ progs[p].sec_insn_cnt \in Nat
        /\ sub_insn_off[q] \in Nat /\ progs[q].sec_insn_cnt \in Nat
    BY CopyFacts
  <2>3. \/ sub_insn_off[p] + progs[p].sec_insn_cnt <= sub_insn_off[q]
        \/ sub_insn_off[q] + progs[q].sec_insn_cnt <= sub_insn_off[p]
    BY <2>1 DEF Layout
  <2> QED BY <1>1, <1>2, <1>3, <2>2, <2>3 DEF Holds
<1>4. {q \in Appended : Holds(q, pos)} = {p}
  BY <1>1, <1>3
<1> QED BY <1>4, FS_Singleton

THEOREM CopiesAlwaysTile ==
    ASSUME CallsInText, EntryOutsideText
    PROVE  Spec => []CopiesTile
<1>1. ASSUME IInv, CopyInv, Relocated
      PROVE  /\ Appended = Needed(m)
             /\ \A pos \in 0 .. Len(insns[m]) - 1 :
                  Cardinality({p \in Appended : Holds(p, pos)}) = 1
             /\ \A p \in Appended : sub_insn_off[p] + progs[p].sec_insn_cnt <= Len(insns[m])
  <2>1. TypeOK /\ Layout
    BY <1>1, AllSettled DEF IInv
  <2>2. \A p \in Appended : sub_insn_off[p] + progs[p].sec_insn_cnt <= Len(insns[m])
    BY <2>1 DEF Layout
  <2> QED BY <1>1, <2>1, <2>2, NeededIsAppended, OneHolder
<1>2. IInv /\ CopyInv => CopiesTile
  BY <1>1 DEF CopiesTile
<1> QED BY <1>2, CopyInvariant, PTL

-----------------------------------------------------------------------------
(***************************************************************************)
(* The records of a program lie next to each other in those of its         *)
(* section, from a first one to a last one.                                *)
(***************************************************************************)
LEMMA NatOrder ==
    \E R : IsWellFoundedOn(R, Nat) /\ \A x, y \in Nat : <<y, x>> \in R <=> y < x
<1>1. \A x, y \in Nat : <<y, x>> \in OpToRel(<, Nat) <=> y < x
  BY DEF OpToRel
<1> QED BY <1>1, NatLessThanWellFounded

LEMMA LeastOf ==
    ASSUME NEW T, T \subseteq Nat, T # {}
    PROVE  \E x \in T : \A y \in T : x <= y
<1>1. PICK R : IsWellFoundedOn(R, Nat) /\ \A x, y \in Nat : <<y, x>> \in R <=> y < x
  BY NatOrder
<1>2. PICK x \in T : \A y \in T : ~(<<y, x>> \in R)
  BY <1>1, WFMin
<1>3. ASSUME NEW y \in T PROVE x <= y
  <2>1. x \in Nat /\ y \in Nat /\ <<y, x>> \notin R
    BY <1>2
  <2>2. ~(y < x)
    BY <1>1, <2>1
  <2> QED BY <2>1, <2>2
<1> QED BY <1>3

LEMMA MinMaxOf ==
    ASSUME NEW N \in Nat, NEW T, T \subseteq 1 .. N, T # {}
    PROVE  /\ Min(T) \in T /\ \A x \in T : Min(T) <= x
           /\ Max(T) \in T /\ \A x \in T : x <= Max(T)
<1>0. /\ \A x \in T : x \in Nat /\ x \in Int /\ x <= N /\ N - x \in Nat
      /\ T \subseteq Nat
  <2>1. \A x \in 1 .. N : x \in Nat /\ x \in Int /\ x <= N /\ N - x \in Nat
    OBVIOUS
  <2> QED BY <2>1, Zenon
<1>1. \E x \in T : \A y \in T : x <= y
  BY <1>0, LeastOf
<1>2. \E x \in T : \A y \in T : x >= y
  <2> DEFINE U == {N - x : x \in T}
  <2>1. U \subseteq Nat /\ U # {}
    BY <1>0
  <2>2. PICK u \in U : \A v \in U : u <= v
    <3> HIDE DEF U
    <3> QED BY <2>1, LeastOf
  <2>3. PICK x \in T : u = N - x
    BY <2>2
  <2>4. ASSUME NEW y \in T PROVE x >= y
    <3>1. u <= N - y
      BY <2>2
    <3>2. x \in Int /\ y \in Int
      BY <1>0
    <3> QED BY <2>3, <3>1, <3>2
  <2> QED BY <2>4
<1>3. Min(T) \in T /\ \A x \in T : Min(T) <= x
  BY <1>1 DEF Min
<1>4. Max(T) \in T /\ \A x \in T : Max(T) >= x
  BY <1>2 DEF Max
<1>5. \A x \in T : Max(T) >= x => x <= Max(T)
  <2>1. Max(T) \in Int
    BY <1>0, <1>4
  <2> QED BY <1>0, <2>1
<1> QED BY <1>3, <1>4, <1>5

All(k, p) == Objects[id].info[k][progs[p].sec_idx]
InsnAt(k, p, n) == All(k, p)[n] \div BPF_INSN_SZ
Mine(k, p) == {n \in DOMAIN All(k, p) : ContainsInsn(progs[p], InsnAt(k, p, n))}

LEMMA AllFacts ==
    ASSUME InfoInOrder, TypeOK, NEW k \in Kinds, NEW p \in Progs
    PROVE  /\ All(k, p) \in Seq(Nat) /\ Len(All(k, p)) \in Nat
           /\ DOMAIN All(k, p) = 1 .. Len(All(k, p))
           /\ \A n \in DOMAIN All(k, p) : InsnAt(k, p, n) \in Nat
           /\ \A a, b \in DOMAIN All(k, p) : a < b => InsnAt(k, p, a) < InsnAt(k, p, b)
           /\ progs[p].sec_insn_off \in Nat /\ progs[p].sec_insn_cnt \in Nat
<1>1. /\ All(k, p) \in Seq(Nat)
      /\ \A a, b \in DOMAIN All(k, p) : a < b => InsnAt(k, p, a) < InsnAt(k, p, b)
  BY DEF InfoInOrder, TypeOK, progs, Progs, All, InsnAt
<1>2. progs[p].sec_insn_off \in Nat /\ progs[p].sec_insn_cnt \in Nat
  BY ObjectsWellFormed DEF TypeOK, progs, Progs, WellFormed, IsProgram
<1> DEFINE A == All(k, p)
<1>3. A \in Seq(Nat)
  BY <1>1
<1> HIDE DEF A
<1>4. Len(A) \in Nat /\ DOMAIN A = 1 .. Len(A) /\ \A n \in DOMAIN A : A[n] \in Nat
  BY <1>3
<1>5. \A n \in DOMAIN A : A[n] \div BPF_INSN_SZ \in Nat
  BY <1>4 DEF BPF_INSN_SZ
<1> QED BY <1>1, <1>2, <1>4, <1>5 DEF A, InsnAt

LEMMA MineRun ==
    ASSUME InfoInOrder, TypeOK, NEW k \in Kinds, NEW p \in Progs, Mine(k, p) # {}
    PROVE  \E lo, hi \in 1 .. Len(All(k, p)) :
             /\ lo <= hi /\ Mine(k, p) = lo .. hi
             /\ Copied(k, p) = SubSeq(All(k, p), lo, hi)
<1> DEFINE N == Len(All(k, p))
           T == Mine(k, p)
           lo == Min(T)
           hi == Max(T)
<1>1. N \in Nat /\ T \subseteq 1 .. N
  BY AllFacts DEF Mine
<1> HIDE DEF N, T
<1>2. lo \in T /\ hi \in T /\ \A x \in T : lo <= x /\ x <= hi
  BY <1>1, MinMaxOf DEF T
<1>3. lo <= hi /\ lo \in 1 .. N /\ hi \in 1 .. N
  BY <1>1, <1>2
<1>4. Copied(k, p) = SubSeq(All(k, p), lo, hi)
  BY DEF Copied, All, Mine, InsnAt, T
<1> HIDE DEF lo, hi
<1>5. T \subseteq lo .. hi
  BY <1>1, <1>2, <1>3
<1>6. ASSUME NEW n \in lo .. hi PROVE n \in T
  <2>1. n \in 1 .. N /\ lo <= n /\ n <= hi
    BY <1>1, <1>3
  <2>2. 1 .. N = DOMAIN All(k, p)
    BY AllFacts DEF N
  <2>3. /\ n \in DOMAIN All(k, p) /\ lo \in DOMAIN All(k, p) /\ hi \in DOMAIN All(k, p)
        /\ n \in Int /\ lo \in Int /\ hi \in Int
    <3>1. n \in Int /\ lo \in Int /\ hi \in Int
      BY <1>3
    <3> QED BY <1>3, <2>1, <2>2, <3>1, Zenon
  <2>4. /\ InsnAt(k, p, n) \in Nat /\ InsnAt(k, p, lo) \in Nat /\ InsnAt(k, p, hi) \in Nat
        /\ progs[p].sec_insn_off \in Nat /\ progs[p].sec_insn_cnt \in Nat
    BY <2>3, AllFacts
  <2>5. InsnAt(k, p, lo) <= InsnAt(k, p, n)
    <3>1. CASE lo = n
      BY <2>4, <3>1
    <3>2. CASE lo # n
      <4>1. lo < n
        BY <2>1, <2>3, <3>2
      <4>2. InsnAt(k, p, lo) < InsnAt(k, p, n)
        BY <2>3, <4>1, AllFacts
      <4> QED BY <2>4, <4>2
    <3> QED BY <3>1, <3>2
  <2>6. InsnAt(k, p, n) <= InsnAt(k, p, hi)
    <3>1. CASE n = hi
      BY <2>4, <3>1
    <3>2. CASE n # hi
      <4>1. n < hi
        BY <2>1, <2>3, <3>2
      <4>2. InsnAt(k, p, n) < InsnAt(k, p, hi)
        BY <2>3, <4>1, AllFacts
      <4> QED BY <2>4, <4>2
    <3> QED BY <3>1, <3>2
  <2>7. /\ InsnAt(k, p, lo) >= progs[p].sec_insn_off
        /\ InsnAt(k, p, hi) < progs[p].sec_insn_off + progs[p].sec_insn_cnt
    BY <1>2 DEF T, Mine, ContainsInsn
  <2>8. /\ InsnAt(k, p, n) >= progs[p].sec_insn_off
        /\ InsnAt(k, p, n) < progs[p].sec_insn_off + progs[p].sec_insn_cnt
    BY <2>4, <2>5, <2>6, <2>7
  <2> QED BY <2>3, <2>8 DEF T, Mine, ContainsInsn
<1>7. T = lo .. hi
  BY <1>5, <1>6
<1> QED BY <1>3, <1>4, <1>7 DEF T, N

LEMMA RunFacts ==
    ASSUME NEW s \in Seq(Nat), NEW lo \in 1 .. Len(s), NEW hi \in 1 .. Len(s), lo <= hi
    PROVE  /\ Len(SubSeq(s, lo, hi)) = hi - lo + 1
           /\ DOMAIN SubSeq(s, lo, hi) = 1 .. hi - lo + 1
           /\ \A a \in 1 .. hi - lo + 1 : SubSeq(s, lo, hi)[a] = s[a + lo - 1]
<1>1. Len(s) \in Nat /\ lo \in Nat /\ hi \in Nat /\ s \in [1 .. Len(s) -> Nat]
  OBVIOUS
<1>2. lo \in 1 .. Len(s) + 1 /\ hi \in 0 .. Len(s) /\ hi - lo + 1 \in Nat
  BY <1>1
<1>3. SubSeq(s, lo, hi) = [a \in 1 .. hi - lo + 1 |-> s[a + lo - 1]]
  BY <1>1, <1>2
<1> DEFINE f == [a \in 1 .. hi - lo + 1 |-> s[a + lo - 1]]
<1>4. ASSUME NEW a \in 1 .. hi - lo + 1 PROVE s[a + lo - 1] \in Nat
  <2>1. a + lo - 1 \in 1 .. Len(s)
    BY <1>1
  <2> QED BY <1>1, <2>1
<1>5. f \in [1 .. hi - lo + 1 -> Nat]
  BY <1>4
<1>6. Len(f) = hi - lo + 1
  BY <1>2, <1>5, FunctionIsSeq
<1>7. DOMAIN f = 1 .. hi - lo + 1 /\ \A a \in 1 .. hi - lo + 1 : f[a] = s[a + lo - 1]
  OBVIOUS
<1> QED BY <1>3, <1>6, <1>7


(***************************************************************************)
(* Records are only ever added to those of the main program, at the copy   *)
(* that is added with them.                                                *)
(***************************************************************************)
Rising(s) == \A a, b \in DOMAIN s : a < b => s[a] < s[b]
Image(s) == {s[a] : a \in DOMAIN s}

InfoOk(k) ==
    info[k][m] # <<>> =>
      /\ Rising(info[k][m])
      /\ Image(info[k][m]) = UNION {Described(k, p) : p \in Appended}

InfoInv ==
    /\ info \in [Kinds -> [Progs -> Seq(Int)]]
    /\ \A k \in Kinds : \A p \in Progs :
         p > m \/ (p = m /\ stack = <<>> /\ err = "none") => info[k][p] = <<>>
    /\ Working => \A k \in Kinds : InfoOk(k)

Places(k, p, off) == {InsnAt(k, p, n) - progs[p].sec_insn_off + off : n \in Mine(k, p)}

LEMMA DescribedPlaces ==
    \A k, p : Described(k, p) = Places(k, p, sub_insn_off[p])
BY DEF Described, Places, Mine, InsnAt, All

LEMMA DescribedThen ==
    ASSUME id' = id
    PROVE  \A k, p : Described(k, p)' = Places(k, p, sub_insn_off'[p])
<1>1. progs' = progs
  BY SameObject
<1>2. \A k, p : All(k, p)' = All(k, p)
  BY <1>1 DEF All
<1>3. \A k, p, n : InsnAt(k, p, n)' = InsnAt(k, p, n)
  BY <1>2 DEF InsnAt
<1>4. \A k, p : Mine(k, p)' = Mine(k, p)
  BY <1>1, <1>2, <1>3 DEF Mine
<1>5. ASSUME NEW k, NEW p
      PROVE  Described(k, p)' =
               {InsnAt(k, p, n)' - progs'[p].sec_insn_off + sub_insn_off'[p] : n \in Mine(k, p)'}
  BY DEF Described, Mine, InsnAt, All
<1> QED BY <1>1, <1>3, <1>4, <1>5 DEF Places

LEMMA PlaceBounds ==
    ASSUME InfoInOrder, TypeOK, NEW k \in Kinds, NEW p \in Progs, NEW off \in Nat,
           NEW x \in Places(k, p, off)
    PROVE  x \in Int /\ off <= x /\ x < off + progs[p].sec_insn_cnt
<1>1. PICK n \in Mine(k, p) : x = InsnAt(k, p, n) - progs[p].sec_insn_off + off
  BY DEF Places
<1>2. /\ InsnAt(k, p, n) \in Nat /\ progs[p].sec_insn_off \in Nat /\ progs[p].sec_insn_cnt \in Nat
      /\ InsnAt(k, p, n) >= progs[p].sec_insn_off
      /\ InsnAt(k, p, n) < progs[p].sec_insn_off + progs[p].sec_insn_cnt
  BY AllFacts DEF Mine, ContainsInsn
<1> QED BY <1>1, <1>2

(***************************************************************************)
(* The records adjust_prog_btf_ext_info() adds, for a copy at off.         *)
(***************************************************************************)
LEMMA RecordsFacts ==
    ASSUME InfoInOrder, TypeOK, NEW k \in Kinds, NEW p \in Progs, NEW off \in Nat
    PROVE  /\ Records(k, p, off) \in Seq(Int)
           /\ Records(k, p, off) = <<>> <=> Mine(k, p) = {}
           /\ Rising(Records(k, p, off))
           /\ Image(Records(k, p, off)) = Places(k, p, off)
<1> DEFINE R == Records(k, p, off)
<1>1. CASE Mine(k, p) = {}
  <2>1. Copied(k, p) = <<>>
    BY <1>1 DEF Copied, Mine, All, InsnAt
  <2>2. R = <<>>
    BY <2>1 DEF Records
  <2>3. Places(k, p, off) = {}
    BY <1>1 DEF Places
  <2> QED BY <1>1, <2>2, <2>3 DEF Rising, Image
<1>2. CASE Mine(k, p) # {}
  <2> DEFINE A == All(k, p)
  <2>1. PICK lo, hi \in 1 .. Len(A) :
          lo <= hi /\ Mine(k, p) = lo .. hi /\ Copied(k, p) = SubSeq(A, lo, hi)
    BY <1>2, MineRun
  <2>2. A \in Seq(Nat) /\ Len(A) \in Nat /\ DOMAIN A = 1 .. Len(A)
    BY AllFacts
  <2> HIDE DEF A
  <2> DEFINE N == hi - lo + 1
             base == progs[p].sec_insn_off
  <2>3. N \in Nat /\ N >= 1 /\ base \in Nat /\ lo \in Nat /\ hi \in Nat
    BY <2>1, <2>2, AllFacts
  <2>4. /\ DOMAIN Copied(k, p) = 1 .. N
        /\ \A a \in 1 .. N : Copied(k, p)[a] = A[a + lo - 1]
    BY <2>1, <2>2, RunFacts
  <2>5. \A a \in 1 .. N : /\ a + lo - 1 \in lo .. hi /\ a + lo - 1 \in DOMAIN A
                          /\ A[a + lo - 1] \div BPF_INSN_SZ = InsnAt(k, p, a + lo - 1)
                          /\ InsnAt(k, p, a + lo - 1) \in Nat
    <3>1. ASSUME NEW x \in Nat, NEW a \in 1 .. N
          PROVE  a + lo - 1 \in lo .. hi /\ (hi \in 1 .. x => a + lo - 1 \in 1 .. x)
      <4>1. a \in Int /\ 1 <= a /\ a <= hi - lo + 1 /\ lo \in Nat /\ hi \in Nat /\ lo >= 1
        BY <2>1, <2>3
      <4> QED BY <4>1
    <3>2. \A n \in DOMAIN A : InsnAt(k, p, n) = A[n] \div BPF_INSN_SZ /\ InsnAt(k, p, n) \in Nat
      BY AllFacts DEF InsnAt, A
    <3> QED BY <2>1, <2>2, <3>1, <3>2
  <2>6. R = [a \in 1 .. N |-> InsnAt(k, p, a + lo - 1) + (off - base)]
    BY <2>4, <2>5 DEF Records
  <2> HIDE DEF R, N, base
  <2>7. \A a \in 1 .. N : R[a] = InsnAt(k, p, a + lo - 1) - base + off /\ R[a] \in Int
    BY <2>3, <2>5, <2>6
  <2>8. R \in [1 .. N -> Int]
    BY <2>6, <2>7
  <2>9. R \in Seq(Int) /\ Len(R) = N /\ DOMAIN R = 1 .. N
    BY <2>3, <2>8, FunctionIsSeq
  <2>10. R # <<>>
    BY <2>3, <2>9
  <2>11. Rising(R)
    <3>1. SUFFICES ASSUME NEW a \in 1 .. N, NEW b \in 1 .. N, a < b PROVE R[a] < R[b]
      BY <2>9 DEF Rising
    <3>2. a + lo - 1 < b + lo - 1
      BY <2>3, <3>1
    <3>3. InsnAt(k, p, a + lo - 1) < InsnAt(k, p, b + lo - 1)
      BY <2>5, <3>2, AllFacts DEF A
    <3>4. InsnAt(k, p, a + lo - 1) \in Nat /\ InsnAt(k, p, b + lo - 1) \in Nat
      BY <2>5
    <3>5. /\ R[a] = InsnAt(k, p, a + lo - 1) - base + off
          /\ R[b] = InsnAt(k, p, b + lo - 1) - base + off
      BY <2>7
    <3> QED BY <2>3, <3>3, <3>4, <3>5
  <2>12. Image(R) = Places(k, p, off)
    <3>1. ASSUME NEW a \in 1 .. N PROVE R[a] \in Places(k, p, off)
      BY <2>1, <2>5, <2>7 DEF Places, base
    <3>2. ASSUME NEW x \in Places(k, p, off) PROVE \E a \in 1 .. N : R[a] = x
      <4>1. PICK n \in lo .. hi : x = InsnAt(k, p, n) - base + off
        BY <2>1 DEF Places, base
      <4>2. n - lo + 1 \in 1 .. N /\ (n - lo + 1) + lo - 1 = n
        BY <2>3 DEF N
      <4> QED BY <2>7, <4>1, <4>2
    <3> QED BY <2>9, <3>1, <3>2 DEF Image
  <2> QED BY <1>2, <2>9, <2>10, <2>11, <2>12 DEF R
<1> QED BY <1>1, <1>2

LEMMA ConcatRecords ==
    ASSUME NEW s \in Seq(Int), NEW t \in Seq(Int), NEW L \in Int, Rising(s), Rising(t),
           \A x \in Image(s) : x < L, \A x \in Image(t) : L <= x
    PROVE  s \o t \in Seq(Int) /\ Rising(s \o t) /\ Image(s \o t) = Image(s) \cup Image(t)
<1> DEFINE u == s \o t
<1>1. /\ u \in Seq(Int) /\ Len(u) = Len(s) + Len(t) /\ DOMAIN u = 1 .. Len(s) + Len(t)
      /\ Len(s) \in Nat /\ Len(t) \in Nat /\ DOMAIN s = 1 .. Len(s) /\ DOMAIN t = 1 .. Len(t)
  OBVIOUS
<1>2. \A a \in 1 .. Len(s) : u[a] = s[a] /\ s[a] \in Int /\ u[a] \in Image(s) /\ a \in DOMAIN u
  <2>1. ASSUME NEW a \in 1 .. Len(s) PROVE u[a] = s[a] /\ s[a] \in Int
    OBVIOUS
  <2>2. \A a \in 1 .. Len(s) : s[a] \in Image(s)
    BY <1>1 DEF Image
  <2>3. \A a \in 1 .. Len(s) : a \in 1 .. Len(s) + Len(t)
    BY <1>1
  <2> QED BY <1>1, <2>1, <2>2, <2>3
<1>3. \A a \in 1 .. Len(t) : u[Len(s) + a] = t[a] /\ t[a] \in Int /\ u[Len(s) + a] \in Image(t)
                             /\ Len(s) + a \in DOMAIN u
  <2>1. ASSUME NEW a \in 1 .. Len(t) PROVE u[Len(s) + a] = t[a] /\ t[a] \in Int
    OBVIOUS
  <2>2. \A a \in 1 .. Len(t) : t[a] \in Image(t)
    BY <1>1 DEF Image
  <2>3. \A a \in 1 .. Len(t) : Len(s) + a \in 1 .. Len(s) + Len(t)
    BY <1>1
  <2> QED BY <1>1, <2>1, <2>2, <2>3
<1>4. ASSUME NEW a \in DOMAIN u, a \notin 1 .. Len(s)
      PROVE  a - Len(s) \in 1 .. Len(t) /\ a = Len(s) + (a - Len(s))
  <2>1. ASSUME NEW x \in Nat, NEW y \in Nat, NEW b \in 1 .. x + y, b \notin 1 .. x
        PROVE  b - x \in 1 .. y /\ b = x + (b - x)
    BY <2>1
  <2>2. a \in 1 .. Len(s) + Len(t)
    BY <1>1
  <2> QED BY <1>1, <1>4, <2>1, <2>2
<1> HIDE DEF u
<1>5. ASSUME NEW a \in DOMAIN u, NEW b \in DOMAIN u, a < b PROVE u[a] < u[b]
  <2>1. a \in Int /\ b \in Int
    BY <1>1
  <2>2. CASE b \in 1 .. Len(s)
    <3>1. a \in 1 .. Len(s)
      BY <1>1, <1>5, <2>1, <2>2
    <3> QED BY <1>1, <1>2, <1>5, <2>2, <3>1 DEF Rising
  <2>3. CASE a \notin 1 .. Len(s)
    <3>1. b \notin 1 .. Len(s)
      BY <1>1, <1>5, <2>1, <2>3
    <3>2. /\ a - Len(s) \in 1 .. Len(t) /\ b - Len(s) \in 1 .. Len(t) /\ a - Len(s) < b - Len(s)
          /\ a = Len(s) + (a - Len(s)) /\ b = Len(s) + (b - Len(s))
      BY <1>1, <1>4, <1>5, <2>1, <2>3, <3>1
    <3>3. u[a] = t[a - Len(s)] /\ u[b] = t[b - Len(s)]
      BY <1>3, <3>2
    <3> QED BY <1>1, <3>2, <3>3 DEF Rising
  <2>4. CASE a \in 1 .. Len(s) /\ b \notin 1 .. Len(s)
    <3>1. b - Len(s) \in 1 .. Len(t) /\ b = Len(s) + (b - Len(s))
      BY <1>4, <2>4
    <3>2. u[b] \in Image(t) /\ u[b] \in Int /\ u[a] \in Image(s) /\ u[a] \in Int
      BY <1>2, <1>3, <2>4, <3>1
    <3>3. u[a] < L /\ L <= u[b]
      BY <3>2
    <3> QED BY <3>2, <3>3
  <2> QED BY <2>2, <2>3, <2>4
<1>6. ASSUME NEW a \in DOMAIN u PROVE u[a] \in Image(s) \cup Image(t)
  <2>1. CASE a \in 1 .. Len(s)
    BY <1>2, <2>1
  <2>2. CASE a \notin 1 .. Len(s)
    BY <1>3, <1>4, <2>2
  <2> QED BY <2>1, <2>2
<1>7. ASSUME NEW x \in Image(s) \cup Image(t) PROVE x \in Image(u)
  <2>1. CASE x \in Image(s)
    BY <1>1, <1>2, <2>1 DEF Image
  <2>2. CASE x \in Image(t)
    BY <1>1, <1>3, <2>2 DEF Image
  <2> QED BY <2>1, <2>2
<1>8. Image(u) = Image(s) \cup Image(t)
  BY <1>6, <1>7 DEF Image
<1> QED BY <1>1, <1>5, <1>8 DEF Rising, u

LEMMA AddedFacts ==
    ASSUME InfoInOrder, TypeOK, info \in [Kinds -> [Progs -> Seq(Int)]], m \in Progs,
           NEW k \in Kinds, NEW p \in Progs, NEW off \in Nat
    PROVE  /\ AddedInfo(k, p, off) \in [Progs -> Seq(Int)]
           /\ \A q \in Progs : q # m => AddedInfo(k, p, off)[q] = info[k][q]
           /\ p # m /\ info[k][m] = <<>> => AddedInfo(k, p, off)[m] = <<>>
           /\ p = m \/ info[k][m] # <<>> =>
                AddedInfo(k, p, off)[m] = info[k][m] \o Records(k, p, off)
<1>1. info[k] \in [Progs -> Seq(Int)] /\ info[k][m] \in Seq(Int)
  OBVIOUS
<1>2. PICK R \in Seq(Int) : R = Records(k, p, off)
  BY RecordsFacts
<1>3. info[k][m] \o R \in Seq(Int)
  BY <1>1
<1>4. CASE p # m /\ info[k][m] = <<>>
  BY <1>1, <1>4 DEF AddedInfo
<1>5. CASE ~(p # m /\ info[k][m] = <<>>)
  <2>1. AddedInfo(k, p, off) = [info[k] EXCEPT ![m] = info[k][m] \o R]
    BY <1>2, <1>5 DEF AddedInfo
  <2> QED BY <1>1, <1>2, <1>3, <1>5, <2>1
<1> QED BY <1>4, <1>5

LEMMA InfoAdded ==
    ASSUME InfoInOrder, TypeOK, info \in [Kinds -> [Progs -> Seq(Int)]], m \in Progs,
           NEW p \in Progs, NEW off \in Nat, AddInfo(p, off) \/ InfoFails(p, off)
    PROVE  /\ info' \in [Kinds -> [Progs -> Seq(Int)]]
           /\ \A k \in Kinds : \A q \in Progs : q # m => info'[k][q] = info[k][q]
<1>1. CASE AddInfo(p, off)
  BY <1>1, AddedFacts DEF AddInfo
<1>2. CASE InfoFails(p, off)
  <2>1. info' = info \/ info' = [info EXCEPT !["func"] = AddedInfo("func", p, off)]
    BY <1>2 DEF InfoFails
  <2>2. CASE info' = info
    BY <2>2
  <2>3. CASE info' = [info EXCEPT !["func"] = AddedInfo("func", p, off)]
    <3>1. "func" \in Kinds
      BY DEF Kinds
    <3>2. PICK g \in [Progs -> Seq(Int)] : g = AddedInfo("func", p, off)
      BY <3>1, AddedFacts
    <3>3. \A q \in Progs : q # m => g[q] = info["func"][q]
      BY <3>1, <3>2, AddedFacts
    <3> QED BY <2>3, <3>1, <3>2, <3>3
  <2> QED BY <2>1, <2>2, <2>3
<1> QED BY <1>1, <1>2

(***************************************************************************)
(* The steps that leave the records alone.                                 *)
(***************************************************************************)
LEMMA InfoSame ==
    ASSUME InfoInv, id' = id, m' = m, info' = info,
           (stack' = <<>> /\ err' = "none") => (stack = <<>> /\ err = "none"),
           Working' => Working /\ sub_insn_off' = sub_insn_off
    PROVE  InfoInv'
<1>1. progs' = progs /\ Progs' = Progs
  BY SameObject
<1>2. info' \in [Kinds -> [Progs' -> Seq(Int)]]
  BY <1>1 DEF InfoInv
<1>3. \A k \in Kinds : \A p \in Progs' :
        p > m' \/ (p = m' /\ stack' = <<>> /\ err' = "none") => info'[k][p] = <<>>
  BY <1>1 DEF InfoInv
<1>4. ASSUME Working' PROVE \A k \in Kinds : InfoOk(k)'
  <2>1. Working /\ sub_insn_off' = sub_insn_off
    BY <1>4
  <2>2. Appended' = Appended
    BY <1>1, <2>1 DEF Appended
  <2>3. \A k, p : Described(k, p)' = Described(k, p)
    BY <2>1, DescribedPlaces, DescribedThen
  <2>4. ASSUME NEW k \in Kinds PROVE InfoOk(k)'
    <3>1. InfoOk(k)
      BY <2>1 DEF InfoInv
    <3> QED BY <2>2, <2>3, <3>1 DEF InfoOk
  <2> QED BY <2>4
<1> QED BY <1>2, <1>3, <1>4 DEF InfoInv

LEMMA BetweenInfo ==
    ASSUME TypeOK, InfoInv, SkipSubprog \/ FinishProg
    PROVE  InfoInv'
<1>1. id' = id /\ m' = m + 1 /\ stack' = <<>> /\ info' = info
  BY DEF SkipSubprog, FinishProg
<1>2. Progs' = Progs /\ m \in Nat /\ Progs \subseteq Nat
  BY <1>1, SameObject, ObjectFacts DEF TypeOK
<1>3. ASSUME NEW p \in Progs, p > m + 1 \/ p = m + 1 PROVE p > m
  BY <1>2, <1>3
<1>4. \A k \in Kinds : \A p \in Progs' :
        p > m' \/ (p = m' /\ stack' = <<>> /\ err' = "none") => info'[k][p] = <<>>
  BY <1>1, <1>2, <1>3 DEF InfoInv
<1>5. ~Working'
  BY <1>1 DEF Working
<1> QED BY <1>1, <1>2, <1>4, <1>5 DEF InfoInv

LEMMA StartInfo ==
    ASSUME InfoInOrder, IInv, CopyInv, InfoInv, StartProg
    PROVE  InfoInv'
<1>1. /\ err = "none" /\ stack = <<>> /\ m \in Progs
      /\ id' = id /\ m' = m /\ sub_insn_off' = ResetOffsets
      /\ AddInfo(m, 0) \/ InfoFails(m, 0)
      /\ stack' # <<>> \/ err' # "none"
      /\ err' = "none" => AddInfo(m, 0)
  BY DEF StartProg, InfoFails
<1>2. TypeOK /\ info \in [Kinds -> [Progs -> Seq(Int)]] /\ Offsets
  BY DEF IInv, InfoInv, CopyInv
<1>3. Progs' = Progs /\ progs' = progs
  BY <1>1, SameObject
<1>4. PICK p0 \in Progs : p0 = m
  BY <1>1
<1>5. /\ info' \in [Kinds -> [Progs -> Seq(Int)]]
      /\ \A k \in Kinds : \A q \in Progs : q # m => info'[k][q] = info[k][q]
  BY <1>1, <1>2, InfoAdded
<1>6. m \in Int /\ Progs \subseteq Nat
  BY <1>2, ObjectFacts DEF TypeOK
<1>7. \A k \in Kinds : \A p \in Progs' :
        p > m' \/ (p = m' /\ stack' = <<>> /\ err' = "none") => info'[k][p] = <<>>
  <2>1. \A p \in Progs : p > m => p # m
    BY <1>6
  <2> QED BY <1>1, <1>3, <1>5, <2>1 DEF InfoInv
<1>8. \A p \in Progs : sub_insn_off'[p] = 0
  BY <1>1, <1>2 DEF ResetOffsets, Offsets
<1>9. Appended' = {p0}
  BY <1>1, <1>3, <1>4, <1>8 DEF Appended
<1>10. ASSUME Working', NEW k \in Kinds PROVE InfoOk(k)'
  <2>1. AddInfo(m, 0)
    BY <1>1, <1>10 DEF Working
  <2>2. info[k][m] = <<>>
    BY <1>1 DEF InfoInv
  <2>3. PICK R \in Seq(Int) : R = Records(k, m, 0)
    BY <1>1, <1>2, RecordsFacts
  <2>4. info'[k][m'] = R
    <3>1. info'[k][m] = info[k][m] \o R
      BY <1>1, <1>2, <2>1, <2>3, AddedFacts DEF AddInfo
    <3> QED BY <1>1, <2>2, <3>1
  <2>5. Rising(R) /\ Image(R) = Places(k, p0, 0)
    BY <1>1, <1>2, <1>4, <2>3, RecordsFacts
  <2>6. Described(k, p0)' = Places(k, p0, 0)
    BY <1>1, <1>8, DescribedThen
  <2>7. Image(R) = UNION {Described(k, p)' : p \in Appended'}
    BY <1>9, <2>5, <2>6
  <2> QED BY <2>4, <2>5, <2>7 DEF InfoOk
<1> QED BY <1>3, <1>5, <1>7, <1>10 DEF InfoInv

LEMMA NewInfo ==
    ASSUME EntryOutsideText, InfoInOrder, IInv, CopyInv, InfoInv, CallNew
    PROVE  InfoInv'
<1> DEFINE L == Len(insns[m])
<1>1. /\ InLoop /\ Callee # NULL /\ sub_insn_off[Callee] = 0
      /\ id' = id /\ m' = m /\ sub_insn_off' = [sub_insn_off EXCEPT ![Callee] = L]
      /\ AddInfo(Callee, L) \/ InfoFails(Callee, L)
      /\ err' = "none" => AddInfo(Callee, L)
  BY DEF CallNew, MarkAppended, InfoFails
<1>2. TypeOK /\ info \in [Kinds -> [Progs -> Seq(Int)]] /\ Layout /\ Working /\ stack # <<>>
  BY <1>1, TopIsAhead DEF IInv, InfoInv, CopyInv, Working
<1>3. m \in Progs /\ ~IsSubprog(m)
  BY <1>2 DEF IInv, Frames
<1>4. Progs' = Progs /\ progs' = progs
  BY <1>1, SameObject
<1>5. PICK c \in Progs : c = Callee /\ c # m
  BY <1>1, <1>2, <1>3, CalleeIsSubprog
<1>6. L \in Nat /\ L # 0
  BY <1>2, <1>3, CopyFacts DEF IInv, NonEmpty
<1> HIDE DEF L
<1>7. stack' # <<>> \/ err' # "none"
  <2>1. stack \in Seq(Frame)
    BY <1>2, TopFacts
  <2>2. stack' = stack \/ stack' = Append(stack, [prog |-> Callee, insn_idx |-> 0])
    BY DEF CallNew
  <2>3. \A x : Append(stack, x) # <<>>
    <3>1. Len(stack) \in Nat
      BY <2>1
    <3>2. \A x : Len(Append(stack, x)) = Len(stack) + 1
      BY <2>1
    <3> QED BY <3>1, <3>2
  <2> QED BY <1>2, <2>2, <2>3
<1>8. /\ info' \in [Kinds -> [Progs -> Seq(Int)]]
      /\ \A k \in Kinds : \A q \in Progs : q # m => info'[k][q] = info[k][q]
  BY <1>1, <1>2, <1>3, <1>5, <1>6, InfoAdded
<1>9. m \in Int /\ Progs \subseteq Nat
  BY <1>2, ObjectFacts DEF TypeOK
<1>10. \A k \in Kinds : \A p \in Progs' :
         p > m' \/ (p = m' /\ stack' = <<>> /\ err' = "none") => info'[k][p] = <<>>
  <2>1. \A p \in Progs : p > m => p # m
    BY <1>9
  <2> QED BY <1>1, <1>4, <1>7, <1>8, <2>1 DEF InfoInv
<1>11. \A p \in Progs : sub_insn_off'[p] = IF p = c THEN L ELSE sub_insn_off[p]
  BY <1>1, <1>2, <1>5 DEF TypeOK
<1>12. Appended' = Appended \cup {c} /\ c \notin Appended
  BY <1>1, <1>4, <1>5, <1>6, <1>11 DEF Appended
<1>13. ASSUME Working', NEW k \in Kinds PROVE InfoOk(k)'
  <2>1. AddInfo(c, L)
    BY <1>1, <1>5, <1>13 DEF Working
  <2>2. info'[k] = AddedInfo(k, c, L)
    BY <2>1 DEF AddInfo
  <2>3. CASE info[k][m] = <<>>
    <3>1. info'[k][m'] = <<>>
      BY <1>1, <1>2, <1>3, <1>5, <1>6, <2>2, <2>3, AddedFacts
    <3> QED BY <3>1 DEF InfoOk
  <2>4. CASE info[k][m] # <<>>
    <3>1. PICK s \in Seq(Int) : s = info[k][m]
      BY <1>2, <1>3
    <3>2. PICK R \in Seq(Int) : R = Records(k, c, L)
      BY <1>2, <1>6, RecordsFacts
    <3>3. info'[k][m'] = s \o R
      <4>1. AddedInfo(k, c, L)[m] = info[k][m] \o Records(k, c, L)
        BY <1>2, <1>3, <1>6, <2>4, AddedFacts
      <4> QED BY <1>1, <2>2, <3>1, <3>2, <4>1
    <3>4. Rising(s) /\ Image(s) = UNION {Described(k, p) : p \in Appended}
      BY <1>2, <2>4, <3>1 DEF InfoInv, InfoOk
    <3>5. Rising(R) /\ Image(R) = Places(k, c, L)
      BY <1>2, <1>6, <3>2, RecordsFacts
    <3>6. ASSUME NEW x \in Image(s) PROVE x < L
      <4>1. PICK p \in Appended : x \in Places(k, p, sub_insn_off[p])
        BY <3>4, DescribedPlaces
      <4>2. /\ p \in Progs /\ sub_insn_off[p] \in Nat /\ progs[p].sec_insn_cnt \in Nat
            /\ sub_insn_off[p] + progs[p].sec_insn_cnt <= L
        BY <1>2, CopyFacts DEF Layout, L
      <4>3. x \in Int /\ x < sub_insn_off[p] + progs[p].sec_insn_cnt
        BY <1>2, <4>1, <4>2, PlaceBounds
      <4> QED BY <1>6, <4>2, <4>3
    <3>7. \A x \in Image(R) : L <= x
      BY <1>2, <1>6, <3>5, PlaceBounds
    <3>8. Rising(s \o R) /\ Image(s \o R) = Image(s) \cup Image(R)
      <4>1. L \in Int
        BY <1>6
      <4> QED BY <3>4, <3>5, <3>6, <3>7, <4>1, ConcatRecords
    <3>9. Described(k, c)' = Places(k, c, L)
      BY <1>1, <1>11, DescribedThen
    <3>10. \A p \in Appended : Described(k, p)' = Described(k, p)
      <4>1. \A p \in Appended : sub_insn_off'[p] = sub_insn_off[p]
        BY <1>2, <1>11, <1>12, CopyFacts
      <4> QED BY <1>1, <4>1, DescribedPlaces, DescribedThen
    <3>11. Image(s \o R) = UNION {Described(k, p)' : p \in Appended'}
      BY <1>12, <3>4, <3>5, <3>8, <3>9, <3>10
    <3> QED BY <3>3, <3>8, <3>11 DEF InfoOk
  <2> QED BY <2>3, <2>4
<1> QED BY <1>4, <1>8, <1>10, <1>13 DEF InfoInv

LEMMA InitInfo == Init => InfoInv
<1>1. SUFFICES ASSUME Init PROVE InfoInv
  OBVIOUS
<1>2. info = [k \in Kinds |-> [p \in Progs |-> <<>>]] /\ ~Working
  BY <1>1 DEF Init, Working
<1> QED BY <1>2 DEF InfoInv

LEMMA StepInfo ==
    ASSUME EntryOutsideText, InfoInOrder, IInv, CopyInv, InfoInv, [Next]_vars
    PROVE  InfoInv'
<1>1. TypeOK
  BY DEF IInv
<1>2. CASE SkipSubprog \/ FinishProg
  BY <1>1, <1>2, BetweenInfo
<1>3. CASE StartProg
  BY <1>3, StartInfo
<1>4. CASE CallNew
  BY <1>4, NewInfo
<1>5. CASE CallNowhere \/ CallNoMemory
  BY <1>5, InfoSame DEF CallNowhere, CallNoMemory, Working
<1>6. CASE SkipInsn \/ CallKnown \/ ReturnToCaller
  <2>1. /\ err = "none" /\ stack # <<>>
        /\ id' = id /\ m' = m /\ info' = info /\ sub_insn_off' = sub_insn_off
    BY <1>6 DEF SkipInsn, CallKnown, ReturnToCaller, InLoop
  <2>2. stack' # <<>>
    <3>1. CASE SkipInsn \/ CallKnown
      BY <1>1, <2>1, <3>1, TopFacts, AdvanceFacts DEF SkipInsn, CallKnown
    <3>2. CASE ReturnToCaller
      <4>1. stack \in Seq(Frame) /\ Len(stack) > 1 /\ stack' = Advance(Under(stack))
        BY <1>1, <3>2 DEF ReturnToCaller, TypeOK, Frame
      <4> QED BY <4>1, UnderFacts, AdvanceFacts
    <3> QED BY <1>6, <3>1, <3>2
  <2>3. Working
    BY <2>1 DEF Working
  <2> QED BY <2>1, <2>2, <2>3, InfoSame
<1>7. CASE UNCHANGED vars
  <2>1. /\ id' = id /\ m' = m /\ stack' = stack /\ info' = info
        /\ sub_insn_off' = sub_insn_off /\ err' = err
    BY <1>7 DEF vars
  <2> QED BY <2>1, InfoSame DEF Working
<1> QED
  BY <1>2, <1>3, <1>4, <1>5, <1>6, <1>7 DEF Next, Finished

(***************************************************************************)
(* The func_info and line_info of a relocated main program rise and        *)
(* describe the copies: each record of each copied program is there, at    *)
(* the instruction it is about, and no other.                              *)
(***************************************************************************)
THEOREM InfoAlwaysFollowsCode ==
    ASSUME CallsInText, EntryOutsideText, InfoInOrder
    PROVE  Spec => []InfoFollowsCode
<1>1. Init => InfoInv
  BY InitInfo
<1>2. InfoInv /\ (IInv /\ CopyInv) /\ [Next]_vars => InfoInv'
  BY StepInfo
<1>3. ASSUME IInv, InfoInv, Relocated, NEW k \in Kinds, info[k][m] # <<>>
      PROVE  /\ \A a, b \in DOMAIN info[k][m] : a < b => info[k][m][a] < info[k][m][b]
             /\ {info[k][m][a] : a \in DOMAIN info[k][m]} = UNION {Described(k, p) : p \in Appended}
  <2>1. Working
    <3>1. err = "none" /\ Len(stack) = 1
      BY <1>3 DEF Relocated
    <3>2. stack # <<>>
      BY <3>1
    <3> QED BY <3>1, <3>2 DEF Working
  <2>2. InfoOk(k)
    BY <1>3, <2>1 DEF InfoInv
  <2> QED BY <1>3, <2>2 DEF InfoOk, Rising, Image
<1>4. IInv /\ InfoInv => InfoFollowsCode
  BY <1>3 DEF InfoFollowsCode
<1> QED BY <1>1, <1>2, <1>4, CopyInvariant, PTL DEF Spec

=============================================================================
