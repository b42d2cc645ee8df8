--------------------------- MODULE FindProgProofs ---------------------------
(***************************************************************************)
(* find_prog_by_sec_insn() is correct for every well-formed program table  *)
(* and every key: the lookup returns the owner of the instruction, or NULL *)
(* when there is none, and every round of its loop shrinks the interval.   *)
(***************************************************************************)
EXTENDS FindProg, TLAPS

(***************************************************************************)
(* What WellFormed gives for the table being searched.                     *)
(***************************************************************************)
LEMMA TableFacts ==
    ASSUME NEW t \in Tables
    PROVE  /\ LastIdx(t) \in Nat
           /\ DOMAIN t = 0 .. LastIdx(t)
           /\ \A i \in DOMAIN t : IsProgram(t[i])
           /\ \A i, j \in DOMAIN t :
                 i < j => /\ CmpProgs(t[i], t[j])
                          /\ t[i].sec_idx = t[j].sec_idx =>
                                t[i].sec_insn_off + t[i].sec_insn_cnt
                                   <= t[j].sec_insn_off
BY TablesWellFormed DEF WellFormed

(***************************************************************************)
(* The midpoint lies strictly above l and not above r: both branches of    *)
(* the loop stay inside the array and both shrink the interval.            *)
(***************************************************************************)
LEMMA MidBetween ==
    ASSUME l \in Nat, r \in Nat, l < r
    PROVE  Mid \in Nat /\ l < Mid /\ Mid <= r
BY DEF Mid

(***************************************************************************)
(* A program at or before the key in CmpProgs order has no owner below it; *)
(* one after the key has no owner at or above it.                          *)
(***************************************************************************)
LEMMA OwnerSide ==
    ASSUME NEW t \in Tables, NEW m \in DOMAIN t, NEW i \in DOMAIN t,
           sec_idx \in Nat, insn_idx \in Nat,
           Owns(t[i], sec_idx, insn_idx)
    PROVE  IF AtOrBefore(t[m]) THEN m <= i ELSE i < m
<1> DEFINE p == t[m]
           q == t[i]
<1>1. /\ IsProgram(p) /\ IsProgram(q)
      /\ m \in Int /\ i \in Int
  BY TableFacts
<1>2. /\ p.sec_idx \in Nat /\ p.sec_insn_off \in Nat /\ p.sec_insn_cnt \in Nat
      /\ q.sec_idx \in Nat /\ q.sec_insn_off \in Nat /\ q.sec_insn_cnt \in Nat
  BY <1>1 DEF IsProgram
<1>3. /\ q.sec_idx = sec_idx
      /\ q.sec_insn_off <= insn_idx
      /\ insn_idx < q.sec_insn_off + q.sec_insn_cnt
  BY <1>2 DEF Owns, ContainsInsn
<1>4. CASE AtOrBefore(t[m])
  <2>1. SUFFICES ASSUME i < m PROVE FALSE
    BY <1>1, <1>4
  <2>2. CmpProgs(q, p) /\ (q.sec_idx = p.sec_idx =>
                             q.sec_insn_off + q.sec_insn_cnt <= p.sec_insn_off)
    BY <2>1, TableFacts
  <2>. QED
    BY <1>2, <1>3, <1>4, <2>2 DEF AtOrBefore, CmpProgs
<1>5. CASE ~AtOrBefore(t[m])
  <2>1. SUFFICES ASSUME m <= i PROVE FALSE
    BY <1>1, <1>5
  <2>2. CASE m = i
    BY <1>3, <1>5, <2>2 DEF AtOrBefore
  <2>3. CASE m < i
    <3>1. CmpProgs(p, q)
      BY <2>3, TableFacts
    <3>. QED
      BY <1>2, <1>3, <1>5, <3>1 DEF AtOrBefore, CmpProgs
  <2>. QED
    BY <1>1, <2>1, <2>2, <2>3
<1>. QED
  BY <1>4, <1>5

(***************************************************************************)
(* The inductive invariant: types, the loop invariant, the bound on the    *)
(* rounds made, and the result of the last lookup.                         *)
(***************************************************************************)
IInv == TypeOK /\ SearchInv /\ RoundsBounded /\ LookupCorrect

LEMMA InitIInv == Init => IInv
<1> SUFFICES ASSUME Init PROVE IInv
  OBVIOUS
<1>1. 0 \in DOMAIN programs /\ 0 <= LastIdx(programs)
  BY TableFacts DEF Init
<1>. QED
  BY <1>1 DEF Init, IInv, TypeOK, SearchInv, RoundsBounded, LookupCorrect, NULL

LEMMA StepIInv == IInv /\ [Next]_vars => IInv'
<1> SUFFICES ASSUME IInv, [Next]_vars PROVE IInv'
  OBVIOUS
<1> USE DEF IInv
<1>0. /\ programs \in Tables
      /\ LastIdx(programs) \in Nat
      /\ DOMAIN programs = 0 .. LastIdx(programs)
      /\ l \in Nat /\ r \in Nat
  BY TableFacts DEF TypeOK
<1>1. ASSUME NEW s \in SecIdxs, NEW i \in InsnIdxs, Call(s, i)
      PROVE  IInv'
  <2>1. TypeOK'
    BY <1>0, <1>1, KeysAreNat DEF Call, TypeOK
  <2>2. SearchInv'
    BY <1>0, <1>1 DEF Call, SearchInv
  <2>3. LookupCorrect'
    BY <1>1 DEF Call, LookupCorrect
  <2>4. RoundsBounded'
    BY <1>0, <1>1 DEF Call, RoundsBounded
  <2>. QED
    BY <2>1, <2>2, <2>3, <2>4
<1>2. CASE Narrow
  <2>0. l < r /\ Mid \in Nat /\ l < Mid /\ Mid <= r
    BY <1>0, <1>2, MidBetween DEF Narrow
  <2>1. Mid \in DOMAIN programs /\ Mid - 1 \in DOMAIN programs
    BY <1>0, <2>0 DEF TypeOK
  <2>2. TypeOK'
    BY <1>2, <2>1 DEF Narrow, TypeOK
  <2>3. SearchInv'
    <3>1. 0 <= l' /\ l' <= r'
      BY <1>0, <1>2, <2>0 DEF Narrow
    <3>2. ASSUME NEW i \in DOMAIN programs, Owns(programs[i], sec_idx, insn_idx)
          PROVE  l' <= i /\ i <= r'
      <4>1. i \in Nat /\ l <= i /\ i <= r
        BY <1>0, <1>2, <3>2 DEF Narrow, SearchInv
      <4>2. IF AtOrBefore(programs[Mid]) THEN Mid <= i ELSE i < Mid
        BY <2>1, <3>2, OwnerSide DEF TypeOK
      <4>. QED
        BY <1>0, <1>2, <2>0, <4>1, <4>2 DEF Narrow
    <3>. QED
      BY <1>2, <3>1, <3>2 DEF Narrow, SearchInv, Owns, ContainsInsn
  <2>4. LookupCorrect'
    BY <1>2 DEF Narrow, LookupCorrect
  <2>5. RoundsBounded'
    BY <1>0, <1>2, <2>0 DEF Narrow, RoundsBounded, TypeOK
  <2>. QED
    BY <2>2, <2>3, <2>4, <2>5
<1>3. CASE Return
  <2>1. l = r
    BY <1>0, <1>3 DEF Return, SearchInv
  <2>2. TypeOK'
    BY <1>3 DEF Return, TypeOK
  <2>3. SearchInv'
    BY <1>3 DEF Return, SearchInv
  <2>4. LookupCorrect'
    <3>1. ASSUME NEW i \in DOMAIN programs, Owns(programs[i], sec_idx, insn_idx)
          PROVE  i = l
      BY <1>0, <1>3, <2>1, <3>1 DEF Return, SearchInv
    <3>2. OwnerOf(programs, sec_idx, insn_idx)
             = IF Owns(programs[l], sec_idx, insn_idx) THEN l ELSE NULL
      BY <1>0, <3>1 DEF OwnerOf, TypeOK
    <3>. QED
      BY <1>3, <3>2 DEF Return, LookupCorrect
  <2>5. RoundsBounded'
    BY <1>3 DEF Return, RoundsBounded
  <2>. QED
    BY <2>2, <2>3, <2>4, <2>5
<1>4. CASE UNCHANGED vars
  BY <1>4 DEF vars, TypeOK, SearchInv, RoundsBounded, LookupCorrect, Owns, ContainsInsn
<1>. QED
  BY <1>1, <1>2, <1>3, <1>4 DEF Next

(***************************************************************************)
(* find_prog_by_sec_insn() returns the owner of the instruction and NULL   *)
(* only when there is none, for every well-formed table and every key.     *)
(***************************************************************************)
THEOREM LookupIsCorrect == Spec => []LookupCorrect
<1>1. Spec => []IInv
  BY InitIInv, StepIInv, PTL DEF Spec
<1>. QED
  BY <1>1, PTL DEF IInv

(***************************************************************************)
(* Every round of the loop shrinks the interval, so a lookup among n       *)
(* programs makes at most n - 1 rounds.                                    *)
(***************************************************************************)
THEOREM LookupEnds == Spec => []RoundsBounded
<1>1. Spec => []IInv
  BY InitIInv, StepIInv, PTL DEF Spec
<1>. QED
  BY <1>1, PTL DEF IInv
=============================================================================
