-------------------------- MODULE ClearRelocProofs --------------------------
(***************************************************************************)
(* The pass of clear_reloc_insns() over an instruction file of any length: *)
(* it clears the map references and nothing else.                          *)
(***************************************************************************)
EXTENDS ClearReloc, TLAPS

(***************************************************************************)
(* What the two indexes remember, relative to the loop counter: they are   *)
(* those of an lddw met earlier, which loads a map once its register byte  *)
(* has been passed, and any lddw that covers the counter is the one        *)
(* remembered unless it was found not to load a map.                       *)
(***************************************************************************)
Remembers(s) ==
    src_clear_idx = 8 * s + 1 /\ insn_clear_idxs = <<8 * s + 4, 8 * s + 16>>

IndexInv ==
    /\ \A s \in Slots(new_insns) : Remembers(s) =>
         /\ 8 * s < i /\ Op(new_insns, s) = LDDW_OPCODE
         /\ i > 8 * s + 1 => LoadsMap(new_insns, s)
    /\ \A s \in Slots(new_insns) :
         8 * s < i /\ i < 8 * s + 16 /\ Op(new_insns, s) = LDDW_OPCODE
           => Remembers(s) \/ (i > 8 * s + 1 /\ ~LoadsMap(new_insns, s))

IInv == ClearTypeOK /\ IndexInv /\ ClearExact

LEMMA DivMod8 ==
    ASSUME NEW n \in Nat
    PROVE  /\ n \div 8 \in Nat /\ n % 8 \in 0 .. 7
           /\ n = 8 * (n \div 8) + (n % 8)
OBVIOUS

LEMMA Mod16 == ASSUME NEW n \in Byte PROVE n % 16 \in Byte
<1>1. n \in Int /\ 0 <= n /\ n <= 255
  BY DEF Byte
<1>2. n % 16 \in 0 .. 15
  BY <1>1
<1> QED BY <1>2 DEF Byte

LEMMA SlotUnique ==
    ASSUME NEW s \in Nat, NEW t \in Nat, NEW b \in 0 .. 7, NEW c \in 0 .. 7,
           8 * s + b = 8 * t + c
    PROVE  s = t /\ b = c
OBVIOUS

LEMMA CodeFacts ==
    ASSUME NEW a \in InsnFiles
    PROVE  /\ a \in Seq(Byte) /\ Len(a) \in Nat /\ Len(a) % 8 = 0
           /\ Len(a) = 8 * (Len(a) \div 8) /\ Len(a) \div 8 \in Nat
           /\ \A s \in Slots(a) : Op(a, s) = LDDW_OPCODE =>
                s + 1 \in Slots(a) /\ Op(a, s + 1) = 0
<1>1. a \in Seq(Byte) /\ IsCode(a)
  BY InsnFilesAssumption
<1>2. Len(a) \in Nat
  BY <1>1
<1>3. Len(a) % 8 = 0
  BY <1>1 DEF IsCode
<1>4. Len(a) = 8 * (Len(a) \div 8) /\ Len(a) \div 8 \in Nat
  BY <1>2, <1>3, DivMod8
<1> QED BY <1>1, <1>2, <1>3, <1>4 DEF IsCode

LEMMA InitIInv == ClearInit => IInv
<1> SUFFICES ASSUME ClearInit PROVE IInv
  OBVIOUS
<1>1. new_insns \in InsnFiles
  BY DEF ClearInit
<1>2. ClearTypeOK
  BY <1>1, CodeFacts DEF ClearInit, ClearTypeOK
<1>3. IndexInv
  BY <1>1, CodeFacts DEF ClearInit, IndexInv, Remembers, Slots
<1>4. ClearExact
  BY <1>1, CodeFacts DEF ClearInit, ClearExact, Slots
<1> QED BY <1>2, <1>3, <1>4 DEF IInv

(***************************************************************************)
(* No two consecutive slots are the first of an lddw.                      *)
(***************************************************************************)
LEMMA NoOverlap ==
    ASSUME NEW a \in InsnFiles, NEW s \in Slots(a), Op(a, s) = LDDW_OPCODE
    PROVE  ~LoadsMap(a, s + 1) /\ ~LoadsMap(a, s - 1) /\ Op(a, s + 1) = 0
<1>1. Op(a, s + 1) = 0
  BY CodeFacts
<1>2. ASSUME LoadsMap(a, s - 1) PROVE FALSE
  <2>1. s - 1 \in Slots(a) /\ Op(a, s - 1) = LDDW_OPCODE
    BY <1>2 DEF LoadsMap
  <2>2. Op(a, (s - 1) + 1) = 0
    BY <2>1, CodeFacts
  <2>3. (s - 1) + 1 = s
    BY DEF Slots
  <2> QED BY <2>2, <2>3 DEF LDDW_OPCODE
<1> QED BY <1>1, <1>2 DEF LoadsMap, LDDW_OPCODE

(***************************************************************************)
(* The slot and the byte of the slot the loop counter is at.               *)
(***************************************************************************)
CurSlot == i \div 8
CurByte == i % 8

LEMMA CurFacts ==
    ASSUME IInv, More
    PROVE  /\ new_insns \in InsnFiles /\ i \in Nat /\ i < Len(new_insns)
           /\ CurSlot \in Slots(new_insns) /\ CurSlot \in Nat
           /\ CurByte \in 0 .. 7 /\ i = 8 * CurSlot + CurByte
           /\ byte_array \in Seq(Byte) /\ Len(byte_array) = Len(new_insns)
           /\ byte_array[i + 1] = new_insns[i + 1]
           /\ new_insns[i + 1] \in Byte
<1>1. /\ new_insns \in InsnFiles /\ byte_array \in Seq(Byte)
      /\ Len(byte_array) = Len(new_insns) /\ i \in Int /\ i >= 0
  BY CodeFacts DEF IInv, ClearTypeOK
<1>2. i < Len(new_insns) /\ i \in Nat
  BY <1>1 DEF More
<1>3. CurSlot \in Nat /\ CurByte \in 0 .. 7 /\ i = 8 * CurSlot + CurByte
  BY <1>2, DivMod8 DEF CurSlot, CurByte
<1>4. CurSlot \in Slots(new_insns)
  BY <1>1, <1>2, <1>3, CodeFacts DEF Slots
<1>5. byte_array[8 * CurSlot + CurByte + 1] = new_insns[8 * CurSlot + CurByte + 1]
  <2>1. ~(8 * CurSlot + CurByte < i)
    BY <1>2, <1>3
  <2>2. ClearExact
    BY DEF IInv
  <2>3. \A s \in Slots(new_insns), b \in 0 .. 7 : ~(8 * s + b < i) =>
          byte_array[8 * s + b + 1] = new_insns[8 * s + b + 1]
    BY <2>2 DEF ClearExact
  <2> QED BY <2>1, <2>3, <1>3, <1>4
<1>6. new_insns[i + 1] \in Byte
  BY <1>1, <1>2, CodeFacts
<1> QED BY <1>1, <1>2, <1>3, <1>4, <1>5, <1>6

(***************************************************************************)
(* A step that leaves at the counter what ClearedByte wants there.         *)
(***************************************************************************)
LEMMA ExactStep ==
    /\ IInv /\ More /\ i' = i + 1 /\ new_insns' = new_insns
    /\ byte_array'[i + 1] = ClearedByte(new_insns, CurSlot, CurByte)
    /\ \A p \in 1 .. Len(new_insns) : p # i + 1 => byte_array'[p] = byte_array[p]
    => ClearExact'
<1>a. SUFFICES ASSUME IInv, More, i' = i + 1, new_insns' = new_insns,
                      byte_array'[i + 1] = ClearedByte(new_insns, CurSlot, CurByte),
                      \A p \in 1 .. Len(new_insns) :
                        p # i + 1 => byte_array'[p] = byte_array[p]
               PROVE  ClearExact'
  OBVIOUS
<1>b. SUFFICES ASSUME NEW s \in Slots(new_insns), NEW b \in 0 .. 7
               PROVE  byte_array'[8 * s + b + 1] =
                        IF 8 * s + b < i + 1 THEN ClearedByte(new_insns, s, b)
                                             ELSE new_insns[8 * s + b + 1]
  BY <1>a, ZenonT(80) DEF ClearExact, ClearedByte, LoadsMap
<1>1. s \in Nat /\ i \in Nat /\ b \in Nat
  BY <1>a, CurFacts DEF Slots
<1>2. 8 * s + b + 1 \in 1 .. Len(new_insns)
  BY <1>a, <1>1, CurFacts, CodeFacts DEF Slots
<1>3. byte_array[8 * s + b + 1] = IF 8 * s + b < i THEN ClearedByte(new_insns, s, b)
                                                  ELSE new_insns[8 * s + b + 1]
  BY <1>a DEF IInv, ClearExact
<1>4. CASE 8 * s + b = i
  <2>1. /\ CurSlot \in Nat /\ CurByte \in 0 .. 7
        /\ 8 * s + b = 8 * CurSlot + CurByte
    BY <1>4, <1>a, CurFacts
  <2>2. s = CurSlot /\ b = CurByte
    BY <2>1, <1>1, SlotUnique
  <2>3. 8 * s + b < i + 1
    BY <1>1, <1>4
  <2>4. byte_array'[8 * s + b + 1] = ClearedByte(new_insns, s, b)
    BY <1>4, <2>2, <1>a
  <2> QED BY <2>3, <2>4
<1>5. CASE 8 * s + b # i
  <2>1. 8 * s + b + 1 # i + 1
    BY <1>1, <1>5
  <2>2. byte_array'[8 * s + b + 1] = byte_array[8 * s + b + 1]
    BY <2>1, <1>2, <1>a
  <2>3. 8 * s + b < i + 1 <=> 8 * s + b < i
    BY <1>1, <1>5
  <2> QED BY <2>2, <2>3, <1>3
<1> QED BY <1>4, <1>5

(***************************************************************************)
(* What the indexes say at the counter.                                    *)
(***************************************************************************)
LEMMA Remembered ==
    ASSUME IInv, src_clear_idx # -1
    PROVE  \E s \in Slots(new_insns) :
             /\ s \in Nat /\ Remembers(s) /\ 8 * s < i
             /\ Op(new_insns, s) = LDDW_OPCODE
             /\ i > 8 * s + 1 => LoadsMap(new_insns, s)
<1>1. PICK s \in Slots(new_insns) : Remembers(s)
  BY DEF IInv, ClearTypeOK, Remembers
<1>2. s \in Nat
  BY DEF Slots
<1> QED BY <1>1, <1>2 DEF IInv, IndexInv

(***************************************************************************)
(* A byte that is scanned stays: no map reference covers it.               *)
(***************************************************************************)
LEMMA ScannedStays ==
    ASSUME IInv, More, i # src_clear_idx, ~InClearRange
    PROVE  ClearedByte(new_insns, CurSlot, CurByte) = new_insns[i + 1]
<1> DEFINE s == CurSlot
<1>1. /\ s \in Nat /\ i \in Nat /\ CurByte \in 0 .. 7 /\ i = 8 * s + CurByte
      /\ s \in Slots(new_insns)
  BY CurFacts
<1>2. \A t \in Slots(new_insns) :
        8 * t < i /\ i < 8 * t + 16 /\ LoadsMap(new_insns, t) => Remembers(t)
  BY DEF IInv, IndexInv, LoadsMap
<1>3. ~(LoadsMap(new_insns, s) /\ CurByte = 1)
  BY <1>1, <1>2 DEF Remembers
<1>4. ~(LoadsMap(new_insns, s) /\ CurByte >= 4)
  <2> SUFFICES ASSUME LoadsMap(new_insns, s), CurByte >= 4 PROVE FALSE
    OBVIOUS
  <2>1. Remembers(s)
    BY <1>1, <1>2
  <2> QED BY <2>1, <1>1 DEF Remembers, InClearRange
<1>5. ~LoadsMap(new_insns, s - 1)
  <2> SUFFICES ASSUME LoadsMap(new_insns, s - 1) PROVE FALSE
    OBVIOUS
  <2>1. s - 1 \in Slots(new_insns) /\ s - 1 \in Nat
    BY DEF LoadsMap, Slots
  <2>2. 8 * (s - 1) < i /\ i < 8 * (s - 1) + 16
    BY <1>1
  <2>3. Remembers(s - 1)
    BY <1>2, <2>1, <2>2
  <2> QED BY <2>3, <1>1 DEF Remembers, InClearRange
<1> QED BY <1>1, <1>3, <1>4, <1>5 DEF ClearedByte

LEMMA StepIInv == IInv /\ [ClearNext]_cvars => IInv'
<1>a. SUFFICES ASSUME IInv, [ClearNext]_cvars PROVE IInv'
  OBVIOUS
<1>b. new_insns \in InsnFiles /\ ClearTypeOK /\ IndexInv /\ ClearExact
  BY <1>a DEF IInv, ClearTypeOK
<1>1. CASE UNCHANGED cvars
  BY <1>b, <1>1 DEF cvars, IInv, ClearTypeOK, IndexInv, ClearExact, Remembers
<1>2. CASE ForgetLddw
  <2>0. More /\ i' = i + 1 /\ new_insns' = new_insns /\ byte_array' = byte_array
        /\ i = src_clear_idx /\ src_clear_idx' = -1 /\ insn_clear_idxs' = <<-1, -1>>
        /\ SrcReg(byte_array[i + 1]) # PSEUDO_MAP_FD
    BY <1>2 DEF ForgetLddw
  <2>1. i \in Nat /\ i < Len(new_insns) /\ byte_array[i + 1] = new_insns[i + 1]
    BY <1>a, <2>0, CurFacts
  <2>2. PICK s \in Slots(new_insns) :
          s \in Nat /\ Remembers(s) /\ Op(new_insns, s) = LDDW_OPCODE
    BY <1>a, <2>0, <2>1, Remembered
  <2>3. i = 8 * s + 1 /\ ~LoadsMap(new_insns, s)
    BY <2>0, <2>1, <2>2 DEF Remembers, LoadsMap
  <2>4. ClearTypeOK'
    BY <1>b, <2>0, <2>1, CodeFacts DEF ClearTypeOK
  <2>5. IndexInv'
    <3>1. \A t \in Slots(new_insns) : ~Remembers(t)'
      BY <2>0 DEF Remembers, Slots
    <3>2. ASSUME NEW t \in Slots(new_insns), 8 * t < i + 1, i + 1 < 8 * t + 16,
                 Op(new_insns, t) = LDDW_OPCODE
          PROVE  i + 1 > 8 * t + 1 /\ ~LoadsMap(new_insns, t)
      <4>1. t \in Nat
        BY DEF Slots
      <4>2. 8 * t < i
        BY <3>2, <2>1, <2>3, <2>2, <4>1
      <4>3. Remembers(t) \/ ~LoadsMap(new_insns, t)
        BY <1>b, <3>2, <4>2, <4>1, <2>1 DEF IndexInv
      <4>4. Remembers(t) => t = s
        BY <2>2, <4>1 DEF Remembers
      <4> QED BY <4>1, <4>2, <4>3, <4>4, <2>1, <2>3
    <3> QED BY <3>1, <3>2, <2>0 DEF IndexInv, LoadsMap
  <2>6. ClearedByte(new_insns, CurSlot, CurByte) = new_insns[i + 1]
    <3>1. CurSlot = s /\ CurByte = 1
      BY <1>a, <2>0, <2>2, <2>3, CurFacts, SlotUnique, SMTT(40)
    <3>2. ~LoadsMap(new_insns, s - 1)
      BY <1>b, <2>2, NoOverlap
    <3> QED BY <3>1, <3>2, <2>2, <2>3 DEF ClearedByte
  <2>7. ClearExact'
    BY <1>a, <2>0, <2>1, <2>6, ExactStep
  <2> QED BY <2>4, <2>5, <2>7 DEF IInv
<1>3. CASE ClearSrc
  <2>0. More /\ i' = i + 1 /\ new_insns' = new_insns
        /\ byte_array' = [byte_array EXCEPT ![i + 1] = byte_array[i + 1] % 16]
        /\ i = src_clear_idx /\ SrcReg(byte_array[i + 1]) = PSEUDO_MAP_FD
        /\ UNCHANGED <<src_clear_idx, insn_clear_idxs>>
    BY <1>3 DEF ClearSrc, HideSrc
  <2>1. i \in Nat /\ i < Len(new_insns) /\ byte_array[i + 1] = new_insns[i + 1]
        /\ new_insns[i + 1] \in Byte /\ byte_array \in Seq(Byte)
        /\ Len(byte_array) = Len(new_insns)
    BY <1>a, <2>0, CurFacts
  <2>2. PICK s \in Slots(new_insns) :
          s \in Nat /\ Remembers(s) /\ Op(new_insns, s) = LDDW_OPCODE
    BY <1>a, <2>0, <2>1, Remembered
  <2>3. i = 8 * s + 1 /\ LoadsMap(new_insns, s)
    BY <2>0, <2>1, <2>2 DEF Remembers, LoadsMap
  <2>4. ClearTypeOK'
    <3>1. new_insns[i + 1] % 16 \in Byte
      BY <2>1, Mod16
    <3>2. byte_array' \in Seq(Byte) /\ Len(byte_array') = Len(new_insns)
      BY <3>1, <2>0, <2>1
    <3> QED BY <1>b, <2>0, <2>1, <3>2, CodeFacts DEF ClearTypeOK
  <2>5. IndexInv'
    <3>1. ASSUME NEW t \in Slots(new_insns), Remembers(t)
          PROVE  t = s
      BY <2>2, <3>1 DEF Remembers, Slots
    <3>2. ASSUME NEW t \in Slots(new_insns), 8 * t < i + 1, i + 1 < 8 * t + 16,
                 Op(new_insns, t) = LDDW_OPCODE
          PROVE  Remembers(t) \/ (i + 1 > 8 * t + 1 /\ ~LoadsMap(new_insns, t))
      <4>1. t \in Nat
        BY DEF Slots
      <4>2. 8 * t < i
        BY <3>2, <2>1, <2>3, <2>2, <4>1
      <4>3. Remembers(t) \/ (i > 8 * t + 1 /\ ~LoadsMap(new_insns, t))
        BY <1>b, <3>2, <4>2, <4>1, <2>1 DEF IndexInv
      <4> QED BY <4>1, <4>2, <4>3, <2>1
    <3>3. \A t \in Slots(new_insns) : Remembers(t)' <=> Remembers(t)
      BY <2>0 DEF Remembers
    <3>4. 8 * s < i + 1
      BY <2>1, <2>2, <2>3
    <3> QED BY <3>1, <3>2, <3>3, <3>4, <2>0, <2>2, <2>3 DEF IndexInv, LoadsMap
  <2>6. byte_array'[i + 1] = ClearedByte(new_insns, CurSlot, CurByte)
    <3>1. CurSlot = s /\ CurByte = 1
      BY <1>a, <2>0, <2>2, <2>3, CurFacts, SlotUnique, SMTT(40)
    <3>2. byte_array'[i + 1] = new_insns[8 * s + 2] % 16
      BY <2>0, <2>1, <2>2, <2>3
    <3> QED BY <3>1, <3>2, <2>3 DEF ClearedByte
  <2>7. ClearExact'
    <3>1. \A p \in 1 .. Len(new_insns) : p # i + 1 => byte_array'[p] = byte_array[p]
      BY <2>0, <2>1
    <3> QED BY <1>a, <2>0, <2>6, <3>1, ExactStep
  <2> QED BY <2>4, <2>5, <2>7 DEF IInv
<1>4. CASE ClearByte
  <2>0. More /\ i' = i + 1 /\ new_insns' = new_insns
        /\ byte_array' = [byte_array EXCEPT ![i + 1] = 0]
        /\ i # src_clear_idx /\ InClearRange
        /\ UNCHANGED <<src_clear_idx, insn_clear_idxs>>
    BY <1>4 DEF ClearByte
  <2>1. i \in Nat /\ i < Len(new_insns) /\ byte_array \in Seq(Byte)
        /\ Len(byte_array) = Len(new_insns) /\ CurSlot \in Nat /\ CurByte \in 0 .. 7
        /\ i = 8 * CurSlot + CurByte
    BY <1>a, <2>0, CurFacts
  <2>2. src_clear_idx # -1
    <3>1. insn_clear_idxs # <<-1, -1>>
      BY <2>0, <2>1 DEF InClearRange
    <3> QED BY <3>1, <1>b DEF ClearTypeOK, Slots
  <2>3. PICK s \in Slots(new_insns) :
          /\ s \in Nat /\ Remembers(s) /\ Op(new_insns, s) = LDDW_OPCODE
          /\ i > 8 * s + 1 => LoadsMap(new_insns, s)
    BY <1>a, <2>2, Remembered
  <2>4. 8 * s + 4 <= i /\ i < 8 * s + 16
    BY <2>0, <2>1, <2>3 DEF InClearRange, Remembers
  <2>5. LoadsMap(new_insns, s)
    BY <2>1, <2>3, <2>4
  <2>6. ClearTypeOK'
    <3>1. byte_array' \in Seq(Byte) /\ Len(byte_array') = Len(new_insns)
      BY <2>0, <2>1 DEF Byte
    <3> QED BY <1>b, <2>0, <2>1, <3>1, CodeFacts DEF ClearTypeOK
  <2>7. IndexInv'
    <3>1. ASSUME NEW t \in Slots(new_insns), Remembers(t)
          PROVE  t = s
      BY <2>3, <3>1 DEF Remembers, Slots
    <3>2. ASSUME NEW t \in Slots(new_insns), 8 * t < i + 1, i + 1 < 8 * t + 16,
                 Op(new_insns, t) = LDDW_OPCODE
          PROVE  Remembers(t) \/ (i + 1 > 8 * t + 1 /\ ~LoadsMap(new_insns, t))
      <4>1. t \in Nat
        BY DEF Slots
      <4>2. 8 * t # i
        <5>1. SUFFICES ASSUME 8 * t = i PROVE FALSE
          OBVIOUS
        <5>2. t = s + 1
          BY <5>1, <4>1, <2>1, <2>3, <2>4
        <5>3. Op(new_insns, s + 1) = 0
          BY <1>b, <2>3, NoOverlap
        <5> QED BY <5>2, <5>3, <3>2 DEF LDDW_OPCODE
      <4>3. 8 * t < i
        BY <3>2, <4>1, <4>2, <2>1
      <4>4. Remembers(t) \/ (i > 8 * t + 1 /\ ~LoadsMap(new_insns, t))
        BY <1>b, <3>2, <4>3, <4>1, <2>1 DEF IndexInv
      <4> QED BY <4>1, <4>4, <2>1
    <3>3. \A t \in Slots(new_insns) : Remembers(t)' <=> Remembers(t)
      BY <2>0 DEF Remembers
    <3>4. 8 * s < i + 1
      BY <2>1, <2>3, <2>4
    <3> QED BY <3>1, <3>2, <3>3, <3>4, <2>0, <2>3, <2>5 DEF IndexInv, LoadsMap
  <2>8. ClearedByte(new_insns, CurSlot, CurByte) = 0
    <3>1. CASE CurSlot = s
      <4>1. CurByte >= 4 /\ CurByte # 1
        BY <3>1, <2>1, <2>3, <2>4
      <4> QED BY <3>1, <4>1, <2>5 DEF ClearedByte
    <3>2. CASE CurSlot = s + 1
      <4>1. ~LoadsMap(new_insns, CurSlot)
        BY <3>2, <1>b, <2>3, NoOverlap
      <4>2. CurSlot - 1 = s
        BY <3>2, <2>3
      <4> QED BY <4>1, <4>2, <2>5 DEF ClearedByte
    <3> QED BY <3>1, <3>2, <2>1, <2>3, <2>4
  <2>9. ClearExact'
    <3>1. \A p \in 1 .. Len(new_insns) : p # i + 1 => byte_array'[p] = byte_array[p]
      BY <2>0, <2>1
    <3>2. byte_array'[i + 1] = 0
      BY <2>0, <2>1
    <3> QED BY <1>a, <2>0, <2>8, <3>1, <3>2, ExactStep
  <2> QED BY <2>6, <2>7, <2>9 DEF IInv
<1>5. CASE ScanByte
  <2> DEFINE found == i % 8 = 0 /\ byte_array[i + 1] = LDDW_OPCODE
  <2>0. More /\ i' = i + 1 /\ new_insns' = new_insns /\ byte_array' = byte_array
        /\ i # src_clear_idx /\ ~InClearRange
    BY <1>5 DEF ScanByte
  <2>1. i \in Nat /\ i < Len(new_insns) /\ byte_array[i + 1] = new_insns[i + 1]
        /\ CurSlot \in Nat /\ CurByte \in 0 .. 7 /\ i = 8 * CurSlot + CurByte
        /\ CurSlot \in Slots(new_insns)
    BY <1>a, <2>0, CurFacts
  <2>2. ClearExact'
    <3>1. ClearedByte(new_insns, CurSlot, CurByte) = new_insns[i + 1]
      BY <1>a, <2>0, ScannedStays
    <3> QED BY <1>a, <2>0, <2>1, <3>1, ExactStep
  <2>3. CASE found
    <3>0. src_clear_idx' = i + 1 /\ insn_clear_idxs' = <<i + 4, i + 16>>
      BY <1>5, <2>3 DEF ScanByte, ImmAndSecondSlot
    <3>1. i = 8 * CurSlot /\ Op(new_insns, CurSlot) = LDDW_OPCODE
      <4>1. CurByte = 0
        BY <2>3 DEF CurByte
      <4>2. i = 8 * CurSlot
        BY <4>1, <2>1
      <4> QED BY <4>2, <2>1, <2>3 DEF Op
    <3>2. ClearTypeOK'
      BY <3>0, <3>1, <2>0, <2>1, <1>b, CodeFacts DEF ClearTypeOK
    <3>3. ASSUME NEW t \in Slots(new_insns)
          PROVE  Remembers(t)' <=> t = CurSlot
      <4>1. t \in Nat
        BY DEF Slots
      <4> QED BY <4>1, <3>0, <3>1, <2>1 DEF Remembers
    <3>4. ASSUME NEW t \in Slots(new_insns), 8 * t < i + 1, i + 1 < 8 * t + 16,
                 Op(new_insns, t) = LDDW_OPCODE
          PROVE  t = CurSlot
      <4>1. t \in Nat
        BY DEF Slots
      <4>2. t = CurSlot \/ CurSlot = t + 1
        BY <4>1, <3>4, <3>1, <2>1
      <4>3. Op(new_insns, t + 1) = 0
        BY <1>b, <3>4, NoOverlap
      <4> QED BY <4>2, <4>3, <3>1 DEF LDDW_OPCODE
    <3>5. 8 * CurSlot < i + 1 /\ ~(i + 1 > 8 * CurSlot + 1)
      BY <3>1, <2>1
    <3>6. IndexInv'
      BY <3>1, <3>3, <3>4, <3>5, <2>0 DEF IndexInv, LoadsMap
    <3> QED BY <2>2, <3>2, <3>6 DEF IInv
  <2>4. CASE ~found
    <3>0. UNCHANGED <<src_clear_idx, insn_clear_idxs>>
      BY <1>5, <2>4 DEF ScanByte
    <3>1. ClearTypeOK'
      <4>1. i + 1 \in 0 .. Len(new_insns)
        BY <2>1, <1>b, CodeFacts
      <4> QED BY <4>1, <3>0, <2>0, <1>b DEF ClearTypeOK
    <3>2. \A t \in Slots(new_insns) : Remembers(t)' <=> Remembers(t)
      BY <3>0 DEF Remembers
    <3>3. ASSUME NEW t \in Slots(new_insns), Remembers(t)
          PROVE  8 * t < i + 1 /\ Op(new_insns, t) = LDDW_OPCODE /\ LoadsMap(new_insns, t)
      <4>1. t \in Nat
        BY DEF Slots
      <4>2. /\ 8 * t < i /\ Op(new_insns, t) = LDDW_OPCODE
            /\ i > 8 * t + 1 => LoadsMap(new_insns, t)
        BY <3>3, <1>b DEF IndexInv
      <4>3. i # 8 * t + 1
        BY <3>3, <2>0 DEF Remembers
      <4> QED BY <4>1, <4>2, <4>3, <2>1
    <3>4. ASSUME NEW t \in Slots(new_insns), 8 * t < i + 1, i + 1 < 8 * t + 16,
                 Op(new_insns, t) = LDDW_OPCODE
          PROVE  Remembers(t) \/ (i + 1 > 8 * t + 1 /\ ~LoadsMap(new_insns, t))
      <4>1. t \in Nat
        BY DEF Slots
      <4>2. 8 * t # i
        <5>1. SUFFICES ASSUME 8 * t = i PROVE FALSE
          OBVIOUS
        <5>2. i % 8 = 0
          BY <5>1, <4>1
        <5>3. new_insns[i + 1] = LDDW_OPCODE
          BY <5>1, <3>4 DEF Op
        <5> QED BY <5>2, <5>3, <2>1, <2>4
      <4>3. 8 * t < i
        BY <3>4, <4>1, <4>2, <2>1
      <4>4. Remembers(t) \/ (i > 8 * t + 1 /\ ~LoadsMap(new_insns, t))
        BY <1>b, <3>4, <4>3, <4>1, <2>1 DEF IndexInv
      <4> QED BY <4>1, <4>4, <2>1
    <3>5. IndexInv'
      BY <3>2, <3>3, <3>4, <2>0 DEF IndexInv, LoadsMap
    <3> QED BY <2>2, <3>1, <3>5 DEF IInv
  <2> QED BY <2>3, <2>4
<1> QED BY <1>a, <1>1, <1>2, <1>3, <1>4, <1>5 DEF ClearNext

(***************************************************************************)
(* Theorem: whatever the instruction file, the pass of clear_reloc_insns() *)
(* has cleared exactly the map references behind its loop counter and      *)
(* touched nothing ahead of it (ClearExact); the inductive invariant also  *)
(* gives the types of its state.                                           *)
(***************************************************************************)
THEOREM ClearsExactlyMapLoads == ClearSpec => [](ClearTypeOK /\ ClearExact)
<1>1. IInv => ClearTypeOK /\ ClearExact
  BY DEF IInv
<1> QED BY InitIInv, StepIInv, <1>1, PTL DEF ClearSpec

=============================================================================
