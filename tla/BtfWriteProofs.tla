--------------------------- MODULE BtfWriteProofs ---------------------------
(***************************************************************************)
(* Proofs about building a BTF up and serialising it, as long as           *)
(* btf__dedup() has not been called.                                       *)
(***************************************************************************)
EXTENDS BtfWrite, WellFoundedInduction, TLAPS

WriteSpec == WriteInit /\ [][WriteNext]_wvars

Fields(b) ==
    /\ DOMAIN b = {"types", "strs", "deduped", "modifiable", "swapped", "raw", "rawSwapped"}
    /\ b.strs \in Seq(Range(b.strs)) /\ b.swapped \in BOOLEAN

\* RawDataCurrent and DedupedStringsDistinct, of any struct btf
RawOk(b) == \A data \in {b.raw, b.rawSwapped} : data # NoData => data = <<b.types, b.strs>>
StrsOk(b) == b.deduped => IsInjective(b.strs) /\ Range(b.strs) \cap Range(Base.strs) = {}

WriteInv == Base.strs \in Seq(STRING) /\ Fields(btf) /\ RawOk(btf) /\ StrsOk(btf)

-----------------------------------------------------------------------------
LEMMA NatOrder ==
    \E R : IsWellFoundedOn(R, Nat) /\ \A x, y \in Nat : <<y, x>> \in R <=> y < x
<1>1. \A x, y \in Nat : <<y, x>> \in OpToRel(<, Nat) <=> y < x
  BY DEF OpToRel
<1>. QED  BY <1>1, NatLessThanWellFounded

LEMMA MinOfNats ==
    ASSUME NEW T, T \subseteq Nat, T # {}
    PROVE  Min(T) \in T
<1>1. PICK R : IsWellFoundedOn(R, Nat) /\ \A x, y \in Nat : <<y, x>> \in R <=> y < x
  BY NatOrder
<1>2. PICK x \in T : \A y \in T : ~(<<y, x>> \in R)
  BY <1>1, WFMin
<1>3. ASSUME NEW y \in T PROVE x <= y
  <2>1. x \in Nat /\ y \in Nat /\ <<y, x>> \notin R
    BY <1>2
  <2>2. ~(y < x)
    BY <1>1, <2>1
  <2>. QED  BY <2>1, <2>2
<1>. QED  BY <1>3 DEF Min

\* The search of FindStr finds the string if it is there.
IndexOf(ss, s) == SelectInSeq(ss, LAMBDA x : x = s)

LEMMA SearchFinds ==
    ASSUME NEW ss, Len(ss) \in Nat, DOMAIN ss = 1 .. Len(ss), NEW s
    PROVE  IndexOf(ss, s) \in Nat /\ (IndexOf(ss, s) = 0 => s \notin Range(ss))
<1>. DEFINE I == {k \in 1 .. Len(ss) : ss[k] = s}
<1>1. IndexOf(ss, s) = IF I # {} THEN Min(I) ELSE 0
  BY DEF IndexOf, SelectInSeq
<1>2. I \subseteq Nat /\ 0 \notin I
  OBVIOUS
<1>3. I = {} => s \notin Range(ss)
  BY DEF Range
<1>. HIDE DEF I
<1>4. I # {} => Min(I) \in I
  BY <1>2, MinOfNats
<1>5. CASE I = {}
  BY <1>1, <1>3, <1>5
<1>6. CASE I # {}
  <2>1. IndexOf(ss, s) = Min(I)
    BY <1>1, <1>6
  <2>2. Min(I) \in Nat /\ Min(I) # 0
    BY <1>2, <1>4, <1>6
  <2>. QED  BY <2>1, <2>2
<1>. QED  BY <1>5, <1>6

LEMMA ModifiableEffect ==
    ASSUME NEW b, Fields(b)
    PROVE  /\ Fields(EnsureModifiable(b))
           /\ EnsureModifiable(b).types = b.types /\ EnsureModifiable(b).strs = b.strs
           /\ EnsureModifiable(b).raw = NoData /\ EnsureModifiable(b).rawSwapped = NoData
           /\ EnsureModifiable(b).deduped => b.deduped \/ b.strs = <<>>
  BY DEF Fields, EnsureModifiable

LEMMA ModifiableOk ==
    ASSUME NEW b, Fields(b), StrsOk(b)
    PROVE  StrsOk(EnsureModifiable(b))
<1>1. CASE b.strs = <<>>
  BY <1>1, ModifiableEffect DEF StrsOk, IsInjective, Range
<1>2. CASE b.strs # <<>>
  BY <1>2, ModifiableEffect DEF StrsOk
<1>. QED  BY <1>1, <1>2

LEMMA AddStrEffect ==
    ASSUME NEW b, Fields(b), StrsOk(b), Base.strs \in Seq(STRING), NEW s
    PROVE  /\ Fields(AddStr(b, s)) /\ StrsOk(AddStr(b, s))
           /\ AddStr(b, s).raw = b.raw /\ AddStr(b, s).rawSwapped = b.rawSwapped
<1>. DEFINE a == AddStr(b, s)
            own == b.strs
            t == Append(own, s)
<1>1. CASE s = "" \/ FindStr(b, s) # 0
  BY <1>1 DEF AddStr
<1>2. CASE s # "" /\ FindStr(b, s) = 0
  <2>1. /\ own \in Seq(Range(own)) /\ Len(own) \in Nat /\ DOMAIN own = 1 .. Len(own)
        /\ Len(Base.strs) \in Nat /\ DOMAIN Base.strs = 1 .. Len(Base.strs)
    <3>1. own \in Seq(Range(own))
      BY DEF Fields
    <3>. HIDE DEF own
    <3>. QED  BY <3>1
  <2>2. a.strs = t /\ a.raw = b.raw /\ a.rawSwapped = b.rawSwapped /\ a.deduped = b.deduped
        /\ a.swapped = b.swapped /\ DOMAIN a = DOMAIN b
    BY <1>2 DEF AddStr, Fields
  <2>3. s \notin Range(own) /\ s \notin Range(Base.strs)
    <3>1. FindStr(b, s) = IF IndexOf(Base.strs, s) # 0 THEN IndexOf(Base.strs, s)
                          ELSE IF IndexOf(own, s) # 0 THEN Len(Base.strs) + IndexOf(own, s) ELSE 0
      BY DEF FindStr, IndexOf
    <3>2. /\ IndexOf(own, s) \in Nat /\ (IndexOf(own, s) = 0 => s \notin Range(own))
          /\ IndexOf(Base.strs, s) \in Nat /\ (IndexOf(Base.strs, s) = 0 => s \notin Range(Base.strs))
      <4>. HIDE DEF own
      <4>. QED  BY <2>1, SearchFinds
    <3>3. FindStr(b, s) = 0
      BY <1>2
    <3>. HIDE DEF own
    <3>. QED  BY <2>1, <3>1, <3>2, <3>3
  <2>4. /\ Len(t) = Len(own) + 1 /\ DOMAIN t = 1 .. Len(own) + 1 /\ t[Len(own) + 1] = s
        /\ \A n \in 1 .. Len(own) : t[n] = own[n]
    <3>1. own \in Seq(Range(own) \cup {s})
      <4>1. \A n \in 1 .. Len(own) : own[n] \in Range(own)
        BY <2>1 DEF Range
      <4>. HIDE DEF own
      <4>. QED  BY <2>1, <4>1
    <3>. HIDE DEF own
    <3>. QED  BY <3>1
  <2>. HIDE DEF t, own, a
  <2>5. Range(t) = Range(own) \cup {s}
    <3>1. ASSUME NEW x \in Range(t) PROVE x \in Range(own) \cup {s}
      BY <2>1, <2>4, <3>1 DEF Range
    <3>2. s \in Range(t)
      BY <2>1, <2>4 DEF Range
    <3>3. ASSUME NEW x \in Range(own) PROVE x \in Range(t)
      BY <2>1, <2>4, <3>3 DEF Range
    <3>. QED  BY <3>1, <3>2, <3>3
  <2>6. t \in Seq(Range(t))
    <3>1. \A n \in 1 .. Len(t) : t[n] \in Range(t)
      BY <2>1, <2>4 DEF Range
    <3>2. Len(t) \in Nat /\ DOMAIN t = 1 .. Len(t)
      BY <2>1, <2>4
    <3>. QED  BY <2>1, <2>4, <2>5, <3>1, <3>2 DEF t
  <2>7. ASSUME IsInjective(own) PROVE IsInjective(t)
    <3>1. \A n \in 1 .. Len(own) : own[n] # s
      BY <2>1, <2>3 DEF Range
    <3>. QED  BY <2>1, <2>4, <2>7, <3>1 DEF IsInjective
  <2>8. Fields(a)
    BY <2>2, <2>6 DEF Fields
  <2>9. StrsOk(a)
    <3>1. StrsOk(b) <=> (b.deduped => IsInjective(own) /\ Range(own) \cap Range(Base.strs) = {})
      BY DEF StrsOk, own
    <3>2. StrsOk(a) <=> (a.deduped => IsInjective(t) /\ Range(t) \cap Range(Base.strs) = {})
      BY <2>2 DEF StrsOk
    <3>. QED  BY <2>2, <2>3, <2>5, <2>7, <3>1, <3>2
  <2>. QED  BY <2>2, <2>8, <2>9 DEF a
<1>. QED  BY <1>1, <1>2

\* A call of btf__add_*() up to the moment when it extends the types.
LEMMA AddedStr ==
    ASSUME WriteInv, NEW s
    PROVE  LET b == AddStr(EnsureModifiable(btf), s)
           IN  Fields(b) /\ StrsOk(b) /\ b.raw = NoData /\ b.rawSwapped = NoData
<1>1. /\ Fields(EnsureModifiable(btf)) /\ StrsOk(EnsureModifiable(btf))
      /\ EnsureModifiable(btf).raw = NoData /\ EnsureModifiable(btf).rawSwapped = NoData
  BY ModifiableEffect, ModifiableOk DEF WriteInv
<1>. QED  BY <1>1, AddStrEffect DEF WriteInv

-----------------------------------------------------------------------------
LEMMA InitWrite == WriteInit => WriteInv
<1>. SUFFICES ASSUME WriteInit PROVE WriteInv
  OBVIOUS
<1>1. Base.strs \in Seq(STRING) /\ input.parsed.strs \in Seq(STRING)
  BY InputsAssumption DEF WriteInit, Base
<1>2. input.parsed.strs \in Seq(Range(input.parsed.strs))
  BY <1>1 DEF Range
<1>3. /\ Fields(btf) /\ ~btf.deduped /\ btf.rawSwapped = NoData
      /\ btf.raw = <<btf.types, btf.strs>>
  BY <1>2 DEF WriteInit, Fields
<1>. QED  BY <1>1, <1>3 DEF WriteInv, RawOk, StrsOk

LEMMA NextWrite ==
    ASSUME WriteInv, [WriteNext]_wvars
    PROVE  WriteInv'
<1>1. input' = input /\ Base' = Base
  BY DEF WriteNext, AddType, AddMember, AddFails, GetRaw, Load, GetRawData, SetEndianness, wvars, Base
<1>2. Fields(btf) /\ RawOk(btf) /\ StrsOk(btf)
  BY DEF WriteInv
<1>3. SUFFICES Fields(btf') /\ RawOk(btf') /\ StrsOk(btf')
  BY <1>1 DEF WriteInv, Fields, RawOk, StrsOk, NoData
<1>4. CASE AddType
  <2>1. PICK s, types : btf' = [AddStr(EnsureModifiable(btf), s) EXCEPT !.types = types]
    BY <1>4 DEF AddType
  <2>. DEFINE b == AddStr(EnsureModifiable(btf), s)
  <2>2. Fields(b) /\ StrsOk(b) /\ b.raw = NoData /\ b.rawSwapped = NoData
    BY AddedStr
  <2>. HIDE DEF b
  <2>3. btf' = [b EXCEPT !.types = types]
    BY <2>1 DEF b
  <2>. QED  BY <2>2, <2>3 DEF Fields, RawOk, StrsOk
<1>5. CASE AddMember
  <2>1. PICK s, n, refs : btf' = [AddStr(EnsureModifiable(btf), s) EXCEPT !.types[n].refs = refs]
    BY <1>5 DEF AddMember
  <2>. DEFINE b == AddStr(EnsureModifiable(btf), s)
  <2>2. Fields(b) /\ StrsOk(b) /\ b.raw = NoData /\ b.rawSwapped = NoData
    BY AddedStr
  <2>. HIDE DEF b
  <2>3. btf' = [b EXCEPT !.types[n].refs = refs]
    BY <2>1 DEF b
  <2>4. /\ btf'.raw = b.raw /\ btf'.rawSwapped = b.rawSwapped /\ btf'.strs = b.strs
        /\ btf'.deduped = b.deduped /\ btf'.swapped = b.swapped /\ DOMAIN btf' = DOMAIN b
    BY <2>2, <2>3 DEF Fields
  <2>. QED  BY <2>2, <2>4 DEF Fields, RawOk, StrsOk
<1>6. CASE AddFails
  <2>1. PICK s : \/ btf' = btf \/ btf' = EnsureModifiable(btf)
                 \/ btf' = AddStr(EnsureModifiable(btf), s)
    BY <1>6 DEF AddFails
  <2>2. CASE btf' = btf
    BY <1>2, <2>2
  <2>3. CASE btf' = EnsureModifiable(btf)
    BY <1>2, <2>3, ModifiableEffect, ModifiableOk DEF RawOk
  <2>4. CASE btf' = AddStr(EnsureModifiable(btf), s)
    BY <2>4, AddedStr DEF RawOk
  <2>. QED  BY <2>1, <2>2, <2>3, <2>4
<1>7. ASSUME NEW swap \in BOOLEAN, GetRawData(swap)
      PROVE  Fields(btf') /\ RawOk(btf') /\ StrsOk(btf')
  <2>1. CASE swap
    BY <1>2, <1>7, <2>1 DEF GetRawData, Fields, RawOk, StrsOk
  <2>2. CASE ~swap
    BY <1>2, <1>7, <2>2 DEF GetRawData, Fields, RawOk, StrsOk
  <2>. QED  BY <2>1, <2>2
<1>8. CASE GetRaw
  <2>1. CASE btf.swapped
    BY <1>2, <1>7, <1>8, <2>1 DEF GetRaw, Fields
  <2>2. CASE ~btf.swapped
    <3>1. btf.swapped = FALSE
      BY <1>2, <2>2 DEF Fields
    <3>. QED  BY <1>7, <1>8, <3>1 DEF GetRaw
  <2>. QED  BY <2>1, <2>2
<1>9. CASE Load
  BY <1>7, <1>9 DEF Load
<1>10. CASE SetEndianness
  BY <1>2, <1>10 DEF SetEndianness, Fields, RawOk, StrsOk
<1>11. CASE UNCHANGED wvars
  BY <1>2, <1>11 DEF wvars
<1>. QED  BY <1>4, <1>5, <1>6, <1>8, <1>9, <1>10, <1>11 DEF WriteNext

(***************************************************************************)
(* Whatever calls build a BTF up, fail, change its byte order or serialise *)
(* it, what btf__get_raw_data() would hand out from btf->raw_data or       *)
(* btf->raw_data_swapped is never older than the types and strings.        *)
(***************************************************************************)
THEOREM RawDataStaysCurrent == WriteSpec => []RawDataCurrent
<1>1. WriteInv => RawDataCurrent
  BY DEF WriteInv, RawOk, RawDataCurrent
<1>. QED  BY <1>1, InitWrite, NextWrite, PTL DEF WriteSpec

(***************************************************************************)
(* While strs_deduped is set on a BTF that is being built up, no string is *)
(* in it twice or in its base too, so that btf__dedup() may leave them be. *)
(***************************************************************************)
THEOREM DedupedStringsStayDistinct == WriteSpec => []DedupedStringsDistinct
<1>1. WriteInv => DedupedStringsDistinct
  BY DEF WriteInv, StrsOk, DedupedStringsDistinct
<1>. QED  BY <1>1, InitWrite, NextWrite, PTL DEF WriteSpec

=============================================================================
