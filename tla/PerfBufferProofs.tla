-------------------------- MODULE PerfBufferProofs --------------------------
(***************************************************************************)
(* Perf buffers with rings of any size, any CPUs and any samples: the      *)
(* process never gives the kernel a part of a ring that it has not read;   *)
(* what it has not read is whole records; the ring implements PerfLog, and *)
(* lost_cb accounts for every gap; and a perf buffer that failed or was    *)
(* freed leaves nothing behind.                                            *)
(***************************************************************************)
EXTENDS PerfBuffer, FiniteSetTheorems, SequenceTheorems, TLAPS

(***************************************************************************)
(* Positions in a ring.                                                    *)
(***************************************************************************)
LEMMA DivMod ==
    ASSUME NEW a \in Nat, NEW S \in Nat \ {0}
    PROVE  /\ a % S \in 0 .. S - 1 /\ a \div S \in Nat
           /\ a = S * (a \div S) + (a % S)
<1>1. a % S \in 0 .. S - 1 
  OBVIOUS
<1>2. a \div S \in Nat
  OBVIOUS
<1>3. a = S * (a \div S) + (a % S)
  OBVIOUS
<1> QED BY <1>1, <1>2, <1>3

LEMMA NoMultipleBelow ==
    ASSUME NEW S \in Nat \ {0}, NEW d \in Int, S * d < S, S * d > 0 - S
    PROVE  d = 0
<1>1. CASE d >= 1
  <2>1. S * d >= S
   BY <1>1
  <2> QED BY <2>1
<1>2. CASE d <= -1
  <2>1. S * d <= 0 - S
   BY <1>2
  <2> QED BY <2>1
<1> QED BY <1>1, <1>2

LEMMA ModUnique ==
    ASSUME NEW S \in Nat \ {0}, NEW q \in Int, NEW r \in 0 .. S - 1, NEW a \in Nat, a = S * q + r
    PROVE  a % S = r
<1> DEFINE u == a \div S  v == a % S
<1>1. v \in 0 .. S - 1 /\ u \in Nat /\ a = S * u + v
  BY DivMod
<1> HIDE DEF u, v
<1>2. S * (q - u) = v - r
  <2>1. S * (q - u) = S * q - S * u
    BY <1>1
  <2> QED BY <1>1, <2>1
<1>3. q - u = 0
  BY <1>1, <1>2, NoMultipleBelow
<1> QED BY <1>1, <1>2, <1>3 DEF v

LEMMA ModSame ==
    ASSUME NEW S \in Nat \ {0}, NEW a \in Nat
    PROVE  (a + S) % S = a % S
<1> DEFINE q == a \div S  r == a % S
<1>1. r \in 0 .. S - 1 /\ q \in Nat /\ a = S * q + r
  BY DivMod
<1> HIDE DEF q, r
<1>2. a + S = S * (q + 1) + r
  BY <1>1
<1>3. q + 1 \in Int /\ a + S \in Nat
  BY <1>1
<1>4. (a + S) % S = r
  BY <1>1, <1>2, <1>3, ModUnique
<1> QED BY <1>4 DEF r

LEMMA ModSmall ==
    ASSUME NEW S \in Nat \ {0}, NEW a \in 0 .. S - 1
    PROVE  a % S = a
<1>1. a = S * 0 + a
  OBVIOUS
<1> QED BY <1>1, ModUnique

LEMMA ModAdd ==
    ASSUME NEW S \in Nat \ {0}, NEW h \in Nat, NEW k \in 0 .. S
    PROVE  (h + k) % S = IF (h % S) + k < S THEN (h % S) + k ELSE (h % S) + k - S
<1> DEFINE q == h \div S  r == h % S
<1>1. r \in 0 .. S - 1 /\ q \in Nat /\ h = S * q + r
  BY DivMod
<1> HIDE DEF q, r
<1>2. CASE r + k < S
  <2>1. h + k = S * q + (r + k)
    BY <1>1
  <2>2. (h + k) % S = r + k
    BY <1>1, <1>2, <2>1, ModUnique
  <2> QED BY <1>2, <2>2 DEF r
<1>3. CASE r + k >= S
  <2> DEFINE t == q + 1  w == r + k - S
  <2>1. h + k = S * t + w
    BY <1>1
  <2>2. t \in Int /\ h + k \in Nat /\ w \in 0 .. S - 1
    BY <1>1, <1>3
  <2>3. (h + k) % S = w
    <3> DEFINE a == h + k
    <3>1. t \in Int /\ a \in Nat /\ w \in 0 .. S - 1 /\ a = S * t + w
      BY <2>1, <2>2
    <3> HIDE DEF a, t, w
    <3>2. a % S = w
      BY <3>1, ModUnique
    <3> QED BY <3>2 DEF a
  <2>4. ~(r + k < S)
    BY <1>1, <1>3
  <2> QED BY <2>3, <2>4 DEF r
<1> QED BY <1>1, <1>2, <1>3

\* Going back from a position of the ring to its distance from h.
LEMMA PosOf ==
    ASSUME NEW S \in Nat \ {0}, NEW h \in Nat, NEW k \in 0 .. S - 1
    PROVE  (((h + k) % S) + S - (h % S)) % S = k
<1>0. (h + k) % S = IF (h % S) + k < S THEN (h % S) + k ELSE (h % S) + k - S
  <2>1. k \in 0 .. S
    OBVIOUS
  <2> QED BY <2>1, ModAdd
<1> DEFINE r == h % S
<1>1. r \in 0 .. S - 1
  BY DivMod
<1>2. (h + k) % S = IF r + k < S THEN r + k ELSE r + k - S
  BY <1>0
<1> HIDE DEF r
<1>3. CASE r + k < S
  <2>1. ((h + k) % S) + S - r = k + S
    BY <1>1, <1>2, <1>3
  <2>2. (k + S) % S = k
    BY ModSame, ModSmall
  <2> QED BY <2>1, <2>2 DEF r
<1>4. CASE ~(r + k < S)
  <2>1. ((h + k) % S) + S - r = k
    BY <1>1, <1>2, <1>4
  <2> QED BY <2>1, ModSmall DEF r
<1> QED BY <1>3, <1>4

(***************************************************************************)
(* The reader.  Its tail only grows, because the size of a record is a     *)
(* natural number, whatever is in the ring.  A call may name a CPU that    *)
(* has no ring; nothing is said of such a read.                            *)
(***************************************************************************)
RingTypes ==
    /\ data_tail \in [Cpus -> Nat] /\ data_head \in [Cpus -> Nat]
    /\ DOMAIN cells = Cpus
    /\ \A c \in Cpus : DOMAIN cells[c] = 0 .. Size - 1
    /\ \A c \in Cpus, x \in 0 .. Size - 1 : cells[c][x].rec.size \in Nat

ReaderInv ==
    rd # NoRead =>
      /\ DOMAIN rd = {"cpu", "head", "tail", "ret"}
      /\ rd.cpu \in Cpus => rd.tail \in Nat /\ data_tail[rd.cpu] <= rd.tail

TailInv == RingTypes /\ ReaderInv

LEMMA InitTail == Init => TailInv
BY RingAssumption DEF Init, TailInv, RingTypes, ReaderInv, Empty

(***************************************************************************)
(* What the kernel writes, unit by unit: perhaps a loss, and a sample.     *)
(***************************************************************************)
Loss(c) == Record("lost", lost[c], LostSize)
Sample(c, size) == Record("sample", emitted[c] + 1, size)
Out(c, size) ==
    IF lost[c] = 0 THEN Units(Sample(c, size))
    ELSE Units(Loss(c)) \o Units(Sample(c, size))

LEMMA UnitsFacts ==
    ASSUME NEW n \in Nat, NEW r, NEW S, \A k \in 1 .. n : [rec |-> r, part |-> k] \in S
    PROVE  LET us == [k \in 1 .. n |-> [rec |-> r, part |-> k]]
           IN  us \in Seq(S) /\ Len(us) = n
OBVIOUS

LEMMA OutFacts ==
    ASSUME NEW c \in Cpus, NEW size \in SampleSizes
    PROVE  /\ size \in 1 .. Size /\ LostSize \in 1 .. Size /\ Size \in Nat \ {0}
           /\ Len(Out(c, size)) = size + (IF lost[c] = 0 THEN 0 ELSE LostSize)
           /\ lost[c] = 0 => \A n \in 1 .. size :
                Out(c, size)[n] = [rec |-> Sample(c, size), part |-> n]
           /\ lost[c] # 0 =>
                /\ \A n \in 1 .. LostSize : Out(c, size)[n] = [rec |-> Loss(c), part |-> n]
                /\ \A n \in 1 .. size :
                     Out(c, size)[LostSize + n] = [rec |-> Sample(c, size), part |-> n]
           /\ \A n \in 1 .. Len(Out(c, size)) : Out(c, size)[n].rec.size \in Nat
<1>1. size \in 1 .. Size /\ LostSize \in 1 .. Size /\ Size \in Nat \ {0}
  BY RingAssumption
<1> DEFINE S == {[rec |-> Sample(c, size), part |-> k] : k \in 1 .. size}
                \cup {[rec |-> Loss(c), part |-> k] : k \in 1 .. LostSize}
<1>2. Sample(c, size).size = size /\ Loss(c).size = LostSize
  BY DEF Sample, Loss, Record
<1> DEFINE us == Units(Sample(c, size))  ul == Units(Loss(c))
<1>3. /\ us = [k \in 1 .. size |-> [rec |-> Sample(c, size), part |-> k]]
      /\ ul = [k \in 1 .. LostSize |-> [rec |-> Loss(c), part |-> k]]
  BY <1>2 DEF Units
<1>0. /\ \A k \in 1 .. size : [rec |-> Sample(c, size), part |-> k] \in S
      /\ \A k \in 1 .. LostSize : [rec |-> Loss(c), part |-> k] \in S
  OBVIOUS
<1> HIDE DEF us, ul, S
<1>4. us \in Seq(S) /\ Len(us) = size
  BY <1>0, <1>1, <1>3, UnitsFacts
<1>5. ul \in Seq(S) /\ Len(ul) = LostSize
  BY <1>0, <1>1, <1>3, UnitsFacts
<1>6. Out(c, size) = IF lost[c] = 0 THEN us ELSE ul \o us
  BY DEF Out, us, ul
<1>7. Len(ul \o us) = LostSize + size
  BY <1>1, <1>4, <1>5
<1>8. /\ \A n \in 1 .. LostSize : (ul \o us)[n] = ul[n]
      /\ \A n \in 1 .. size : (ul \o us)[LostSize + n] = us[n]
  BY <1>1, <1>4, <1>5, SMTT(40)
<1>9. \A n \in 1 .. Len(Out(c, size)) : Out(c, size)[n].rec.size \in Nat
  <2>1. Out(c, size) \in Seq(S)
    BY <1>4, <1>5, <1>6
  <2>2. \A u \in S : u.rec.size \in Nat
    BY <1>1, <1>2 DEF S
  <2> QED BY <2>1, <2>2
<1>10. CASE lost[c] = 0
  <2>1. Out(c, size) = us
    BY <1>6, <1>10
  <2>2. \A n \in 1 .. size : Out(c, size)[n] = [rec |-> Sample(c, size), part |-> n]
    BY <2>1, <1>3
  <2> QED BY <1>1, <1>4, <1>9, <1>10, <2>1, <2>2
<1>11. CASE lost[c] # 0
  <2>1. Out(c, size) = ul \o us
    BY <1>6, <1>11
  <2>2. \A n \in 1 .. LostSize : Out(c, size)[n] = [rec |-> Loss(c), part |-> n]
    BY <2>1, <1>8, <1>3, ZenonT(80)
  <2>3. \A n \in 1 .. size : Out(c, size)[LostSize + n] = [rec |-> Sample(c, size), part |-> n]
    BY <2>1, <1>8, <1>3
  <2> QED BY <1>1, <1>7, <1>9, <1>11, <2>1, <2>2, <2>3, SMTT(40)
<1> QED BY <1>10, <1>11

\* What KernelOutput does to the ring of c.
Wrote(c, size) ==
    /\ data_head[c] + Len(Out(c, size)) - data_tail[c] < Size
    /\ cells' = [cells EXCEPT ![c] = [x \in 0 .. Size - 1 |->
         LET k == 1 + ((x + Size - (data_head[c] % Size)) % Size)
         IN IF k <= Len(Out(c, size)) THEN Out(c, size)[k] ELSE cells[c][x]]]
    /\ data_head' = [data_head EXCEPT ![c] = data_head[c] + Len(Out(c, size))]
    /\ lost' = [lost EXCEPT ![c] = 0]
    /\ unread' = [unread EXCEPT ![c] =
         unread[c] \o Placed(Loss(c), Sample(c, size), data_head[c])]

Dropped(c) ==
    /\ lost' = [lost EXCEPT ![c] = lost[c] + 1]
    /\ UNCHANGED <<cells, data_head, unread>>

LEMMA OutputFacts ==
    ASSUME RingTypes, NEW c \in Cpus, NEW size \in SampleSizes, KernelOutput(c, size)
    PROVE  /\ Wrote(c, size) \/ Dropped(c)
           /\ emitted' = [emitted EXCEPT ![c] = emitted[c] + 1]
           /\ UNCHANGED <<data_tail, rd, delivered, svars>>
BY DEF KernelOutput, Wrote, Dropped, Out, Loss, Sample, RingTypes, avars

LEMMA OutputTail ==
    ASSUME TailInv, NEW c \in Cpus, NEW size \in SampleSizes, KernelOutput(c, size)
    PROVE  TailInv' /\ UNCHANGED <<data_tail, rd>>
<1> DEFINE out == Out(c, size)
           pos(x) == 1 + ((x + Size - (data_head[c] % Size)) % Size)
<1>1. /\ Size \in Nat \ {0} /\ Len(out) \in Nat
      /\ \A n \in 1 .. Len(out) : out[n].rec.size \in Nat
  BY OutFacts
<1> HIDE DEF out
<1>2. UNCHANGED <<data_tail, rd>> /\ (Wrote(c, size) \/ Dropped(c))
  BY OutputFacts DEF TailInv
<1>3. CASE Dropped(c)
  BY <1>2, <1>3 DEF Dropped, TailInv, RingTypes, ReaderInv
<1>4. CASE Wrote(c, size)
  <2>1. data_head' \in [Cpus -> Nat]
    <3>1. data_head' = [data_head EXCEPT ![c] = data_head[c] + Len(out)]
      BY <1>4 DEF Wrote, out
    <3> QED BY <1>1, <3>1 DEF TailInv, RingTypes
  <2>2. cells' = [cells EXCEPT ![c] = [x \in 0 .. Size - 1 |->
                     IF pos(x) <= Len(out) THEN out[pos(x)] ELSE cells[c][x]]]
    BY <1>4 DEF Wrote, out
  <2>3. \A x \in 0 .. Size - 1 : pos(x) \in Nat /\ pos(x) >= 1
    <3>1. data_head[c] % Size \in 0 .. Size - 1
      BY <1>1 DEF TailInv, RingTypes
    <3> QED BY <1>1, <3>1
  <2> HIDE DEF pos
  <2>4. ASSUME NEW x \in 0 .. Size - 1
        PROVE  cells'[c][x].rec.size \in Nat
    BY <1>1, <2>2, <2>3 DEF TailInv, RingTypes
  <2> QED BY <1>2, <2>1, <2>2, <2>4 DEF TailInv, RingTypes, ReaderInv
<1> QED BY <1>2, <1>3, <1>4

(***************************************************************************)
(* The steps that leave the rings, the tails and the reader alone.         *)
(***************************************************************************)
LEMMA SetupTail ==
    ASSUME TailInv, UNCHANGED <<data_tail, data_head, cells, rd>>
    PROVE  TailInv'
BY DEF TailInv, RingTypes, ReaderInv

LEMMA StartReadTail ==
    ASSUME TailInv, StartRead
    PROVE  TailInv' /\ UNCHANGED data_tail
<1>1. UNCHANGED <<data_tail, data_head, cells>>
  BY DEF StartRead, kvars
<1>2. rd' = [cpu |-> Head(todo), head |-> data_head[Head(todo)],
             tail |-> data_tail[Head(todo)], ret |-> "CONT"]
  BY DEF StartRead
<1>3. ReaderInv'
  BY <1>1, <1>2 DEF TailInv, RingTypes, ReaderInv
<1> QED BY <1>1, <1>3 DEF TailInv, RingTypes

LEMMA NoCopyBufferTail ==
    ASSUME TailInv, NoCopyBuffer
    PROVE  TailInv' /\ UNCHANGED data_tail
<1>1. UNCHANGED <<data_tail, data_head, cells>>
  BY DEF NoCopyBuffer, kvars
<1>2. rd # NoRead /\ rd' = [rd EXCEPT !.ret = "ERROR"]
  BY DEF NoCopyBuffer, Reading
<1>3. ReaderInv'
  BY <1>1, <1>2 DEF TailInv, ReaderInv
<1> QED BY <1>1, <1>3 DEF TailInv, RingTypes

LEMMA HandOverTail ==
    ASSUME TailInv, NEW ret, HandOver(ret)
    PROVE  TailInv' /\ UNCHANGED data_tail
<1>1. UNCHANGED <<data_tail, data_head, cells>>
  BY DEF HandOver, kvars
<1>2. rd # NoRead /\ rd' = [rd EXCEPT !.tail = rd.tail + EhdrSize, !.ret = ret]
  BY DEF HandOver, Reading
<1>3. rd.cpu \in Cpus => EhdrSize \in Nat
  <2>1. rd.cpu \in Cpus => EhdrIdx \in 0 .. Size - 1
    BY <1>2, RingAssumption DEF TailInv, ReaderInv, EhdrIdx
  <2> QED BY <2>1 DEF TailInv, RingTypes, EhdrSize
<1>4. ReaderInv'
  <2> HIDE DEF EhdrSize
  <2> QED BY <1>1, <1>2, <1>3 DEF TailInv, RingTypes, ReaderInv
<1> QED BY <1>1, <1>4 DEF TailInv, RingTypes

LEMMA WriteTailTail ==
    ASSUME TailInv, WriteTail
    PROVE  TailInv'
<1>1. UNCHANGED <<data_head, cells>> /\ rd' = NoRead
  BY DEF WriteTail, kvars
<1>2. rd # NoRead /\ data_tail' = [data_tail EXCEPT ![rd.cpu] = rd.tail]
  BY DEF WriteTail, ReadEnds
<1>3. data_tail' \in [Cpus -> Nat]
  BY <1>2 DEF TailInv, RingTypes, ReaderInv
<1> QED BY <1>1, <1>3 DEF TailInv, RingTypes, ReaderInv

(***************************************************************************)
(* A step moves data_tail only up to the reader's tail.                    *)
(***************************************************************************)
TailStep == \A c \in Cpus : data_tail'[c] \in data_tail[c] .. ReaderTail(c)

LEMMA SameTail ==
    ASSUME TailInv, UNCHANGED data_tail
    PROVE  TailStep
BY DEF TailInv, RingTypes, ReaderInv, TailStep, ReaderTail

LEMMA WriteTailStep ==
    ASSUME TailInv, WriteTail
    PROVE  TailStep
<1>1. rd # NoRead /\ data_tail' = [data_tail EXCEPT ![rd.cpu] = rd.tail]
  BY DEF WriteTail, ReadEnds
<1> QED BY <1>1 DEF TailInv, RingTypes, ReaderInv, TailStep, ReaderTail

LEMMA NextTail == TailInv /\ [Next]_vars => TailInv' /\ TailStep
<1> SUFFICES ASSUME TailInv, [Next]_vars PROVE TailInv' /\ TailStep
  OBVIOUS
<1>1. CASE SetupNext /\ UNCHANGED rvars
  BY <1>1, SetupTail, SameTail DEF rvars, kvars
<1>2. ASSUME NEW c \in Cpus, NEW size \in SampleSizes, KernelOutput(c, size)
      PROVE  TailInv' /\ TailStep
  BY <1>2, OutputTail, SameTail
<1>3. CASE Poll
  BY <1>3, SetupTail, SameTail DEF Poll, kvars
<1>4. CASE Consume
  BY <1>4, SetupTail, SameTail DEF Consume, kvars
<1>5. ASSUME NEW k \in 1 .. Cardinality(Cpus), ConsumeBuffer(k)
      PROVE  TailInv' /\ TailStep
  BY <1>5, SetupTail, SameTail DEF ConsumeBuffer, kvars
<1>6. CASE StartRead
  BY <1>6, StartReadTail, SameTail
<1>7. CASE NoCopyBuffer
  BY <1>7, NoCopyBufferTail, SameTail
<1>8. ASSUME NEW ret, HandOver(ret)
      PROVE  TailInv' /\ TailStep
  BY <1>8, HandOverTail, SameTail
<1>9. CASE WriteTail
  BY <1>9, WriteTailTail, WriteTailStep
<1>10. CASE FreeBuffer
  BY <1>10, SetupTail, SameTail DEF FreeBuffer, rvars, kvars
<1>11. CASE UNCHANGED vars
  BY <1>11, SetupTail, SameTail DEF vars, rvars, kvars
<1> QED
  BY <1>1, <1>2, <1>3, <1>4, <1>5, <1>6, <1>7, <1>8, <1>9, <1>10, <1>11
  DEF Next, Finished

(***************************************************************************)
(* TailBehindReader of any perf buffer: ring_buffer_write_tail() never     *)
(* takes a step back and never gives away a record that the callback has   *)
(* not seen, whatever the kernel writes meanwhile and whatever fails.      *)
(***************************************************************************)
THEOREM TailStaysBehindReader == Spec => TailBehindReader
<1>1. TailInv /\ [Next]_vars => [TailStep]_vars
  BY NextTail
<1> QED BY <1>1, InitTail, NextTail, PTL DEF Spec, TailBehindReader, TailStep

-----------------------------------------------------------------------------
(***************************************************************************)
(* The ring, CPU by CPU.  RingIntact is inductive once it is known that    *)
(* records do not overlap (Ordered): a record the kernel adds is written   *)
(* to other units than those not handed over yet, because all of these lie *)
(* between data_tail and data_head.                                        *)
(***************************************************************************)
Recs == [kind : {"sample", "lost"}, n : Nat, size : 1 .. Size]

LogTypes ==
    /\ lost \in [Cpus -> Nat] /\ emitted \in [Cpus -> Nat]
    /\ unread \in [Cpus -> Seq([rec : Recs, at : Nat])]

Ordered(c) ==
    \A k, l \in Starts(c) : k < l => Start(c, k) + unread[c][k].rec.size <= Start(c, l)

Intact(c) ==
    /\ data_tail[c] <= ReaderTail(c) /\ ReaderTail(c) = Start(c, 1)
    /\ data_head[c] - data_tail[c] < Size
    /\ rd # NoRead /\ rd.cpu = c => \E k \in Starts(c) : rd.head = Start(c, k)
    /\ \A k \in DOMAIN unread[c] :
         /\ Start(c, k + 1) = Start(c, k) + unread[c][k].rec.size
         /\ \A n \in 1 .. unread[c][k].rec.size :
              cells[c][(Start(c, k) + n - 1) % Size] = [rec |-> unread[c][k].rec, part |-> n]

RingInv == TailInv /\ LogTypes /\ \A c \in Cpus : Intact(c) /\ Ordered(c)

LEMMA RingInvIntact == RingInv => RingIntact
BY DEF RingInv, RingIntact, Intact

LEMMA InitRing == Init => RingInv
<1> SUFFICES ASSUME Init PROVE RingInv
  OBVIOUS
<1>1. TailInv
  BY InitTail
<1>2. LogTypes
  BY DEF Init, LogTypes
<1>3. ASSUME NEW c \in Cpus PROVE Intact(c) /\ Ordered(c)
  BY RingAssumption DEF Init, Intact, Ordered, Start, Starts, ReaderTail
<1> QED BY <1>1, <1>2, <1>3 DEF RingInv

LEMMA SeqFacts ==
    ASSUME NEW S, NEW s \in Seq(S)
    PROVE  /\ Len(s) \in Nat /\ DOMAIN s = 1 .. Len(s)
           /\ \A k \in 1 .. Len(s) : s[k] \in S
OBVIOUS

\* What is known of the records of a CPU that are not handed over.
LEMMA UnreadFacts ==
    ASSUME RingInv, NEW c \in Cpus
    PROVE  /\ Len(unread[c]) \in Nat /\ DOMAIN unread[c] = 1 .. Len(unread[c])
           /\ data_head[c] \in Nat /\ data_tail[c] \in Nat
           /\ \A k \in Starts(c) : Start(c, k) \in Nat
           /\ \A k \in 1 .. Len(unread[c]) :
                /\ unread[c][k].rec \in Recs /\ unread[c][k].rec.size \in 1 .. Size
                /\ Start(c, k) = unread[c][k].at
                /\ data_tail[c] <= Start(c, k)
                /\ Start(c, k) + unread[c][k].rec.size <= data_head[c]
           /\ Start(c, Len(unread[c]) + 1) = data_head[c]
           /\ data_tail[c] <= data_head[c]
<1>1. unread[c] \in Seq([rec : Recs, at : Nat])
  BY DEF RingInv, LogTypes
<1>2. /\ Len(unread[c]) \in Nat /\ DOMAIN unread[c] = 1 .. Len(unread[c])
      /\ \A k \in 1 .. Len(unread[c]) : unread[c][k] \in [rec : Recs, at : Nat]
  BY <1>1, SeqFacts
<1>3. data_head[c] \in Nat /\ data_tail[c] \in Nat
  BY DEF RingInv, TailInv, RingTypes
<1>4. \A k \in 1 .. Len(unread[c]) :
        /\ unread[c][k].rec \in Recs /\ unread[c][k].rec.size \in 1 .. Size
        /\ Start(c, k) = unread[c][k].at /\ Start(c, k) \in Nat
  BY <1>2 DEF Start, Recs
<1>5. Start(c, Len(unread[c]) + 1) = data_head[c]
  BY <1>2 DEF Start
<1>6. \A k \in Starts(c) : Start(c, k) \in Nat
  BY <1>2, <1>3, <1>4, <1>5 DEF Starts
<1>7. Size \in Nat
  BY RingAssumption
<1>8. ASSUME NEW k \in 1 .. Len(unread[c])
      PROVE  /\ data_tail[c] <= Start(c, k)
             /\ Start(c, k) + unread[c][k].rec.size <= data_head[c]
  <2>1. k \in Starts(c) /\ 1 \in Starts(c) /\ Len(unread[c]) + 1 \in Starts(c)
    BY <1>2 DEF Starts
  <2>2. Start(c, k) + unread[c][k].rec.size <= Start(c, Len(unread[c]) + 1)
    BY <1>2, <2>1 DEF RingInv, Ordered
  <2>3. data_tail[c] <= Start(c, 1)
    BY DEF RingInv, Intact
  <2>4. Start(c, 1) <= Start(c, k)
    <3>1. CASE k = 1
      BY <3>1, <1>6, <2>1
    <3>2. CASE k # 1
      <4>1. 1 < k /\ 1 \in 1 .. Len(unread[c])
        BY <3>2
      <4>2. Start(c, 1) + unread[c][1].rec.size <= Start(c, k)
        BY <2>1, <4>1 DEF RingInv, Ordered
      <4> QED BY <4>1, <4>2, <1>4, <1>6, <1>7, <2>1, SMTT(40)
    <3> QED BY <3>1, <3>2
  <2> QED BY <2>1, <2>2, <2>3, <2>4, <1>3, <1>5, <1>6
<1>9. data_tail[c] <= data_head[c]
  <2>1. data_tail[c] <= Start(c, 1)
    BY DEF RingInv, Intact
  <2>2. CASE Len(unread[c]) = 0
    BY <2>1, <2>2, <1>5
  <2>3. CASE Len(unread[c]) # 0
    <3>1. 1 \in 1 .. Len(unread[c])
      BY <2>3, <1>2
    <3> QED BY <3>1, <1>3, <1>4, <1>7, <1>8, SMTT(40)
  <2> QED BY <2>2, <2>3
<1> QED BY <1>2, <1>3, <1>4, <1>5, <1>6, <1>8, <1>9

\* A ring that a step leaves alone, with its reader.
LEMMA SameRing ==
    ASSUME NEW c \in Cpus, Intact(c), Ordered(c),
           data_tail'[c] = data_tail[c], data_head'[c] = data_head[c],
           cells'[c] = cells[c], unread'[c] = unread[c], UNCHANGED rd
    PROVE  Intact(c)' /\ Ordered(c)'
BY DEF Intact, Ordered, Start, Starts, ReaderTail

LEMMA QuietRing ==
    ASSUME RingInv, UNCHANGED <<data_tail, data_head, cells, rd, unread, lost, emitted>>
    PROVE  RingInv'
<1>1. TailInv'
  BY SetupTail DEF RingInv
<1>2. LogTypes'
  BY DEF RingInv, LogTypes
<1> QED BY <1>1, <1>2, SameRing DEF RingInv

LEMMA StartReadRing ==
    ASSUME RingInv, StartRead
    PROVE  RingInv'
<1>1. TailInv' /\ UNCHANGED <<data_tail, data_head, cells, unread, lost, emitted>>
  BY StartReadTail DEF RingInv, StartRead, kvars
<1>2. /\ rd = NoRead
      /\ rd' = [cpu |-> Head(todo), head |-> data_head[Head(todo)],
                 tail |-> data_tail[Head(todo)], ret |-> "CONT"]
  BY DEF StartRead
<1>3. ASSUME NEW c \in Cpus PROVE Intact(c)' /\ Ordered(c)'
  <2>1. Starts(c)' = Starts(c) /\ \A k : Start(c, k)' = Start(c, k)
    BY <1>1 DEF Start, Starts
  <2>2. ReaderTail(c)' = ReaderTail(c)
    BY <1>1, <1>2 DEF ReaderTail
  <2>3. rd'.cpu = c => \E k \in Starts(c) : rd'.head = Start(c, k)
    <3>1. rd'.cpu = c => rd'.head = Start(c, Len(unread[c]) + 1)
      BY <1>2, UnreadFacts
    <3>2. Len(unread[c]) + 1 \in Starts(c)
      BY UnreadFacts DEF Starts
    <3> QED BY <3>1, <3>2
  <2> QED BY <1>1, <2>1, <2>2, <2>3 DEF RingInv, Intact, Ordered
<1> QED BY <1>1, <1>3 DEF RingInv, LogTypes

LEMMA NoCopyBufferRing ==
    ASSUME RingInv, NoCopyBuffer
    PROVE  RingInv'
<1>1. TailInv' /\ UNCHANGED <<data_tail, data_head, cells, unread, lost, emitted>>
  BY NoCopyBufferTail DEF RingInv, NoCopyBuffer, kvars
<1>2. rd # NoRead /\ rd' = [rd EXCEPT !.ret = "ERROR"]
  BY DEF NoCopyBuffer, Reading
<1>3. rd'.cpu = rd.cpu /\ rd'.head = rd.head /\ rd'.tail = rd.tail /\ rd' # NoRead
  BY <1>2 DEF RingInv, TailInv, ReaderInv, NoRead
<1>4. ASSUME NEW c \in Cpus PROVE Intact(c)' /\ Ordered(c)'
  <2>1. Starts(c)' = Starts(c) /\ \A k : Start(c, k)' = Start(c, k)
    BY <1>1 DEF Start, Starts
  <2>2. ReaderTail(c)' = ReaderTail(c)
    BY <1>1, <1>2, <1>3 DEF ReaderTail
  <2> QED BY <1>1, <1>2, <1>3, <2>1, <2>2 DEF RingInv, Intact, Ordered
<1> QED BY <1>1, <1>4 DEF RingInv, LogTypes

LEMMA WriteTailRing ==
    ASSUME RingInv, WriteTail
    PROVE  RingInv'
<1>1. TailInv' /\ UNCHANGED <<data_head, cells, unread, lost, emitted>> /\ rd' = NoRead
  BY WriteTailTail DEF RingInv, WriteTail, kvars
<1>2. rd # NoRead /\ data_tail' = [data_tail EXCEPT ![rd.cpu] = rd.tail]
  BY DEF WriteTail, ReadEnds
<1>3. ASSUME NEW c \in Cpus PROVE Intact(c)' /\ Ordered(c)'
  <2>1. Starts(c)' = Starts(c) /\ \A k : Start(c, k)' = Start(c, k)
    BY <1>1 DEF Start, Starts
  <2>2. data_tail'[c] = ReaderTail(c)
    BY <1>2 DEF RingInv, TailInv, RingTypes, ReaderTail
  <2>3. ReaderTail(c)' = ReaderTail(c)
    BY <1>1, <2>2 DEF ReaderTail
  <2>4. data_tail[c] <= ReaderTail(c) /\ ReaderTail(c) \in Nat
    <3>1. 1 \in Starts(c)
      BY UnreadFacts DEF Starts
    <3> QED BY <3>1, UnreadFacts DEF RingInv, Intact
  <2>5. data_head[c] - data_tail'[c] < Size
    BY <2>2, <2>4, UnreadFacts, RingAssumption DEF RingInv, Intact
  <2> QED BY <1>1, <2>1, <2>2, <2>3, <2>4, <2>5 DEF RingInv, Intact, Ordered
<1> QED BY <1>1, <1>3 DEF RingInv, LogTypes

(***************************************************************************)
(* The kernel writes behind data_head and over nothing that is not handed  *)
(* over: every unit from data_tail to data_head stays.                     *)
(***************************************************************************)
LEMMA WrittenCells ==
    ASSUME RingInv, NEW c \in Cpus, NEW size \in SampleSizes, Wrote(c, size)
    PROVE  /\ \A j \in 1 .. Len(Out(c, size)) :
                cells'[c][(data_head[c] + j - 1) % Size] = Out(c, size)[j]
           /\ \A p \in data_tail[c] .. data_head[c] - 1 :
                cells'[c][p % Size] = cells[c][p % Size]
<1> DEFINE out == Out(c, size)  L == Len(out)  h == data_head[c]  t == data_tail[c]
           pos(x) == (x + Size - (h % Size)) % Size
<1>1. /\ Size \in Nat \ {0} /\ L \in Nat
      /\ h \in Nat /\ t \in Nat /\ t <= h /\ h + L - t < Size
  <2>1. Size \in Nat \ {0} /\ L \in Nat
    BY OutFacts
  <2>2. h \in Nat /\ t \in Nat /\ t <= h
    BY UnreadFacts
  <2>3. h + L - t < Size
    BY DEF Wrote
  <2> QED BY <2>1, <2>2, <2>3
<1>2. \A x \in 0 .. Size - 1 :
        cells'[c][x] = IF 1 + pos(x) <= L THEN out[1 + pos(x)] ELSE cells[c][x]
  BY DEF Wrote, RingInv, TailInv, RingTypes
<1>3. \A k \in 0 .. Size - 1 : (h + k) % Size \in 0 .. Size - 1 /\ pos((h + k) % Size) = k
  <2> SUFFICES ASSUME NEW k \in 0 .. Size - 1
               PROVE  (h + k) % Size \in 0 .. Size - 1 /\ pos((h + k) % Size) = k
    OBVIOUS
  <2> HIDE DEF h
  <2>1. h + k \in Nat
    BY <1>1
  <2> QED BY <1>1, <2>1, DivMod, PosOf
<1> HIDE DEF pos, out, h, t
<1>4. ASSUME NEW j \in 1 .. L
      PROVE  cells'[c][(h + j - 1) % Size] = out[j]
  <2>1. j - 1 \in 0 .. Size - 1 /\ h + (j - 1) = h + j - 1 /\ 1 + (j - 1) = j
    BY <1>1
  <2>2. (h + j - 1) % Size \in 0 .. Size - 1 /\ pos((h + j - 1) % Size) = j - 1
    BY <1>3, <2>1
  <2> QED BY <1>1, <1>2, <2>1, <2>2
<1>5. ASSUME NEW p \in t .. h - 1
      PROVE  cells'[c][p % Size] = cells[c][p % Size]
  <2> DEFINE m == Size - (h - p)
  <2>1. /\ m \in 0 .. Size - 1 /\ h + m = p + Size /\ p \in Nat
        /\ ~(1 + m <= L)
    BY <1>1
  <2>2. (h + m) % Size = p % Size
    BY <1>1, <2>1, ModSame
  <2>3. p % Size \in 0 .. Size - 1 /\ pos(p % Size) = m
    BY <1>3, <2>1, <2>2
  <2> QED BY <1>2, <2>1, <2>3
<1> QED BY <1>4, <1>5 DEF out, h, t

\* Start(c, k) after a step, for the k-th record of before.
NextStart(c, k) == IF k <= Len(unread'[c]) THEN unread'[c][k].at ELSE data_head'[c]

\* M records are added behind data_head, in a ring where what was there stays.
Kept(c) ==
    /\ UNCHANGED <<data_tail, rd>>
    /\ data_head'[c] - data_tail[c] < Size
    /\ \A p \in data_tail[c] .. data_head[c] - 1 : cells'[c][p % Size] = cells[c][p % Size]
    /\ \A k \in 1 .. Len(unread[c]) : unread'[c][k] = unread[c][k]

Added(c, M) ==
    /\ Len(unread'[c]) = Len(unread[c]) + M
    /\ DOMAIN unread'[c] = 1 .. Len(unread[c]) + M
    /\ NextStart(c, Len(unread[c]) + 1) = data_head[c]

Joined(c, k) ==
    /\ NextStart(c, k + 1) = NextStart(c, k) + unread'[c][k].rec.size
    /\ \A n \in 1 .. unread'[c][k].rec.size :
         cells'[c][(NextStart(c, k) + n - 1) % Size] = [rec |-> unread'[c][k].rec, part |-> n]

Behind(c, k, l) == NextStart(c, k) + unread'[c][k].rec.size <= NextStart(c, l)

LEMMA AddedRing ==
    ASSUME RingInv, NEW c \in Cpus, NEW M \in Nat, Kept(c), Added(c, M),
           \A k \in Len(unread[c]) + 1 .. Len(unread[c]) + M : Joined(c, k),
           \A k, l \in Len(unread[c]) + 1 .. Len(unread[c]) + M + 1 : k < l => Behind(c, k, l),
           \A l \in Len(unread[c]) + 1 .. Len(unread[c]) + M + 1 :
             NextStart(c, l) \in Nat /\ data_head[c] <= NextStart(c, l)
    PROVE  Intact(c)' /\ Ordered(c)'
<1> DEFINE N == Len(unread[c])
<1>1. /\ N \in Nat /\ DOMAIN unread[c] = 1 .. N
      /\ data_head[c] \in Nat /\ data_tail[c] \in Nat
      /\ \A k \in 1 .. N :
           /\ unread[c][k].rec.size \in Nat /\ unread[c][k].rec.size >= 1
           /\ Start(c, k) \in Nat /\ data_tail[c] <= Start(c, k)
           /\ Start(c, k) + unread[c][k].rec.size <= data_head[c]
      /\ Start(c, N + 1) = data_head[c]
  <2>1. Size \in Nat
    BY RingAssumption
  <2> QED BY <2>1, UnreadFacts DEF Starts
<1>2. Starts(c)' = 1 .. N + M + 1 /\ Starts(c) = 1 .. N + 1
  BY DEF Starts, Added
<1> HIDE DEF N
<1>3. \A k \in 1 .. N + 1 : NextStart(c, k) = Start(c, k)
  <2>1. \A k \in 1 .. N : NextStart(c, k) = Start(c, k)
    BY <1>1 DEF Start, NextStart, Kept, Added, N
  <2>2. NextStart(c, N + 1) = Start(c, N + 1)
    BY <1>1 DEF Added, N
  <2>3. ASSUME NEW k \in 1 .. N + 1 PROVE k \in 1 .. N \/ k = N + 1
    BY <1>1
  <2> QED BY <2>1, <2>2, <2>3
<1>4. \A k \in 1 .. N : NextStart(c, k + 1) = Start(c, k + 1)
  BY <1>1, <1>3
<1>5. ReaderTail(c)' = ReaderTail(c) /\ ReaderTail(c) = NextStart(c, 1)
  <2>1. 1 \in 1 .. N + 1
    BY <1>1
  <2> QED BY <2>1, <1>3 DEF RingInv, Intact, ReaderTail, Kept
<1>6. rd # NoRead /\ rd.cpu = c => \E k \in Starts(c)' : rd.head = NextStart(c, k)
  <2> SUFFICES ASSUME rd # NoRead, rd.cpu = c
               PROVE  \E k \in Starts(c)' : rd.head = NextStart(c, k)
    OBVIOUS
  <2>1. PICK k \in Starts(c) : rd.head = Start(c, k)
    BY DEF RingInv, Intact
  <2>2. k \in Starts(c)' /\ NextStart(c, k) = Start(c, k)
    BY <2>1, <1>1, <1>2, <1>3
  <2> QED BY <2>1, <2>2
<1>7. ASSUME NEW k \in 1 .. N PROVE Joined(c, k)
  <2>1. /\ NextStart(c, k) = Start(c, k) /\ NextStart(c, k + 1) = Start(c, k + 1)
        /\ unread'[c][k] = unread[c][k] /\ k \in DOMAIN unread[c]
    BY <1>1, <1>3, <1>4 DEF Kept, N
  <2>2. Start(c, k + 1) = Start(c, k) + unread[c][k].rec.size
    BY <2>1 DEF RingInv, Intact
  <2>3. ASSUME NEW n \in 1 .. unread[c][k].rec.size
        PROVE  cells'[c][(Start(c, k) + n - 1) % Size] = [rec |-> unread[c][k].rec, part |-> n]
    <3>1. Start(c, k) + n - 1 \in data_tail[c] .. data_head[c] - 1
      <4> DEFINE st == Start(c, k)  sz == unread[c][k].rec.size
      <4>1. st \in Nat /\ sz \in Nat /\ data_tail[c] <= st /\ st + sz <= data_head[c] /\ n \in 1 .. sz
        BY <1>1
      <4> HIDE DEF st, sz
      <4>2. st + n - 1 \in data_tail[c] .. data_head[c] - 1
        BY <1>1, <4>1, SMTT(40)
      <4> QED BY <4>2 DEF st
    <3>2. cells[c][(Start(c, k) + n - 1) % Size] = [rec |-> unread[c][k].rec, part |-> n]
      BY <2>1 DEF RingInv, Intact
    <3> QED BY <3>1, <3>2 DEF Kept
  <2> QED BY <2>1, <2>2, <2>3 DEF Joined
<1>8. ASSUME NEW k \in 1 .. N + M + 1, NEW l \in 1 .. N + M + 1, k < l
      PROVE  Behind(c, k, l)
  <2>1. CASE l <= N + 1
    <3>1. k \in 1 .. N /\ k \in Starts(c) /\ l \in Starts(c) /\ l \in 1 .. N + 1
      BY <2>1, <1>1, <1>2, <1>8
    <3>2. Start(c, k) + unread[c][k].rec.size <= Start(c, l)
      BY <3>1, <1>8 DEF RingInv, Ordered
    <3>3. NextStart(c, k) = Start(c, k) /\ NextStart(c, l) = Start(c, l) /\ unread'[c][k] = unread[c][k]
      BY <3>1, <1>1, <1>3 DEF Kept, N
    <3> QED BY <3>2, <3>3 DEF Behind
  <2>2. CASE k > N
    <3>1. k \in N + 1 .. N + M + 1 /\ l \in N + 1 .. N + M + 1
      BY <2>2, <1>1, <1>8
    <3> QED BY <3>1, <1>8 DEF N
  <2>3. CASE k <= N /\ l > N + 1
    <3>1. k \in 1 .. N /\ l \in N + 1 .. N + M + 1
      BY <2>3, <1>1
    <3>2. NextStart(c, k) = Start(c, k) /\ unread'[c][k] = unread[c][k]
      BY <3>1, <1>1, <1>3 DEF Kept, N
    <3>3. NextStart(c, l) \in Nat /\ data_head[c] <= NextStart(c, l)
      BY <3>1 DEF N
    <3>4. /\ Start(c, k) + unread[c][k].rec.size <= data_head[c]
          /\ Start(c, k) \in Nat /\ unread[c][k].rec.size \in Nat
      BY <3>1, <1>1
    <3> DEFINE en == Start(c, k) + unread[c][k].rec.size
    <3>5. en \in Nat /\ en <= data_head[c]
      BY <3>4, SMTT(40)
    <3>6. NextStart(c, k) + unread'[c][k].rec.size = en
      BY <3>2
    <3> HIDE DEF en
    <3>7. en <= NextStart(c, l)
      BY <3>3, <3>5, <1>1
    <3> QED BY <3>6, <3>7 DEF Behind
  <2> QED BY <2>1, <2>2, <2>3, <1>1
<1>9. data_tail'[c] <= ReaderTail(c)' /\ data_head'[c] - data_tail'[c] < Size
  BY <1>5 DEF RingInv, Intact, Kept
<1>10. ASSUME NEW k \in DOMAIN unread'[c] PROVE Joined(c, k)
  <2>1. k \in 1 .. N \/ k \in N + 1 .. N + M
    BY <1>1 DEF Added, N
  <2> QED BY <2>1, <1>7 DEF N
<1>11. Intact(c)'
  BY <1>5, <1>6, <1>9, <1>10 DEF Intact, Joined, Kept, NextStart, Start
<1>12. Ordered(c)'
  BY <1>2, <1>8 DEF Ordered, Behind, NextStart, Start
<1> QED BY <1>11, <1>12

LEMMA AddOne ==
    ASSUME NEW S, NEW s \in Seq(S), NEW a \in S
    PROVE  /\ s \o <<a>> \in Seq(S) /\ Len(s \o <<a>>) = Len(s) + 1
           /\ DOMAIN (s \o <<a>>) = 1 .. Len(s) + 1
           /\ \A k \in 1 .. Len(s) : (s \o <<a>>)[k] = s[k]
           /\ (s \o <<a>>)[Len(s) + 1] = a
OBVIOUS

LEMMA AddTwo ==
    ASSUME NEW S, NEW s \in Seq(S), NEW a \in S, NEW b \in S
    PROVE  /\ s \o <<a, b>> \in Seq(S) /\ Len(s \o <<a, b>>) = Len(s) + 2
           /\ DOMAIN (s \o <<a, b>>) = 1 .. Len(s) + 2
           /\ \A k \in 1 .. Len(s) : (s \o <<a, b>>)[k] = s[k]
           /\ (s \o <<a, b>>)[Len(s) + 1] = a /\ (s \o <<a, b>>)[Len(s) + 2] = b
OBVIOUS

LEMMA NewTypes ==
    ASSUME RingInv, NEW c \in Cpus, NEW size \in SampleSizes
    PROVE  /\ unread[c] \in Seq([rec : Recs, at : Nat])
           /\ Sample(c, size) \in Recs /\ Loss(c) \in Recs
           /\ Sample(c, size).size = size /\ Loss(c).size = LostSize
           /\ [rec |-> Sample(c, size), at |-> data_head[c]] \in [rec : Recs, at : Nat]
           /\ [rec |-> Loss(c), at |-> data_head[c]] \in [rec : Recs, at : Nat]
           /\ [rec |-> Sample(c, size), at |-> data_head[c] + LostSize]
                \in [rec : Recs, at : Nat]
           /\ Placed(Loss(c), Sample(c, size), data_head[c]) =
                IF lost[c] = 0 THEN <<[rec |-> Sample(c, size), at |-> data_head[c]]>>
                ELSE <<[rec |-> Loss(c), at |-> data_head[c]],
                       [rec |-> Sample(c, size), at |-> data_head[c] + LostSize]>>
<1>1. size \in 1 .. Size /\ LostSize \in 1 .. Size
  BY OutFacts
<1>2. /\ unread[c] \in Seq([rec : Recs, at : Nat])
      /\ lost[c] \in Nat /\ emitted[c] \in Nat /\ data_head[c] \in Nat
  BY DEF RingInv, LogTypes, TailInv, RingTypes
<1>3. Sample(c, size) \in Recs /\ Sample(c, size).size = size
  BY <1>1, <1>2 DEF Sample, Record, Recs
<1>4. Loss(c) \in Recs /\ Loss(c).size = LostSize /\ Loss(c).n = lost[c]
  BY <1>1, <1>2 DEF Loss, Record, Recs
<1>5. data_head[c] + LostSize \in Nat
  BY <1>1, <1>2
<1> HIDE DEF Recs
<1>6. Placed(Loss(c), Sample(c, size), data_head[c]) =
        IF lost[c] = 0 THEN <<[rec |-> Sample(c, size), at |-> data_head[c]]>>
        ELSE <<[rec |-> Loss(c), at |-> data_head[c]],
               [rec |-> Sample(c, size), at |-> data_head[c] + LostSize]>>
  BY <1>4 DEF Placed
<1> QED BY <1>2, <1>3, <1>4, <1>5, <1>6

LEMMA WroteKept ==
    ASSUME RingInv, NEW c \in Cpus, NEW size \in SampleSizes, Wrote(c, size),
           UNCHANGED <<data_tail, rd>>,
           \A k \in 1 .. Len(unread[c]) : unread'[c][k] = unread[c][k]
    PROVE  /\ Kept(c)
           /\ data_head'[c] = data_head[c] + Len(Out(c, size))
<1>1. data_head'[c] = data_head[c] + Len(Out(c, size))
  BY DEF Wrote, RingInv, TailInv, RingTypes
<1>2. data_head[c] + Len(Out(c, size)) - data_tail[c] < Size
  BY DEF Wrote
<1>3. data_head'[c] - data_tail[c] < Size
  <2>1. data_head[c] \in Nat /\ data_tail[c] \in Nat
    BY UnreadFacts
  <2>2. Len(Out(c, size)) \in Nat
    BY OutFacts
  <2> QED BY <1>1, <1>2, <2>1, <2>2
<1>4. \A p \in data_tail[c] .. data_head[c] - 1 : cells'[c][p % Size] = cells[c][p % Size]
  BY WrittenCells
<1> QED BY <1>1, <1>3, <1>4 DEF Kept

\* A sample alone.
LEMMA SampleRing ==
    ASSUME RingInv, NEW c \in Cpus, NEW size \in SampleSizes, Wrote(c, size),
           UNCHANGED <<data_tail, rd>>, lost[c] = 0
    PROVE  Intact(c)' /\ Ordered(c)' /\ unread'[c] \in Seq([rec : Recs, at : Nat])
<1> DEFINE N == Len(unread[c])  h == data_head[c]
           a == [rec |-> Sample(c, size), at |-> h]
<1>1. unread'[c] = unread[c] \o <<a>>
  BY NewTypes DEF Wrote, RingInv, LogTypes
<1>2. /\ unread'[c] \in Seq([rec : Recs, at : Nat]) /\ Len(unread'[c]) = N + 1
      /\ DOMAIN unread'[c] = 1 .. N + 1
      /\ \A k \in 1 .. N : unread'[c][k] = unread[c][k]
      /\ unread'[c][N + 1] = a
  <2> DEFINE X == [rec : Recs, at : Nat]
  <2>1. unread[c] \in Seq(X) /\ a \in X
    BY NewTypes
  <2> HIDE DEF X, a
  <2>2. /\ unread'[c] \in Seq(X) /\ Len(unread'[c]) = N + 1
        /\ DOMAIN unread'[c] = 1 .. N + 1
        /\ \A k \in 1 .. N : unread'[c][k] = unread[c][k]
        /\ unread'[c][N + 1] = a
    BY <1>1, <2>1, AddOne
  <2> QED BY <2>2 DEF X
<1>3. /\ size \in Nat /\ N \in Nat /\ h \in Nat /\ Len(Out(c, size)) = size
      /\ a.rec = Sample(c, size) /\ a.at = h /\ a.rec.size = size
  <2>1. size \in Nat /\ Len(Out(c, size)) = size
    BY OutFacts
  <2>2. N \in Nat /\ h \in Nat
    BY UnreadFacts
  <2>3. a.rec = Sample(c, size) /\ a.at = h /\ a.rec.size = size
    BY NewTypes
  <2> QED BY <2>1, <2>2, <2>3
<1>4. /\ Kept(c) /\ data_head'[c] = h + size
      /\ \A j \in 1 .. size :
           cells'[c][(h + j - 1) % Size] = [rec |-> Sample(c, size), part |-> j]
  <2>1. \A j \in 1 .. size : Out(c, size)[j] = [rec |-> Sample(c, size), part |-> j]
    BY OutFacts
  <2> QED BY <1>2, <1>3, <2>1, WroteKept, WrittenCells
<1> HIDE DEF N, h, a
<1>5. NextStart(c, N + 1) = h /\ NextStart(c, N + 2) = h + size
  <2>1. N + 1 <= Len(unread'[c]) /\ ~(N + 2 <= Len(unread'[c]))
    BY <1>2, <1>3
  <2> QED BY <1>2, <1>3, <1>4, <2>1 DEF NextStart
<1>6. Added(c, 1)
  BY <1>2, <1>5 DEF Added, N, h
<1>7. Joined(c, N + 1)
  <2>1. N + 1 + 1 = N + 2
    BY <1>3
  <2> QED BY <1>2, <1>3, <1>4, <1>5, <2>1 DEF Joined
<1>8. Behind(c, N + 1, N + 2)
  BY <1>2, <1>3, <1>5 DEF Behind
<1>9. \A k \in N + 1 .. N + 1 : Joined(c, k)
  BY <1>3, <1>7
<1>10. \A k, l \in N + 1 .. N + 1 + 1 : k < l => Behind(c, k, l)
  <2>1. \A k, l \in N + 1 .. N + 1 + 1 : k < l => k = N + 1 /\ l = N + 2
    BY <1>3
  <2> QED BY <2>1, <1>8
<1>11. \A l \in N + 1 .. N + 1 + 1 : NextStart(c, l) \in Nat /\ h <= NextStart(c, l)
  <2>1. \A l \in N + 1 .. N + 1 + 1 : l = N + 1 \/ l = N + 2
    BY <1>3
  <2> QED BY <2>1, <1>3, <1>5
<1>12. Intact(c)' /\ Ordered(c)'
  BY <1>4, <1>6, <1>9, <1>10, <1>11, AddedRing DEF N, h
<1> QED BY <1>2, <1>12

\* A loss and a sample.
LEMMA LossRing ==
    ASSUME RingInv, NEW c \in Cpus, NEW size \in SampleSizes, Wrote(c, size),
           UNCHANGED <<data_tail, rd>>, lost[c] # 0
    PROVE  Intact(c)' /\ Ordered(c)' /\ unread'[c] \in Seq([rec : Recs, at : Nat])
<1> DEFINE N == Len(unread[c])  h == data_head[c]
           a == [rec |-> Loss(c), at |-> h]
           b == [rec |-> Sample(c, size), at |-> h + LostSize]
<1>1. unread'[c] = unread[c] \o <<a, b>>
  BY NewTypes DEF Wrote, RingInv, LogTypes
<1>2. /\ unread'[c] \in Seq([rec : Recs, at : Nat]) /\ Len(unread'[c]) = N + 2
      /\ DOMAIN unread'[c] = 1 .. N + 2
      /\ \A k \in 1 .. N : unread'[c][k] = unread[c][k]
      /\ unread'[c][N + 1] = a /\ unread'[c][N + 2] = b
  <2> DEFINE X == [rec : Recs, at : Nat]
  <2>1. unread[c] \in Seq(X) /\ a \in X /\ b \in X
    BY NewTypes
  <2> HIDE DEF X, a, b
  <2>2. /\ unread'[c] \in Seq(X) /\ Len(unread'[c]) = N + 2
        /\ DOMAIN unread'[c] = 1 .. N + 2
        /\ \A k \in 1 .. N : unread'[c][k] = unread[c][k]
        /\ unread'[c][N + 1] = a /\ unread'[c][N + 2] = b
    BY <1>1, <2>1, AddTwo
  <2> QED BY <2>2 DEF X
<1>3. /\ size \in Nat /\ LostSize \in Nat /\ N \in Nat /\ h \in Nat
      /\ Len(Out(c, size)) = size + LostSize
      /\ a.rec = Loss(c) /\ a.at = h /\ a.rec.size = LostSize
      /\ b.rec = Sample(c, size) /\ b.at = h + LostSize /\ b.rec.size = size
  <2>1. size \in Nat /\ LostSize \in Nat /\ Len(Out(c, size)) = size + LostSize
    BY OutFacts
  <2>2. N \in Nat /\ h \in Nat
    BY UnreadFacts
  <2>3. a.rec = Loss(c) /\ a.at = h /\ a.rec.size = LostSize
    BY NewTypes
  <2>4. b.rec = Sample(c, size) /\ b.at = h + LostSize /\ b.rec.size = size
    BY NewTypes
  <2> QED BY <2>1, <2>2, <2>3, <2>4
<1>4. /\ Kept(c) /\ data_head'[c] = h + size + LostSize
      /\ \A j \in 1 .. LostSize :
           cells'[c][(h + j - 1) % Size] = [rec |-> Loss(c), part |-> j]
      /\ \A j \in 1 .. size :
           cells'[c][(h + LostSize + j - 1) % Size] = [rec |-> Sample(c, size), part |-> j]
  <2>1. /\ \A j \in 1 .. LostSize : Out(c, size)[j] = [rec |-> Loss(c), part |-> j]
        /\ \A j \in 1 .. size : Out(c, size)[LostSize + j] = [rec |-> Sample(c, size), part |-> j]
    BY OutFacts
  <2>2. \A j \in 1 .. size + LostSize : cells'[c][(h + j - 1) % Size] = Out(c, size)[j]
    BY <1>3, WrittenCells
  <2>3. Kept(c) /\ data_head'[c] = h + size + LostSize
    <3>1. Kept(c) /\ data_head'[c] = h + Len(Out(c, size))
      BY <1>2, WroteKept
    <3> QED BY <3>1, <1>3
  <2> HIDE DEF h, a, b
  <2>4. ASSUME NEW j \in 1 .. LostSize
        PROVE  cells'[c][(h + j - 1) % Size] = [rec |-> Loss(c), part |-> j]
    <3>1. j \in 1 .. size + LostSize
      BY <1>3
    <3> QED BY <2>1, <2>2, <3>1
  <2>5. ASSUME NEW j \in 1 .. size
        PROVE  cells'[c][(h + LostSize + j - 1) % Size] = [rec |-> Sample(c, size), part |-> j]
    <3>1. LostSize + j \in 1 .. size + LostSize /\ h + (LostSize + j) - 1 = h + LostSize + j - 1
      BY <1>3
    <3> QED BY <2>1, <2>2, <3>1
  <2> QED BY <2>3, <2>4, <2>5
<1> HIDE DEF N, h, a, b
<1>5. /\ NextStart(c, N + 1) = h /\ NextStart(c, N + 2) = h + LostSize
      /\ NextStart(c, N + 3) = h + LostSize + size
  <2>1. /\ N + 1 <= Len(unread'[c]) /\ N + 2 <= Len(unread'[c])
        /\ ~(N + 3 <= Len(unread'[c])) /\ h + size + LostSize = h + LostSize + size
    BY <1>2, <1>3
  <2> QED BY <1>2, <1>3, <1>4, <2>1 DEF NextStart
<1>6. Added(c, 2)
  BY <1>2, <1>5 DEF Added, N, h
<1>7. Joined(c, N + 1) /\ Joined(c, N + 2)
  <2>1. N + 1 + 1 = N + 2 /\ N + 2 + 1 = N + 3
    BY <1>3
  <2> QED BY <1>2, <1>3, <1>4, <1>5, <2>1, ZenonT(80) DEF Joined
<1>8. Behind(c, N + 1, N + 2) /\ Behind(c, N + 1, N + 3) /\ Behind(c, N + 2, N + 3)
  <2>1. Behind(c, N + 1, N + 2)
    BY <1>2, <1>3, <1>5 DEF Behind
  <2>2. Behind(c, N + 1, N + 3)
    BY <1>2, <1>3, <1>5 DEF Behind
  <2>3. Behind(c, N + 2, N + 3)
    BY <1>2, <1>3, <1>5 DEF Behind
  <2> QED BY <2>1, <2>2, <2>3
<1>9. \A k \in N + 1 .. N + 2 : Joined(c, k)
  <2>1. \A k \in N + 1 .. N + 2 : k = N + 1 \/ k = N + 2
    BY <1>3
  <2> QED BY <2>1, <1>7
<1>10. \A k, l \in N + 1 .. N + 2 + 1 : k < l => Behind(c, k, l)
  <2>1. \A k, l \in N + 1 .. N + 2 + 1 : k < l =>
          \/ k = N + 1 /\ l = N + 2
          \/ k = N + 1 /\ l = N + 3
          \/ k = N + 2 /\ l = N + 3
    BY <1>3
  <2> QED BY <2>1, <1>8
<1>11. \A l \in N + 1 .. N + 2 + 1 : NextStart(c, l) \in Nat /\ h <= NextStart(c, l)
  <2>1. ASSUME NEW l \in N + 1 .. N + 2 + 1
        PROVE  l = N + 1 \/ l = N + 2 \/ l = N + 3
    BY <1>3
  <2> QED BY <2>1, <1>3, <1>5
<1>12. Intact(c)' /\ Ordered(c)'
  BY <1>4, <1>6, <1>9, <1>10, <1>11, AddedRing DEF N, h
<1> QED BY <1>2, <1>12

LEMMA OutputRing ==
    ASSUME RingInv, NEW c \in Cpus, NEW size \in SampleSizes, KernelOutput(c, size)
    PROVE  RingInv'
<1>1. TailInv' /\ UNCHANGED <<data_tail, rd>>
  BY OutputTail DEF RingInv
<1>2. /\ Wrote(c, size) \/ Dropped(c)
      /\ emitted' = [emitted EXCEPT ![c] = emitted[c] + 1]
  BY OutputFacts DEF RingInv, TailInv
<1>3. CASE Dropped(c)
  <2>1. LogTypes'
    <3>1. lost' \in [Cpus -> Nat] /\ emitted' \in [Cpus -> Nat]
      BY <1>2, <1>3 DEF Dropped, RingInv, LogTypes
    <3> QED BY <1>3, <3>1 DEF RingInv, LogTypes, Dropped
  <2>2. ASSUME NEW d \in Cpus PROVE Intact(d)' /\ Ordered(d)'
    BY <1>1, <1>3, SameRing DEF RingInv, Dropped
  <2> QED BY <1>1, <2>1, <2>2 DEF RingInv
<1>4. CASE Wrote(c, size)
  <2>1. Intact(c)' /\ Ordered(c)' /\ unread'[c] \in Seq([rec : Recs, at : Nat])
    BY <1>1, <1>4, SampleRing, LossRing
  <2>2. ASSUME NEW d \in Cpus \ {c} PROVE Intact(d)' /\ Ordered(d)' /\ unread'[d] = unread[d]
    <3>1. cells'[d] = cells[d] /\ data_head'[d] = data_head[d] /\ unread'[d] = unread[d]
      BY <1>4 DEF Wrote, RingInv, TailInv, RingTypes, LogTypes
    <3> QED BY <1>1, <3>1, SameRing DEF RingInv
  <2>3. LogTypes'
    <3>1. lost' \in [Cpus -> Nat] /\ emitted' \in [Cpus -> Nat]
      BY <1>2, <1>4 DEF Wrote, RingInv, LogTypes
    <3> DEFINE X == Seq([rec : Recs, at : Nat])
    <3>2. unread \in [Cpus -> X] /\ unread'[c] \in X
      BY <2>1 DEF RingInv, LogTypes
    <3>3. unread' = [unread EXCEPT ![c] = unread'[c]]
      <4> DEFINE v == unread[c] \o Placed(Loss(c), Sample(c, size), data_head[c])
      <4>1. unread' = [unread EXCEPT ![c] = v]
        BY <1>4 DEF Wrote
      <4> HIDE DEF v, X
      <4> QED BY <3>2, <4>1
    <3> HIDE DEF X
    <3>4. unread' \in [Cpus -> X]
      BY <3>2, <3>3
    <3> QED BY <3>1, <3>4 DEF LogTypes, X
  <2> QED BY <1>1, <2>1, <2>2, <2>3 DEF RingInv
<1> QED BY <1>2, <1>3, <1>4

LEMMA DropFirst ==
    ASSUME NEW S, NEW s \in Seq(S), Len(s) >= 1
    PROVE  /\ SubSeq(s, 2, Len(s)) \in Seq(S) /\ Len(SubSeq(s, 2, Len(s))) = Len(s) - 1
           /\ DOMAIN SubSeq(s, 2, Len(s)) = 1 .. Len(s) - 1
           /\ \A k \in 1 .. Len(s) - 1 : SubSeq(s, 2, Len(s))[k] = s[k + 1]
<1>1. Len(s) \in Nat /\ \A k \in 2 .. Len(s) : s[k] \in S
  OBVIOUS
<1>2. PICK n \in Nat : n = Len(s)
  BY <1>1
<1>3. 2 \in Int /\ n \in Int /\ n >= 1 /\ n - 2 + 1 = n - 1 /\ \A k \in 2 .. n : s[k] \in S
  BY <1>1, <1>2
<1>4. /\ SubSeq(s, 2, n) \in Seq(S) /\ Len(SubSeq(s, 2, n)) = IF 2 <= n THEN n - 2 + 1 ELSE 0
      /\ \A k \in 1 .. n - 2 + 1 : SubSeq(s, 2, n)[k] = s[2 + k - 1]
  BY <1>3, SubSeqProperties
<1>5. Len(SubSeq(s, 2, n)) = n - 1
  BY <1>3, <1>4
<1>6. DOMAIN SubSeq(s, 2, n) = 1 .. n - 1
  BY <1>4, <1>5, LenProperties
<1>7. ASSUME NEW k \in 1 .. n - 1 PROVE SubSeq(s, 2, n)[k] = s[k + 1]
  <2>1. k \in 1 .. n - 2 + 1 /\ 2 + k - 1 = k + 1
    BY <1>3
  <2>. QED  BY <1>4, <2>1
<1>. QED  BY <1>2, <1>4, <1>5, <1>6, <1>7

(***************************************************************************)
(* The record a read in progress is about to hand over is the first of     *)
(* those not handed over, whole, whether it runs over the end of the ring  *)
(* or not: the two parts of the copy fit together.                         *)
(***************************************************************************)
LEMMA FirstRecord ==
    ASSUME RingInv, Reading, NEW c \in Cpus, c = rd.cpu
    PROVE  /\ Len(unread[c]) >= 1 /\ unread[c][1].rec \in Recs
           /\ rd.tail = Start(c, 1)
           /\ EhdrSize = unread[c][1].rec.size /\ rd.tail + EhdrSize = Start(c, 2)
           /\ AsRecord(Assembled) = Plain(unread[c][1].rec)
<1> DEFINE N == Len(unread[c])  r == unread[c][1].rec  x == rd.tail % Size
<1>1. rd # NoRead /\ rd.head # rd.tail
  BY DEF Reading
<1>2. rd.tail = Start(c, 1)
  BY <1>1 DEF RingInv, Intact, ReaderTail
<1>3. N \in Nat /\ N >= 1
  <2>1. PICK k \in Starts(c) : rd.head = Start(c, k)
    BY <1>1 DEF RingInv, Intact
  <2>2. k # 1
    BY <1>1, <1>2, <2>1
  <2>3. N \in Nat
    BY UnreadFacts
  <2> QED BY <2>2, <2>3 DEF Starts
<1>4. /\ 1 \in DOMAIN unread[c] /\ r \in Recs /\ r.size \in 1 .. Size
      /\ rd.tail \in Nat /\ Size \in Nat \ {0}
  <2>1. 1 \in 1 .. N /\ 1 \in Starts(c)
    BY <1>3 DEF Starts
  <2> QED BY <2>1, <1>2, UnreadFacts, RingAssumption
<1>5. /\ Start(c, 2) = rd.tail + r.size
      /\ \A n \in 1 .. r.size :
           cells[c][(rd.tail + n - 1) % Size] = [rec |-> r, part |-> n]
  BY <1>2, <1>4 DEF RingInv, Intact
<1>6. x \in 0 .. Size - 1
  BY <1>4, DivMod
<1>7. EhdrIdx = x /\ EhdrSize = r.size
  <2>1. rd.tail + 1 - 1 = rd.tail /\ 1 \in 1 .. r.size
    BY <1>4
  <2>2. cells[c][x].rec = r
    <3>1. cells[c][(rd.tail + 1 - 1) % Size] = [rec |-> r, part |-> 1]
      BY <1>5, <2>1
    <3>2. cells[c][x] = [rec |-> r, part |-> 1]
      BY <2>1, <3>1
    <3> QED BY <3>2
  <2> QED BY <2>2 DEF EhdrIdx, EhdrSize
<1> HIDE DEF r, N
<1>8. \A n \in 1 .. r.size :
        (rd.tail + n - 1) % Size = IF x + n - 1 < Size THEN x + n - 1 ELSE x + n - 1 - Size
  <2> SUFFICES ASSUME NEW n \in 1 .. r.size
               PROVE  (rd.tail + n - 1) % Size
                        = IF x + n - 1 < Size THEN x + n - 1 ELSE x + n - 1 - Size
    OBVIOUS
  <2> DEFINE m == n - 1
  <2>1. /\ m \in 0 .. Size /\ rd.tail + n - 1 = rd.tail + m
        /\ x + n - 1 = x + m /\ x + n - 1 - Size = x + m - Size
    BY <1>4, <1>6
  <2> HIDE DEF m
  <2>2. (rd.tail + m) % Size = IF x + m < Size THEN x + m ELSE x + m - Size
    BY <1>4, <2>1, ModAdd
  <2> QED BY <2>1, <2>2
<1> HIDE DEF x
<1>9. Assembled = [n \in 1 .. r.size |-> [rec |-> r, part |-> n]]
  <2> DEFINE f == IF Wraps THEN Size - x ELSE r.size
             idx(n) == IF n <= f THEN x + n - 1 ELSE n - f - 1
  <2>1. Assembled = [n \in 1 .. r.size |-> IF n <= f THEN cells[c][x + n - 1] ELSE cells[c][n - f - 1]]
    BY <1>7 DEF Assembled
  <2>2. ASSUME NEW n \in 1 .. r.size
        PROVE  idx(n) = (rd.tail + n - 1) % Size
    <3>1. Wraps <=> x + r.size > Size
      BY <1>7 DEF Wraps
    <3>2. CASE Wraps
      BY <1>4, <1>6, <1>8, <3>1, <3>2
    <3>3. CASE ~Wraps
      BY <1>4, <1>6, <1>8, <3>1, <3>3
    <3> QED BY <3>2, <3>3
  <2>3. ASSUME NEW n \in 1 .. r.size
        PROVE  (IF n <= f THEN cells[c][x + n - 1] ELSE cells[c][n - f - 1])
                 = [rec |-> r, part |-> n]
    <3>1. (IF n <= f THEN cells[c][x + n - 1] ELSE cells[c][n - f - 1]) = cells[c][idx(n)]
      OBVIOUS
    <3> QED BY <3>1, <2>2, <1>5
  <2> QED BY <2>1, <2>3
<1>10. AsRecord(Assembled) = Plain(r)
  <2>1. Units(r) = [n \in 1 .. r.size |-> [rec |-> r, part |-> n]]
    BY DEF Units
  <2>2. 1 \in 1 .. r.size
    BY <1>4
  <2>3. Assembled[1].rec = r
    BY <1>9, <2>2
  <2> QED BY <1>9, <2>1, <2>3 DEF AsRecord
<1> QED BY <1>2, <1>3, <1>4, <1>5, <1>7, <1>10 DEF N, r

\* The ring of the CPU that is read, without its first record.
LEMMA ShiftedRing ==
    ASSUME RingInv, NEW c \in Cpus, Len(unread[c]) >= 1,
           UNCHANGED <<data_tail, data_head, cells>>,
           unread'[c] = SubSeq(unread[c], 2, Len(unread[c])),
           rd # NoRead, rd.cpu = c, rd.head # rd.tail, rd.tail = Start(c, 1),
           rd' # NoRead, rd'.cpu = c, rd'.head = rd.head, rd'.tail = Start(c, 2)
    PROVE  Intact(c)' /\ Ordered(c)' /\ unread'[c] \in Seq([rec : Recs, at : Nat])
<1> DEFINE N == Len(unread[c])
<1>1. /\ N \in Nat /\ N >= 1 /\ DOMAIN unread[c] = 1 .. N
      /\ data_head[c] \in Nat /\ data_tail[c] \in Nat /\ data_tail[c] <= data_head[c]
      /\ \A k \in 1 .. N : data_tail[c] <= Start(c, k)
      /\ Start(c, N + 1) = data_head[c]
  BY UnreadFacts
<1>2. /\ unread'[c] \in Seq([rec : Recs, at : Nat])
      /\ Len(unread'[c]) = N - 1 /\ DOMAIN unread'[c] = 1 .. N - 1
      /\ \A k \in 1 .. N - 1 : unread'[c][k] = unread[c][k + 1]
  <2> DEFINE X == [rec : Recs, at : Nat]
  <2>1. unread[c] \in Seq(X)
    BY DEF RingInv, LogTypes
  <2> HIDE DEF X
  <2>2. /\ unread'[c] \in Seq(X)
        /\ Len(unread'[c]) = N - 1 /\ DOMAIN unread'[c] = 1 .. N - 1
        /\ \A k \in 1 .. N - 1 : unread'[c][k] = unread[c][k + 1]
    BY <2>1, DropFirst
  <2> QED BY <2>2 DEF X
<1> HIDE DEF N
<1>3. Starts(c)' = 1 .. N /\ Starts(c) = 1 .. N + 1
  <2>1. N - 1 + 1 = N
    BY <1>1
  <2> QED BY <1>2, <2>1 DEF Starts, N
<1>4. \A k \in 1 .. N : NextStart(c, k) = Start(c, k + 1)
  <2> SUFFICES ASSUME NEW k \in 1 .. N PROVE NextStart(c, k) = Start(c, k + 1)
    OBVIOUS
  <2>1. CASE k = N
    <3>1. ~(k <= Len(unread'[c]))
      BY <1>1, <1>2, <2>1
    <3> QED BY <1>1, <2>1, <3>1 DEF NextStart
  <2>2. CASE k # N
    <3>1. k \in 1 .. N - 1 /\ k <= Len(unread'[c]) /\ k + 1 <= Len(unread[c])
      BY <1>1, <1>2, <2>2 DEF N
    <3> QED BY <1>2, <3>1 DEF NextStart, Start
  <2> QED BY <2>1, <2>2
<1>5. /\ ReaderTail(c)' = NextStart(c, 1) /\ data_tail[c] <= ReaderTail(c)'
      /\ data_head'[c] - data_tail'[c] < Size
  <2>1. ReaderTail(c)' = Start(c, 2) /\ Start(c, 2) = NextStart(c, 1)
    <3>1. 1 \in 1 .. N /\ 1 + 1 = 2
      BY <1>1
    <3> QED BY <3>1, <1>4 DEF ReaderTail
  <2>2. data_tail[c] <= Start(c, 2)
    <3>1. 2 \in 1 .. N \/ 2 = N + 1
      BY <1>1
    <3> QED BY <3>1, <1>1
  <2> QED BY <2>1, <2>2 DEF RingInv, Intact
<1>6. \E k \in Starts(c)' : rd'.head = NextStart(c, k)
  <2>1. PICK k \in Starts(c) : rd.head = Start(c, k)
    BY DEF RingInv, Intact
  <2>2. k # 1
    BY <2>1
  <2>3. k - 1 \in 1 .. N /\ (k - 1) + 1 = k
    BY <1>1, <1>3, <2>2
  <2>4. NextStart(c, k - 1) = Start(c, k)
    BY <1>4, <2>3
  <2> QED BY <1>3, <2>1, <2>3, <2>4
<1>7. ASSUME NEW k \in 1 .. N - 1 PROVE Joined(c, k)
  <2>1. /\ k \in 1 .. N /\ k + 1 \in 1 .. N /\ k + 1 \in DOMAIN unread[c]
        /\ unread'[c][k] = unread[c][k + 1]
    BY <1>1, <1>2
  <2>2. NextStart(c, k) = Start(c, k + 1) /\ NextStart(c, k + 1) = Start(c, k + 1 + 1)
    BY <1>4, <2>1
  <2>3. /\ Start(c, k + 1 + 1) = Start(c, k + 1) + unread[c][k + 1].rec.size
        /\ \A n \in 1 .. unread[c][k + 1].rec.size :
             cells[c][(Start(c, k + 1) + n - 1) % Size]
               = [rec |-> unread[c][k + 1].rec, part |-> n]
    BY <2>1 DEF RingInv, Intact
  <2> QED BY <2>1, <2>2, <2>3 DEF Joined
<1>8. ASSUME NEW k \in 1 .. N, NEW l \in 1 .. N, k < l
      PROVE  Behind(c, k, l)
  <2>1. /\ k + 1 \in Starts(c) /\ l + 1 \in Starts(c) /\ k + 1 < l + 1
        /\ unread'[c][k] = unread[c][k + 1]
    BY <1>1, <1>2, <1>3, <1>8
  <2>2. Start(c, k + 1) + unread[c][k + 1].rec.size <= Start(c, l + 1)
    BY <2>1 DEF RingInv, Ordered
  <2> QED BY <1>4, <2>1, <2>2 DEF Behind
<1>9. Intact(c)'
  <2>1. /\ data_tail'[c] <= ReaderTail(c)'
        /\ ReaderTail(c)' = Start(c, 1)'
    BY <1>5 DEF NextStart, Start
  <2>2. \E k \in Starts(c)' : rd'.head = Start(c, k)'
    BY <1>6 DEF NextStart, Start
  <2>3. \A k \in DOMAIN unread'[c] : Joined(c, k)
    BY <1>2, <1>7
  <2> QED BY <1>5, <2>1, <2>2, <2>3 DEF Intact, Joined, NextStart, Start
<1>10. Ordered(c)'
  BY <1>3, <1>8 DEF Ordered, Behind, NextStart, Start
<1> QED BY <1>2, <1>9, <1>10

LEMMA HandOverRing ==
    ASSUME RingInv, NEW ret, HandOver(ret)
    PROVE  RingInv'
<1>1. /\ TailInv' /\ UNCHANGED <<data_tail, data_head, cells, lost, emitted>>
      /\ Reading
      /\ unread' = [unread EXCEPT ![rd.cpu] = SubSeq(unread[rd.cpu], 2, Len(unread[rd.cpu]))]
      /\ rd' = [rd EXCEPT !.tail = rd.tail + EhdrSize, !.ret = ret]
  BY HandOverTail DEF RingInv, HandOver, kvars, LogTypes
<1>2. /\ rd # NoRead /\ rd.head # rd.tail /\ rd' # NoRead
      /\ rd'.cpu = rd.cpu /\ rd'.head = rd.head /\ rd'.tail = rd.tail + EhdrSize
  <2> HIDE DEF EhdrSize
  <2> QED BY <1>1 DEF Reading, RingInv, TailInv, ReaderInv, NoRead
<1> DEFINE X == Seq([rec : Recs, at : Nat])
<1>3. ASSUME NEW c \in Cpus PROVE Intact(c)' /\ Ordered(c)' /\ unread'[c] \in X
  <2>0. unread \in [Cpus -> X]
    BY DEF RingInv, LogTypes
  <2>1. CASE c = rd.cpu
    <3>1. unread'[c] = SubSeq(unread[c], 2, Len(unread[c]))
      <4> HIDE DEF X
      <4> QED BY <1>1, <2>0, <2>1
    <3>2. Len(unread[c]) >= 1 /\ rd.tail = Start(c, 1) /\ rd'.tail = Start(c, 2)
      BY <1>1, <1>2, <2>1, FirstRecord
    <3> QED BY <1>1, <1>2, <2>1, <3>1, <3>2, ShiftedRing
  <2>2. CASE c # rd.cpu
    <3>1. unread'[c] = unread[c]
      <4> HIDE DEF X
      <4> QED BY <1>1, <2>0, <2>2
    <3>2. ReaderTail(c)' = ReaderTail(c)
      BY <1>1, <1>2, <2>2 DEF ReaderTail
    <3>3. Intact(c)' /\ Ordered(c)'
      BY <1>1, <1>2, <2>2, <3>1, <3>2 DEF RingInv, Intact, Ordered, Start, Starts
    <3> QED BY <2>0, <3>1, <3>3
  <2> QED BY <2>1, <2>2
<1>4. LogTypes'
  <2>0. unread \in [Cpus -> X]
    BY DEF RingInv, LogTypes
  <2>1. \A c \in Cpus : unread'[c] \in X
    BY <1>3
  <2>2. unread' \in [Cpus -> X]
    <3> DEFINE v == SubSeq(unread[rd.cpu], 2, Len(unread[rd.cpu]))
    <3>1. unread' = [unread EXCEPT ![rd.cpu] = v]
      BY <1>1
    <3> HIDE DEF X, v
    <3> QED BY <2>0, <2>1, <3>1
  <2> QED BY <1>1, <2>2 DEF RingInv, LogTypes
<1> QED BY <1>1, <1>3, <1>4 DEF RingInv

LEMMA NextRing == RingInv /\ [Next]_vars => RingInv'
<1> SUFFICES ASSUME RingInv, [Next]_vars PROVE RingInv'
  OBVIOUS
<1>1. CASE UNCHANGED rvars
  BY <1>1, QuietRing DEF rvars, kvars
<1>2. ASSUME NEW c \in Cpus, NEW size \in SampleSizes, KernelOutput(c, size)
      PROVE  RingInv'
  BY <1>2, OutputRing
<1>3. CASE Poll \/ Consume \/ \E k \in 1 .. Cardinality(Cpus) : ConsumeBuffer(k)
  BY <1>3, QuietRing DEF Poll, Consume, ConsumeBuffer, kvars
<1>4. CASE StartRead
  BY <1>4, StartReadRing
<1>5. CASE NoCopyBuffer
  BY <1>5, NoCopyBufferRing
<1>6. ASSUME NEW ret, HandOver(ret) PROVE RingInv'
  BY <1>6, HandOverRing
<1>7. CASE WriteTail
  BY <1>7, WriteTailRing
<1>8. CASE UNCHANGED vars
  BY <1>8, <1>1 DEF vars
<1> QED BY <1>1, <1>2, <1>3, <1>4, <1>5, <1>6, <1>7, <1>8 DEF Next, FreeBuffer, Finished

(***************************************************************************)
(* RingIntact of rings of any size, on any CPUs: whatever the kernel       *)
(* writes while the process reads, and wherever a read stops, the units    *)
(* between the reader's tail and data_head are whole records.              *)
(***************************************************************************)
THEOREM RingStaysIntact == Spec => []RingIntact
BY InitRing, NextRing, RingInvIntact, PTL DEF Spec

-----------------------------------------------------------------------------
(***************************************************************************)
(* The ring implements PerfLog.  The records not handed over, without      *)
(* their places in the ring, are what is pending there.                    *)
(***************************************************************************)
Placements == [rec : Recs, at : Nat]
Plains == [kind : {"sample", "lost"}, n : Nat]
PlainOf(us) == [k \in DOMAIN us |-> Plain(us[k].rec)]

LEMMA PlainTypes ==
    ASSUME NEW u \in Placements
    PROVE  u.rec \in Recs /\ Plain(u.rec) \in Plains
BY DEF Placements, Plains, Plain, Recs

LEMMA SameSeq ==
    ASSUME NEW S, NEW s \in Seq(S), NEW t \in Seq(S), Len(s) = Len(t),
           \A k \in 1 .. Len(s) : s[k] = t[k]
    PROVE  s = t
OBVIOUS

LEMMA PlainSeq ==
    ASSUME NEW us \in Seq(Placements)
    PROVE  /\ PlainOf(us) \in Seq(Plains) /\ Len(PlainOf(us)) = Len(us)
           /\ \A k \in 1 .. Len(us) : PlainOf(us)[k] = Plain(us[k].rec)
<1>1. /\ Len(us) \in Nat /\ DOMAIN us = 1 .. Len(us)
      /\ \A k \in 1 .. Len(us) : us[k] \in Placements
  BY SeqFacts
<1>2. PlainOf(us) = [k \in 1 .. Len(us) |-> Plain(us[k].rec)]
  BY <1>1 DEF PlainOf
<1>3. \A k \in 1 .. Len(us) : Plain(us[k].rec) \in Plains
  BY <1>1, PlainTypes
<1> QED BY <1>1, <1>2, <1>3

LEMMA PlainOne ==
    ASSUME NEW us \in Seq(Placements), NEW a \in Placements
    PROVE  PlainOf(us \o <<a>>) = PlainOf(us) \o <<Plain(a.rec)>>
<1> DEFINE s == PlainOf(us \o <<a>>)  t == PlainOf(us)  p == Plain(a.rec)
<1>1. /\ us \o <<a>> \in Seq(Placements) /\ Len(us \o <<a>>) = Len(us) + 1
      /\ \A k \in 1 .. Len(us) : (us \o <<a>>)[k] = us[k]
      /\ (us \o <<a>>)[Len(us) + 1] = a /\ Len(us) \in Nat
  BY AddOne
<1>2. /\ s \in Seq(Plains) /\ Len(s) = Len(us) + 1
      /\ \A k \in 1 .. Len(us) + 1 : s[k] = Plain((us \o <<a>>)[k].rec)
  BY <1>1, PlainSeq
<1>3. /\ t \in Seq(Plains) /\ Len(t) = Len(us) /\ p \in Plains
      /\ \A k \in 1 .. Len(us) : t[k] = Plain(us[k].rec)
  BY PlainSeq, PlainTypes
<1> HIDE DEF s, t
<1>4. \A k \in 1 .. Len(us) : s[k] = t[k]
  BY <1>1, <1>2, <1>3
<1>5. s[Len(us) + 1] = p
  BY <1>1, <1>2
<1> HIDE DEF p
<1>6. /\ t \o <<p>> \in Seq(Plains) /\ Len(t \o <<p>>) = Len(us) + 1
      /\ \A k \in 1 .. Len(us) : (t \o <<p>>)[k] = t[k]
      /\ (t \o <<p>>)[Len(us) + 1] = p
  BY <1>3, AddOne
<1>7. \A k \in 1 .. Len(us) + 1 : k \in 1 .. Len(us) \/ k = Len(us) + 1
  BY <1>1
<1>8. s = t \o <<p>>
  BY <1>2, <1>4, <1>5, <1>6, <1>7, SameSeq
<1> QED BY <1>8 DEF s, t, p

LEMMA PlainTwo ==
    ASSUME NEW us \in Seq(Placements), NEW a \in Placements, NEW b \in Placements
    PROVE  PlainOf(us \o <<a, b>>) = PlainOf(us) \o <<Plain(a.rec)>> \o <<Plain(b.rec)>>
<1> DEFINE s == us \o <<a, b>>  u == us \o <<a>>  t == u \o <<b>>
<1>2. /\ u \in Seq(Placements) /\ Len(u) = Len(us) + 1 /\ Len(us) \in Nat
      /\ \A k \in 1 .. Len(us) : u[k] = us[k]
      /\ u[Len(us) + 1] = a
  BY AddOne
<1>1. us \o <<a, b>> = (us \o <<a>>) \o <<b>>
  <2>1. /\ s \in Seq(Placements) /\ Len(s) = Len(us) + 2
        /\ \A k \in 1 .. Len(us) : s[k] = us[k]
        /\ s[Len(us) + 1] = a /\ s[Len(us) + 2] = b
    BY AddTwo
  <2> HIDE DEF s, u
  <2>2. /\ t \in Seq(Placements) /\ Len(t) = Len(us) + 1 + 1
        /\ \A k \in 1 .. Len(us) + 1 : t[k] = u[k]
        /\ t[Len(us) + 1 + 1] = b
    BY <1>2, AddOne
  <2> HIDE DEF t
  <2>3. ASSUME NEW k \in 1 .. Len(s) PROVE s[k] = t[k]
    <3>1. k \in 1 .. Len(us) \/ k = Len(us) + 1 \/ k = Len(us) + 1 + 1
      BY <1>2, <2>1
    <3>2. Len(us) + 1 + 1 = Len(us) + 2 /\ Len(us) + 1 \in 1 .. Len(us) + 1
      BY <1>2
    <3>3. k \in 1 .. Len(us) => k \in 1 .. Len(us) + 1
      BY <1>2
    <3> QED BY <1>2, <2>1, <2>2, <3>1, <3>2, <3>3
  <2>4. Len(s) = Len(t)
    BY <1>2, <2>1, <2>2
  <2>5. s = t
    BY <2>1, <2>2, <2>3, <2>4, SameSeq
  <2> QED BY <2>5 DEF s, t, u
<1> QED BY <1>1, <1>2, PlainOne

LEMMA PlainDrop ==
    ASSUME NEW us \in Seq(Placements), Len(us) >= 1
    PROVE  /\ PlainOf(us) # <<>> /\ Head(PlainOf(us)) = Plain(us[1].rec)
           /\ PlainOf(SubSeq(us, 2, Len(us))) = Tail(PlainOf(us))
<1> DEFINE d == SubSeq(us, 2, Len(us))  t == PlainOf(us)  s == PlainOf(d)
<1>1. /\ d \in Seq(Placements) /\ Len(d) = Len(us) - 1 /\ Len(us) \in Nat
      /\ \A k \in 1 .. Len(us) - 1 : d[k] = us[k + 1]
  BY DropFirst
<1>2. /\ t \in Seq(Plains) /\ Len(t) = Len(us)
      /\ \A k \in 1 .. Len(us) : t[k] = Plain(us[k].rec)
  BY PlainSeq
<1> HIDE DEF d
<1>3. /\ s \in Seq(Plains) /\ Len(s) = Len(us) - 1
      /\ \A k \in 1 .. Len(us) - 1 : s[k] = Plain(d[k].rec)
  BY <1>1, PlainSeq
<1> HIDE DEF s, t
<1>4. /\ Tail(t) \in Seq(Plains) /\ Len(Tail(t)) = Len(us) - 1
      /\ \A k \in 1 .. Len(us) - 1 : Tail(t)[k] = t[k + 1]
      /\ t # <<>> /\ Head(t) = t[1]
  BY <1>1, <1>2
<1>5. ASSUME NEW k \in 1 .. Len(us) - 1 PROVE s[k] = Tail(t)[k]
  <2>1. k + 1 \in 1 .. Len(us)
    BY <1>1
  <2> QED BY <1>1, <1>2, <1>3, <1>4, <2>1
<1>6. s = Tail(t)
  BY <1>3, <1>4, <1>5, SameSeq
<1>7. 1 \in 1 .. Len(us)
  BY <1>1
<1> QED BY <1>2, <1>4, <1>6, <1>7 DEF s, t, d

LogInv == RingInv /\ delivered \in [Cpus -> Seq(Plains)]

LEMMA InitLog == Init => LogInv /\ Log!LogInit
<1> SUFFICES ASSUME Init PROVE LogInv /\ Log!LogInit
  OBVIOUS
<1>1. RingInv
  BY InitRing
<1>2. delivered \in [Cpus -> Seq(Plains)]
  BY DEF Init
<1>3. [c \in Cpus |-> [k \in DOMAIN unread[c] |-> Plain(unread[c][k].rec)]]
        = [c \in Cpus |-> <<>>]
  <2>1. \A c \in Cpus : [k \in DOMAIN unread[c] |-> Plain(unread[c][k].rec)] = <<>>
    BY DEF Init
  <2> QED BY <2>1
<1> QED BY <1>1, <1>2, <1>3 DEF LogInv, Log!LogInit, Init

\* Steps that neither write a record nor hand one over.
LEMMA QuietLog ==
    ASSUME LogInv, RingInv', UNCHANGED <<unread, lost, emitted, delivered>>
    PROVE  LogInv' /\ UNCHANGED Log!lvars
BY DEF LogInv, Log!lvars

Pending == [c \in Cpus |-> PlainOf(unread[c])]

LEMMA OutputLog ==
    ASSUME LogInv, NEW c \in Cpus, NEW size \in SampleSizes, KernelOutput(c, size)
    PROVE  LogInv' /\ (Log!LogEmit(c) \/ Log!LogDrop(c))
<1>1. LogInv' /\ UNCHANGED delivered
  BY OutputRing, OutputFacts DEF LogInv, RingInv, TailInv
<1>2. /\ Wrote(c, size) \/ Dropped(c)
      /\ emitted' = [emitted EXCEPT ![c] = emitted[c] + 1]
  BY OutputFacts DEF LogInv, RingInv, TailInv
<1>3. CASE Dropped(c)
  BY <1>1, <1>2, <1>3 DEF Dropped, Log!LogDrop
<1>4. CASE Wrote(c, size)
  <2> DEFINE X == Seq(Placements)
             us == unread[c]
             more == IF lost[c] = 0 THEN <<>> ELSE <<Log!LostRecord(lost[c])>>
             last == <<Log!Sample(emitted[c] + 1)>>
  <2>1. unread \in [Cpus -> X]
    BY DEF LogInv, RingInv, LogTypes, Placements
  <2>2. unread' = [unread EXCEPT ![c] = us \o Placed(Loss(c), Sample(c, size), data_head[c])]
    BY <1>4 DEF Wrote
  <2>3. PlainOf(us \o Placed(Loss(c), Sample(c, size), data_head[c])) = PlainOf(us) \o more \o last
    <3>1. /\ us \in Seq(Placements)
          /\ [rec |-> Sample(c, size), at |-> data_head[c]] \in Placements
          /\ [rec |-> Loss(c), at |-> data_head[c]] \in Placements
          /\ [rec |-> Sample(c, size), at |-> data_head[c] + LostSize] \in Placements
          /\ Placed(Loss(c), Sample(c, size), data_head[c]) =
                IF lost[c] = 0 THEN <<[rec |-> Sample(c, size), at |-> data_head[c]]>>
                ELSE <<[rec |-> Loss(c), at |-> data_head[c]],
                       [rec |-> Sample(c, size), at |-> data_head[c] + LostSize]>>
      BY NewTypes DEF LogInv, Placements
    <3>2. /\ Plain(Sample(c, size)) = Log!Sample(emitted[c] + 1)
          /\ Plain(Loss(c)) = Log!LostRecord(lost[c])
      BY DEF Plain, Sample, Loss, Record, Log!Sample, Log!LostRecord
    <3>3. PlainOf(us) \in Seq(Plains)
      BY <3>1, PlainSeq
    <3> HIDE DEF us
    <3>4. CASE lost[c] = 0
      <4> DEFINE a == [rec |-> Sample(c, size), at |-> data_head[c]]
      <4>1. a \in Placements /\ a.rec = Sample(c, size)
        BY <3>1
      <4>2. Placed(Loss(c), Sample(c, size), data_head[c]) = <<a>>
        BY <3>1, <3>4
      <4> HIDE DEF a
      <4>3. PlainOf(us \o <<a>>) = PlainOf(us) \o last
        BY <3>1, <3>2, <4>1, PlainOne, ZenonT(80)
      <4>4. PlainOf(us) \o <<>> = PlainOf(us) /\ more = <<>>
        BY <3>3, <3>4
      <4> QED BY <4>2, <4>3, <4>4
    <3>5. CASE lost[c] # 0
      <4> DEFINE a == [rec |-> Loss(c), at |-> data_head[c]]
                 b == [rec |-> Sample(c, size), at |-> data_head[c] + LostSize]
      <4>1. a \in Placements /\ b \in Placements /\ a.rec = Loss(c) /\ b.rec = Sample(c, size)
        BY <3>1
      <4>2. Placed(Loss(c), Sample(c, size), data_head[c]) = <<a, b>>
        BY <3>1, <3>5
      <4> HIDE DEF a, b
      <4>3. PlainOf(us \o <<a, b>>) = PlainOf(us) \o <<Plain(a.rec)>> \o <<Plain(b.rec)>>
        BY <3>1, <4>1, PlainTwo
      <4>4. <<Plain(a.rec)>> = more /\ <<Plain(b.rec)>> = last
        BY <3>2, <3>5, <4>1
      <4> QED BY <4>2, <4>3, <4>4
    <3> QED BY <3>4, <3>5
  <2>4. Pending' = [Pending EXCEPT ![c] = PlainOf(us) \o more \o last]
    <3> HIDE DEF X, more, last
    <3> DEFINE v == us \o Placed(Loss(c), Sample(c, size), data_head[c])
               w == PlainOf(us) \o more \o last
    <3>1. unread' = [unread EXCEPT ![c] = v] /\ PlainOf(v) = w
      BY <2>2, <2>3
    <3> HIDE DEF v, w
    <3>2. \A d \in Cpus : unread'[d] = IF d = c THEN v ELSE unread[d]
      BY <2>1, <3>1
    <3>3. Pending' = [d \in Cpus |-> IF d = c THEN w ELSE PlainOf(unread[d])]
      BY <3>1, <3>2 DEF Pending
    <3>4. Pending' = [Pending EXCEPT ![c] = w]
      BY <3>3 DEF Pending
    <3> QED BY <3>4 DEF w
  <2>5. Pending[c] = PlainOf(us)
    BY DEF Pending
  <2>6. Pending' = [Pending EXCEPT ![c] = Pending[c] \o more \o last]
    BY <2>4, <2>5
  <2>7. lost' = [lost EXCEPT ![c] = 0]
    BY <1>4 DEF Wrote
  <2> HIDE DEF us
  <2>8. Log!LogEmit(c)
    BY <1>1, <1>2, <2>6, <2>7 DEF Log!LogEmit, Pending, PlainOf
  <2> QED BY <1>1, <2>8
<1> QED BY <1>1, <1>2, <1>3, <1>4

LEMMA HandOverLog ==
    ASSUME LogInv, NEW ret, HandOver(ret)
    PROVE  LogInv' /\ [Log!LogNext]_(Log!lvars)
<1> DEFINE c == rd.cpu  X == Seq(Placements)  Y == Seq(Plains)
           v == SubSeq(unread[c], 2, Len(unread[c]))
           p == AsRecord(Assembled)
<1>1. /\ UNCHANGED <<lost, emitted>> /\ Reading
      /\ unread' = [unread EXCEPT ![c] = v]
      /\ delivered' = [delivered EXCEPT ![c] = Append(delivered[c], p)]
  BY DEF HandOver, kvars
<1>2. RingInv'
  BY HandOverRing DEF LogInv
<1>3. unread \in [Cpus -> X] /\ delivered \in [Cpus -> Y]
  BY DEF LogInv, RingInv, LogTypes, Placements
<1> HIDE DEF X, Y, v, p
<1>4. CASE c \notin Cpus
  <2>1. unread' = unread /\ delivered' = delivered
    BY <1>1, <1>3, <1>4
  <2> QED BY <1>1, <1>2, <2>1, QuietLog
<1>5. CASE c \in Cpus
  <2> DEFINE us == unread[c]
  <2>1. us \in Seq(Placements) /\ Len(us) >= 1 /\ p = Plain(us[1].rec)
    BY <1>1, <1>3, <1>5, FirstRecord DEF LogInv, X, p
  <2>2. /\ PlainOf(us) # <<>> /\ Head(PlainOf(us)) = p /\ PlainOf(v) = Tail(PlainOf(us))
        /\ PlainOf(us) \in Y
    BY <2>1, PlainDrop, PlainSeq DEF v, Y
  <2>3. p \in Plains
    <3>1. us[1] \in Placements
      BY <2>1
    <3> QED BY <2>1, <3>1, PlainTypes
  <2> HIDE DEF c, us
  <2>4. Pending' = [Pending EXCEPT ![c] = Tail(Pending[c])] /\ Pending[c] = PlainOf(us)
    <3>1. \A d \in Cpus : unread'[d] = IF d = c THEN v ELSE unread[d]
      BY <1>1, <1>3
    <3>2. Pending[c] = PlainOf(us)
      BY <1>5 DEF Pending, us
    <3> DEFINE w == Tail(PlainOf(us))
    <3>3. PlainOf(v) = w
      BY <2>2
    <3> HIDE DEF w
    <3>4. Pending' = [d \in Cpus |-> IF d = c THEN w ELSE PlainOf(unread[d])]
      BY <3>1, <3>3 DEF Pending
    <3>5. Pending' = [Pending EXCEPT ![c] = w]
      BY <3>4 DEF Pending
    <3> QED BY <3>2, <3>5 DEF w
  <2>5. delivered' = [delivered EXCEPT ![c] = Append(delivered[c], Head(Pending[c]))]
    BY <1>1, <2>2, <2>4
  <2>6. ASSUME NEW d \in Cpus, d = c
        PROVE  Log!LogNext
    <3>1. Log!LogDeliver(d)
      BY <1>1, <2>2, <2>4, <2>5, <2>6 DEF Log!LogDeliver, Pending, PlainOf
    <3> QED BY <3>1 DEF Log!LogNext
  <2>7. delivered' \in [Cpus -> Y]
    <3>1. Append(delivered[c], p) \in Y
      BY <1>3, <1>5, <2>3 DEF Y
    <3> QED BY <1>1, <1>3, <3>1
  <2>8. LogInv'
    BY <1>2, <2>7 DEF LogInv, Y
  <2>9. Log!LogNext
    BY <1>5, <2>6 DEF Log!LogNext
  <2> QED BY <2>8, <2>9
<1> QED BY <1>4, <1>5

LEMMA NextLog == LogInv /\ [Next]_vars => LogInv' /\ [Log!LogNext]_(Log!lvars)
<1> SUFFICES ASSUME LogInv, [Next]_vars PROVE LogInv' /\ [Log!LogNext]_(Log!lvars)
  OBVIOUS
<1>0. RingInv'
  BY NextRing DEF LogInv
<1>1. CASE UNCHANGED <<unread, lost, emitted, delivered>>
  BY <1>0, <1>1, QuietLog
<1>2. ASSUME NEW c \in Cpus, NEW size \in SampleSizes, KernelOutput(c, size)
      PROVE  LogInv' /\ [Log!LogNext]_(Log!lvars)
  BY <1>2, OutputLog DEF Log!LogNext
<1>3. CASE Poll \/ Consume \/ \E k \in 1 .. Cardinality(Cpus) : ConsumeBuffer(k)
  BY <1>1, <1>3 DEF Poll, Consume, ConsumeBuffer, kvars
<1>4. CASE StartRead \/ NoCopyBuffer \/ WriteTail
  BY <1>1, <1>4 DEF StartRead, NoCopyBuffer, WriteTail, kvars
<1>5. ASSUME NEW ret, HandOver(ret) PROVE LogInv' /\ [Log!LogNext]_(Log!lvars)
  BY <1>5, HandOverLog
<1>6. CASE UNCHANGED rvars
  BY <1>1, <1>6 DEF rvars, kvars
<1>7. CASE UNCHANGED vars
  BY <1>6, <1>7 DEF vars
<1> QED BY <1>2, <1>3, <1>4, <1>5, <1>6, <1>7 DEF Next, FreeBuffer, Finished

(***************************************************************************)
(* ImplementsLog of rings of any size, on any CPUs: every step of the      *)
(* kernel and of the reader is a step of PerfLog or leaves it alone, so    *)
(* samples arrive in order, each once, and losses are reported where they  *)
(* happened.                                                               *)
(***************************************************************************)
THEOREM RingImplementsLog == Spec => ImplementsLog
<1>1. LogInv /\ [Next]_vars => LogInv' /\ [Log!LogNext]_(Log!lvars)
  BY NextLog
<1> QED BY <1>1, InitLog, PTL DEF Spec, ImplementsLog, Log!LogSpec

-----------------------------------------------------------------------------
(***************************************************************************)
(* Losses and samples.  Of a CPU, all records written so far are those     *)
(* handed over and those still in the ring; they chain up, a sample is the *)
(* last of them, and together with the samples dropped since they account  *)
(* for all samples emitted.                                                *)
(***************************************************************************)
Chained(s) ==
    \A x \in 1 .. Len(s) :
      /\ s[x].kind = "sample" => s[x].n = SeenAt(s, x - 1) + 1
      /\ s[x].kind = "lost" => (x > 1 => s[x - 1].kind = "sample")

EndsInSample(s) == Len(s) > 0 => s[Len(s)].kind = "sample"

All(c) == delivered[c] \o Pending[c]

GapInv ==
    \A c \in Cpus :
      /\ Chained(All(c)) /\ EndsInSample(All(c))
      /\ emitted[c] = SeenAt(All(c), Len(All(c))) + lost[c]

LEMMA SeenPrefix ==
    ASSUME NEW s \in Seq(Plains), NEW t \in Seq(Plains),
           \A k \in 1 .. Len(s) : t[k] = s[k], NEW x \in 0 .. Len(s)
    PROVE  SeenAt(t, x) = SeenAt(s, x) /\ SeenAt(s, x) \in Nat
<1>1. Len(s) \in Nat /\ \A k \in 1 .. Len(s) : s[k].n \in Nat
  <2>1. Len(s) \in Nat /\ \A k \in 1 .. Len(s) : s[k] \in Plains
    BY SeqFacts
  <2>2. \A p \in Plains : p.n \in Nat
    BY DEF Plains
  <2> QED BY <2>1, <2>2
<1>2. CASE x = 0
  BY <1>2 DEF SeenAt
<1>3. CASE x = 1
  <2>1. x \in 1 .. Len(s)
    BY <1>1, <1>3
  <2> QED BY <1>1, <1>3, <2>1 DEF SeenAt
<1>4. CASE x > 1
  <2>1. x \in 1 .. Len(s) /\ x - 1 \in 1 .. Len(s) /\ x # 0 /\ x # 1
    BY <1>1, <1>4
  <2>2. t[x] = s[x] /\ t[x - 1] = s[x - 1] /\ s[x].n \in Nat /\ s[x - 1].n \in Nat
    BY <1>1, <2>1
  <2>3. s[x].n + s[x - 1].n \in Nat
    BY <2>2, SMTT(40)
  <2> QED BY <2>1, <2>2, <2>3 DEF SeenAt
<1> QED BY <1>1, <1>2, <1>3, <1>4

\* A sample that follows all that was emitted before it.
LEMMA ChainSample ==
    ASSUME NEW s \in Seq(Plains), NEW p \in Plains, Chained(s), EndsInSample(s),
           p.kind = "sample", p.n = SeenAt(s, Len(s)) + 1
    PROVE  LET t == s \o <<p>>
           IN  Chained(t) /\ EndsInSample(t) /\ SeenAt(t, Len(t)) = p.n
<1> DEFINE t == s \o <<p>>
<1>1. /\ t \in Seq(Plains) /\ Len(t) = Len(s) + 1 /\ Len(s) \in Nat
      /\ \A k \in 1 .. Len(s) : t[k] = s[k]
      /\ t[Len(s) + 1] = p
  BY AddOne
<1> HIDE DEF t
<1>2. \A x \in 0 .. Len(s) : SeenAt(t, x) = SeenAt(s, x)
  BY <1>1, SeenPrefix
<1>3. ASSUME NEW x \in 1 .. Len(t)
      PROVE  /\ t[x].kind = "sample" => t[x].n = SeenAt(t, x - 1) + 1
             /\ t[x].kind = "lost" => (x > 1 => t[x - 1].kind = "sample")
  <2>1. CASE x = Len(s) + 1
    <3>1. t[x] = p /\ x - 1 = Len(s) /\ Len(s) \in 0 .. Len(s)
      BY <1>1, <2>1
    <3> QED BY <1>2, <3>1
  <2>2. CASE x # Len(s) + 1
    <3>1. x \in 1 .. Len(s) /\ x - 1 \in 0 .. Len(s) /\ t[x] = s[x]
      BY <1>1, <2>2
    <3>2. /\ s[x].kind = "sample" => s[x].n = SeenAt(s, x - 1) + 1
          /\ s[x].kind = "lost" => (x > 1 => s[x - 1].kind = "sample")
      BY <3>1 DEF Chained
    <3>3. x > 1 => x - 1 \in 1 .. Len(s)
      BY <3>1
    <3> QED BY <1>1, <1>2, <3>1, <3>2, <3>3
  <2> QED BY <2>1, <2>2
<1>4. Chained(t)
  BY <1>3 DEF Chained
<1>5. EndsInSample(t)
  BY <1>1 DEF EndsInSample
<1>6. SeenAt(t, Len(t)) = p.n
  <2>1. Len(t) # 0 /\ t[Len(t)] = p
    BY <1>1
  <2> QED BY <2>1 DEF SeenAt
<1> QED BY <1>4, <1>5, <1>6 DEF t

\* A loss, and the sample behind it.
LEMMA ChainLoss ==
    ASSUME NEW s \in Seq(Plains), NEW l \in Plains, NEW p \in Plains,
           Chained(s), EndsInSample(s),
           l.kind = "lost", p.kind = "sample", p.n = SeenAt(s, Len(s)) + l.n + 1
    PROVE  LET t == s \o <<l>> \o <<p>>
           IN  Chained(t) /\ EndsInSample(t) /\ SeenAt(t, Len(t)) = p.n
<1> DEFINE u == s \o <<l>>  t == u \o <<p>>  N == Len(s)
<1>1. /\ u \in Seq(Plains) /\ Len(u) = N + 1 /\ N \in Nat
      /\ \A k \in 1 .. N : u[k] = s[k]
      /\ u[N + 1] = l
  BY AddOne
<1> HIDE DEF u
<1>2. /\ t \in Seq(Plains) /\ Len(t) = N + 1 + 1
      /\ \A k \in 1 .. N + 1 : t[k] = u[k]
      /\ t[N + 1 + 1] = p
  BY <1>1, AddOne
<1> HIDE DEF t, N
<1>3. /\ Len(t) = N + 2 /\ t[N + 2] = p /\ t[N + 1] = l /\ N + 2 # 0
      /\ \A k \in 1 .. N : t[k] = s[k]
  <2>1. N + 1 + 1 = N + 2 /\ N + 1 \in 1 .. N + 1 /\ N + 2 # 0
        /\ \A k \in 1 .. N : k \in 1 .. N + 1
    BY <1>1
  <2> QED BY <1>1, <1>2, <2>1
<1>4. \A x \in 0 .. N : SeenAt(t, x) = SeenAt(s, x) /\ SeenAt(s, x) \in Nat
  BY <1>2, <1>3, SeenPrefix DEF N
<1>5. l.n \in Nat
  BY DEF Plains
<1>6. N > 0 => t[N].kind = "sample" /\ SeenAt(s, N) = t[N].n
  <2> SUFFICES ASSUME N > 0 PROVE t[N].kind = "sample" /\ SeenAt(s, N) = t[N].n
    OBVIOUS
  <2>1. N \in 1 .. N /\ N # 0
    BY <1>1
  <2>2. t[N] = s[N] /\ s[N].kind = "sample"
    BY <1>3, <2>1 DEF EndsInSample, N
  <2> QED BY <2>1, <2>2 DEF SeenAt
<1>7. SeenAt(t, N + 1) = SeenAt(s, N) + l.n
  <2>1. N + 1 # 0 /\ (N + 1 = 1 <=> N = 0) /\ (N + 1) - 1 = N /\ l.kind # "sample"
    BY <1>1
  <2>2. SeenAt(t, N + 1) = l.n + (IF N = 0 THEN 0 ELSE t[N].n)
    BY <1>3, <2>1 DEF SeenAt
  <2>3. CASE N = 0
    BY <1>5, <2>2, <2>3 DEF SeenAt
  <2>4. CASE N # 0
    <3>1. SeenAt(s, N) = t[N].n /\ SeenAt(s, N) \in Nat
      BY <1>1, <1>4, <1>6, <2>4
    <3> QED BY <1>5, <2>2, <2>4, <3>1
  <2> QED BY <2>3, <2>4
<1>8. ASSUME NEW x \in 1 .. Len(t)
      PROVE  /\ t[x].kind = "sample" => t[x].n = SeenAt(t, x - 1) + 1
             /\ t[x].kind = "lost" => (x > 1 => t[x - 1].kind = "sample")
  <2>1. CASE x = N + 2
    <3>1. x - 1 = N + 1 /\ t[x] = p
      BY <1>1, <1>3, <2>1
    <3>2. p.n = SeenAt(t, N + 1) + 1
      BY <1>7 DEF N
    <3> QED BY <3>1, <3>2
  <2>2. CASE x = N + 1
    <3>1. x - 1 = N /\ t[x] = l /\ (x > 1 => N > 0)
      BY <1>1, <1>3, <2>2
    <3> QED BY <1>6, <3>1
  <2>3. CASE x # N + 1 /\ x # N + 2
    <3>1. x \in 1 .. N /\ x - 1 \in 0 .. N /\ t[x] = s[x]
      BY <1>1, <1>3, <2>3
    <3>2. /\ s[x].kind = "sample" => s[x].n = SeenAt(s, x - 1) + 1
          /\ s[x].kind = "lost" => (x > 1 => s[x - 1].kind = "sample")
      BY <3>1 DEF Chained, N
    <3>3. x > 1 => x - 1 \in 1 .. N
      BY <3>1
    <3> QED BY <1>3, <1>4, <3>1, <3>2, <3>3
  <2> QED BY <2>1, <2>2, <2>3
<1>9. Chained(t)
  BY <1>8 DEF Chained
<1>10. EndsInSample(t)
  BY <1>3 DEF EndsInSample
<1>11. SeenAt(t, Len(t)) = p.n
  BY <1>3 DEF SeenAt
<1> QED BY <1>9, <1>10, <1>11 DEF t, u

LEMMA AllTypes ==
    ASSUME LogInv, NEW c \in Cpus
    PROVE  /\ delivered[c] \in Seq(Plains) /\ Pending[c] \in Seq(Plains)
           /\ All(c) \in Seq(Plains) /\ emitted[c] \in Nat /\ lost[c] \in Nat
<1>1. unread[c] \in Seq(Placements) /\ delivered[c] \in Seq(Plains)
  BY DEF LogInv, RingInv, LogTypes, Placements
<1>2. Pending[c] \in Seq(Plains)
  BY <1>1, PlainSeq DEF Pending
<1>3. emitted[c] \in Nat /\ lost[c] \in Nat
  BY DEF LogInv, RingInv, LogTypes
<1> QED BY <1>1, <1>2, <1>3 DEF All

LEMMA Regroup ==
    ASSUME NEW S, NEW s \in Seq(S), NEW t \in Seq(S), NEW a \in S, NEW b \in S
    PROVE  /\ s \o (t \o <<>> \o <<a>>) = (s \o t) \o <<a>>
           /\ s \o (t \o <<b>> \o <<a>>) = (s \o t) \o <<b>> \o <<a>>
<1>1. /\ s \o t \in Seq(S) /\ t \o <<a>> \in Seq(S) /\ t \o <<b>> \in Seq(S)
      /\ t \o <<>> = t
  OBVIOUS
<1>2. ASSUME NEW u \in Seq(S), NEW v \in Seq(S), NEW x \in S
      PROVE  u \o (v \o <<x>>) = (u \o v) \o <<x>>
  <2> DEFINE f == u \o (v \o <<x>>)  g == (u \o v) \o <<x>>
  <2>1. f \in Seq(S) /\ g \in Seq(S) /\ Len(f) = Len(g)
    OBVIOUS
  <2>2. \A k \in 1 .. Len(f) : f[k] = g[k]
    OBVIOUS
  <2> HIDE DEF f, g
  <2>3. f = g
    BY <2>1, <2>2, SameSeq
  <2> QED BY <2>3 DEF f, g
<1>3. s \o ((t \o <<b>>) \o <<a>>) = (s \o (t \o <<b>>)) \o <<a>>
  BY <1>1, <1>2
<1>4. s \o (t \o <<b>>) = (s \o t) \o <<b>>
  BY <1>2
<1>5. s \o (t \o <<a>>) = (s \o t) \o <<a>>
  BY <1>2
<1> QED BY <1>1, <1>3, <1>4, <1>5

LEMMA Moved ==
    ASSUME NEW S, NEW s \in Seq(S), NEW t \in Seq(S), t # <<>>
    PROVE  Append(s, Head(t)) \o Tail(t) = s \o t
<1> DEFINE f == Append(s, Head(t)) \o Tail(t)  g == s \o t
<1>1. f \in Seq(S) /\ g \in Seq(S) /\ Len(f) = Len(g)
  OBVIOUS
<1>2. \A k \in 1 .. Len(f) : f[k] = g[k]
  OBVIOUS
<1> HIDE DEF f, g
<1>3. f = g
  BY <1>1, <1>2, SameSeq
<1> QED BY <1>3 DEF f, g

LEMMA EmitGap ==
    ASSUME LogInv, LogInv', GapInv, NEW c \in Cpus, Log!LogEmit(c)
    PROVE  GapInv'
<1> DEFINE more == IF lost[c] = 0 THEN <<>> ELSE <<Log!LostRecord(lost[c])>>
           last == <<Log!Sample(emitted[c] + 1)>>
<1>1. /\ emitted' = [emitted EXCEPT ![c] = emitted[c] + 1]
      /\ lost' = [lost EXCEPT ![c] = 0] /\ delivered' = delivered
      /\ Pending' = [Pending EXCEPT ![c] = Pending[c] \o more \o last]
  BY DEF Log!LogEmit, Pending, PlainOf
<1>2. /\ delivered[c] \in Seq(Plains) /\ Pending[c] \in Seq(Plains)
      /\ All(c) \in Seq(Plains) /\ emitted[c] \in Nat /\ lost[c] \in Nat
  BY AllTypes
<1>3. /\ emitted'[c] = emitted[c] + 1 /\ lost'[c] = 0
      /\ \A d \in Cpus : d # c => emitted'[d] = emitted[d] /\ lost'[d] = lost[d]
  BY <1>1 DEF LogInv, RingInv, LogTypes
<1>4. /\ All(c)' = delivered[c] \o (Pending[c] \o more \o last)
      /\ \A d \in Cpus : d # c => delivered'[d] \o Pending'[d] = All(d)
  <2> DEFINE v == Pending[c] \o more \o last
  <2> HIDE DEF v
  <2>1. Pending' = [Pending EXCEPT ![c] = v] /\ DOMAIN Pending = Cpus
    BY <1>1 DEF Pending, v
  <2>2. Pending'[c] = v /\ \A d \in Cpus : d # c => Pending'[d] = Pending[d]
    BY <2>1
  <2> QED BY <1>1, <2>2 DEF All, v
<1> DEFINE p == Log!Sample(emitted[c] + 1)  l == Log!LostRecord(lost[c])
<1>5. /\ p \in Plains /\ p.kind = "sample" /\ p.n = emitted[c] + 1
      /\ l \in Plains /\ l.kind = "lost" /\ l.n = lost[c]
  BY <1>2 DEF Log!Sample, Log!LostRecord, Plains
<1> HIDE DEF p, l
<1>0. ASSUME NEW s \in Seq(Plains), NEW t \in Seq(Plains)
      PROVE  /\ s \o (t \o <<>> \o <<p>>) = (s \o t) \o <<p>>
             /\ s \o (t \o <<l>> \o <<p>>) = (s \o t) \o <<l>> \o <<p>>
  BY <1>5, Regroup, SMTT(40)
<1>6. /\ Chained(All(c)) /\ EndsInSample(All(c))
      /\ emitted[c] = SeenAt(All(c), Len(All(c))) + lost[c]
      /\ SeenAt(All(c), Len(All(c))) \in Nat
  <2>1. Len(All(c)) \in 0 .. Len(All(c))
    BY <1>2
  <2> QED BY <1>2, <2>1, SeenPrefix DEF GapInv
<1>7. /\ Chained(All(c))' /\ EndsInSample(All(c))'
      /\ SeenAt(All(c), Len(All(c)))' = emitted[c] + 1
  <2>1. CASE lost[c] = 0
    <3>1. All(c)' = All(c) \o <<p>>
      <4>1. All(c)' = delivered[c] \o (Pending[c] \o <<>> \o <<p>>)
        BY <1>4, <2>1 DEF p
      <4>2. delivered[c] \o (Pending[c] \o <<>> \o <<p>>) = (delivered[c] \o Pending[c]) \o <<p>>
        BY <1>0, <1>2
      <4> QED BY <4>1, <4>2 DEF All
    <3>2. p.n = SeenAt(All(c), Len(All(c))) + 1
      BY <1>5, <1>6, <2>1
    <3> DEFINE t == All(c) \o <<p>>
    <3>3. Chained(t) /\ EndsInSample(t) /\ SeenAt(t, Len(t)) = p.n
      BY <1>2, <1>5, <1>6, <3>2, ChainSample
    <3> HIDE DEF t
    <3>4. All(c)' = t
      BY <3>1 DEF t
    <3> QED BY <1>5, <3>3, <3>4
  <2>2. CASE lost[c] # 0
    <3>1. All(c)' = All(c) \o <<l>> \o <<p>>
      <4>1. All(c)' = delivered[c] \o (Pending[c] \o <<l>> \o <<p>>)
        BY <1>4, <2>2 DEF p, l
      <4>2. delivered[c] \o (Pending[c] \o <<l>> \o <<p>>)
              = (delivered[c] \o Pending[c]) \o <<l>> \o <<p>>
        BY <1>0, <1>2
      <4> QED BY <4>1, <4>2 DEF All
    <3>2. p.n = SeenAt(All(c), Len(All(c))) + l.n + 1
      BY <1>2, <1>5, <1>6
    <3> DEFINE t == All(c) \o <<l>> \o <<p>>
    <3>3. Chained(t) /\ EndsInSample(t) /\ SeenAt(t, Len(t)) = p.n
      BY <1>2, <1>5, <1>6, <3>2, ChainLoss
    <3> HIDE DEF t
    <3>4. All(c)' = t
      BY <3>1 DEF t
    <3> QED BY <1>5, <3>3, <3>4
  <2> QED BY <2>1, <2>2
<1>8. ASSUME NEW d \in Cpus
      PROVE  /\ Chained(All(d)') /\ EndsInSample(All(d)')
             /\ emitted'[d] = SeenAt(All(d)', Len(All(d)')) + lost'[d]
  <2>1. CASE d = c
    <3>1. emitted[c] + 1 = (emitted[c] + 1) + 0
      BY <1>2
    <3> QED BY <1>3, <1>7, <2>1, <3>1
  <2>2. CASE d # c
    <3>1. All(d)' = All(d)
      BY <1>4, <2>2 DEF All
    <3> QED BY <1>3, <2>2, <3>1 DEF GapInv
  <2> QED BY <2>1, <2>2
<1> QED BY <1>8 DEF GapInv

LEMMA DropGap ==
    ASSUME LogInv, GapInv, NEW c \in Cpus, Log!LogDrop(c)
    PROVE  GapInv'
<1>1. /\ emitted' = [emitted EXCEPT ![c] = emitted[c] + 1]
      /\ lost' = [lost EXCEPT ![c] = lost[c] + 1]
      /\ delivered' = delivered /\ Pending' = Pending
  BY DEF Log!LogDrop, Pending, PlainOf
<1>2. ASSUME NEW d \in Cpus
      PROVE  /\ Chained(All(d)') /\ EndsInSample(All(d)')
             /\ emitted'[d] = SeenAt(All(d)', Len(All(d)')) + lost'[d]
  <2>1. All(d)' = All(d)
    BY <1>1 DEF All
  <2> DEFINE x == SeenAt(All(d), Len(All(d)))
  <2>2. x \in Nat /\ lost[d] \in Nat /\ emitted[d] = x + lost[d]
    <3>1. All(d) \in Seq(Plains) /\ lost[d] \in Nat
      BY AllTypes
    <3>2. Len(All(d)) \in 0 .. Len(All(d))
      BY <3>1
    <3> QED BY <3>1, <3>2, SeenPrefix DEF GapInv
  <2>3. \/ emitted'[d] = emitted[d] + 1 /\ lost'[d] = lost[d] + 1
        \/ emitted'[d] = emitted[d] /\ lost'[d] = lost[d]
    BY <1>1 DEF LogInv, RingInv, LogTypes
  <2> HIDE DEF x
  <2>4. emitted'[d] = x + lost'[d]
    BY <2>2, <2>3
  <2> QED BY <2>1, <2>4 DEF GapInv, x
<1> QED BY <1>2 DEF GapInv

LEMMA DeliverGap ==
    ASSUME LogInv, GapInv, NEW c \in Cpus, Log!LogDeliver(c)
    PROVE  GapInv'
<1>1. /\ Pending[c] # <<>> /\ emitted' = emitted /\ lost' = lost
      /\ delivered' = [delivered EXCEPT ![c] = Append(delivered[c], Head(Pending[c]))]
      /\ Pending' = [Pending EXCEPT ![c] = Tail(Pending[c])]
  BY DEF Log!LogDeliver, Pending, PlainOf
<1>2. delivered[c] \in Seq(Plains) /\ Pending[c] \in Seq(Plains)
  BY AllTypes
<1>3. Append(delivered[c], Head(Pending[c])) \o Tail(Pending[c]) = delivered[c] \o Pending[c]
  BY <1>1, <1>2, Moved
<1>4. ASSUME NEW d \in Cpus PROVE All(d)' = All(d)
  <2> DEFINE v == Append(delivered[c], Head(Pending[c]))  w == Tail(Pending[c])
             S == Seq(Plains)
  <2>1. /\ delivered' = [delivered EXCEPT ![c] = v] /\ Pending' = [Pending EXCEPT ![c] = w]
        /\ v \o w = delivered[c] \o Pending[c]
        /\ delivered \in [Cpus -> S] /\ DOMAIN Pending = Cpus
    BY <1>1, <1>3 DEF LogInv, Pending
  <2> HIDE DEF v, w, S
  <2>2. d = c => delivered'[d] = v /\ Pending'[d] = w
    BY <2>1
  <2>3. d # c => delivered'[d] = delivered[d] /\ Pending'[d] = Pending[d]
    BY <2>1
  <2> QED BY <2>1, <2>2, <2>3 DEF All
<1>5. ASSUME NEW d \in Cpus
      PROVE  /\ Chained(All(d)') /\ EndsInSample(All(d)')
             /\ emitted'[d] = SeenAt(All(d)', Len(All(d)')) + lost'[d]
  BY <1>1, <1>4 DEF GapInv
<1> QED BY <1>5 DEF GapInv

LEMMA NextGap == LogInv /\ GapInv /\ [Next]_vars => GapInv'
<1> SUFFICES ASSUME LogInv, GapInv, [Next]_vars PROVE GapInv'
  OBVIOUS
<1>1. LogInv' /\ [Log!LogNext]_(Log!lvars)
  BY NextLog
<1>2. CASE UNCHANGED Log!lvars
  <2>1. emitted' = emitted /\ lost' = lost /\ delivered' = delivered /\ Pending' = Pending
    BY <1>2 DEF Log!lvars, Pending, PlainOf
  <2>2. \A c \in Cpus : All(c)' = All(c)
    BY <2>1 DEF All
  <2> QED BY <2>1, <2>2 DEF GapInv
<1>3. ASSUME NEW c \in Cpus, Log!LogEmit(c) PROVE GapInv'
  BY <1>1, <1>3, EmitGap
<1>4. ASSUME NEW c \in Cpus, Log!LogDrop(c) PROVE GapInv'
  BY <1>4, DropGap
<1>5. ASSUME NEW c \in Cpus, Log!LogDeliver(c) PROVE GapInv'
  BY <1>5, DeliverGap
<1> QED BY <1>1, <1>2, <1>3, <1>4, <1>5 DEF Log!LogNext

LEMMA InitGap == Init => GapInv
<1> SUFFICES ASSUME Init, NEW c \in Cpus
             PROVE  /\ Chained(All(c)) /\ EndsInSample(All(c))
                    /\ emitted[c] = SeenAt(All(c), Len(All(c))) + lost[c]
  BY DEF GapInv
<1>1. delivered[c] = <<>> /\ unread[c] = <<>> /\ emitted[c] = 0 /\ lost[c] = 0
  BY DEF Init
<1>2. Pending[c] = <<>>
  BY <1>1 DEF Pending, PlainOf
<1>3. All(c) = <<>> /\ Len(All(c)) = 0
  BY <1>1, <1>2 DEF All
<1> QED BY <1>1, <1>3 DEF Chained, EndsInSample, SeenAt

LEMMA GapInvReported == LogInv /\ GapInv => GapsReported
<1> SUFFICES ASSUME LogInv, GapInv, NEW c \in Cpus, NEW x \in DOMAIN delivered[c]
             PROVE  LET d == delivered[c] IN
                    CASE d[x].kind = "sample" -> d[x].n = SeenAt(d, x - 1) + 1
                      [] d[x].kind = "lost" -> (x > 1 => d[x - 1].kind = "sample")
                      [] OTHER -> FALSE
  BY DEF GapsReported
<1> DEFINE d == delivered[c]
<1>1. d \in Seq(Plains) /\ Pending[c] \in Seq(Plains) /\ All(c) \in Seq(Plains)
  BY AllTypes
<1>2. /\ \A k \in 1 .. Len(d) : All(c)[k] = d[k]
      /\ Len(d) \in Nat /\ Len(d) <= Len(All(c)) /\ Len(All(c)) \in Nat
      /\ DOMAIN d = 1 .. Len(d) /\ \A k \in 1 .. Len(d) : d[k] \in Plains
  <2> DEFINE q == Pending[c]
  <2>1. d \in Seq(Plains) /\ q \in Seq(Plains) /\ All(c) = d \o q
    BY <1>1 DEF All
  <2> HIDE DEF d, q
  <2>2. /\ \A k \in 1 .. Len(d) : (d \o q)[k] = d[k]
        /\ Len(d \o q) = Len(d) + Len(q) /\ Len(q) \in Nat
    BY <2>1
  <2>3. /\ Len(d) \in Nat /\ DOMAIN d = 1 .. Len(d)
        /\ \A k \in 1 .. Len(d) : d[k] \in Plains
    BY <2>1, SeqFacts
  <2> QED BY <2>1, <2>2, <2>3
<1>3. /\ x \in 1 .. Len(d) /\ x \in 1 .. Len(All(c)) /\ x - 1 \in 0 .. Len(d)
      /\ (x > 1 => x - 1 \in 1 .. Len(d))
  BY <1>2
<1> HIDE DEF d
<1>4. SeenAt(All(c), x - 1) = SeenAt(d, x - 1)
  BY <1>1, <1>2, <1>3, SeenPrefix
<1>5. /\ All(c)[x].kind = "sample" => All(c)[x].n = SeenAt(All(c), x - 1) + 1
      /\ All(c)[x].kind = "lost" => (x > 1 => All(c)[x - 1].kind = "sample")
  BY <1>3 DEF GapInv, Chained
<1>6. d[x].kind \in {"sample", "lost"}
  BY <1>2, <1>3 DEF Plains
<1>7. /\ d[x].kind = "sample" => d[x].n = SeenAt(d, x - 1) + 1
      /\ d[x].kind = "lost" => (x > 1 => d[x - 1].kind = "sample")
  BY <1>2, <1>3, <1>4, <1>5
<1>8. CASE d[x].kind = "sample"
  BY <1>7, <1>8 DEF d
<1>9. CASE d[x].kind = "lost"
  BY <1>7, <1>9 DEF d
<1> QED BY <1>6, <1>8, <1>9

(***************************************************************************)
(* GapsReported of rings of any size, on any CPUs: lost_cb accounts for    *)
(* every gap in the samples, whatever calls fail and whenever the kernel   *)
(* finds no room.                                                          *)
(***************************************************************************)
THEOREM GapsAreReported == Spec => []GapsReported
<1>1. Init => LogInv /\ GapInv
  BY InitLog, InitGap
<1>2. LogInv /\ GapInv /\ [Next]_vars => (LogInv /\ GapInv)'
  BY NextLog, NextGap
<1> QED BY <1>1, <1>2, GapInvReported, PTL DEF Spec

-----------------------------------------------------------------------------
(***************************************************************************)
(* What __perf_buffer__new() holds at any moment is either the memory and  *)
(* the epoll descriptor of pb or recorded in pb->cpu_bufs, from where      *)
(* perf_buffer__free() finds it: a buffer is recorded before its slot of   *)
(* the BPF map is set.                                                     *)
(***************************************************************************)
OfBuffers == UNION {OfCpu(b.cpu) : b \in Range(cpu_bufs)}
OfPb == {<<"pb">>, <<"epoll">>, <<"events">>, <<"cpu_bufs">>}
Nothing == held = {} /\ watched = {} /\ \A k \in Keys : slots[k] = -1

SetupInv ==
    /\ DOMAIN slots = Keys
    /\ cpu_bufs \in Seq(Range(cpu_bufs))
    /\ held \subseteq OfPb \cup OfBuffers
    /\ \A k \in Keys : slots[k] # -1 => \E b \in Range(cpu_bufs) : b.map_key = k
    /\ pc \in {"new", "failed", "freed"} => Nothing

LEMMA AppendRange ==
    ASSUME NEW s, s \in Seq(Range(s)), NEW b
    PROVE  /\ Range(Append(s, b)) = Range(s) \cup {b}
           /\ Append(s, b) \in Seq(Range(s) \cup {b})
<1>1. s \in Seq(Range(s) \cup {b})
  <2>1. Len(s) \in Nat /\ DOMAIN s = 1 .. Len(s) /\ \A n \in 1 .. Len(s) : s[n] \in Range(s)
    OBVIOUS
  <2> HIDE DEF Range
  <2> QED BY <2>1
<1>2. Append(s, b) \in Seq(Range(s) \cup {b})
  BY <1>1
<1>3. /\ DOMAIN Append(s, b) = 1 .. Len(s) + 1
      /\ \A n \in 1 .. Len(s) : Append(s, b)[n] = s[n]
      /\ Append(s, b)[Len(s) + 1] = b
      /\ DOMAIN s = 1 .. Len(s) /\ Len(s) \in Nat
  BY <1>1
<1>4. Range(Append(s, b)) \subseteq Range(s) \cup {b}
  BY <1>3 DEF Range
<1>5. Range(s) \cup {b} \subseteq Range(Append(s, b))
  BY <1>3 DEF Range
<1> QED BY <1>2, <1>4, <1>5

LEMMA InitSetup == Init => SetupInv
BY DEF Init, SetupInit, SetupInv, Nothing, Range

LEMMA SameSetup ==
    ASSUME SetupInv, UNCHANGED svars
    PROVE  SetupInv'
BY DEF SetupInv, svars, Nothing, OfBuffers, Range

(***************************************************************************)
(* perf_buffer__free() releases all that is recorded.                      *)
(***************************************************************************)
LEMMA FreeLeavesNothing ==
    ASSUME SetupInv, Free
    PROVE  SetupInv' /\ Nothing'
<1>1. held' = {} /\ watched' = {}
  <2>1. held' = held \ (OfBuffers \cup OfPb) /\ watched' = {}
    BY DEF Free, OfBuffers, OfPb
  <2> QED BY <2>1 DEF SetupInv
<1>2. DOMAIN slots' = Keys /\ \A k \in Keys : slots'[k] = -1
  BY DEF SetupInv, Free
<1>3. cpu_bufs' = <<>>
  BY DEF Free
<1> QED BY <1>1, <1>2, <1>3 DEF SetupInv, Nothing, Range

LEMMA OpenSetup ==
    ASSUME SetupInv, OpenCpuBuf
    PROVE  SetupInv'
<1> DEFINE b == [cpu |-> Cpu, map_key |-> MapKey]
<1>1. /\ cpu_bufs' = Append(cpu_bufs, b)
      /\ held' = held \cup OfCpu(Cpu)
      /\ slots' \in {slots, [slots EXCEPT ![MapKey] = Cpu]}
      /\ pc' \in {"cpus", "error"}
  BY DEF OpenCpuBuf
<1>2. /\ Range(cpu_bufs') = Range(cpu_bufs) \cup {b}
      /\ cpu_bufs' \in Seq(Range(cpu_bufs'))
  BY <1>1, AppendRange DEF SetupInv
<1>3. b.cpu = Cpu /\ b.map_key = MapKey
  OBVIOUS
<1> HIDE DEF b
<1>4. held' \subseteq OfPb \cup OfBuffers'
  BY <1>1, <1>2, <1>3 DEF SetupInv, OfBuffers
<1>5. DOMAIN slots' = Keys
  BY <1>1 DEF SetupInv
<1>6. \A k \in Keys : slots'[k] # -1 => \E x \in Range(cpu_bufs') : x.map_key = k
  BY <1>1, <1>2, <1>3 DEF SetupInv
<1> QED BY <1>1, <1>2, <1>4, <1>5, <1>6 DEF SetupInv

LEMMA ErrorSetup ==
    ASSUME SetupInv, Error
    PROVE  SetupInv'
BY FreeLeavesNothing DEF Error, SetupInv

LEMMA NewSetup == SetupInv /\ SetupNext => SetupInv'
<1> SUFFICES ASSUME SetupInv, SetupNext PROVE SetupInv'
  OBVIOUS
<1>1. CASE Reject
  BY <1>1 DEF Reject, SetupInv, Nothing, OfBuffers, Range
<1>2. CASE Allocate
  BY <1>2 DEF Allocate, SetupInv, Nothing, OfBuffers, OfPb, Range
<1>3. CASE CountCpus
  BY <1>3 DEF CountCpus, SetupInv, Nothing, OfBuffers, OfPb, Range
<1>4. CASE CountFails \/ OpenFails \/ Unwind
  BY <1>4, ErrorSetup DEF CountFails, OpenFails, Unwind
<1>5. CASE SkipCpu
  BY <1>5 DEF SkipCpu, SetupInv, Nothing, OfBuffers, Range
<1>6. CASE OpenCpuBuf
  BY <1>6, OpenSetup
<1>7. CASE Return
  BY <1>7 DEF Return, SetupInv, Nothing, OfBuffers, Range
<1> QED BY <1>1, <1>2, <1>3, <1>4, <1>5, <1>6, <1>7 DEF SetupNext

LEMMA NextSetup == SetupInv /\ [Next]_vars => SetupInv'
<1> SUFFICES ASSUME SetupInv, [Next]_vars PROVE SetupInv'
  OBVIOUS
<1>1. CASE SetupNext
  BY <1>1, NewSetup
<1>2. CASE FreeBuffer
  BY <1>2, FreeLeavesNothing DEF FreeBuffer, PerfBufferFree, SetupInv
<1>3. CASE UNCHANGED svars
  BY <1>3, SameSetup
<1>4. ASSUME NEW c \in Cpus, NEW size \in SampleSizes, KernelOutput(c, size)
      PROVE  UNCHANGED svars
  BY <1>4 DEF KernelOutput, avars
<1>5. CASE Poll \/ Consume \/ \E k \in 1 .. Cardinality(Cpus) : ConsumeBuffer(k)
  BY <1>5, <1>3 DEF Poll, Consume, ConsumeBuffer, avars
<1>6. CASE StartRead \/ NoCopyBuffer \/ HandOver("CONT") \/ HandOver("ERROR") \/ WriteTail
  BY <1>6, <1>3 DEF StartRead, NoCopyBuffer, HandOver, WriteTail, avars
<1>7. CASE UNCHANGED vars
  BY <1>7, <1>3 DEF vars
<1> QED BY <1>1, <1>2, <1>3, <1>4, <1>5, <1>6, <1>7 DEF Next, Finished

(***************************************************************************)
(* NothingLeft of any perf buffer: whichever system call of                *)
(* __perf_buffer__new() fails, for whatever CPUs and map keys, and after   *)
(* perf_buffer__free(), no memory, descriptor, mapping or slot is left.    *)
(***************************************************************************)
THEOREM NothingIsLeft == Spec => []NothingLeft
<1>1. SetupInv => NothingLeft
  BY DEF SetupInv, Nothing, NothingLeft
<1> QED BY <1>1, InitSetup, NextSetup, PTL DEF Spec

-----------------------------------------------------------------------------
(***************************************************************************)
(* Complete perf buffers.  The theorem is about calls whose map keys       *)
(* differ: perf_buffer__new_raw() does not compare those it is given, and  *)
(* of two buffers with one key only the later is reached through the map.  *)
(* While the loop over CPUs is under way, the buffers recorded are those   *)
(* of the CPUs it has passed and not skipped, each reached through its     *)
(* slot: no later CPU has the same key.                                    *)
(***************************************************************************)
KeysDiffer ==
    \A c \in Calls : \A a, b \in 1 .. Len(c.map_keys) : c.map_keys[a] = c.map_keys[b] => a = b

KeyAt(n) == IF call.cpus # <<>> THEN call.map_keys[n + 1] ELSE n
CpuAt(n) == IF call.cpus # <<>> THEN call.cpus[n + 1] ELSE n
CntOf(c) ==
    LET entries == IF c.info = "ok" THEN c.max_entries ELSE 0
    IN  IF c.cpus # <<>> THEN Len(c.cpus)
        ELSE IF entries # 0 /\ entries < NumPossible(c) THEN entries ELSE NumPossible(c)

\* Buffer b is that of a CPU that the loop has passed.
Passed(b) ==
    \E n \in 0 .. i - 1 :
      b.map_key = KeyAt(n) /\ b.cpu = CpuAt(n) /\ (call.cpus = <<>> => n \in MaskCpus(call.online))

Reached(b) == b.map_key \in Keys /\ slots[b.map_key] = b.cpu

BufsInv ==
    /\ \A b \in Range(cpu_bufs) : Passed(b) /\ Reached(b)
    /\ watched = {b.cpu : b \in Range(cpu_bufs)}
    /\ call.cpus = <<>> => \A n \in 0 .. i - 1 : n \in MaskCpus(call.online) => n \in watched

LoopInv ==
    /\ call \in Calls /\ SetupInv /\ i \in Nat
    /\ pc \in {"new", "count"} => i = 0 /\ cpu_bufs = <<>> /\ watched = {}
    /\ pc = "cpus" => cpu_cnt = CntOf(call) /\ BufsInv
    /\ BuffersComplete

LEMMA CountIsNat ==
    ASSUME NEW c \in Calls
    PROVE  /\ CntOf(c) \in Nat /\ NumPossible(c) \in Nat /\ c.max_entries \in Nat
           /\ c.cpus \in Seq(Int) /\ c.map_keys \in Seq(Int) /\ Len(c.cpus) = Len(c.map_keys)
           /\ c.cpus # <<>> => CntOf(c) = Len(c.cpus)
           /\ c.cpus = <<>> /\ c.max_entries >= NumPossible(c) => CntOf(c) = NumPossible(c)
           /\ MaskCpus(c.online) \subseteq MaskCpus(c.possible)
<1>1. /\ c.max_entries \in Nat /\ c.cpus \in Seq(Int) /\ c.map_keys \in Seq(Int)
      /\ Len(c.cpus) = Len(c.map_keys) /\ IsFiniteSet(MaskCpus(c.possible))
      /\ MaskCpus(c.online) \subseteq MaskCpus(c.possible)
  BY CallsAssumption
<1>2. NumPossible(c) \in Nat
  BY <1>1, FS_CardinalityType DEF NumPossible
<1>3. Len(c.cpus) \in Nat
  BY <1>1
<1>. QED  BY <1>1, <1>2, <1>3 DEF CntOf

LEMMA OpenLoop ==
    ASSUME LoopInv, KeysDiffer, OpenCpuBuf
    PROVE  LoopInv'
<1>1. /\ pc = "cpus" /\ i < cpu_cnt /\ ~Skipped /\ call' = call /\ cpu_cnt' = cpu_cnt
      /\ BufsInv /\ cpu_cnt = CntOf(call) /\ call \in Calls /\ i \in Nat /\ SetupInv
  BY DEF OpenCpuBuf, LoopInv
<1>2. SetupInv'
  BY <1>1, OpenSetup
<1>3. CASE pc' = "error"
  BY <1>1, <1>2, <1>3 DEF LoopInv, OpenCpuBuf, BuffersComplete
<1>4. CASE pc' # "error"
  <2>. DEFINE b == [cpu |-> Cpu, map_key |-> MapKey]
  <2>1. /\ pc' = "cpus" /\ i' = i + 1 /\ watched' = watched \cup {Cpu} /\ MapKey \in Keys
        /\ slots' = [slots EXCEPT ![MapKey] = Cpu] /\ cpu_bufs' = Append(cpu_bufs, b)
    BY <1>1, <1>4 DEF OpenCpuBuf
  <2>2. Range(cpu_bufs') = Range(cpu_bufs) \cup {b} /\ DOMAIN slots = Keys
    BY <1>1, <2>1, AppendRange DEF SetupInv
  <2>3. b.cpu = Cpu /\ b.map_key = MapKey
    OBVIOUS
  <2>. HIDE DEF b
  <2>4. Cpu = CpuAt(i) /\ MapKey = KeyAt(i) /\ (call.cpus = <<>> => i \in MaskCpus(call.online))
    BY <1>1 DEF Cpu, MapKey, CpuAt, KeyAt, Skipped
  <2>5. ASSUME NEW n \in 0 .. i - 1 PROVE KeyAt(n) # KeyAt(i)
    <3>1. CASE call.cpus = <<>>
      BY <1>1, <2>5, <3>1 DEF KeyAt
    <3>2. CASE call.cpus # <<>>
      <4>1. n + 1 \in 1 .. Len(call.map_keys) /\ i + 1 \in 1 .. Len(call.map_keys) /\ n + 1 # i + 1
        BY <1>1, <2>5, <3>2, CountIsNat
      <4>. QED  BY <1>1, <3>2, <4>1 DEF KeyAt, KeysDiffer
    <3>. QED  BY <3>1, <3>2
  <2>6. \A n : KeyAt(n)' = KeyAt(n) /\ CpuAt(n)' = CpuAt(n)
    BY <1>1 DEF KeyAt, CpuAt
  <2>7. ASSUME NEW x \in Range(cpu_bufs) PROVE Passed(x)' /\ Reached(x)'
    <3>1. PICK n \in 0 .. i - 1 : /\ x.map_key = KeyAt(n) /\ x.cpu = CpuAt(n)
                                  /\ call.cpus = <<>> => n \in MaskCpus(call.online)
      BY <1>1, <2>7 DEF BufsInv, Passed
    <3>2. n \in 0 .. i' - 1
      BY <1>1, <2>1, <3>1
    <3>3. x.map_key \in Keys /\ slots[x.map_key] = x.cpu /\ x.map_key # MapKey
      BY <1>1, <2>4, <2>5, <2>7, <3>1 DEF BufsInv, Reached
    <3>4. Passed(x)'
      BY <1>1, <2>6, <3>1, <3>2 DEF Passed
    <3>. QED  BY <2>1, <2>2, <3>3, <3>4 DEF Reached
  <2>8. ASSUME NEW x, x = b PROVE Passed(x)' /\ Reached(x)'
    <3>1. PICK n \in 0 .. i' - 1 : n = i
      BY <1>1, <2>1
    <3>2. PICK k \in Keys : k = MapKey
      BY <2>1
    <3>3. PICK c : c = Cpu
      OBVIOUS
    <3>4. x.map_key = k /\ x.cpu = c
      BY <2>3, <2>8, <3>2, <3>3
    <3>5. k = KeyAt(n)' /\ c = CpuAt(n)' /\ (call'.cpus = <<>> => n \in MaskCpus(call'.online))
      BY <1>1, <2>4, <2>6, <3>1, <3>2, <3>3
    <3>6. Passed(x)'
      BY <3>4, <3>5 DEF Passed
    <3>7. slots'[k] = c
      BY <2>1, <2>2, <3>2, <3>3
    <3>. QED  BY <3>4, <3>6, <3>7 DEF Reached
  <2>9. watched' = {x.cpu : x \in Range(cpu_bufs')}
    BY <1>1, <2>1, <2>2, <2>3 DEF BufsInv
  <2>10. ASSUME call.cpus = <<>>, NEW n \in 0 .. i' - 1, n \in MaskCpus(call.online) PROVE n \in watched'
    <3>1. n \in 0 .. i - 1 \/ n = i
      BY <1>1, <2>1
    <3>2. CASE n \in 0 .. i - 1
      BY <1>1, <2>1, <2>10, <3>2 DEF BufsInv
    <3>3. CASE n = i
      BY <2>1, <2>4, <2>10, <3>3 DEF CpuAt
    <3>. QED  BY <3>1, <3>2, <3>3
  <2>11. \A x \in Range(cpu_bufs') : Passed(x)' /\ Reached(x)'
    BY <2>2, <2>7, <2>8
  <2>12. BufsInv'
    BY <1>1, <2>9, <2>10, <2>11 DEF BufsInv
  <2>. QED  BY <1>1, <1>2, <2>1, <2>12 DEF LoopInv, BuffersComplete
<1>. QED  BY <1>3, <1>4

LEMMA SkipLoop ==
    ASSUME LoopInv, SkipCpu
    PROVE  LoopInv'
<1>1. /\ pc = "cpus" /\ pc' = pc /\ Skipped /\ BufsInv /\ i \in Nat /\ i' = i + 1
      /\ UNCHANGED <<call, cpu_cnt, cpu_bufs, slots, watched>>
  BY DEF SkipCpu, LoopInv
<1>2. call.cpus = <<>> /\ i \notin MaskCpus(call.online)
  BY <1>1 DEF Skipped, Cpu
<1>3. SetupInv'
  BY NewSetup DEF LoopInv, SetupNext
<1>4. ASSUME NEW b \in Range(cpu_bufs) PROVE Passed(b)' /\ Reached(b)'
  <2>1. Passed(b) /\ Reached(b)
    BY <1>1, <1>4 DEF BufsInv
  <2>2. 0 .. i - 1 \subseteq 0 .. i' - 1
    BY <1>1
  <2>. QED  BY <1>1, <2>1, <2>2 DEF Passed, Reached, KeyAt, CpuAt
<1>5. \A n \in 0 .. i' - 1 : n \in 0 .. i - 1 \/ n = i
  BY <1>1
<1>6. BufsInv'
  BY <1>1, <1>2, <1>4, <1>5 DEF BufsInv
<1>. QED  BY <1>1, <1>3, <1>6 DEF LoopInv, BuffersComplete

LEMMA ReturnLoop ==
    ASSUME LoopInv, Return
    PROVE  LoopInv'
<1>1. /\ pc = "cpus" /\ pc' = "running" /\ i = cpu_cnt /\ cpu_cnt' = Len(cpu_bufs) /\ BufsInv
      /\ cpu_cnt = CntOf(call) /\ call \in Calls
      /\ UNCHANGED <<call, i, cpu_bufs, slots, watched>>
  BY DEF Return, LoopInv
<1>2. SetupInv'
  BY NewSetup DEF LoopInv, SetupNext
<1>3. ASSUME call.cpus = <<>>, Contiguous(call), call.max_entries >= NumPossible(call)
      PROVE  watched = MaskCpus(call.online)
  <2>1. /\ i = NumPossible(call) /\ i \in Nat /\ MaskCpus(call.online) \subseteq MaskCpus(call.possible)
    BY <1>1, <1>3, CountIsNat
  <2>2. MaskCpus(call.online) \subseteq 0 .. i - 1
    BY <1>3, <2>1 DEF Contiguous
  <2>3. MaskCpus(call.online) \subseteq watched
    BY <1>1, <1>3, <2>2 DEF BufsInv
  <2>4. ASSUME NEW b \in Range(cpu_bufs) PROVE b.cpu \in MaskCpus(call.online)
    BY <1>1, <1>3, <2>4 DEF BufsInv, Passed, CpuAt
  <2>. QED  BY <1>1, <2>3, <2>4 DEF BufsInv
<1>4. BuffersComplete'
  BY <1>1, <1>3 DEF BuffersComplete, BufsInv, Reached, Contiguous, NumPossible
<1>. QED  BY <1>1, <1>2, <1>4 DEF LoopInv

LEMMA NextLoop == KeysDiffer /\ LoopInv /\ [Next]_vars => LoopInv'
<1>. SUFFICES ASSUME KeysDiffer, LoopInv, [Next]_vars PROVE LoopInv'
  OBVIOUS
<1>0. SetupInv' /\ call \in Calls /\ i \in Nat
  BY NextSetup DEF LoopInv
<1>1. CASE Reject
  BY <1>0, <1>1 DEF Reject, LoopInv, BuffersComplete
<1>2. CASE Allocate
  BY <1>0, <1>2 DEF Allocate, LoopInv, BuffersComplete
<1>3. CASE CountCpus
  <2>1. /\ i' = 0 /\ cpu_bufs' = <<>> /\ watched' = {} /\ pc' = "cpus" /\ call' = call
        /\ cpu_cnt' = CntOf(call)
    BY <1>3 DEF CountCpus, LoopInv, CntOf
  <2>2. Range(cpu_bufs') = {}
    BY <2>1 DEF Range
  <2>3. BufsInv'
    BY <2>1, <2>2 DEF BufsInv
  <2>. QED  BY <1>0, <2>1, <2>3 DEF LoopInv, BuffersComplete
<1>4. CASE CountFails \/ OpenFails \/ Unwind
  BY <1>0, <1>4 DEF CountFails, OpenFails, Unwind, Error, LoopInv, BuffersComplete
<1>5. CASE SkipCpu
  BY <1>5, SkipLoop
<1>6. CASE OpenCpuBuf
  BY <1>6, OpenLoop
<1>7. CASE Return
  BY <1>7, ReturnLoop
<1>8. CASE FreeBuffer
  BY <1>0, <1>8 DEF FreeBuffer, PerfBufferFree, LoopInv, BuffersComplete
<1>9. CASE UNCHANGED svars
  BY <1>0, <1>9 DEF svars, LoopInv, BuffersComplete, BufsInv, Passed, Reached, KeyAt, CpuAt
<1>10. ASSUME NEW c \in Cpus, NEW size \in SampleSizes, KernelOutput(c, size)
       PROVE  UNCHANGED svars
  BY <1>10 DEF KernelOutput, avars
<1>11. CASE Poll \/ Consume \/ \E k \in 1 .. Cardinality(Cpus) : ConsumeBuffer(k)
  BY <1>11, <1>9 DEF Poll, Consume, ConsumeBuffer, avars
<1>12. CASE StartRead \/ NoCopyBuffer \/ HandOver("CONT") \/ HandOver("ERROR") \/ WriteTail
  BY <1>12, <1>9 DEF StartRead, NoCopyBuffer, HandOver, WriteTail, avars
<1>13. CASE UNCHANGED vars
  BY <1>13, <1>9 DEF vars
<1> QED BY <1>1, <1>2, <1>3, <1>4, <1>5, <1>6, <1>7, <1>8, <1>9, <1>10, <1>11, <1>12, <1>13
        DEF Next, SetupNext, Finished

(***************************************************************************)
(* BuffersComplete of any perf buffer whose map keys differ: each buffer   *)
(* of what __perf_buffer__new() returns is watched and reached through its *)
(* slot, and no online CPU is left out when possible CPUs have no gaps.    *)
(***************************************************************************)
THEOREM BuffersAreComplete == ASSUME KeysDiffer PROVE Spec => []BuffersComplete
<1>1. Init => LoopInv
  BY InitSetup DEF Init, SetupInit, LoopInv, BuffersComplete
<1>2. LoopInv => BuffersComplete
  BY DEF LoopInv
<1> QED BY <1>1, <1>2, NextLoop, PTL DEF Spec

=============================================================================
