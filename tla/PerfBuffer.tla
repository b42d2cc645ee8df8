---------------------------- MODULE PerfBuffer ------------------------------
(***************************************************************************)
(* Consuming perf rings: perf_buffer__poll(), perf_buffer__consume() and   *)
(* bpf_perf_event_read_simple().  Each CPU has a ring of Size units (of 8  *)
(* bytes) that the kernel fills while the process empties it: the kernel   *)
(* moves data_head, the process data_tail, and neither waits for the       *)
(* other.  A record may run over the end of the ring; the reader then      *)
(* puts it together in a copy buffer that it grows on demand.              *)
(*                                                                         *)
(* The kernel is external: a record needs room strictly below Size; when   *)
(* there is none the sample is counted as lost, and the count is written   *)
(* in front of the next sample.  Writing wakes the ring's descriptor;      *)
(* epoll_wait() reports a descriptor once per wake-up, full or not.        *)
(***************************************************************************)
EXTENDS PerfSetup, SequencesExt

CONSTANTS
    Cpus,               \* CPUs with a ring
    Size,               \* units in a ring
    SampleSizes,        \* units a sample may have
    LostSize,           \* units of a PERF_RECORD_LOST record
    MaxEmit,            \* bound: samples emitted on all CPUs
    MaxErrors           \* bound: failing callbacks and allocations

ASSUME RingAssumption ==
    /\ Size \in Nat \ {0} /\ LostSize \in 1 .. Size
    /\ SampleSizes \subseteq 1 .. Size
    /\ MaxEmit \in Nat /\ MaxErrors \in Nat

VARIABLES
    consumes,           \* whether the application also calls perf_buffer__consume()
    cells,              \* cells[c][x]: unit x of the ring of CPU c
    data_head,          \* written by the kernel only
    data_tail,          \* written by the process only
    lost,               \* samples the kernel dropped and has not reported yet
    emitted,            \* samples emitted
    woken,              \* CPUs whose descriptor epoll would report
    todo,               \* buffers the running call still has to process
    rd,                 \* bpf_perf_event_read_simple() in progress, or NoRead
    copy_size,          \* size of the copy buffer of each CPU
    delivered,          \* history: records handed to the callback
    unread,             \* history: records written and not handed over, [rec, at]
    errors              \* failures so far

kvars == <<cells, data_head, lost, emitted>>
avars == <<svars, consumes>>
rvars == <<consumes, kvars, data_tail, woken, todo, rd, copy_size, delivered, unread,
           errors>>
vars == <<svars, rvars>>

Empty == [rec |-> [kind |-> "none", n |-> 0, size |-> 0], part |-> 0]
NoRead == [cpu |-> "none"]
Torn == [kind |-> "torn"]

Init ==
    /\ SetupInit
    /\ consumes \in BOOLEAN
    /\ cells = [c \in Cpus |-> [x \in 0 .. Size - 1 |-> Empty]]
    /\ data_head = [c \in Cpus |-> 0] /\ data_tail = [c \in Cpus |-> 0]
    /\ lost = [c \in Cpus |-> 0] /\ emitted = [c \in Cpus |-> 0]
    /\ woken = {} /\ todo = <<>> /\ rd = NoRead
    /\ copy_size = [c \in Cpus |-> 0]
    /\ delivered = [c \in Cpus |-> <<>>] /\ unread = [c \in Cpus |-> <<>>]
    /\ errors = 0

-----------------------------------------------------------------------------
(***************************************************************************)
(* The kernel writes a sample of the given size on CPU c.                  *)
(***************************************************************************)
Record(kind, n, size) == [kind |-> kind, n |-> n, size |-> size]

Units(r) == [k \in 1 .. r.size |-> [rec |-> r, part |-> k]]

\* Records one after the other in the ring, from position at.
Placed(loss, sample, at) ==
    IF loss.n = 0 THEN <<[rec |-> sample, at |-> at]>>
    ELSE <<[rec |-> loss, at |-> at], [rec |-> sample, at |-> at + loss.size]>>

KernelOutput(c, size) ==
    LET sample == Record("sample", emitted[c] + 1, size)
        loss == Record("lost", lost[c], LostSize)
        out == IF lost[c] = 0 THEN Units(sample) ELSE Units(loss) \o Units(sample)
        fits == call.page_cnt > 0 /\ data_head[c] + Len(out) - data_tail[c] < Size
        start == data_head[c] % Size
    IN  /\ pc = "running" /\ c \in watched
        /\ FoldFunction(+, 0, emitted) < MaxEmit
        /\ emitted' = [emitted EXCEPT ![c] = @ + 1]
        /\ IF fits
           THEN /\ cells' = [cells EXCEPT ![c] = [x \in 0 .. Size - 1 |->
                     LET k == 1 + ((x + Size - start) % Size)
                     IN IF k <= Len(out) THEN out[k] ELSE @[x]]]
                /\ data_head' = [data_head EXCEPT ![c] = @ + Len(out)]
                /\ lost' = [lost EXCEPT ![c] = 0]
                /\ unread' = [unread EXCEPT ![c] = @ \o Placed(loss, sample, data_head[c])]
                /\ woken' = woken \cup {c}
           ELSE /\ lost' = [lost EXCEPT ![c] = @ + 1]
                /\ UNCHANGED <<cells, data_head, unread, woken>>
        /\ UNCHANGED <<avars, data_tail, todo, rd, copy_size, delivered, errors>>

-----------------------------------------------------------------------------
(***************************************************************************)
(* The calls of the application.  perf_buffer__poll(): epoll_wait() fills  *)
(* events with the descriptors that are ready, in some order; the call     *)
(* processes them one after the other.  A call that times out does nothing.*)
(***************************************************************************)
Idle == pc = "running" /\ todo = <<>> /\ rd = NoRead


Poll ==
    /\ Idle /\ woken # {}
    /\ \E order \in SetToSeqs(woken) : todo' = order
    /\ woken' = {}
    /\ UNCHANGED <<avars, kvars, data_tail, rd, copy_size, delivered, unread, errors>>

\* perf_buffer__consume(): every buffer, whether it was woken or not.
Consume ==
    /\ Idle /\ consumes /\ cpu_bufs # <<>>
    /\ todo' = [k \in 1 .. cpu_cnt |-> cpu_bufs[k].cpu]
    /\ UNCHANGED <<avars, kvars, data_tail, woken, rd, copy_size, delivered, unread, errors>>

\* perf_buffer__consume_buffer()
ConsumeBuffer(k) ==
    /\ Idle /\ consumes /\ k <= cpu_cnt
    /\ todo' = <<cpu_bufs[k].cpu>>
    /\ UNCHANGED <<avars, kvars, data_tail, woken, rd, copy_size, delivered, unread, errors>>

-----------------------------------------------------------------------------
(***************************************************************************)
(* bpf_perf_event_read_simple() on the ring of the next buffer: head and   *)
(* tail are read once, at the start.                                       *)
(***************************************************************************)
\* faulty variant: the records are given back to the kernel before they are read
StartReadEarlyTail ==
    /\ rd = NoRead /\ todo # <<>>
    /\ LET c == Head(todo) IN
         /\ rd' = [cpu |-> c, head |-> data_head[c], tail |-> data_tail[c], ret |-> "CONT"]
         /\ data_tail' = [data_tail EXCEPT ![c] = data_head[c]]
    /\ UNCHANGED <<avars, kvars, woken, todo, copy_size, delivered, unread, errors>>

StartRead ==
    /\ rd = NoRead /\ todo # <<>>
    /\ LET c == Head(todo) IN
         rd' = [cpu |-> c, head |-> data_head[c], tail |-> data_tail[c], ret |-> "CONT"]
    /\ UNCHANGED <<avars, kvars, data_tail, woken, todo, copy_size, delivered, unread, errors>>

Reading == rd # NoRead /\ rd.ret = "CONT" /\ rd.head # rd.tail

EhdrIdx == rd.tail % Size
EhdrSize == cells[rd.cpu][EhdrIdx].rec.size
Wraps == EhdrIdx + EhdrSize > Size

\* faulty variant: the second part is taken from behind the first
AssembledTwice ==
    LET ring == cells[rd.cpu]
        len_first == IF Wraps THEN Size - EhdrIdx ELSE EhdrSize
    IN [k \in 1 .. EhdrSize |->
          IF k <= len_first THEN ring[EhdrIdx + k - 1] ELSE ring[k - 1]]

\* The record the callback sees: in place, or copied in two parts.
Assembled ==
    LET ring == cells[rd.cpu]
        len_first == IF Wraps THEN Size - EhdrIdx ELSE EhdrSize
    IN [k \in 1 .. EhdrSize |->
          IF k <= len_first THEN ring[EhdrIdx + k - 1] ELSE ring[k - len_first - 1]]

Plain(r) == [kind |-> r.kind, n |-> r.n]

AsRecord(units) ==
    LET r == units[1].rec IN
    IF units = Units(r) THEN Plain(r) ELSE Torn

\* malloc() of a larger copy buffer fails: the record stays in the ring.
NoCopyBuffer ==
    /\ Reading /\ Wraps /\ copy_size[rd.cpu] < EhdrSize
    /\ errors < MaxErrors /\ errors' = errors + 1
    /\ copy_size' = [copy_size EXCEPT ![rd.cpu] = 0]
    /\ rd' = [rd EXCEPT !.ret = "ERROR"]
    /\ UNCHANGED <<avars, kvars, data_tail, woken, todo, delivered, unread>>

\* The callback gets the record; the tail moves on even when it fails.
HandOver(ret) ==
    /\ Reading
    /\ ret = "ERROR" => errors < MaxErrors
    /\ errors' = errors + (IF ret = "ERROR" THEN 1 ELSE 0)
    /\ copy_size' = [copy_size EXCEPT ![rd.cpu] =
         IF Wraps /\ @ < EhdrSize THEN EhdrSize ELSE @]
    /\ delivered' = [delivered EXCEPT ![rd.cpu] = Append(@, AsRecord(Assembled))]
    /\ unread' = [unread EXCEPT ![rd.cpu] = SubSeq(@, 2, Len(@))]
    /\ rd' = [rd EXCEPT !.tail = @ + EhdrSize, !.ret = ret]
    /\ UNCHANGED <<avars, kvars, data_tail, woken, todo>>

ReadEnds == rd # NoRead /\ (rd.ret = "ERROR" \/ rd.head = rd.tail)

\* faulty variant: an error discards what is left of the ring
WriteTailHead ==
    /\ ReadEnds
    /\ data_tail' = [data_tail EXCEPT ![rd.cpu] = rd.head]
    /\ todo' = IF rd.ret = "ERROR" THEN <<>> ELSE Tail(todo)
    /\ rd' = NoRead
    /\ UNCHANGED <<avars, kvars, woken, copy_size, delivered, unread, errors>>

\* ring_buffer_write_tail(); an error ends the call, other buffers unread.
WriteTail ==
    /\ ReadEnds
    /\ data_tail' = [data_tail EXCEPT ![rd.cpu] = rd.tail]
    /\ todo' = IF rd.ret = "ERROR" THEN <<>> ELSE Tail(todo)
    /\ rd' = NoRead
    /\ UNCHANGED <<avars, kvars, woken, copy_size, delivered, unread, errors>>

\* perf_buffer__free(), called between two other calls
FreeBuffer == Idle /\ PerfBufferFree /\ UNCHANGED rvars

Finished == pc \in {"failed", "freed"} /\ UNCHANGED vars

ReadStep ==
    StartRead \/ NoCopyBuffer \/ HandOver("CONT") \/ HandOver("ERROR") \/ WriteTail

Next ==
    \/ SetupNext /\ UNCHANGED rvars
    \/ \E c \in Cpus, size \in SampleSizes : KernelOutput(c, size)
    \/ Poll \/ Consume \/ \E k \in 1 .. Cardinality(Cpus) : ConsumeBuffer(k)
    \/ StartRead \/ NoCopyBuffer \/ HandOver("CONT") \/ HandOver("ERROR") \/ WriteTail
    \/ FreeBuffer \/ Finished

Spec == Init /\ [][Next]_vars

(***************************************************************************)
(* The application keeps polling and, if it consumes at all, calls         *)
(* perf_buffer__consume() again and again between its other calls; a call  *)
(* in progress is executed.  Nothing is assumed of the kernel, of callbacks*)
(* or of malloc().                                                         *)
(***************************************************************************)
Fairness == WF_vars(Poll) /\ SF_vars(Consume) /\ WF_vars(ReadStep)

FairSpec == Spec /\ Fairness

-----------------------------------------------------------------------------
(***************************************************************************)
(* The ring at any instant, with a read in progress or not: from the       *)
(* reader's tail to data_head it holds the records written and not handed  *)
(* over yet, each whole and one after the other, less than a ring full     *)
(* behind data_tail; and a read in progress will end between two records.  *)
(***************************************************************************)
ReaderTail(c) == IF rd # NoRead /\ rd.cpu = c THEN rd.tail ELSE data_tail[c]

\* Where the k-th record not handed over begins, and where the last one ends.
Start(c, k) == IF k <= Len(unread[c]) THEN unread[c][k].at ELSE data_head[c]
Starts(c) == 1 .. Len(unread[c]) + 1

RingIntact ==
    \A c \in Cpus :
      /\ data_tail[c] <= ReaderTail(c) /\ ReaderTail(c) = Start(c, 1)
      /\ data_head[c] - data_tail[c] < Size
      /\ rd # NoRead /\ rd.cpu = c => \E k \in Starts(c) : rd.head = Start(c, k)
      /\ \A k \in DOMAIN unread[c] :
           LET r == unread[c][k].rec IN
           /\ Start(c, k + 1) = Start(c, k) + r.size
           /\ \A n \in 1 .. r.size :
                cells[c][(Start(c, k) + n - 1) % Size] = [rec |-> r, part |-> n]

(***************************************************************************)
(* What lost_cb is told accounts for every gap in the samples sample_cb    *)
(* sees: a sample has the number after that of the sample before it, or,   *)
(* if a loss was reported between the two, that many numbers later; a loss *)
(* is never reported twice in a row.  Whatever calls failed in between.    *)
(***************************************************************************)
\* The number of samples emitted when record x of a sequence had been written.
SeenAt(recs, x) ==
    IF x = 0 THEN 0
    ELSE IF recs[x].kind = "sample" THEN recs[x].n
    ELSE recs[x].n + (IF x = 1 THEN 0 ELSE recs[x - 1].n)

GapsReported ==
    \A c \in Cpus : \A x \in DOMAIN delivered[c] :
      CASE delivered[c][x].kind = "sample" ->
             delivered[c][x].n = SeenAt(delivered[c], x - 1) + 1
        [] delivered[c][x].kind = "lost" -> x > 1 => delivered[c][x - 1].kind = "sample"
        [] OTHER -> FALSE

(***************************************************************************)
(* The ring implements PerfLog: what is pending there are the records      *)
(* written and not handed over.                                            *)
(***************************************************************************)
Log == INSTANCE PerfLog WITH
         dropped <- lost,
         pending <- [c \in Cpus |-> [k \in DOMAIN unread[c] |-> Plain(unread[c][k].rec)]]

\* The ring, its reader and its kernel implement PerfLog.
ImplementsLog == Log!LogSpec

(***************************************************************************)
(* data_tail, the only thing the kernel learns from the process, never     *)
(* moves backwards, and never past a record the callback has not seen: the *)
(* kernel would overwrite it.                                              *)
(***************************************************************************)
TailBehindReader ==
    [][\A c \in Cpus : data_tail'[c] \in data_tail[c] .. ReaderTail(c)]_vars


=============================================================================
