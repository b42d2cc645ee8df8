------------------------------ MODULE PerfLog -------------------------------
(***************************************************************************)
(* What a perf buffer promises its user, CPU by CPU: the samples a BPF     *)
(* program emits are handed to the callback in the order of emission, each *)
(* once; a sample that found no room is dropped, and the number of samples *)
(* dropped is handed over, as a record of its own, before the next one     *)
(* that found room.  PerfBuffer implements it over a ring shared with the  *)
(* kernel.                                                                 *)
(***************************************************************************)
EXTENDS Naturals, Sequences

CONSTANT
    Cpus                \* CPUs with a ring

VARIABLES
    emitted,            \* samples emitted so far; a sample is known by its number
    dropped,            \* samples dropped since the last one that found room
    pending,            \* records not handed over yet
    delivered           \* records handed to the callback

lvars == <<emitted, dropped, pending, delivered>>

Sample(id) == [kind |-> "sample", n |-> id]
LostRecord(n) == [kind |-> "lost", n |-> n]

LogInit ==
    /\ emitted = [c \in Cpus |-> 0]
    /\ dropped = [c \in Cpus |-> 0]
    /\ pending = [c \in Cpus |-> <<>>]
    /\ delivered = [c \in Cpus |-> <<>>]

LogEmit(c) ==
    /\ emitted' = [emitted EXCEPT ![c] = @ + 1]
    /\ pending' = [pending EXCEPT ![c] =
         @ \o (IF dropped[c] = 0 THEN <<>> ELSE <<LostRecord(dropped[c])>>)
           \o <<Sample(emitted[c] + 1)>>]
    /\ dropped' = [dropped EXCEPT ![c] = 0]
    /\ UNCHANGED delivered

LogDrop(c) ==
    /\ emitted' = [emitted EXCEPT ![c] = @ + 1]
    /\ dropped' = [dropped EXCEPT ![c] = @ + 1]
    /\ UNCHANGED <<pending, delivered>>

LogDeliver(c) ==
    /\ pending[c] # <<>>
    /\ delivered' = [delivered EXCEPT ![c] = Append(@, Head(pending[c]))]
    /\ pending' = [pending EXCEPT ![c] = Tail(@)]
    /\ UNCHANGED <<emitted, dropped>>

LogNext == \E c \in Cpus : LogEmit(c) \/ LogDrop(c) \/ LogDeliver(c)

LogSpec == LogInit /\ [][LogNext]_lvars

=============================================================================
