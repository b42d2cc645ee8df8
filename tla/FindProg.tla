------------------------------ MODULE FindProg ------------------------------
(***************************************************************************)
(* The lookup of the BPF program that owns an instruction of an ELF        *)
(* section: find_prog_by_sec_insn() of libbpf.c, a binary search over      *)
(* obj->programs, which bpf_object__elf_collect() sorts with cmp_progs().  *)
(* Relocation collection looks up the program of every relocation with it, *)
(* and call relocation the sub-program behind every call.                  *)
(*                                                                         *)
(* The programs of one object do not change while lookups are made, but    *)
(* the model chooses the table once, in Init, so that one run covers every *)
(* table of Tables.  Indices are those of the C array: 0 .. nr_programs-1. *)
(***************************************************************************)
EXTENDS ProgTable

CONSTANTS
    Tables,     \* the program tables looked up in
    SecIdxs,    \* the ELF section indices asked for
    InsnIdxs    \* the instruction indices asked for

ASSUME TablesWellFormed == \A t \in Tables : WellFormed(t)
ASSUME KeysAreNat == SecIdxs \subseteq Nat /\ InsnIdxs \subseteq Nat

-----------------------------------------------------------------------------

VARIABLES
    programs,   \* obj->programs
    sec_idx,    \* arguments of the lookup in progress, or of the last one
    insn_idx,
    l, r,       \* the bounds of the search
    rounds,     \* rounds of the loop made by this lookup (ghost)
    pc,         \* "idle", "search" or "found"
    result      \* index of the program returned, NULL for none

vars == <<programs, sec_idx, insn_idx, l, r, rounds, pc, result>>

Init ==
    /\ programs \in Tables
    /\ sec_idx = 0 /\ insn_idx = 0
    /\ l = 0 /\ r = 0 /\ rounds = 0
    /\ pc = "idle"
    /\ result = NULL

(***************************************************************************)
(* The caller asks for the owner of instruction i of section s.            *)
(***************************************************************************)
Call(s, i) ==
    /\ pc \in {"idle", "found"}
    /\ sec_idx' = s /\ insn_idx' = i
    /\ l' = 0
    /\ r' = LastIdx(programs)
    /\ rounds' = 0
    /\ pc' = "search"
    /\ result' = NULL
    /\ UNCHANGED programs

(***************************************************************************)
(* One round of the while loop.  The midpoint is rounded up, so that       *)
(* l = m makes progress when r = l + 1.                                    *)
(***************************************************************************)
MidRoundedDown == l + (r - l) \div 2            \* faulty variant

Mid == l + (r - l + 1) \div 2

StrictlyBefore(p) ==                            \* faulty variant
    \/ p.sec_idx < sec_idx
    \/ p.sec_idx = sec_idx /\ p.sec_insn_off < insn_idx

AtOrBefore(p) ==
    \/ p.sec_idx < sec_idx
    \/ p.sec_idx = sec_idx /\ p.sec_insn_off <= insn_idx

Narrow ==
    /\ pc = "search"
    /\ l < r
    /\ IF AtOrBefore(programs[Mid])
         THEN l' = Mid /\ r' = r
         ELSE l' = l /\ r' = Mid - 1
    /\ rounds' = rounds + 1
    /\ UNCHANGED <<programs, sec_idx, insn_idx, pc, result>>

(***************************************************************************)
(* The loop is over; the last check and the return.                        *)
(***************************************************************************)
Return ==
    /\ pc = "search"
    /\ ~(l < r)
    /\ pc' = "found"
    /\ result' = IF Owns(programs[l], sec_idx, insn_idx) THEN l ELSE NULL
    /\ UNCHANGED <<programs, sec_idx, insn_idx, l, r, rounds>>

Next ==
    \/ \E s \in SecIdxs, i \in InsnIdxs : Call(s, i)
    \/ Narrow
    \/ Return

Spec == Init /\ [][Next]_vars

-----------------------------------------------------------------------------

TypeOK ==
    /\ programs \in Tables
    /\ sec_idx \in Nat /\ insn_idx \in Nat
    /\ l \in DOMAIN programs /\ r \in DOMAIN programs
    /\ rounds \in Nat
    /\ pc \in {"idle", "search", "found"}
    /\ result \in DOMAIN programs \cup {NULL}

(***************************************************************************)
(* find_prog_by_sec_insn() returns the program that owns the instruction,  *)
(* and NULL only when no program of the object owns it: no relocation and  *)
(* no call is ever attributed to a neighbour, whatever the table.          *)
(***************************************************************************)
LookupCorrect ==
    pc = "found" => result = OwnerOf(programs, sec_idx, insn_idx)

(***************************************************************************)
(* The loop invariant of the search: the owner, if there is one, is never  *)
(* cut off, and both bounds stay inside the array.                         *)
(***************************************************************************)
SearchInv ==
    /\ 0 <= l /\ l <= r
    /\ pc = "search" =>
          \A i \in DOMAIN programs :
             Owns(programs[i], sec_idx, insn_idx) => l <= i /\ i <= r

(***************************************************************************)
(* Every round of the loop shrinks the interval, so a lookup makes fewer   *)
(* rounds than the object has programs: the upward rounding of m is what   *)
(* makes the branch l = m progress when two programs are left.             *)
(***************************************************************************)
RoundsBounded == rounds + (r - l) <= LastIdx(programs)

=============================================================================
