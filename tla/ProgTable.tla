----------------------------- MODULE ProgTable -----------------------------
(***************************************************************************)
(* The table of BPF programs of an object (obj->programs of libbpf.c): its *)
(* order, what makes it well formed, and which program owns an instruction *)
(* of an ELF section.  Arrays of the C code are functions on 0 .. n-1.     *)
(***************************************************************************)
EXTENDS Integers, FiniteSets

NULL == -1      \* no index of a table

(***************************************************************************)
(* struct bpf_program, as far as the lookup reads it.                      *)
(***************************************************************************)
IsProgram(p) ==
    p.sec_idx \in Nat /\ p.sec_insn_off \in Nat /\ p.sec_insn_cnt \in Nat

LastIdx(t) == CHOOSE i \in DOMAIN t : \A j \in DOMAIN t : j <= i    \* nr_programs - 1

(***************************************************************************)
(* cmp_progs(): by section, then by offset in the section.                 *)
(***************************************************************************)
CmpProgs(a, b) ==
    \/ a.sec_idx < b.sec_idx
    \/ a.sec_idx = b.sec_idx /\ a.sec_insn_off < b.sec_insn_off

(***************************************************************************)
(* A table as bpf_object__elf_collect() leaves it: at least one program,   *)
(* sorted by CmpProgs, and within one section a program ends where, or     *)
(* before, the next one begins.  ObjectOpen checks that elf_collect        *)
(* establishes this (ProgramsTile there).                                  *)
(***************************************************************************)
WellFormed(t) ==
    /\ LastIdx(t) \in Nat
    /\ DOMAIN t = 0 .. LastIdx(t)
    /\ \A i \in DOMAIN t : IsProgram(t[i])
    /\ \A i, j \in DOMAIN t :
          i < j => /\ CmpProgs(t[i], t[j])
                   /\ t[i].sec_idx = t[j].sec_idx =>
                         t[i].sec_insn_off + t[i].sec_insn_cnt <= t[j].sec_insn_off

(***************************************************************************)
(* prog_contains_insn(), and the section test its callers add.             *)
(***************************************************************************)
ContainsInsn(p, insn_idx) ==
    /\ insn_idx >= p.sec_insn_off
    /\ insn_idx < p.sec_insn_off + p.sec_insn_cnt

Owns(p, sec_idx, insn_idx) ==
    p.sec_idx = sec_idx /\ ContainsInsn(p, insn_idx)

(***************************************************************************)
(* What find_prog_by_sec_insn() returns on a well-formed table: the index  *)
(* of the owner, NULL when there is none.  FindProg models the binary      *)
(* search itself, and FindProgProofs proves that it returns this.  (A      *)
(* table without programs is not well-formed: the code reads programs[0]   *)
(* of it all the same, of which nothing is said here.)                     *)
(***************************************************************************)
OwnerOf(t, sec_idx, insn_idx) ==
    IF \E i \in DOMAIN t : Owns(t[i], sec_idx, insn_idx)
      THEN CHOOSE i \in DOMAIN t : Owns(t[i], sec_idx, insn_idx)
      ELSE NULL

(***************************************************************************)
(* qsort() of the n elements of an array: the element that k others        *)
(* precede goes to index k.  Elements that compare equal keep their order, *)
(* as glibc's merge sort leaves them.                                      *)
(***************************************************************************)
QSort(t, n, Less(_, _)) ==
    LET precedes(j, i) == Less(t[j], t[i]) \/ (~Less(t[i], t[j]) /\ j < i)
        rank(i) == Cardinality({j \in 0 .. n - 1 : precedes(j, i)})
    IN  [k \in 0 .. n - 1 |-> t[CHOOSE i \in 0 .. n - 1 : rank(i) = k]]

=============================================================================
