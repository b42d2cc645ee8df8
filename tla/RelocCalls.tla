----------------------------- MODULE RelocCalls -----------------------------
(***************************************************************************)
(* The second half of bpf_object__relocate() of libbpf.c: every entry      *)
(* program gets a copy of each sub-program it needs appended to its        *)
(* instructions, and every call is pointed at the copy of its callee.      *)
(* bpf_object__reloc_code() is recursive; its activations are the frames   *)
(* of an explicit stack.  The relocation descriptors are only read; the    *)
(* flag "processed", which nothing reads, and the release of the           *)
(* descriptors at the end are left out.                                    *)
(*                                                                         *)
(* An object is a record                                                   *)
(*   text_shndx : the ELF index of .text                                   *)
(*   progs : obj->programs, well formed in the sense of ProgTable, each    *)
(*           with insns, a sequence of [call, imm] (call: a call of a      *)
(*           sub-program) and relos, a set of [insn_idx, sym_off]: its     *)
(*           RELO_CALL descriptors                                         *)
(*   info  : the .BTF.ext records, kind by kind and section by section:    *)
(*           rising offsets in bytes                                       *)
(***************************************************************************)
EXTENDS ProgTable, Sequences, FiniteSetsExt

CONSTANT Objects            \* the objects relocated, by name

BPF_INSN_SZ == 8
Kinds == {"func", "line"}   \* func_info and line_info

Insns == [call : BOOLEAN, imm : Int]

\* bpf_object__init_prog() refuses a program without instructions.
ASSUME ObjectsWellFormed ==
    \A o \in DOMAIN Objects :
      /\ WellFormed(Objects[o].progs)
      /\ \A p \in DOMAIN Objects[o].progs :
           /\ Objects[o].progs[p].insns \in Seq(Insns)
           /\ Len(Objects[o].progs[p].insns) = Objects[o].progs[p].sec_insn_cnt
           /\ Objects[o].progs[p].sec_insn_cnt > 0

(***************************************************************************)
(* What compilers make true of an object, and reloc_code() takes for       *)
(* granted: a call without a relocation is one within .text; the only      *)
(* program of an object is no function of .text; and the records of a      *)
(* section rise, at most one for an instruction.  RelocCallsProofs names   *)
(* them as hypotheses, where a theorem rests on them.                      *)
(***************************************************************************)
CallsInText ==
    \A o \in DOMAIN Objects : \A p \in DOMAIN Objects[o].progs :
      LET q == Objects[o].progs[p] IN
      \A k \in 0 .. q.sec_insn_cnt - 1 :
        q.insns[k + 1].call /\ q.sec_idx # Objects[o].text_shndx =>
          \E d \in q.relos : d.insn_idx = k

EntryOutsideText ==
    \A o \in DOMAIN Objects :
      LastIdx(Objects[o].progs) = 0 => Objects[o].progs[0].sec_idx # Objects[o].text_shndx

InfoInOrder ==
    \A o \in DOMAIN Objects : \A k \in Kinds : \A p \in DOMAIN Objects[o].progs :
      LET all == Objects[o].info[k][Objects[o].progs[p].sec_idx] IN
      /\ all \in Seq(Nat)
      /\ \A a, b \in DOMAIN all : a < b => all[a] \div BPF_INSN_SZ < all[b] \div BPF_INSN_SZ

VARIABLES
    id,             \* the object
    m,              \* the program bpf_object__relocate() has reached
    stack,          \* activations of reloc_code(), innermost last
    insns,          \* prog->insns
    sub_insn_off,   \* prog->sub_insn_off
    info,           \* prog->func_info and prog->line_info, <<>> when NULL
    err

vars == <<id, m, stack, insns, sub_insn_off, info, err>>

progs == Objects[id].progs
Progs == DOMAIN progs
text_shndx == Objects[id].text_shndx

(***************************************************************************)
(* prog_is_subprog()                                                       *)
(***************************************************************************)
IsSubprog(p) == progs[p].sec_idx = text_shndx /\ LastIdx(progs) > 0

Init ==
    /\ id \in DOMAIN Objects
    /\ m = 0
    /\ stack = <<>>
    /\ insns = [p \in Progs |-> progs[p].insns]
    /\ sub_insn_off = [p \in Progs |-> 0]
    /\ info = [k \in Kinds |-> [p \in Progs |-> <<>>]]
    /\ err = "none"

-----------------------------------------------------------------------------

(***************************************************************************)
(* adjust_prog_btf_ext_info(): the records of p, from the first to the     *)
(* last, moved to where p is in the main program, in instructions.         *)
(***************************************************************************)
Copied(k, p) ==
    LET all == Objects[id].info[k][progs[p].sec_idx]
        mine == {n \in DOMAIN all : ContainsInsn(progs[p], all[n] \div BPF_INSN_SZ)}
    IN IF mine = {} THEN <<>> ELSE SubSeq(all, Min(mine), Max(mine))

RecordsUnmoved(k, p, off) ==                    \* faulty variant
    [n \in DOMAIN Copied(k, p) |-> Copied(k, p)[n] \div BPF_INSN_SZ]

Records(k, p, off) ==
    [n \in DOMAIN Copied(k, p) |->
       Copied(k, p)[n] \div BPF_INSN_SZ + (off - progs[p].sec_insn_off)]

(***************************************************************************)
(* reloc_prog_func_and_line_info(): a main program without records keeps   *)
(* none, and then neither do its sub-programs; a sub-program without       *)
(* records under a main program that has some is an error.                 *)
(***************************************************************************)
Missing(k, p) == info[k][m] # <<>> /\ Records(k, p, 0) = <<>>

AddedInfo(k, p, off) ==
    IF p # m /\ info[k][m] = <<>> THEN info[k]
    ELSE [info[k] EXCEPT ![m] = @ \o Records(k, p, off)]

AddInfo(p, off) ==
    /\ \A k \in Kinds : ~Missing(k, p)
    /\ info' = [k \in Kinds |-> AddedInfo(k, p, off)]

\* It fails at records of kind k, func_info being done before line_info:
\* they are missing, or the realloc() of the main program's records fails.
InfoFails(p, off) == \E k \in Kinds :
    /\ k = "line" => ~Missing("func", p)
    /\ info' = IF k = "func" THEN info
               ELSE [info EXCEPT !["func"] = AddedInfo("func", p, off)]
    /\ \/ Missing(k, p) /\ err' = "ENOENT"
       \/ AddedInfo(k, p, off) # info[k] /\ err' = "ENOMEM"

(***************************************************************************)
(* bpf_object__relocate() passes sub-programs over; for another program    *)
(* bpf_object__relocate_calls() forgets where the previous main program    *)
(* had its sub-programs, and enters reloc_code().                          *)
(***************************************************************************)
SkipSubprog ==
    /\ err = "none" /\ stack = <<>> /\ m \in Progs
    /\ IsSubprog(m)
    /\ m' = m + 1
    /\ UNCHANGED <<id, stack, insns, sub_insn_off, info, err>>

KeepOffsets == sub_insn_off                     \* faulty variant

ResetOffsets == [p \in Progs |-> IF IsSubprog(p) THEN 0 ELSE sub_insn_off[p]]

StartProg ==
    /\ err = "none" /\ stack = <<>> /\ m \in Progs
    /\ ~IsSubprog(m)
    /\ sub_insn_off' = ResetOffsets
    /\ \/ /\ AddInfo(m, 0)
          /\ stack' = <<[prog |-> m, insn_idx |-> 0]>>
          /\ UNCHANGED err
       \/ InfoFails(m, 0) /\ UNCHANGED stack
    /\ UNCHANGED <<id, m, insns>>

-----------------------------------------------------------------------------

Top == stack[Len(stack)]
Under(s) == SubSeq(s, 1, Len(s) - 1)
InLoop == err = "none" /\ stack # <<>> /\ Top.insn_idx < progs[Top.prog].sec_insn_cnt

(***************************************************************************)
(* The instruction under the loop of reloc_code(), in the main program.    *)
(***************************************************************************)
At(f) == sub_insn_off[f.prog] + f.insn_idx
Insn == insns[m][At(Top) + 1]

Advance(s) == [s EXCEPT ![Len(s)].insn_idx = @ + 1]

SkipInsn ==
    /\ InLoop /\ ~Insn.call
    /\ stack' = Advance(stack)
    /\ UNCHANGED <<id, m, insns, sub_insn_off, info, err>>

(***************************************************************************)
(* The instruction index in .text of the callee.  With a relocation: the   *)
(* symbol's offset plus imm; without: relative to the place of the call in *)
(* its section.                                                            *)
(***************************************************************************)
SubInsnIdx(f, imm) ==
    LET p == progs[f.prog]
        relos == {d \in p.relos : d.insn_idx = f.insn_idx}
    IN IF relos # {}
         THEN (CHOOSE d \in relos : TRUE).sym_off \div BPF_INSN_SZ + imm + 1
         ELSE p.sec_insn_off + f.insn_idx + imm + 1

Callee == OwnerOf(progs, text_shndx, SubInsnIdx(Top, Insn.imm))

CallNowhere ==
    /\ InLoop /\ Insn.call
    /\ Callee = NULL
    /\ err' = "RELOC"
    /\ UNCHANGED <<id, m, stack, insns, sub_insn_off, info>>

(***************************************************************************)
(* The call's imm is relative to the instruction after it.                 *)
(***************************************************************************)
RelativeTo(callee_off, pos) == callee_off - pos     \* faulty variant

Displacement(callee_off, pos) == callee_off - pos - 1

PatchedInPlace(f, callee) ==                    \* faulty variant
    [insns EXCEPT ![f.prog][f.insn_idx + 1].imm = Displacement(sub_insn_off[callee], At(f))]

Patched(f, callee) ==
    [insns EXCEPT ![m][At(f) + 1].imm = Displacement(sub_insn_off[callee], At(f))]

CallKnown ==
    /\ InLoop /\ Insn.call
    /\ Callee # NULL /\ sub_insn_off[Callee] # 0
    /\ insns' = Patched(Top, Callee)
    /\ stack' = Advance(stack)
    /\ UNCHANGED <<id, m, sub_insn_off, info, err>>

(***************************************************************************)
(* The first call of a sub-program: its unmodified instructions go to the  *)
(* end of the main program, and the caller waits until it is relocated.    *)
(* (When the callee is the only program of the object, in .text, it is the *)
(* main program itself, whose insns_cnt has already grown when memcpy()    *)
(* uses it: what is written behind the new block is not modelled.)         *)
(***************************************************************************)
NotYetMarked(callee) == sub_insn_off            \* faulty variant

MarkAppended(callee) == [sub_insn_off EXCEPT ![callee] = Len(insns[m])]

CallNew ==
    /\ InLoop /\ Insn.call
    /\ Callee # NULL /\ sub_insn_off[Callee] = 0
    /\ sub_insn_off' = MarkAppended(Callee)
    /\ insns' = [insns EXCEPT ![m] = @ \o insns[Callee]]
    /\ \/ /\ AddInfo(Callee, Len(insns[m]))
          /\ stack' = Append(stack, [prog |-> Callee, insn_idx |-> 0])
          /\ UNCHANGED err
       \/ InfoFails(Callee, Len(insns[m])) /\ UNCHANGED stack
    /\ UNCHANGED <<id, m>>

\* The realloc() of the main program's instructions fails.
CallNoMemory ==
    /\ InLoop /\ Insn.call
    /\ Callee # NULL /\ sub_insn_off[Callee] = 0
    /\ sub_insn_off' = MarkAppended(Callee)
    /\ err' = "ENOMEM"
    /\ UNCHANGED <<id, m, stack, insns, info>>

(***************************************************************************)
(* reloc_code() is through with the innermost program: back in the caller, *)
(* the call that was put on hold is pointed at it.                         *)
(***************************************************************************)
ReturnToCaller ==
    /\ err = "none" /\ Len(stack) > 1
    /\ Top.insn_idx >= progs[Top.prog].sec_insn_cnt
    /\ insns' = Patched(stack[Len(stack) - 1], Top.prog)
    /\ stack' = Advance(Under(stack))
    /\ UNCHANGED <<id, m, sub_insn_off, info, err>>

FinishProg ==
    /\ err = "none" /\ Len(stack) = 1
    /\ Top.insn_idx >= progs[Top.prog].sec_insn_cnt
    /\ stack' = <<>>
    /\ m' = m + 1
    /\ UNCHANGED <<id, insns, sub_insn_off, info, err>>

Finished == (err # "none" \/ m \notin Progs) /\ UNCHANGED vars

Next ==
    \/ SkipSubprog \/ StartProg \/ SkipInsn
    \/ CallNowhere \/ CallKnown \/ CallNew \/ CallNoMemory
    \/ ReturnToCaller \/ FinishProg \/ Finished

Spec == Init /\ [][Next]_vars

-----------------------------------------------------------------------------

TypeOK ==
    /\ id \in DOMAIN Objects
    /\ m \in Nat
    /\ stack \in Seq([prog : Progs, insn_idx : Nat])
    /\ insns \in [Progs -> Seq(Insns)]
    /\ sub_insn_off \in [Progs -> Nat]
    /\ err \in {"none", "RELOC", "ENOENT", "ENOMEM"}

(***************************************************************************)
(* reloc_code() never enters a program it is already in, so calls that     *)
(* form a cycle cannot make it recurse without end: sub_insn_off is set    *)
(* before the sub-program is processed.  (A recursive function that is the *)
(* only program of its object, in .text, is entered twice, not more.)      *)
(***************************************************************************)
NoReentry ==
    \A a, b \in DOMAIN stack :
      a # b /\ stack[a].prog = stack[b].prog => LastIdx(progs) = 0 /\ Len(stack) = 2

(***************************************************************************)
(* "subprog's instructions are always left untouched, as they need to be   *)
(* in unmodified state for subsequent main progs" (comment of              *)
(* bpf_object__relocate_calls()): neither they, nor the code of main       *)
(* programs not reached yet, change.                                       *)
(***************************************************************************)
SubprogsUntouched ==
    \A p \in Progs : (IsSubprog(p) \/ p > m) => insns[p] = progs[p].insns

(***************************************************************************)
(* What a call instruction of the ELF file calls: a relocated call a       *)
(* function of .text, any other one a function of the section it is in.    *)
(***************************************************************************)
CalleeInElf(p, k) ==
    LET f == [prog |-> p, insn_idx |-> k]
        sec == IF \E d \in progs[p].relos : d.insn_idx = k THEN text_shndx
                                                           ELSE progs[p].sec_idx
    IN OwnerOf(progs, sec, SubInsnIdx(f, progs[p].insns[k + 1].imm))

Calls(p) == {k \in 0 .. progs[p].sec_insn_cnt - 1 : progs[p].insns[k + 1].call}

Callees(p) == {CalleeInElf(p, k) : k \in Calls(p)}

(***************************************************************************)
(* The programs an entry program needs: those in every set of programs     *)
(* that has it and, with a program, all that this one calls.               *)
(***************************************************************************)
Closed(S) == \A q \in S : Callees(q) \cap Progs \subseteq S

Needed(p) ==
    LET closed == {S \in SUBSET Progs : p \in S /\ Closed(S)}
    IN {q \in Progs : \A S \in closed : q \in S}

(***************************************************************************)
(* The state in which the main program m has been relocated.               *)
(***************************************************************************)
Relocated ==
    /\ err = "none" /\ Len(stack) = 1
    /\ Top.insn_idx >= progs[Top.prog].sec_insn_cnt

(***************************************************************************)
(* A relocated main program consists of its own code and one copy of every *)
(* sub-program it needs, directly or not, and of nothing else: the copies  *)
(* tile it.                                                                *)
(***************************************************************************)
Appended == {p \in Progs : p = m \/ sub_insn_off[p] # 0}

Holds(p, pos) == pos >= sub_insn_off[p] /\ pos < sub_insn_off[p] + progs[p].sec_insn_cnt

CopiesTile ==
    Relocated =>
      /\ Appended = Needed(m)
      /\ \A pos \in 0 .. Len(insns[m]) - 1 : Cardinality({p \in Appended : Holds(p, pos)}) = 1
      /\ \A p \in Appended : sub_insn_off[p] + progs[p].sec_insn_cnt <= Len(insns[m])

(***************************************************************************)
(* In a relocated main program every instruction is that of the program it *)
(* was copied from, and every call leads to the first instruction of the   *)
(* copy of the program it calls in the ELF file.                           *)
(***************************************************************************)
Resolved(p, k) ==
    LET pos == sub_insn_off[p] + k
        insn == insns[m][pos + 1]
    IN IF k \in Calls(p)
         THEN /\ insn.call
              /\ CalleeInElf(p, k) \in Appended
              /\ pos + 1 + insn.imm = sub_insn_off[CalleeInElf(p, k)]
         ELSE insn = progs[p].insns[k + 1]

CallsResolved ==
    Relocated => \A p \in Appended : \A k \in 0 .. progs[p].sec_insn_cnt - 1 : Resolved(p, k)

(***************************************************************************)
(* The func_info and line_info of a relocated main program, when it has    *)
(* any, rise with the instructions, as the kernel requires, and each       *)
(* record is at the copy of the instruction it describes.                  *)
(***************************************************************************)
Described(k, p) ==
    LET all == Objects[id].info[k][progs[p].sec_idx]
        mine == {n \in DOMAIN all : ContainsInsn(progs[p], all[n] \div BPF_INSN_SZ)}
    IN {all[n] \div BPF_INSN_SZ - progs[p].sec_insn_off + sub_insn_off[p] : n \in mine}

InfoFollowsCode ==
    Relocated => \A k \in Kinds :
      LET recs == info[k][m] IN
      recs # <<>> =>
        /\ \A a, b \in DOMAIN recs : a < b => recs[a] < recs[b]
        /\ {recs[a] : a \in DOMAIN recs} = UNION {Described(k, p) : p \in Appended}

=============================================================================
