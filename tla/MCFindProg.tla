----------------------------- MODULE MCFindProg -----------------------------
(***************************************************************************)
(* Every well-formed table of at most MaxProgs programs in two ELF         *)
(* sections, searched for every instruction of these sections, of a third  *)
(* section that holds no program, and past the last program.               *)
(***************************************************************************)
EXTENDS FindProg

MaxProgs == 4

MCProgram == [sec_idx : {1, 3}, sec_insn_off : 0 .. 2, sec_insn_cnt : 1 .. 2]

MCTables ==
    {t \in UNION {[0 .. n - 1 -> MCProgram] : n \in 1 .. MaxProgs} : WellFormed(t)}

MCSecIdxs == 1 .. 3
MCInsnIdxs == 0 .. 4
=============================================================================
