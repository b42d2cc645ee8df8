----------------------------- MODULE ClearReloc -----------------------------
(***************************************************************************)
(* clear_reloc_insns() of patch_elf.py: one pass over the bytes of an      *)
(* instruction file that turns every "load map descriptor" instruction     *)
(* back into what the compiler emitted, in place, so that the relocation   *)
(* entries of the ELF file apply to it again.  The loop remembers what it  *)
(* has to do at later bytes in two indexes.  Offsets count from 0, as in   *)
(* the code; byte_array[p + 1] is the byte at offset p.                    *)
(***************************************************************************)
EXTENDS Integers, Sequences

CONSTANT
    InsnFiles           \* the contents of instruction files

VARIABLES
    byte_array,         \* the bytes, modified in place
    i,                  \* the loop counter
    src_clear_idx,      \* where the register byte of a pending lddw is, or -1
    insn_clear_idxs,    \* <<first, end>> of the bytes to zero, or <<-1, -1>>
    new_insns           \* the bytes as they were read from the file

cvars == <<byte_array, i, src_clear_idx, insn_clear_idxs, new_insns>>

Byte == 0 .. 255
LDDW_OPCODE == 24
PSEUDO_MAP_FD == 1      \* the src register of "load map descriptor"

Op(a, k) == a[8 * k + 1]
SrcReg(byte) == byte \div 16
Slots(a) == 0 .. (Len(a) \div 8) - 1

(***************************************************************************)
(* BPF code: whole 8-byte slots, and lddw, the only two-slot instruction,  *)
(* has a second slot, whose opcode byte is 0.                              *)
(***************************************************************************)
IsCode(a) ==
    /\ Len(a) % 8 = 0
    /\ \A k \in Slots(a) : Op(a, k) = LDDW_OPCODE =>
         k + 1 \in Slots(a) /\ Op(a, k + 1) = 0

ASSUME InsnFilesAssumption ==
    \A a \in InsnFiles : a \in Seq(Byte) /\ IsCode(a)

ClearInit ==
    /\ new_insns \in InsnFiles
    /\ byte_array = new_insns
    /\ i = 0
    /\ src_clear_idx = -1
    /\ insn_clear_idxs = <<-1, -1>>

More == i < Len(byte_array)
InClearRange == i >= insn_clear_idxs[1] /\ i < insn_clear_idxs[2]

(***************************************************************************)
(* The register byte of an lddw: one that does not load a map descriptor   *)
(* is left alone.                                                          *)
(***************************************************************************)
ForgetLddw ==
    /\ More /\ i = src_clear_idx
    /\ SrcReg(byte_array[i + 1]) # PSEUDO_MAP_FD
    /\ src_clear_idx' = -1
    /\ insn_clear_idxs' = <<-1, -1>>
    /\ i' = i + 1
    /\ UNCHANGED <<byte_array, new_insns>>

\* faulty variant: the other mask
HideDst(byte) == byte - (byte % 16)

HideSrc(byte) == byte % 16

\* no opcode test: this byte is never the first of a slot
ClearSrc ==
    /\ More /\ i = src_clear_idx
    /\ SrcReg(byte_array[i + 1]) = PSEUDO_MAP_FD
    /\ byte_array' = [byte_array EXCEPT ![i + 1] = HideSrc(@)]
    /\ i' = i + 1
    /\ UNCHANGED <<src_clear_idx, insn_clear_idxs, new_insns>>

ClearByte ==
    /\ More /\ i # src_clear_idx /\ InClearRange
    /\ byte_array' = [byte_array EXCEPT ![i + 1] = 0]
    /\ i' = i + 1
    /\ UNCHANGED <<src_clear_idx, insn_clear_idxs, new_insns>>

\* from the immediate of the lddw at offset p to the end of its second slot
ImmAndSecondSlot(p) == <<p + 4, p + 16>>

ScanByte ==
    /\ More /\ i # src_clear_idx /\ ~InClearRange
    /\ IF i % 8 = 0 /\ byte_array[i + 1] = LDDW_OPCODE
         THEN /\ src_clear_idx' = i + 1
              /\ insn_clear_idxs' = ImmAndSecondSlot(i)
         ELSE UNCHANGED <<src_clear_idx, insn_clear_idxs>>
    /\ i' = i + 1
    /\ UNCHANGED <<byte_array, new_insns>>

ClearNext == ForgetLddw \/ ClearSrc \/ ClearByte \/ ScanByte

ClearSpec == ClearInit /\ [][ClearNext]_cvars

-----------------------------------------------------------------------------

ClearTypeOK ==
    /\ new_insns \in InsnFiles
    /\ byte_array \in Seq(Byte) /\ Len(byte_array) = Len(new_insns)
    /\ i \in 0 .. Len(new_insns)
    /\ \/ src_clear_idx = -1 /\ insn_clear_idxs = <<-1, -1>>
       \/ \E k \in Slots(new_insns) :
            src_clear_idx = 8 * k + 1 /\ insn_clear_idxs = <<8 * k + 4, 8 * k + 16>>

(***************************************************************************)
(* Slot k of code a is the first of a "load map descriptor".               *)
(***************************************************************************)
LoadsMap(a, k) ==
    k \in Slots(a) /\ Op(a, k) = LDDW_OPCODE /\ SrcReg(a[8 * k + 2]) = PSEUDO_MAP_FD

(***************************************************************************)
(* Byte b of slot k of code a with its map references cleared: opcode,     *)
(* destination and offset stay, the rest of the two slots is zero; no      *)
(* other instruction is touched.                                           *)
(***************************************************************************)
ClearedByte(a, k, b) ==
    IF LoadsMap(a, k) /\ b = 1 THEN a[8 * k + 2] % 16
    ELSE IF LoadsMap(a, k) /\ b >= 4 THEN 0
    ELSE IF LoadsMap(a, k - 1) THEN 0
    ELSE a[8 * k + b + 1]

(***************************************************************************)
(* At any moment of the pass, the bytes behind the loop counter are the    *)
(* code with its map references cleared and the bytes ahead of it are as   *)
(* they were read: the two remembered indexes never clear a byte of        *)
(* another instruction and never miss one of this.                         *)
(***************************************************************************)
ClearExact ==
    \A k \in Slots(new_insns), b \in 0 .. 7 :
      byte_array[8 * k + b + 1] = IF 8 * k + b < i THEN ClearedByte(new_insns, k, b)
                                                   ELSE new_insns[8 * k + b + 1]

=============================================================================
