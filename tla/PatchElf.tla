------------------------------ MODULE PatchElf ------------------------------
(***************************************************************************)
(* patch_elf.py: writes a copy of an ELF file in which the bytes of one    *)
(* section are replaced by an instruction file.  The copy is put together  *)
(* from four pieces: the file header, the sections the user lists as       *)
(* preceding the section, the instructions, and what is left of the file   *)
(* after as many bytes as the listed sections and the section have.        *)
(* Composes ClearReloc, the pass of the option --remove-reloc.             *)
(***************************************************************************)
EXTENDS ClearReloc

CONSTANT
    Commands            \* command lines, each with the files it names

VARIABLES
    cmd,                \* the command line
    pc,                 \* where the script is
    disk,               \* the ELF file named and the output file: name -> bytes
    k,                  \* loop counter over the preceding sections
    offset,             \* bytes of the sections written so far
    status              \* the script's exit status once it ends

pvars == <<cmd, pc, disk, k, offset, status>>
allvars == <<cvars, pvars>>

(***************************************************************************)
(* A command: elf_file and output are names, bytes the contents of the ELF *)
(* file, secs what pyelftools finds in it (section name -> [sh_offset,     *)
(* sh_size]), section_name, sections and remove_reloc the other arguments, *)
(* new_insns the contents of the instruction file, relos the relocations   *)
(* the text extractor applied to it.                                       *)
(***************************************************************************)
Data(c, name) ==
    SubSeq(c.bytes, c.secs[name].sh_offset + 1,
           c.secs[name].sh_offset + c.secs[name].sh_size)

ASSUME CommandsAssumption ==
    \A c \in Commands :
      /\ c.bytes \in Seq(Byte) /\ Len(c.bytes) >= 64
      /\ c.new_insns \in InsnFiles
      /\ c.section_name \in STRING /\ c.sections \in Seq(STRING)
      /\ \A n \in DOMAIN c.secs :
           /\ c.secs[n].sh_offset \in Nat /\ c.secs[n].sh_size \in Nat
           /\ c.secs[n].sh_offset + c.secs[n].sh_size <= Len(c.bytes)

Init ==
    /\ ClearInit
    /\ cmd \in Commands /\ cmd.new_insns = new_insns
    /\ pc = "header"
    /\ disk = [n \in {cmd.elf_file, cmd.output} |->
                 IF n = cmd.elf_file THEN cmd.bytes ELSE <<>>]
    /\ k = 0 /\ offset = 0 /\ status = 0

Take(s, n) == SubSeq(s, 1, IF n <= Len(s) THEN n ELSE Len(s))

\* faulty variant: one byte short
DropAfter(s, n) == SubSeq(s, n + 2, Len(s))

Drop(s, n) == SubSeq(s, n + 1, Len(s))

Appended(bytes) == [disk EXCEPT ![cmd.output] = @ \o bytes]

(***************************************************************************)
(* read_elf_file_header(): the output is truncated before the input is     *)
(* read, which matters when they are the same file.                        *)
(***************************************************************************)
ReadHeader ==
    LET truncated == [disk EXCEPT ![cmd.output] = <<>>] IN
    /\ pc = "header"
    /\ disk' = [truncated EXCEPT ![cmd.output] = Take(truncated[cmd.elf_file], 64)]
    /\ pc' = "open"
    /\ UNCHANGED <<cvars, cmd, k, offset, status>>

Exit1 ==
    /\ pc' = "exit" /\ status' = 1
    /\ UNCHANGED <<cvars, cmd, disk, k, offset>>

(***************************************************************************)
(* read_elf_sections().  ELFFile() raises an exception on an empty file.   *)
(***************************************************************************)
NotAnElf == pc = "open" /\ disk[cmd.elf_file] = <<>> /\ Exit1

SectionMissing ==
    /\ pc = "open" /\ disk[cmd.elf_file] # <<>>
    /\ cmd.section_name \notin DOMAIN cmd.secs
    /\ Exit1

FindSection ==
    /\ pc = "open" /\ disk[cmd.elf_file] # <<>>
    /\ cmd.section_name \in DOMAIN cmd.secs
    /\ pc' = "preceding"
    /\ UNCHANGED <<cvars, cmd, disk, k, offset, status>>

PrecedingMissing ==
    /\ pc = "preceding" /\ k < Len(cmd.sections)
    /\ cmd.sections[k + 1] \notin DOMAIN cmd.secs
    /\ Exit1

CopyPreceding ==
    /\ pc = "preceding" /\ k < Len(cmd.sections)
    /\ cmd.sections[k + 1] \in DOMAIN cmd.secs
    /\ offset' = offset + cmd.secs[cmd.sections[k + 1]].sh_size
    /\ disk' = Appended(Data(cmd, cmd.sections[k + 1]))
    /\ k' = k + 1
    /\ UNCHANGED <<cvars, cmd, pc, status>>

(***************************************************************************)
(* patch_insns()                                                           *)
(***************************************************************************)
ReadInsns ==
    /\ pc = "preceding" /\ k = Len(cmd.sections)
    /\ offset' = offset + cmd.secs[cmd.section_name].sh_size
    /\ pc' = IF cmd.remove_reloc THEN "clear" ELSE "write"
    /\ UNCHANGED <<cvars, cmd, disk, k, status>>

ClearStep == pc = "clear" /\ ClearNext /\ UNCHANGED pvars

WriteInsns ==
    /\ pc = "write" \/ (pc = "clear" /\ ~More)
    /\ disk' = Appended(byte_array)
    /\ pc' = "remaining"
    /\ UNCHANGED <<cvars, cmd, k, offset, status>>

(***************************************************************************)
(* write_remaining_bytes().  _parse_elf_header() leaves the stream behind  *)
(* the 64-byte file header; the loop skips offset bytes from there.        *)
(***************************************************************************)
WriteRemaining ==
    /\ pc = "remaining"
    /\ disk' = Appended(Drop(disk[cmd.elf_file], 64 + offset))
    /\ pc' = "exit"
    /\ UNCHANGED <<cvars, cmd, k, offset, status>>

Exited == pc = "exit" /\ UNCHANGED allvars

Next ==
    \/ ReadHeader \/ NotAnElf \/ SectionMissing \/ FindSection
    \/ PrecedingMissing \/ CopyPreceding \/ ReadInsns \/ ClearStep
    \/ WriteInsns \/ WriteRemaining \/ Exited

Spec == Init /\ [][Next]_allvars

-----------------------------------------------------------------------------

Target(c) == c.secs[c.section_name]

(***************************************************************************)
(* What the user has to provide: the listed sections and the section lie   *)
(* one after the other from the end of the file header (README), and the   *)
(* new code is as long as the old (the NOTE in main()).                    *)
(***************************************************************************)
Chain(c) == c.sections \o <<c.section_name>>

LaidOut(c) ==
    /\ \A q \in 1 .. Len(Chain(c)) : Chain(c)[q] \in DOMAIN c.secs
    /\ c.secs[Chain(c)[1]].sh_offset = 64
    /\ \A q \in 1 .. Len(c.sections) :
         c.secs[Chain(c)[q + 1]].sh_offset =
           c.secs[Chain(c)[q]].sh_offset + c.secs[Chain(c)[q]].sh_size
    /\ Len(c.new_insns) = Target(c).sh_size

(***************************************************************************)
(* The ELF file of a command with other bytes in place of the section.     *)
(***************************************************************************)
Patched(c, code) ==
    [p \in 1 .. Len(c.bytes) |->
       IF p > Target(c).sh_offset /\ p <= Target(c).sh_offset + Target(c).sh_size
         THEN code[p - Target(c).sh_offset]
         ELSE c.bytes[p]]

Succeeded == pc = "exit" /\ status = 0

(***************************************************************************)
(* "Creates a new ELF file with new instructions patched into a section of *)
(* interest": of a file laid out as the user says, no byte outside the     *)
(* section changes, none is lost or moved, and the section holds exactly   *)
(* the new code - with --remove-reloc, cleared to its last byte.           *)
(***************************************************************************)
OnlySectionPatched ==
    Succeeded /\ LaidOut(cmd) =>
      /\ disk[cmd.output] = Patched(cmd, byte_array)
      /\ i = IF cmd.remove_reloc THEN Len(new_insns) ELSE 0

(***************************************************************************)
(* bpf_object__relocate_data() of the text extractor on the bytes of code  *)
(* a: relocation r names the first slot of an lddw, the map's descriptor   *)
(* fd and, for data, what the second immediate becomes.                    *)
(***************************************************************************)
RelocatedByte(a, relos, s, b) ==
    LET byte == a[8 * s + b + 1]
        at(slot) == {r \in relos : r.slot = slot}
        lo == CHOOSE r \in at(s) : TRUE
        hi == CHOOSE r \in at(s - 1) : TRUE
    IN
    CASE at(s) # {} /\ b = 1 -> (IF lo.type = "LD64" THEN 16 ELSE 32) + (byte % 16)
      [] at(s) # {} /\ b >= 4 -> IF b = 4 THEN lo.fd ELSE 0
      [] at(s - 1) # {} /\ b >= 4 /\ hi.type = "DATA" -> IF b = 4 THEN hi.off ELSE 0
      [] OTHER -> byte

Relocated(a, relos) ==
    [p \in 1 .. Len(a) |-> RelocatedByte(a, relos, (p - 1) \div 8, (p - 1) % 8)]

FromExtractor == cmd.new_insns = Relocated(Data(cmd, cmd.section_name), cmd.relos)

(***************************************************************************)
(* A map reference as the compiler leaves it to the relocation entries: no *)
(* src register, no immediate.                                             *)
(***************************************************************************)
Unrelocated(a, r) ==
    /\ Op(a, r.slot) = LDDW_OPCODE /\ SrcReg(a[8 * r.slot + 2]) = 0
    /\ \A b \in 4 .. 15 : a[8 * r.slot + b + 1] = 0

(***************************************************************************)
(* Compiled code all of whose relocations are map references: no register  *)
(* or immediate of a reference is set yet, so nothing loads a map.         *)
(***************************************************************************)
Compiled(a, relos) ==
    /\ \A r \in relos : r.slot \in Slots(a) /\ r.type = "LD64" /\ Unrelocated(a, r)
    /\ \A s \in Slots(a) : ~LoadsMap(a, s)

(***************************************************************************)
(* Patching with --remove-reloc undoes the text extractor: the code it     *)
(* wrote for a section whose relocations are all map references, patched   *)
(* back unchanged, gives the ELF file it was extracted from.               *)
(***************************************************************************)
UndoesExtraction ==
    Succeeded /\ LaidOut(cmd) /\ cmd.remove_reloc /\ FromExtractor
    /\ Compiled(Data(cmd, cmd.section_name), cmd.relos)
    => disk[cmd.output] = cmd.bytes

=============================================================================
