----------------------------- MODULE MCPatchElf -----------------------------
EXTENDS PatchElf

Exit == <<149, 0, 0, 0, 0, 0, 0, 0>>
Mov == <<183, 0, 0, 0, 24, 0, 0, 0>>
Lddw(imm, hi) == <<24, 3, 0, 0, imm, 0, 0, 0, 0, 0, 0, 0, hi, 0, 0, 0>>

\* The section of interest as compiled: a map reference, a data reference
\* with an addend, one of each, no reference.
Codes == { Lddw(0, 0) \o Exit, Lddw(4, 0) \o Exit,
           Lddw(0, 0) \o Lddw(4, 0), Mov \o Lddw(0, 0), Mov \o Mov \o Exit }

RelocsOf(code) ==
    CASE code = Lddw(0, 0) \o Exit ->
           {{}} \cup {{[slot |-> 0, type |-> "LD64", fd |-> fd, off |-> 0]} : fd \in {0, 3, 24}}
      [] code = Lddw(4, 0) \o Exit -> {{[slot |-> 0, type |-> "DATA", fd |-> 1, off |-> 12]}}
      [] code = Lddw(0, 0) \o Lddw(4, 0) ->
           {{[slot |-> 0, type |-> "LD64", fd |-> 0, off |-> 0],
             [slot |-> 2, type |-> "DATA", fd |-> 1, off |-> 12]}}
      [] code = Mov \o Lddw(0, 0) -> {{[slot |-> 1, type |-> "LD64", fd |-> 3, off |-> 0]}}
      [] OTHER -> {{}}

Header == [p \in 1 .. 64 |-> 100 + p]
First == <<1, 2, 3, 4, 5, 6, 7, 8>>
Second == <<11, 12, 13, 14, 15, 16, 17, 18, 19, 20, 21, 22, 23, 24, 25, 26>>
Rest == <<31, 32, 33>>

\* header, first, second, target, rest
Bytes(code) == Header \o First \o Second \o code \o Rest
Secs(code) ==
    [n \in {"first", "second", "target"} |->
       CASE n = "first" -> [sh_offset |-> 64, sh_size |-> 8]
         [] n = "second" -> [sh_offset |-> 72, sh_size |-> 16]
         [] n = "target" -> [sh_offset |-> 88, sh_size |-> Len(code)]]

\* Complete, empty, incomplete, swapped and misspelt lists; for "first" the
\* empty list is the complete one.
Lists == { <<"first", "second">>, <<>>, <<"second">>, <<"second", "first">>,
           <<"first", "secnd">> }

Command(code, name, list, insns, relos, remove, output) ==
    [elf_file |-> "in.o", output |-> output, bytes |-> Bytes(code), secs |-> Secs(code),
     section_name |-> name, sections |-> list, remove_reloc |-> remove,
     new_insns |-> insns, relos |-> relos]

\* Code to confuse the clearing pass.  One-slot instructions: the opcode of
\* lddw in the offset and the immediate of a mov whose src register is 1, an
\* exit; lddw: a map descriptor, a map value, a plain 64-bit immediate, with
\* registers, offset and immediates that tell the bytes apart.
OneSlot == { <<191, 18, 24, 16, 24, 16, 0, 0>>, Exit }
TwoSlots ==
    { <<24, 16 * src + 2, 0, 7, imm, 24, 0, 1, 0, 0, 0, 0, 5, 24, 16, 24>> :
        src \in 0 .. 2, imm \in {3, 24} }
Chunks == OneSlot \cup TwoSlots
Confusing ==
    {<<>>} \cup Chunks \cup { c \o d : c, d \in Chunks }
           \cup { c \o d \o e : c, e \in TwoSlots, d \in OneSlot }
           \cup { c \o d \o e : c, e \in OneSlot, d \in TwoSlots }

\* The extractor's code patched back, other code (longer than the section or
\* as long), confusing code, another section, and the output over the input.
MCCommands ==
    UNION { { Command(code, name, list, Relocated(code, relos), relos, remove, "out.o") :
                relos \in RelocsOf(code), name \in {"target", "targt"}, list \in Lists,
                remove \in BOOLEAN } : code \in Codes }
    \cup { Command(Mov \o Mov \o Exit, "target", <<"first", "second">>, insns, {}, TRUE, out) :
             insns \in {Lddw(7, 0) \o Mov, Exit, Mov \o Mov \o Mov \o Exit},
             out \in {"in.o", "out.o"} }
    \cup { Command([p \in DOMAIN insns |-> 9], "target", <<"first", "second">>, insns, {}, TRUE, "out.o") :
             insns \in Confusing }
    \cup { Command(Exit \o Exit, "first", <<>>, Mov, {}, FALSE, "out.o") }

MCInsnFiles == {c.new_insns : c \in MCCommands}

=============================================================================
