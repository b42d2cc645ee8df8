--------------------------- MODULE PatchElfProofs ---------------------------
(***************************************************************************)
(* patch_elf.py on any ELF file, section list and instruction file: no     *)
(* byte outside the section changes, and with --remove-reloc the script    *)
(* undoes the text extractor.                                              *)
(***************************************************************************)
EXTENDS PatchElf, ClearRelocProofs

(***************************************************************************)
(* Pieces of a file.                                                       *)
(***************************************************************************)
LEMMA Pieces ==
    ASSUME NEW S, NEW s \in Seq(S), NEW m \in Nat, NEW n \in Nat, m <= n, n <= Len(s)
    PROVE  /\ SubSeq(s, m + 1, n) \in Seq(S) /\ Len(SubSeq(s, m + 1, n)) = n - m
           /\ \A q \in 1 .. n - m : SubSeq(s, m + 1, n)[q] = s[m + q]
OBVIOUS

LEMMA Joined ==
    ASSUME NEW S, NEW s \in Seq(S), NEW t \in Seq(S)
    PROVE  /\ s \o t \in Seq(S) /\ Len(s \o t) = Len(s) + Len(t)
           /\ \A q \in 1 .. Len(s) : (s \o t)[q] = s[q]
           /\ \A q \in 1 .. Len(t) : (s \o t)[Len(s) + q] = t[q]
           /\ Len(s) \in Nat /\ Len(t) \in Nat
OBVIOUS

LEMMA SameSeq ==
    ASSUME NEW S, NEW s \in Seq(S), NEW t \in Seq(S), Len(s) = Len(t),
           \A q \in 1 .. Len(s) : s[q] = t[q]
    PROVE  s = t
OBVIOUS

LEMMA PrefixGrows ==
    ASSUME NEW S, NEW s \in Seq(S), NEW o \in Nat, NEW z \in Nat, o + z <= Len(s)
    PROVE  SubSeq(s, 1, o) \o SubSeq(s, o + 1, o + z) = SubSeq(s, 1, o + z)
<1> DEFINE a == SubSeq(s, 1, o)  b == SubSeq(s, o + 1, o + z)  c == SubSeq(s, 1, o + z)
<1>0. Len(s) \in Nat /\ o <= Len(s) /\ o + z \in Nat /\ 0 + 1 = 1 /\ o - 0 = o
      /\ (o + z) - 0 = o + z /\ (o + z) - o = z
  OBVIOUS
<1>1. a \in Seq(S) /\ Len(a) = o /\ \A q \in 1 .. o : a[q] = s[q]
  <2>1. /\ SubSeq(s, 0 + 1, o) \in Seq(S) /\ Len(SubSeq(s, 0 + 1, o)) = o - 0
        /\ \A q \in 1 .. o - 0 : SubSeq(s, 0 + 1, o)[q] = s[0 + q]
    BY <1>0, Pieces
  <2>2. \A q \in 1 .. o : 0 + q = q
    OBVIOUS
  <2> QED BY <1>0, <2>1, <2>2
<1>2. c \in Seq(S) /\ Len(c) = o + z /\ \A q \in 1 .. o + z : c[q] = s[q]
  <2>1. /\ SubSeq(s, 0 + 1, o + z) \in Seq(S) /\ Len(SubSeq(s, 0 + 1, o + z)) = (o + z) - 0
        /\ \A q \in 1 .. (o + z) - 0 : SubSeq(s, 0 + 1, o + z)[q] = s[0 + q]
    BY <1>0, Pieces
  <2>2. \A q \in 1 .. o + z : 0 + q = q
    OBVIOUS
  <2> QED BY <1>0, <2>1, <2>2
<1>3. b \in Seq(S) /\ Len(b) = z /\ \A q \in 1 .. z : b[q] = s[o + q]
  <2>1. /\ SubSeq(s, o + 1, o + z) \in Seq(S) /\ Len(SubSeq(s, o + 1, o + z)) = (o + z) - o
        /\ \A q \in 1 .. (o + z) - o : SubSeq(s, o + 1, o + z)[q] = s[o + q]
    BY <1>0, Pieces
  <2> QED BY <1>0, <2>1
<1> HIDE DEF a, b, c
<1>4. /\ a \o b \in Seq(S) /\ Len(a \o b) = o + z
      /\ \A q \in 1 .. o : (a \o b)[q] = a[q]
      /\ \A q \in 1 .. z : (a \o b)[o + q] = b[q]
  <2>1. /\ a \o b \in Seq(S) /\ Len(a \o b) = Len(a) + Len(b)
        /\ \A q \in 1 .. Len(a) : (a \o b)[q] = a[q]
        /\ \A q \in 1 .. Len(b) : (a \o b)[Len(a) + q] = b[q]
    <3>1. a \in Seq(S) /\ b \in Seq(S)
      BY <1>1, <1>3
    <3> QED BY <3>1, Joined
  <2> QED BY <1>1, <1>3, <2>1
<1>5. ASSUME NEW q \in 1 .. o + z PROVE (a \o b)[q] = c[q]
  <2>1. CASE q <= o
    <3>1. q \in 1 .. o
      BY <2>1
    <3> QED BY <1>1, <1>2, <1>4, <3>1
  <2>2. CASE q > o
    <3>1. q - o \in 1 .. z /\ o + (q - o) = q
      BY <2>2
    <3> QED BY <1>2, <1>3, <1>4, <3>1, ZenonT(80)
  <2>3. q <= o \/ q > o
    OBVIOUS
  <2> QED BY <2>1, <2>2, <2>3
<1>6. a \o b = c
  BY <1>2, <1>4, <1>5, SameSeq
<1> QED BY <1>6 DEF a, b, c

(***************************************************************************)
(* A command and the layout of its sections.                               *)
(***************************************************************************)
LEMMA CommandFacts ==
    ASSUME NEW c \in Commands
    PROVE  /\ c.bytes \in Seq(Byte) /\ Len(c.bytes) \in Nat /\ Len(c.bytes) >= 64
           /\ Len(c.sections) \in Nat
           /\ \A n \in DOMAIN c.secs :
                /\ c.secs[n].sh_offset \in Nat /\ c.secs[n].sh_size \in Nat
                /\ c.secs[n].sh_offset + c.secs[n].sh_size <= Len(c.bytes)
           /\ Len(Chain(c)) = Len(c.sections) + 1
           /\ Chain(c)[Len(c.sections) + 1] = c.section_name
           /\ \A q \in 1 .. Len(c.sections) : Chain(c)[q] = c.sections[q]
<1>1. /\ c.bytes \in Seq(Byte) /\ Len(c.bytes) >= 64
      /\ c.sections \in Seq(STRING) /\ c.section_name \in STRING
      /\ \A n \in DOMAIN c.secs :
           /\ c.secs[n].sh_offset \in Nat /\ c.secs[n].sh_size \in Nat
           /\ c.secs[n].sh_offset + c.secs[n].sh_size <= Len(c.bytes)
  BY CommandsAssumption
<1>2. Len(c.bytes) \in Nat /\ Len(c.sections) \in Nat
  BY <1>1
<1> DEFINE s == c.sections  t == <<c.section_name>>
<1>3. /\ Len(s \o t) = Len(s) + 1 /\ (s \o t)[Len(s) + 1] = c.section_name
      /\ \A q \in 1 .. Len(s) : (s \o t)[q] = s[q]
  BY <1>1
<1> QED BY <1>1, <1>2, <1>3 DEF Chain

OutInv ==
    /\ pc = "open" => disk[cmd.output] = SubSeq(cmd.bytes, 1, 64)
    /\ pc = "preceding" =>
         /\ k \in 0 .. Len(cmd.sections)
         /\ 64 + offset = cmd.secs[Chain(cmd)[k + 1]].sh_offset
         /\ disk[cmd.output] = SubSeq(cmd.bytes, 1, 64 + offset)
    /\ pc \in {"clear", "write", "remaining"} =>
         64 + offset = Target(cmd).sh_offset + Target(cmd).sh_size
    /\ pc \in {"clear", "write"} =>
         disk[cmd.output] = SubSeq(cmd.bytes, 1, Target(cmd).sh_offset)
    /\ pc = "remaining" =>
         disk[cmd.output] = SubSeq(cmd.bytes, 1, Target(cmd).sh_offset) \o byte_array
    /\ pc = "exit" /\ status = 0 =>
         disk[cmd.output] = SubSeq(cmd.bytes, 1, Target(cmd).sh_offset) \o byte_array
           \o SubSeq(cmd.bytes, Target(cmd).sh_offset + Target(cmd).sh_size + 1,
                     Len(cmd.bytes))

(***************************************************************************)
(* How far the pass of clear_reloc_insns() and the script have got.        *)
(***************************************************************************)
PassInv ==
    /\ pc \in {"header", "open", "preceding", "clear", "write", "remaining", "exit"}
    /\ pc \in {"header", "open", "preceding", "write"} \/ ~cmd.remove_reloc => i = 0
    /\ pc = "clear" => cmd.remove_reloc
    /\ pc = "write" => ~cmd.remove_reloc
    /\ pc = "remaining" \/ Succeeded => (cmd.remove_reloc => i = Len(new_insns))

FileInv ==
    /\ cmd \in Commands /\ cmd.new_insns = new_insns
    /\ DOMAIN disk = {cmd.elf_file, cmd.output}
    /\ pc \in {"header", "open"} => k = 0 /\ offset = 0
    /\ offset \in Nat
    /\ pc = "preceding" => cmd.section_name \in DOMAIN cmd.secs
    /\ pc = "header" => disk[cmd.elf_file] = cmd.bytes
    /\ cmd.elf_file # cmd.output => disk[cmd.elf_file] = cmd.bytes
    /\ cmd.elf_file = cmd.output =>
         /\ pc \in {"header", "open", "exit"}
         /\ pc = "open" => disk[cmd.elf_file] = <<>>
         /\ pc = "exit" => status = 1

PInv ==
    /\ IInv /\ FileInv /\ PassInv
    /\ LaidOut(cmd) /\ cmd.elf_file # cmd.output => OutInv

LEMMA InitPInv == Init => PInv
<1> SUFFICES ASSUME Init PROVE PInv
  OBVIOUS
<1>1. IInv
  BY InitIInv DEF Init
<1>2. FileInv
  BY DEF Init, FileInv
<1>3. PassInv
  BY DEF Init, ClearInit, PassInv, Succeeded
<1>4. OutInv
  BY DEF Init, OutInv
<1> QED BY <1>1, <1>2, <1>3, <1>4 DEF PInv

LEMMA SameClear == ASSUME IInv, UNCHANGED cvars PROVE IInv'
BY DEF IInv, cvars, ClearTypeOK, IndexInv, ClearExact, Remembers

LEMMA ReadHeaderPInv == ASSUME PInv, ReadHeader PROVE PInv'
<1>1. /\ pc = "header" /\ pc' = "open" /\ UNCHANGED <<cvars, cmd, k, offset, status>>
  BY DEF ReadHeader
<1>2. IInv' /\ i' = i /\ new_insns' = new_insns
  BY <1>1, SameClear DEF PInv, cvars
<1>3. /\ cmd \in Commands /\ DOMAIN disk = {cmd.elf_file, cmd.output}
      /\ disk[cmd.elf_file] = cmd.bytes
  BY <1>1 DEF PInv, FileInv
<1>4. /\ DOMAIN disk' = {cmd.elf_file, cmd.output}
      /\ cmd.elf_file # cmd.output =>
           /\ disk'[cmd.elf_file] = cmd.bytes
           /\ disk'[cmd.output] = Take(cmd.bytes, 64)
      /\ cmd.elf_file = cmd.output => disk'[cmd.elf_file] = Take(<<>>, 64)
  BY <1>3 DEF ReadHeader
<1>5. Take(<<>>, 64) = <<>>
  BY DEF Take
<1>6. Take(cmd.bytes, 64) = SubSeq(cmd.bytes, 1, 64)
  BY <1>3, CommandFacts DEF Take
<1>7. FileInv'
  BY <1>1, <1>2, <1>3, <1>4, <1>5 DEF PInv, FileInv
<1>8. PassInv'
  BY <1>1, <1>2 DEF PInv, PassInv, Succeeded
<1>9. cmd.elf_file # cmd.output => OutInv'
  BY <1>1, <1>4, <1>6 DEF OutInv
<1> QED BY <1>1, <1>2, <1>7, <1>8, <1>9 DEF PInv

LEMMA Exit1PInv == ASSUME PInv, Exit1 PROVE PInv'
<1>1. /\ pc' = "exit" /\ status' = 1 /\ UNCHANGED <<cvars, cmd, disk, k, offset>>
  BY DEF Exit1
<1>2. IInv' /\ i' = i /\ new_insns' = new_insns
  BY <1>1, SameClear DEF PInv, cvars
<1>3. FileInv'
  BY <1>1, <1>2 DEF PInv, FileInv
<1>4. PassInv'
  BY <1>1, <1>2 DEF PInv, PassInv, Succeeded
<1>5. OutInv'
  BY <1>1 DEF OutInv
<1> QED BY <1>2, <1>3, <1>4, <1>5 DEF PInv

LEMMA FindSectionPInv == ASSUME PInv, FindSection PROVE PInv'
<1>1. /\ pc = "open" /\ disk[cmd.elf_file] # <<>> /\ pc' = "preceding"
      /\ cmd.section_name \in DOMAIN cmd.secs
      /\ UNCHANGED <<cvars, cmd, disk, k, offset, status>>
  BY DEF FindSection
<1>2. IInv' /\ i' = i /\ new_insns' = new_insns
  BY <1>1, SameClear DEF PInv, cvars
<1>3. FileInv'
  BY <1>1, <1>2 DEF PInv, FileInv
<1>4. PassInv'
  BY <1>1, <1>2 DEF PInv, PassInv, Succeeded
<1>5. LaidOut(cmd) /\ cmd.elf_file # cmd.output => OutInv'
  <2> SUFFICES ASSUME LaidOut(cmd), cmd.elf_file # cmd.output PROVE OutInv'
    OBVIOUS
  <2>1. k = 0 /\ offset = 0 /\ cmd \in Commands /\ Len(cmd.sections) \in Nat
    BY <1>1, CommandFacts DEF PInv, FileInv
  <2>2. k \in 0 .. Len(cmd.sections) /\ k + 1 = 1 /\ 64 + offset = 64
    BY <2>1
  <2>3. cmd.secs[Chain(cmd)[1]].sh_offset = 64
    BY DEF LaidOut
  <2>4. disk[cmd.output] = SubSeq(cmd.bytes, 1, 64)
    BY <1>1 DEF PInv, OutInv
  <2> QED BY <1>1, <2>2, <2>3, <2>4 DEF OutInv
<1> QED BY <1>1, <1>2, <1>3, <1>4, <1>5 DEF PInv

LEMMA CopyPrecedingPInv == ASSUME PInv, CopyPreceding PROVE PInv'
<1> DEFINE sec == cmd.secs[cmd.sections[k + 1]]
<1>1. /\ pc = "preceding" /\ k < Len(cmd.sections) /\ k' = k + 1
      /\ cmd.sections[k + 1] \in DOMAIN cmd.secs
      /\ offset' = offset + sec.sh_size
      /\ disk' = Appended(Data(cmd, cmd.sections[k + 1]))
      /\ UNCHANGED <<cvars, cmd, pc, status>>
  BY DEF CopyPreceding
<1>2. IInv' /\ i' = i /\ new_insns' = new_insns
  BY <1>1, SameClear DEF PInv, cvars
<1>3. /\ cmd \in Commands /\ offset \in Nat /\ cmd.elf_file # cmd.output
      /\ DOMAIN disk = {cmd.elf_file, cmd.output}
      /\ sec.sh_offset \in Nat /\ sec.sh_size \in Nat
      /\ sec.sh_offset + sec.sh_size <= Len(cmd.bytes)
      /\ cmd.bytes \in Seq(Byte) /\ Len(cmd.sections) \in Nat
  BY <1>1, CommandFacts DEF PInv, FileInv
<1>4. /\ DOMAIN disk' = {cmd.elf_file, cmd.output}
      /\ disk'[cmd.elf_file] = disk[cmd.elf_file]
      /\ disk'[cmd.output] = disk[cmd.output] \o Data(cmd, cmd.sections[k + 1])
  BY <1>1, <1>3 DEF Appended
<1>5. FileInv'
  BY <1>1, <1>2, <1>3, <1>4 DEF PInv, FileInv
<1>6. PassInv'
  BY <1>1, <1>2 DEF PInv, PassInv, Succeeded
<1>7. LaidOut(cmd) => OutInv'
  <2> SUFFICES ASSUME LaidOut(cmd) PROVE OutInv'
    OBVIOUS
  <2>1. /\ k \in 0 .. Len(cmd.sections)
        /\ 64 + offset = cmd.secs[Chain(cmd)[k + 1]].sh_offset
        /\ disk[cmd.output] = SubSeq(cmd.bytes, 1, 64 + offset)
    BY <1>1, <1>3 DEF PInv, OutInv
  <2>2. k + 1 \in 1 .. Len(cmd.sections) /\ k + 1 \in 0 .. Len(cmd.sections)
    BY <1>1, <1>3, <2>1
  <2>3. cmd.secs[Chain(cmd)[k + 1]] = sec
    BY <1>3, <2>2, CommandFacts
  <2>4. cmd.secs[Chain(cmd)[k + 1 + 1]].sh_offset = sec.sh_offset + sec.sh_size
    BY <2>2, <2>3 DEF LaidOut
  <2>5. 64 + offset = sec.sh_offset
    BY <2>1, <2>3
  <2> DEFINE so == sec.sh_offset  sz == sec.sh_size
  <2>0. /\ so \in Nat /\ sz \in Nat /\ so + sz <= Len(cmd.bytes)
        /\ 64 + offset = so /\ offset' = offset + sz
    BY <1>1, <1>3, <2>5
  <2> HIDE DEF so, sz
  <2>6. 64 + offset' = so + sz
    BY <1>3, <2>0
  <2>7. disk'[cmd.output] = SubSeq(cmd.bytes, 1, so) \o SubSeq(cmd.bytes, so + 1, so + sz)
    BY <1>4, <2>1, <2>0 DEF Data, so, sz
  <2>8. disk'[cmd.output] = SubSeq(cmd.bytes, 1, so + sz)
    BY <1>3, <2>0, <2>7, PrefixGrows
  <2> QED BY <1>1, <2>2, <2>4, <2>6, <2>8 DEF OutInv, so, sz
<1> QED BY <1>1, <1>2, <1>3, <1>5, <1>6, <1>7 DEF PInv

LEMMA ReadInsnsPInv == ASSUME PInv, ReadInsns PROVE PInv'
<1>1. /\ pc = "preceding" /\ k = Len(cmd.sections)
      /\ offset' = offset + Target(cmd).sh_size
      /\ pc' = IF cmd.remove_reloc THEN "clear" ELSE "write"
      /\ UNCHANGED <<cvars, cmd, disk, k, status>>
  BY DEF ReadInsns, Target
<1>2. IInv' /\ i' = i /\ new_insns' = new_insns
  BY <1>1, SameClear DEF PInv, cvars
<1>3. /\ cmd \in Commands /\ offset \in Nat /\ cmd.elf_file # cmd.output
      /\ Target(cmd).sh_size \in Nat
  BY <1>1, CommandFacts DEF PInv, FileInv, Target
<1>4. offset' \in Nat
  BY <1>1, <1>3
<1>6. FileInv'
  BY <1>1, <1>2, <1>3, <1>4 DEF PInv, FileInv
<1>7. PassInv'
  BY <1>1, <1>2 DEF PInv, PassInv, Succeeded
<1>5. LaidOut(cmd) => OutInv'
  <2> SUFFICES ASSUME LaidOut(cmd) PROVE OutInv'
    OBVIOUS
  <2>1. /\ 64 + offset = cmd.secs[Chain(cmd)[k + 1]].sh_offset
        /\ disk[cmd.output] = SubSeq(cmd.bytes, 1, 64 + offset)
    BY <1>1, <1>3 DEF PInv, OutInv
  <2>2. Chain(cmd)[k + 1] = cmd.section_name
    BY <1>1, <1>3, CommandFacts
  <2>3. 64 + offset = Target(cmd).sh_offset
    BY <2>1, <2>2 DEF Target
  <2>5. 64 + offset' = Target(cmd).sh_offset + Target(cmd).sh_size
    <3> DEFINE so == Target(cmd).sh_offset  sz == Target(cmd).sh_size
    <3>1. 64 + offset = so /\ offset' = offset + sz /\ sz \in Nat /\ offset \in Nat
      BY <1>1, <1>3, <2>3
    <3> HIDE DEF so, sz
    <3>2. 64 + offset' = so + sz
      BY <3>1
    <3> QED BY <3>2 DEF so, sz
  <2> QED BY <1>1, <2>1, <2>3, <2>5 DEF OutInv, Target
<1> QED BY <1>1, <1>2, <1>3, <1>5, <1>6, <1>7 DEF PInv

LEMMA ClearStepPInv == ASSUME PInv, ClearStep PROVE PInv'
<1>1. pc = "clear" /\ ClearNext /\ UNCHANGED pvars
  BY DEF ClearStep
<1>2. IInv' /\ new_insns' = new_insns
  BY <1>1, StepIInv DEF PInv, ClearNext, ForgetLddw, ClearSrc, ClearByte, ScanByte
<1>3. FileInv'
  BY <1>1, <1>2 DEF PInv, FileInv, pvars
<1>4. PassInv'
  BY <1>1, <1>2 DEF PInv, PassInv, Succeeded, pvars
<1>5. LaidOut(cmd) /\ cmd.elf_file # cmd.output => OutInv'
  BY <1>1 DEF PInv, OutInv, pvars
<1> QED BY <1>1, <1>2, <1>3, <1>4, <1>5 DEF PInv, pvars

LEMMA WriteInsnsPInv == ASSUME PInv, WriteInsns PROVE PInv'
<1>1. /\ pc = "write" \/ (pc = "clear" /\ ~More)
      /\ disk' = Appended(byte_array) /\ pc' = "remaining"
      /\ UNCHANGED <<cvars, cmd, k, offset, status>>
  BY DEF WriteInsns
<1>2. IInv' /\ i' = i /\ new_insns' = new_insns /\ byte_array' = byte_array
  BY <1>1, SameClear DEF PInv, cvars
<1>3. cmd.elf_file # cmd.output /\ DOMAIN disk = {cmd.elf_file, cmd.output}
  BY <1>1 DEF PInv, FileInv
<1>4. /\ DOMAIN disk' = {cmd.elf_file, cmd.output}
      /\ disk'[cmd.elf_file] = disk[cmd.elf_file]
      /\ disk'[cmd.output] = disk[cmd.output] \o byte_array
  BY <1>1, <1>3 DEF Appended
<1>5. FileInv'
  BY <1>1, <1>2, <1>3, <1>4 DEF PInv, FileInv
<1>6. PassInv'
  <2>1. pc = "clear" => i = Len(new_insns)
    <3>1. /\ i \in 0 .. Len(new_insns) /\ Len(byte_array) = Len(new_insns)
          /\ new_insns \in InsnFiles
      BY DEF PInv, IInv, ClearTypeOK
    <3>2. Len(new_insns) \in Nat
      BY <3>1, CodeFacts
    <3> QED BY <1>1, <3>1, <3>2 DEF More
  <2> QED BY <1>1, <1>2, <2>1 DEF PInv, PassInv, Succeeded
<1>7. LaidOut(cmd) => OutInv'
  BY <1>1, <1>2, <1>3, <1>4 DEF PInv, OutInv
<1> QED BY <1>1, <1>2, <1>3, <1>5, <1>6, <1>7 DEF PInv

LEMMA WriteRemainingPInv == ASSUME PInv, WriteRemaining PROVE PInv'
<1>1. /\ pc = "remaining" /\ pc' = "exit"
      /\ disk' = Appended(Drop(disk[cmd.elf_file], 64 + offset))
      /\ UNCHANGED <<cvars, cmd, k, offset, status>>
  BY DEF WriteRemaining
<1>2. IInv' /\ i' = i /\ new_insns' = new_insns /\ byte_array' = byte_array
  BY <1>1, SameClear DEF PInv, cvars
<1>3. /\ cmd.elf_file # cmd.output /\ DOMAIN disk = {cmd.elf_file, cmd.output}
      /\ disk[cmd.elf_file] = cmd.bytes
  BY <1>1 DEF PInv, FileInv
<1>4. /\ DOMAIN disk' = {cmd.elf_file, cmd.output}
      /\ disk'[cmd.elf_file] = disk[cmd.elf_file]
      /\ disk'[cmd.output] = disk[cmd.output] \o SubSeq(cmd.bytes, 64 + offset + 1, Len(cmd.bytes))
  BY <1>1, <1>3 DEF Appended, Drop
<1>5. FileInv'
  BY <1>1, <1>2, <1>3, <1>4 DEF PInv, FileInv
<1>6. PassInv'
  BY <1>1, <1>2 DEF PInv, PassInv, Succeeded
<1>7. LaidOut(cmd) => OutInv'
  <2> SUFFICES ASSUME LaidOut(cmd) PROVE OutInv'
    OBVIOUS
  <2>1. /\ 64 + offset = Target(cmd).sh_offset + Target(cmd).sh_size
        /\ disk[cmd.output] = SubSeq(cmd.bytes, 1, Target(cmd).sh_offset) \o byte_array
    BY <1>1, <1>3 DEF PInv, OutInv
  <2> QED BY <1>1, <1>2, <1>4, <2>1 DEF OutInv, Target
<1> QED BY <1>1, <1>2, <1>3, <1>5, <1>6, <1>7 DEF PInv

LEMMA NextPInv == PInv /\ [Next]_allvars => PInv'
<1> SUFFICES ASSUME PInv, [Next]_allvars PROVE PInv'
  OBVIOUS
<1>1. CASE NotAnElf \/ SectionMissing \/ PrecedingMissing
  BY <1>1, Exit1PInv DEF NotAnElf, SectionMissing, PrecedingMissing
<1>2. CASE UNCHANGED allvars
  <2>1. IInv'
    BY <1>2, SameClear DEF PInv, allvars
  <2> QED BY <1>2, <2>1, ZenonT(80)
      DEF PInv, allvars, cvars, pvars, FileInv, PassInv, OutInv, Succeeded
<1> QED
  BY <1>1, <1>2, ReadHeaderPInv, FindSectionPInv, CopyPrecedingPInv, ReadInsnsPInv,
     ClearStepPInv, WriteInsnsPInv, WriteRemainingPInv
  DEF Next, Exited

(***************************************************************************)
(* Header and listed sections, code, rest: the file with other code in     *)
(* place of the section, when the code is as long as the section.          *)
(***************************************************************************)
LEMMA PatchedPieces ==
    ASSUME NEW c \in Commands, c.section_name \in DOMAIN c.secs,
           NEW code \in Seq(Byte), Len(code) = Target(c).sh_size
    PROVE  LET so == Target(c).sh_offset  sz == Target(c).sh_size IN
           /\ SubSeq(c.bytes, 1, so) \o code \o SubSeq(c.bytes, so + sz + 1, Len(c.bytes))
                = Patched(c, code)
           /\ Patched(c, code) \in Seq(Byte) /\ Len(Patched(c, code)) = Len(c.bytes)
<1> DEFINE so == Target(c).sh_offset  sz == Target(c).sh_size  N == Len(c.bytes)
           s == c.bytes
           a == SubSeq(s, 1, so)  b == SubSeq(s, so + sz + 1, N)
           p == Patched(c, code)
<1>1. s \in Seq(Byte) /\ N \in Nat /\ so \in Nat /\ sz \in Nat /\ so + sz <= N
  BY CommandFacts DEF Target
<1>2. p = [q \in 1 .. N |-> IF q > so /\ q <= so + sz THEN code[q - so] ELSE s[q]]
  BY DEF Patched
<1>3. Len(code) = sz
  OBVIOUS
<1>4. N = Len(s)
  OBVIOUS
<1> HIDE DEF so, sz, N, s, p
<1>5. a \in Seq(Byte) /\ Len(a) = so /\ \A q \in 1 .. so : a[q] = s[q]
  <2>1. 0 + 1 = 1 /\ so - 0 = so /\ so <= Len(s) /\ \A q \in 1 .. so : 0 + q = q
    BY <1>1, <1>4
  <2>2. /\ SubSeq(s, 0 + 1, so) \in Seq(Byte) /\ Len(SubSeq(s, 0 + 1, so)) = so - 0
        /\ \A q \in 1 .. so - 0 : SubSeq(s, 0 + 1, so)[q] = s[0 + q]
    BY <1>1, <2>1, Pieces
  <2> QED BY <2>1, <2>2
<1>6. b \in Seq(Byte) /\ Len(b) = N - (so + sz) /\ \A q \in 1 .. N - (so + sz) : b[q] = s[so + sz + q]
  <2>1. so + sz \in Nat
    BY <1>1
  <2> QED BY <1>1, <1>4, <2>1, Pieces
<1> HIDE DEF a, b
<1>7. /\ a \o code \in Seq(Byte) /\ Len(a \o code) = so + sz
      /\ \A q \in 1 .. so : (a \o code)[q] = s[q]
      /\ \A q \in 1 .. sz : (a \o code)[so + q] = code[q]
  <2>1. /\ a \o code \in Seq(Byte) /\ Len(a \o code) = Len(a) + Len(code)
        /\ \A q \in 1 .. Len(a) : (a \o code)[q] = a[q]
        /\ \A q \in 1 .. Len(code) : (a \o code)[Len(a) + q] = code[q]
    <3>1. a \in Seq(Byte)
      BY <1>5
    <3> QED BY <3>1, Joined
  <2> QED BY <1>3, <1>5, <2>1
<1> DEFINE u == a \o code  t == u \o b
<1>8. /\ t \in Seq(Byte) /\ Len(t) = N
      /\ \A q \in 1 .. so + sz : t[q] = u[q]
      /\ \A q \in 1 .. N - (so + sz) : t[so + sz + q] = s[so + sz + q]
  <2>1. u \in Seq(Byte) /\ Len(u) = so + sz
    BY <1>7
  <2> HIDE DEF u
  <2>2. /\ u \o b \in Seq(Byte) /\ Len(u \o b) = Len(u) + Len(b)
        /\ \A q \in 1 .. Len(u) : (u \o b)[q] = u[q]
        /\ \A q \in 1 .. Len(b) : (u \o b)[Len(u) + q] = b[q]
    <3>1. u \in Seq(Byte) /\ b \in Seq(Byte)
      BY <1>6, <2>1
    <3> QED BY <3>1, Joined
  <2>3. so + sz + (N - (so + sz)) = N
    BY <1>1
  <2> QED BY <1>6, <2>1, <2>2, <2>3
<1> HIDE DEF t
<1>9. ASSUME NEW q \in 1 .. N
      PROVE  t[q] = (IF q > so /\ q <= so + sz THEN code[q - so] ELSE s[q])
  <2>1. CASE q <= so
    <3>1. q \in 1 .. so /\ q \in 1 .. so + sz /\ ~(q > so)
      BY <1>1, <2>1
    <3> QED BY <1>7, <1>8, <3>1
  <2>2. CASE q > so /\ q <= so + sz
    <3>1. q - so \in 1 .. sz /\ so + (q - so) = q /\ q \in 1 .. so + sz
      BY <1>1, <2>2
    <3>2. t[q] = code[q - so]
      BY <1>7, <1>8, <3>1
    <3> QED BY <2>2, <3>2
  <2>3. CASE q > so + sz
    <3>1. q - (so + sz) \in 1 .. N - (so + sz) /\ so + sz + (q - (so + sz)) = q
          /\ ~(q <= so + sz)
      BY <1>1, <2>3
    <3>2. t[q] = s[q]
      BY <1>8, <3>1
    <3> QED BY <3>1, <3>2
  <2> QED BY <1>1, <2>1, <2>2, <2>3
<1>10. t = [q \in 1 .. N |-> t[q]]
  BY <1>8
<1>11. t = p
  BY <1>2, <1>9, <1>10
<1> QED BY <1>8, <1>11 DEF t, u, a, b, s, N, p, so, sz

LEMMA SectionFound ==
    ASSUME NEW c \in Commands, LaidOut(c)
    PROVE  c.section_name \in DOMAIN c.secs
<1>1. /\ Len(c.sections) + 1 \in 1 .. Len(Chain(c))
      /\ Chain(c)[Len(c.sections) + 1] = c.section_name
  BY CommandFacts
<1> QED BY <1>1 DEF LaidOut

LEMMA PInvPatched == PInv => OnlySectionPatched
<1> SUFFICES ASSUME PInv, Succeeded, LaidOut(cmd)
             PROVE  /\ disk[cmd.output] = Patched(cmd, byte_array)
                    /\ i = IF cmd.remove_reloc THEN Len(new_insns) ELSE 0
  BY DEF OnlySectionPatched
<1>1. cmd \in Commands /\ cmd.new_insns = new_insns /\ cmd.elf_file # cmd.output
  BY DEF PInv, FileInv, Succeeded
<1>2. byte_array \in Seq(Byte) /\ Len(byte_array) = Target(cmd).sh_size
  BY <1>1 DEF PInv, IInv, ClearTypeOK, LaidOut
<1>3. disk[cmd.output] = SubSeq(cmd.bytes, 1, Target(cmd).sh_offset) \o byte_array
           \o SubSeq(cmd.bytes, Target(cmd).sh_offset + Target(cmd).sh_size + 1,
                     Len(cmd.bytes))
  BY <1>1 DEF PInv, OutInv, Succeeded
<1>4. disk[cmd.output] = Patched(cmd, byte_array)
  BY <1>1, <1>2, <1>3, PatchedPieces, SectionFound
<1>5. i = IF cmd.remove_reloc THEN Len(new_insns) ELSE 0
  BY DEF PInv, PassInv, Succeeded
<1> QED BY <1>4, <1>5

(***************************************************************************)
(* OnlySectionPatched of any command: patch_elf.py replaces the section    *)
(* and not a byte more, provided the file is laid out as its README asks.  *)
(***************************************************************************)
THEOREM PatchesOnlyTheSection == Spec => []OnlySectionPatched
BY InitPInv, NextPInv, PInvPatched, PTL DEF Spec

-----------------------------------------------------------------------------
(***************************************************************************)
(* Undoing the text extractor.  Byte b of slot s of the code it wrote, and *)
(* of that code with its map references cleared.                           *)
(***************************************************************************)
LEMMA ByteOfSlot ==
    ASSUME NEW s \in Nat, NEW b \in 0 .. 7
    PROVE  ((8 * s + b + 1) - 1) \div 8 = s /\ ((8 * s + b + 1) - 1) % 8 = b
<1> DEFINE n == 8 * s + b
<1>1. n \in Nat /\ (8 * s + b + 1) - 1 = n
  OBVIOUS
<1>2. n \div 8 \in Nat /\ n % 8 \in 0 .. 7 /\ n = 8 * (n \div 8) + (n % 8)
  BY <1>1, DivMod8
<1>3. n \div 8 = s /\ n % 8 = b
  BY <1>2, SlotUnique
<1> QED BY <1>1, <1>3

LEMMA Nibbles ==
    ASSUME NEW m \in Byte
    PROVE  /\ (16 + (m % 16)) \div 16 = 1 /\ (16 + (m % 16)) % 16 = m % 16
           /\ m \div 16 = 0 => m % 16 = m
<1>1. m \in Int /\ 0 <= m /\ m <= 255
  BY DEF Byte
<1>2. m % 16 \in 0 .. 15
  BY <1>1
<1> QED BY <1>1, <1>2

At(relos, slot) == {r \in relos : r.slot = slot}

\* What the extractor's relocations do to a byte of compiled code.
LEMMA RelocatedFacts ==
    ASSUME NEW a, NEW relos, Compiled(a, relos), NEW s \in Nat, NEW b \in 0 .. 7
    PROVE  /\ At(relos, s) # {} /\ b = 1 =>
                RelocatedByte(a, relos, s, b) = 16 + (a[8 * s + b + 1] % 16)
           /\ At(relos, s) = {} \/ b \in {0, 2, 3} =>
                RelocatedByte(a, relos, s, b) = a[8 * s + b + 1]
<1> DEFINE at(q) == {r \in relos : r.slot = q}
           lo == CHOOSE r \in at(s) : TRUE
           hi == CHOOSE r \in at(s - 1) : TRUE
<1>1. at(s) # {} => lo \in at(s)
  OBVIOUS
<1>2. at(s - 1) # {} => hi \in at(s - 1)
  OBVIOUS
<1>3. /\ at(s) # {} => lo.type = "LD64"
      /\ at(s - 1) # {} => hi.type = "LD64"
  BY <1>1, <1>2 DEF Compiled
<1>4. RelocatedByte(a, relos, s, b) =
        CASE at(s) # {} /\ b = 1 ->
               (IF lo.type = "LD64" THEN 16 ELSE 32) + (a[8 * s + b + 1] % 16)
          [] at(s) # {} /\ b >= 4 -> IF b = 4 THEN lo.fd ELSE 0
          [] at(s - 1) # {} /\ b >= 4 /\ hi.type = "DATA" -> IF b = 4 THEN hi.off ELSE 0
          [] OTHER -> a[8 * s + b + 1]
  BY DEF RelocatedByte
<1> HIDE DEF lo, hi, at
<1>5. at(s) # {} /\ b = 1 => RelocatedByte(a, relos, s, b) = 16 + (a[8 * s + b + 1] % 16)
  BY <1>3, <1>4
<1>6. at(s) = {} \/ b \in {0, 2, 3} => RelocatedByte(a, relos, s, b) = a[8 * s + b + 1]
  <2> SUFFICES ASSUME at(s) = {} \/ b \in {0, 2, 3}
               PROVE  RelocatedByte(a, relos, s, b) = a[8 * s + b + 1]
    OBVIOUS
  <2>1. /\ ~(at(s) # {} /\ b = 1) /\ ~(at(s) # {} /\ b >= 4)
        /\ ~(at(s - 1) # {} /\ b >= 4 /\ hi.type = "DATA")
    BY <1>3
  <2> QED BY <1>4, <2>1
<1> QED BY <1>5, <1>6 DEF at, At

LEMMA Undone ==
    ASSUME NEW a \in Seq(Byte), NEW relos, Compiled(a, relos),
           NEW n \in InsnFiles, n = Relocated(a, relos),
           NEW s \in Slots(a), NEW b \in 0 .. 7
    PROVE  ClearedByte(n, s, b) = a[8 * s + b + 1]
<1>1. Len(a) \in Nat /\ Len(n) = Len(a) /\ Slots(n) = Slots(a)
  <2>1. Len(a) \in Nat
    OBVIOUS
  <2>2. DOMAIN n = 1 .. Len(a)
    BY DEF Relocated
  <2>3. n \in Seq(Byte)
    BY CodeFacts
  <2>4. Len(n) = Len(a)
    BY <2>1, <2>2, <2>3
  <2> QED BY <2>1, <2>4 DEF Slots
<1>2. \A q \in Slots(a) : q \in Nat /\ 8 * q + 8 <= Len(a)
  <2> SUFFICES ASSUME NEW q \in Slots(a) PROVE q \in Nat /\ 8 * q + 8 <= Len(a)
    OBVIOUS
  <2>1. Len(a) \div 8 \in Nat /\ Len(a) = 8 * (Len(a) \div 8) + (Len(a) % 8) /\ Len(a) % 8 \in 0 .. 7
    BY <1>1, DivMod8
  <2> QED BY <2>1 DEF Slots
<1>3. ASSUME NEW q \in Slots(a), NEW d \in 0 .. 7
      PROVE  n[8 * q + d + 1] = RelocatedByte(a, relos, q, d)
  <2>1. q \in Nat /\ 8 * q + d + 1 \in 1 .. Len(a)
    BY <1>1, <1>2
  <2>2. n[8 * q + d + 1] = RelocatedByte(a, relos, ((8 * q + d + 1) - 1) \div 8,
                                         ((8 * q + d + 1) - 1) % 8)
    BY <2>1 DEF Relocated
  <2> QED BY <2>1, <2>2, ByteOfSlot
<1>4. ASSUME NEW q \in Slots(a)
      PROVE  /\ Op(n, q) = Op(a, q)
             /\ a[8 * q + 2] \in Byte
             /\ LoadsMap(n, q) <=> At(relos, q) # {}
             /\ At(relos, q) # {} => n[8 * q + 2] % 16 = a[8 * q + 2] % 16 /\ a[8 * q + 2] \div 16 = 0
  <2>1. q \in Nat /\ 8 * q + 0 + 1 = 8 * q + 1 /\ 8 * q + 1 + 1 = 8 * q + 2
    BY <1>2
  <2>2. 8 * q + 2 \in 1 .. Len(a)
    BY <1>1, <1>2
  <2>3. a[8 * q + 2] \in Byte
    BY <2>2
  <2>4. n[8 * q + 1] = a[8 * q + 1]
    <3>1. ASSUME NEW d \in 0 .. 7, d = 0 PROVE n[8 * q + 1] = a[8 * q + 1]
      <4>1. n[8 * q + d + 1] = RelocatedByte(a, relos, q, d)
        BY <1>3
      <4>2. RelocatedByte(a, relos, q, d) = a[8 * q + d + 1]
        BY <2>1, <3>1, RelocatedFacts
      <4>3. 8 * q + d + 1 = 8 * q + 1
        BY <2>1, <3>1
      <4> QED BY <4>1, <4>2, <4>3
    <3> QED BY <3>1
  <2>0. n[8 * q + 2] = RelocatedByte(a, relos, q, 1)
    <3>1. ASSUME NEW d \in 0 .. 7, d = 1 PROVE n[8 * q + 2] = RelocatedByte(a, relos, q, d)
      <4>1. n[8 * q + d + 1] = RelocatedByte(a, relos, q, d)
        BY <1>3
      <4>2. 8 * q + d + 1 = 8 * q + 2
        BY <2>1, <3>1
      <4> QED BY <4>1, <4>2
    <3> QED BY <3>1
  <2>5. At(relos, q) # {} => n[8 * q + 2] = 16 + (a[8 * q + 2] % 16)
    <3>1. At(relos, q) # {} => RelocatedByte(a, relos, q, 1) = 16 + (a[8 * q + 1 + 1] % 16)
      BY <2>1, RelocatedFacts
    <3> QED BY <2>0, <2>1, <3>1
  <2>6. At(relos, q) = {} => n[8 * q + 2] = a[8 * q + 2]
    <3>1. At(relos, q) = {} => RelocatedByte(a, relos, q, 1) = a[8 * q + 1 + 1]
      BY <2>1, RelocatedFacts
    <3> QED BY <2>0, <2>1, <3>1
  <2>7. At(relos, q) # {} => Op(a, q) = LDDW_OPCODE /\ SrcReg(a[8 * q + 2]) = 0
    BY DEF Compiled, Unrelocated, At
  <2>8. At(relos, q) # {} => LoadsMap(n, q) /\ n[8 * q + 2] % 16 = a[8 * q + 2] % 16
    BY <1>1, <2>3, <2>4, <2>5, <2>7, Nibbles DEF LoadsMap, Op, SrcReg, PSEUDO_MAP_FD
  <2>9. At(relos, q) = {} => ~LoadsMap(n, q)
    <3>1. ~LoadsMap(a, q)
      BY DEF Compiled
    <3> QED BY <1>1, <2>4, <2>6, <3>1 DEF LoadsMap, Op
  <2> QED BY <2>3, <2>4, <2>7, <2>8, <2>9 DEF Op, SrcReg
<1>5. s \in Nat /\ s \in Slots(n)
  BY <1>1, <1>2
<1>6. CASE At(relos, s) # {}
  <2>1. LoadsMap(n, s)
    BY <1>4, <1>6
  <2>2. ~LoadsMap(n, s - 1)
    BY <1>5, <2>1, NoOverlap DEF LoadsMap
  <2>3. PICK r \in relos : r.slot = s
    BY <1>6 DEF At
  <2>4. Unrelocated(a, r)
    BY DEF Compiled
  <2>5. CASE b = 1
    <3>1. ClearedByte(n, s, b) = n[8 * s + 2] % 16
      BY <2>1, <2>5 DEF ClearedByte
    <3>2. n[8 * s + 2] % 16 = a[8 * s + 2]
      BY <1>4, <1>6, Nibbles
    <3>3. 8 * s + b + 1 = 8 * s + 2
      BY <1>5, <2>5
    <3> QED BY <3>1, <3>2, <3>3
  <2>6. CASE b >= 4
    <3>1. ClearedByte(n, s, b) = 0
      BY <2>1, <2>6 DEF ClearedByte
    <3>2. b \in 4 .. 15
      BY <2>6
    <3> QED BY <2>3, <2>4, <3>1, <3>2 DEF Unrelocated
  <2>7. CASE b # 1 /\ ~(b >= 4)
    <3>1. ClearedByte(n, s, b) = n[8 * s + b + 1]
      BY <2>2, <2>7 DEF ClearedByte
    <3>2. b \in {0, 2, 3}
      BY <2>7
    <3> QED BY <1>3, <1>5, <3>1, <3>2, RelocatedFacts, ZenonT(80)
  <2> QED BY <2>5, <2>6, <2>7
<1>7. CASE At(relos, s) = {}
  <2>1. ~LoadsMap(n, s)
    BY <1>4, <1>7
  <2>2. CASE LoadsMap(n, s - 1)
    <3>1. s - 1 \in Slots(a) /\ s - 1 \in Nat
      BY <1>1, <1>2, <2>2 DEF LoadsMap
    <3>2. At(relos, s - 1) # {}
      BY <1>4, <2>2, <3>1
    <3>3. PICK r \in relos : r.slot = s - 1
      BY <3>2 DEF At
    <3>4. Unrelocated(a, r)
      BY DEF Compiled
    <3>5. ClearedByte(n, s, b) = 0
      BY <2>1, <2>2 DEF ClearedByte
    <3>6. 8 + b \in 4 .. 15 /\ 8 * (s - 1) + (8 + b) + 1 = 8 * s + b + 1
      BY <1>5
    <3>7. a[8 * (s - 1) + (8 + b) + 1] = 0
      BY <3>3, <3>4, <3>6 DEF Unrelocated
    <3> QED BY <3>5, <3>6, <3>7
  <2>3. CASE ~LoadsMap(n, s - 1)
    <3>1. ClearedByte(n, s, b) = n[8 * s + b + 1]
      BY <2>1, <2>3 DEF ClearedByte
    <3>2. n[8 * s + b + 1] = RelocatedByte(a, relos, s, b)
      BY <1>3
    <3>3. RelocatedByte(a, relos, s, b) = a[8 * s + b + 1]
      BY <1>5, <1>7, RelocatedFacts, ZenonT(80)
    <3> QED BY <3>1, <3>2, <3>3
  <2> QED BY <2>2, <2>3
<1> QED BY <1>6, <1>7

LEMMA PInvUndoes == PInv => UndoesExtraction
<1> DEFINE a == Data(cmd, cmd.section_name)
           so == Target(cmd).sh_offset  sz == Target(cmd).sh_size
<1> SUFFICES ASSUME PInv, Succeeded, LaidOut(cmd), cmd.remove_reloc, FromExtractor,
                    Compiled(a, cmd.relos)
             PROVE  disk[cmd.output] = cmd.bytes
  BY DEF UndoesExtraction
<1>1. /\ cmd \in Commands /\ cmd.new_insns = new_insns /\ new_insns \in InsnFiles
      /\ byte_array \in Seq(Byte) /\ Len(byte_array) = sz /\ Len(new_insns) = sz
  BY DEF PInv, FileInv, IInv, ClearTypeOK, LaidOut
<1>2. /\ cmd.bytes \in Seq(Byte) /\ Len(cmd.bytes) \in Nat
      /\ so \in Nat /\ sz \in Nat /\ so + sz <= Len(cmd.bytes)
  BY <1>1, CommandFacts, SectionFound DEF Target
<1>3. disk[cmd.output] = Patched(cmd, byte_array) /\ i = Len(new_insns)
  BY PInvPatched DEF OnlySectionPatched
<1>4. a \in Seq(Byte) /\ Len(a) = sz /\ \A q \in 1 .. sz : a[q] = cmd.bytes[so + q]
  <2>1. a = SubSeq(cmd.bytes, so + 1, so + sz)
    BY DEF Data, Target
  <2> HIDE DEF a, so, sz
  <2> DEFINE e == so + sz
  <2>2. e \in Nat /\ so <= e /\ e - so = sz /\ e <= Len(cmd.bytes) /\ so \in Nat
    BY <1>2
  <2>3. a = SubSeq(cmd.bytes, so + 1, e)
    BY <2>1
  <2> HIDE DEF e
  <2>4. /\ a \in Seq(Byte) /\ Len(a) = e - so
        /\ \A q \in 1 .. e - so : a[q] = cmd.bytes[so + q]
    <3>1. cmd.bytes \in Seq(Byte)
      BY <1>2
    <3> QED BY <2>2, <2>3, <3>1, Pieces
  <2> QED BY <2>2, <2>4
<1>5. new_insns = Relocated(a, cmd.relos)
  BY <1>1 DEF FromExtractor
<1> HIDE DEF a, so, sz
<1>6. sz = 8 * (sz \div 8) /\ sz \div 8 \in Nat /\ Slots(a) = 0 .. (sz \div 8) - 1
      /\ Slots(new_insns) = Slots(a)
  BY <1>1, <1>4, CodeFacts DEF Slots
<1>7. ASSUME NEW s \in Slots(a), NEW b \in 0 .. 7
      PROVE  byte_array[8 * s + b + 1] = a[8 * s + b + 1]
  <2>1. 8 * s + b < i
    BY <1>1, <1>3, <1>6
  <2>2. byte_array[8 * s + b + 1] = ClearedByte(new_insns, s, b)
    BY <1>6, <2>1 DEF PInv, IInv, ClearExact
  <2> QED BY <1>1, <1>4, <1>5, <2>2, Undone
<1>8. ASSUME NEW q \in 1 .. sz
      PROVE  byte_array[q] = cmd.bytes[so + q]
  <2> DEFINE s == (q - 1) \div 8  b == (q - 1) % 8
  <2>1. q - 1 \in Nat
    BY <1>2
  <2>2. s \in Nat /\ b \in 0 .. 7 /\ q - 1 = 8 * s + b
    BY <2>1, DivMod8
  <2> HIDE DEF s, b
  <2>3. s \in Slots(a) /\ 8 * s + b + 1 = q
    BY <1>2, <1>6, <2>2
  <2> QED BY <1>4, <1>7, <2>2, <2>3
<1> DEFINE p == Patched(cmd, byte_array)
<1>9. p \in Seq(Byte) /\ Len(p) = Len(cmd.bytes)
  BY <1>1, PatchedPieces, SectionFound DEF sz
<1>10. ASSUME NEW q \in 1 .. Len(cmd.bytes) PROVE p[q] = cmd.bytes[q]
  <2>1. p[q] = IF q > so /\ q <= so + sz THEN byte_array[q - so] ELSE cmd.bytes[q]
    BY DEF Patched, so, sz
  <2>2. CASE q > so /\ q <= so + sz
    <3>1. q - so \in 1 .. sz /\ so + (q - so) = q
      BY <1>2, <2>2
    <3> QED BY <1>8, <2>1, <2>2, <3>1
  <2>3. CASE ~(q > so /\ q <= so + sz)
    BY <2>1, <2>3
  <2> QED BY <2>2, <2>3
<1> HIDE DEF p
<1>11. p = cmd.bytes
  BY <1>2, <1>9, <1>10, SameSeq
<1> QED BY <1>3, <1>11 DEF p

(***************************************************************************)
(* UndoesExtraction of any command: extracting a section all of whose      *)
(* relocations are map references and patching it back with --remove-reloc *)
(* gives the file it came from, byte for byte.                             *)
(***************************************************************************)
THEOREM PatchingUndoesExtraction == Spec => []UndoesExtraction
BY InitPInv, NextPInv, PInvUndoes, PTL DEF Spec

=============================================================================
