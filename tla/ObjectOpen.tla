----------------------------- MODULE ObjectOpen -----------------------------
(***************************************************************************)
(* __bpf_object__open() of libbpf.c, as the extractor calls it (no open    *)
(* options): from an ELF file to an object with its programs, maps,        *)
(* externs and relocation descriptors, or to an error with everything      *)
(* released.  One action per section, program, extern, map and relocation. *)
(*                                                                         *)
(* An ELF file is a record                                                 *)
(*   secs  : its sections, ELF index 1 first, each with                    *)
(*           name, type, exec (SHF_EXECINSTR), size in bytes, insns (of an *)
(*           executable section), link and info of the header, and rels    *)
(*           (of a REL section: [off, sym] pairs)                          *)
(*   syms  : the symbol table, a function on 0 .. n-1, each symbol with    *)
(*           name, type, global, shndx, value, size                        *)
(*   valid : "ok", or what is wrong with its header                        *)
(*   btf   : "none", "ok" or "bad": the content of .BTF                    *)
(*   btf_maps : the variables of the BTF DATASEC of .maps, [off, def], def *)
(*           being "ok", or how far the definition is valid                *)
(*   btf_externs : the extern variables BTF knows, by name: the DATASEC    *)
(*           they are in ("kcfg", "ksym", or another; another also for a   *)
(*           kcfg variable of an unsupported type), their size and         *)
(*           alignment (not positive when they cannot be determined),      *)
(*           whether they are typed, and the rank of their name in         *)
(*           strcmp() order                                                *)
(* An instruction is [code, src, imm]; a 16-byte load is "lddw" and "hi".  *)
(***************************************************************************)
EXTENDS ProgTable, Sequences

CONSTANTS
    Elfs,       \* the ELF files, by name
    Faults,     \* whether memory, mmap() and open() may fail
    Garbage     \* what realloc() leaves in memory nobody assigns

ASSUME FaultsAssumption == Faults \in BOOLEAN
ASSUME GarbageAssumption == Garbage # {}

BPF_INSN_SZ == 8

(***************************************************************************)
(* Sizes, offsets and indexes are unsigned in an ELF file; insns has the   *)
(* whole instructions of an executable section.                            *)
(***************************************************************************)
WellTyped(e) ==
    /\ Len(e.secs) \in Nat
    /\ \A k \in 1 .. Len(e.secs) :
         LET s == e.secs[k] IN
         /\ s.size \in Nat
         /\ s.insns \in Seq({s.insns[n] : n \in DOMAIN s.insns})
         /\ s.exec => Len(s.insns) = s.size \div BPF_INSN_SZ
         /\ s.rels \in Seq({s.rels[n] : n \in DOMAIN s.rels})
         /\ \A n \in DOMAIN s.rels : s.rels[n].off \in Nat
    /\ DOMAIN e.syms \subseteq Nat
    /\ \A k \in DOMAIN e.syms : e.syms[k].size \in Nat
    /\ \A n \in DOMAIN e.btf_externs :
         LET x == e.btf_externs[n] IN x.sz \in Int /\ x.align \in Int /\ x.rank \in Int

ASSUME ElfsAssumption == \A f \in DOMAIN Elfs : WellTyped(Elfs[f])

VARIABLES
    file,               \* the file opened: an element of DOMAIN Elfs
    pc,                 \* the function being executed
    i, j,               \* its loop counters
    shndx,              \* obj->efile.*_shndx, by section name
    efile,              \* the other fields of obj->efile
    programs, nr_programs,
    maps, nr_maps, maps_cap,
    externs, nr_extern,
    kconfig_map_idx,
    btf,                \* obj->btf is set
    live,               \* blocks of memory and handles held by the object
    fds,                \* open file descriptors of the process
    err                 \* 0, or the error returned

objvars == <<programs, nr_programs, maps, nr_maps, maps_cap, externs, nr_extern,
             kconfig_map_idx, btf>>
vars == <<file, pc, i, j, shndx, efile, objvars, live, fds, err>>

elf == Elfs[file]
Sec(k) == elf.secs[k]
NrSecs == Len(elf.secs)

Block(name) == <<name, 0>>       \* a block of which the object has one

StdFds == {0, 1, 2}
ELF_FD == 3             \* what open() returns: the lowest descriptor free

(***************************************************************************)
(* Every error of the steps below is followed by bpf_object__close().      *)
(***************************************************************************)
Fail(e) == err' = e /\ pc' = "close"

(***************************************************************************)
(* bpf_object__new()                                                       *)
(***************************************************************************)
SecNames == {".text", "symtab", "maps", ".maps", ".data", ".rodata", ".bss"}

Init ==
    /\ file \in DOMAIN Elfs
    /\ pc = "elf_init"
    /\ i = 0 /\ j = 0
    /\ shndx = [n \in SecNames |-> IF n \in {".text", "symtab"} THEN 0 ELSE -1]
    /\ efile = [symbols |-> FALSE, strtabidx |-> 0, reloc_sects |-> <<>>,
                btf_data |-> FALSE]
    /\ programs = <<>> /\ nr_programs = 0
    /\ maps = <<>> /\ nr_maps = 0 /\ maps_cap = 0
    /\ externs = <<>> /\ nr_extern = 0
    /\ kconfig_map_idx = -1
    /\ btf = FALSE
    /\ live = {Block("obj")}
    /\ fds = StdFds
    /\ err = "none"

-----------------------------------------------------------------------------
(* The ELF file *)

(***************************************************************************)
(* bpf_object__elf_finish(): the handle, the array of relocation sections  *)
(* and the descriptor go together, and nothing that points into the file   *)
(* survives.  It does nothing when elf_begin() never gave a handle.        *)
(***************************************************************************)
ElfFinishKeepsRelocs ==                         \* faulty variant
    IF Block("elf") \in live
      THEN /\ live' = live \ {Block("elf"), Block("reloc_sects")}
           /\ fds' = fds \ {ELF_FD}
           /\ efile' = [efile EXCEPT !.symbols = FALSE]
      ELSE UNCHANGED <<live, fds, efile>>

ElfFinish ==
    IF Block("elf") \in live
      THEN /\ live' = live \ {Block("elf"), Block("reloc_sects")}
           /\ fds' = fds \ {ELF_FD}
           /\ efile' = [efile EXCEPT !.symbols = FALSE, !.reloc_sects = <<>>]
      ELSE UNCHANGED <<live, fds, efile>>

(***************************************************************************)
(* bpf_object__elf_init() and bpf_object__check_endianness().  "begin" is  *)
(* elf_begin() returning no handle after open() succeeded; "rawdata" is    *)
(* the one failure after which elf_init() leaves the clean-up to close.    *)
(***************************************************************************)
ElfInit ==
    /\ pc = "elf_init"
    /\ \/ /\ Faults
          /\ Fail("ENOENT")
          /\ UNCHANGED <<live, fds>>
       \/ /\ Faults
          /\ fds' = fds \cup {ELF_FD}
          /\ Fail("LIBELF")
          /\ UNCHANGED live
       \/ /\ elf.valid \in {"ehdr", "shstrndx", "type"}     \* goto errout
          /\ Fail("FORMAT")
          /\ UNCHANGED <<live, fds>>
       \/ /\ elf.valid \in {"rawdata", "endian"}
          /\ live' = live \cup {Block("elf")} /\ fds' = fds \cup {ELF_FD}
          /\ Fail(IF elf.valid = "endian" THEN "ENDIAN" ELSE "FORMAT")
       \/ /\ elf.valid = "ok"
          /\ live' = live \cup {Block("elf")} /\ fds' = fds \cup {ELF_FD}
          /\ pc' = "symtab"
          /\ UNCHANGED err
    /\ UNCHANGED <<file, i, j, shndx, efile, objvars>>

(***************************************************************************)
(* The first pass of bpf_object__elf_collect(): the symbol table.          *)
(***************************************************************************)
FindSymtab ==
    LET symtabs == {k \in 1 .. NrSecs : Sec(k).type = "SYMTAB"} IN
    /\ pc = "symtab"
    /\ \/ /\ Cardinality(symtabs) > 1
          /\ Fail("FORMAT")
          /\ UNCHANGED <<shndx, efile>>
       \/ /\ Cardinality(symtabs) <= 1
          /\ shndx' = [shndx EXCEPT !["symtab"] = IF symtabs = {} THEN @
                                                   ELSE CHOOSE k \in symtabs : TRUE]
          /\ efile' = IF symtabs = {} THEN efile
                      ELSE [efile EXCEPT !.symbols = TRUE,
                                         !.strtabidx = Sec(shndx'["symtab"]).link]
          /\ pc' = "elf_collect"
          /\ UNCHANGED err
    /\ UNCHANGED <<file, i, j, objvars, live, fds>>

(***************************************************************************)
(* ignore_elf_section() and the chain of tests of the second pass: what a  *)
(* section is to libbpf.                                                   *)
(***************************************************************************)
IgnoreElfSection(s) ==
    \/ s.type \in {"STRTAB", "LLVM_ADDRSIG"}
    \/ s.type = "PROGBITS" /\ s.size = 0 /\ s.name = ".text"
    \/ s.name \in {".debug_info", ".rel.debug_info", ".rel.BTF", ".rel.BTF.ext"}

Role(s) ==
    IF IgnoreElfSection(s) THEN "skip"
    ELSE IF s.name \in {"license", "version", "maps", ".maps", ".BTF"} THEN s.name
    ELSE IF s.type = "PROGBITS" /\ s.size > 0
      THEN IF s.exec THEN "exec"
           ELSE IF s.name \in {".data", ".rodata"} THEN s.name ELSE "skip"
    ELSE IF s.type = "REL" /\ Sec(s.info).exec THEN "rel"
    ELSE IF s.type = "NOBITS" /\ s.name = ".bss" THEN s.name
    ELSE "skip"

(***************************************************************************)
(* One section of the second pass.  An executable section continues in     *)
(* bpf_object__add_programs(), which comes back here.                      *)
(***************************************************************************)
CollectSection ==
    LET idx == i + 1  s == Sec(idx)  role == Role(s) IN
    /\ pc = "elf_collect" /\ i < NrSecs
    /\ \/ /\ role = "version" /\ s.size # 4
          /\ Fail("FORMAT")
          /\ UNCHANGED <<i, shndx, efile, live>>
       \/ /\ Faults
          /\ Fail(IF role = "rel" THEN "ENOMEM" ELSE "FORMAT")
          /\ UNCHANGED <<i, shndx, efile, live>>
       \/ /\ ~(role = "version" /\ s.size # 4)
          /\ shndx' = IF \/ role \in {"maps", ".maps", ".data", ".rodata", ".bss"}
                         \/ role = "exec" /\ s.name = ".text"
                        THEN [shndx EXCEPT ![s.name] = idx] ELSE shndx
          /\ efile' = CASE role = "rel" ->
                            [efile EXCEPT !.reloc_sects = Append(@, idx)]
                        [] role = ".BTF" -> [efile EXCEPT !.btf_data = TRUE]
                        [] OTHER -> efile
          /\ live' = IF role = "rel" THEN live \cup {Block("reloc_sects")} ELSE live
          /\ IF role = "exec" THEN pc' = "add_programs" /\ i' = i
                              ELSE pc' = pc /\ i' = idx
          /\ UNCHANGED err
    /\ j' = 0
    /\ UNCHANGED <<file, objvars, fds>>

(***************************************************************************)
(* elf_sym_by_sec_off(): the first function symbol at an offset.           *)
(***************************************************************************)
FuncSymsAt(idx, off) ==
    {k \in DOMAIN elf.syms : /\ elf.syms[k].shndx = idx
                             /\ elf.syms[k].value = off
                             /\ elf.syms[k].type = "FUNC"}

First(S) == CHOOSE k \in S : \A m \in S : k <= m

(***************************************************************************)
(* bpf_object__init_prog(): the program's own copy of its instructions.    *)
(* (A failed strdup() in __bpf_program__pin_name(), which the code does    *)
(* not check, counts as a failed allocation like the others.)              *)
(***************************************************************************)
NewProgramByteOff(idx, off, sz) ==              \* faulty variant
    [sec_idx |-> idx, sec_name |-> Sec(idx).name,
     sec_insn_off |-> off, sec_insn_cnt |-> sz \div BPF_INSN_SZ,
     insns |-> SubSeq(Sec(idx).insns, off \div BPF_INSN_SZ + 1,
                                      (off + sz) \div BPF_INSN_SZ),
     reloc_desc |-> <<>>]

NewProgram(idx, off, sz) ==
    [sec_idx |-> idx, sec_name |-> Sec(idx).name,
     sec_insn_off |-> off \div BPF_INSN_SZ, sec_insn_cnt |-> sz \div BPF_INSN_SZ,
     insns |-> SubSeq(Sec(idx).insns, off \div BPF_INSN_SZ + 1,
                                      (off + sz) \div BPF_INSN_SZ),
     reloc_desc |-> <<>>]

(***************************************************************************)
(* One round of bpf_object__add_programs(): the function that starts where *)
(* the previous one ended (j is sec_off), or the end of the section.       *)
(***************************************************************************)
AddProgram ==
    LET idx  == i + 1
        syms == FuncSymsAt(idx, j)
        sz   == elf.syms[First(syms)].size
        corrupted == sz = 0 \/ sz % BPF_INSN_SZ # 0 \/ j % BPF_INSN_SZ # 0
    IN
    /\ pc = "add_programs" /\ j < Sec(idx).size
    /\ \/ /\ syms = {} \/ (syms # {} /\ j + sz > Sec(idx).size)
          /\ Fail("FORMAT")
          /\ UNCHANGED <<j, programs, nr_programs, live>>
       \/ /\ syms # {} /\ j + sz <= Sec(idx).size
          /\ corrupted \/ Faults
          /\ Fail(IF corrupted THEN "EINVAL" ELSE "ENOMEM")
          /\ live' = live \cup {Block("programs")}
          /\ UNCHANGED <<j, programs, nr_programs>>
       \/ /\ syms # {} /\ j + sz <= Sec(idx).size /\ ~corrupted
          /\ programs' = [k \in 0 .. nr_programs |->
                            IF k = nr_programs THEN NewProgram(idx, j, sz)
                                               ELSE programs[k]]
          /\ nr_programs' = nr_programs + 1
          /\ live' = live \cup {Block("programs"), <<"prog", nr_programs>>}
          /\ j' = j + sz
          /\ UNCHANGED <<pc, err>>
    /\ UNCHANGED <<file, i, shndx, efile, maps, nr_maps, maps_cap, externs, nr_extern,
                   kconfig_map_idx, btf, fds>>

AddProgramsDone ==
    /\ pc = "add_programs" /\ j >= Sec(i + 1).size
    /\ pc' = "elf_collect" /\ i' = i + 1
    /\ UNCHANGED <<file, j, shndx, efile, objvars, live, fds, err>>

(***************************************************************************)
(* bpf_object__init_btf(): whether obj->btf can be set from .BTF; a .BTF   *)
(* that does not parse is an error only for who needs it.                  *)
(***************************************************************************)
BtfLoads ==
    IF ~efile.btf_data \/ elf.btf = "bad" THEN {FALSE}
    ELSE IF Faults THEN BOOLEAN ELSE {TRUE}

(***************************************************************************)
(* The end of bpf_object__elf_collect(): the string table is checked, the  *)
(* programs are sorted, and bpf_object__init_btf() loads BTF, which only   *)
(* BTF-defined maps need at this point.                                    *)
(***************************************************************************)
ElfCollectDone ==
    /\ pc = "elf_collect" /\ i = NrSecs
    /\ \/ /\ efile.strtabidx = 0 \/ efile.strtabidx > NrSecs
          /\ Fail("FORMAT")
          /\ UNCHANGED <<programs, btf, live>>
       \/ /\ efile.strtabidx \in 1 .. NrSecs
          /\ programs' = QSort(programs, nr_programs, CmpProgs)
          /\ \E loaded \in BtfLoads :
                /\ btf' = loaded
                /\ live' = IF loaded THEN live \cup {Block("btf")} ELSE live
                /\ IF ~loaded /\ shndx[".maps"] >= 0
                     THEN Fail(IF efile.btf_data THEN "EINVAL" ELSE "ENOENT")
                     ELSE pc' = "externs" /\ UNCHANGED err
    /\ i' = 0 /\ j' = 0
    /\ UNCHANGED <<file, shndx, efile, nr_programs, maps, nr_maps, maps_cap, externs,
                   nr_extern, kconfig_map_idx, fds>>

-----------------------------------------------------------------------------
(* Externs *)

(***************************************************************************)
(* sym_is_extern()                                                         *)
(***************************************************************************)
SymIsExtern(sym) == sym.shndx = 0 /\ sym.global /\ sym.type = "NOTYPE"

(***************************************************************************)
(* find_extern_btf_id() and find_extern_sec_btf_id() find the variable.    *)
(***************************************************************************)
KnownToBtf(name) == btf /\ name \in DOMAIN elf.btf_externs

(***************************************************************************)
(* bpf_object__finalize_btf(), and on to the maps.                         *)
(***************************************************************************)
FinalizeBtf ==
    \/ Faults /\ btf /\ Fail("ENOENT")
    \/ pc' = "user_maps" /\ UNCHANGED err

(***************************************************************************)
(* One symbol of bpf_object__collect_externs() (i is its index).  The      *)
(* descriptor is counted before BTF is asked about it.  A size that cannot *)
(* be determined is returned as the error; returning 0, for a variable of  *)
(* size 0, is success, with the externs neither sorted nor laid out.       *)
(***************************************************************************)
CollectExtern ==
    LET sym == elf.syms[i]
        known == KnownToBtf(sym.name)
        ext == elf.btf_externs[sym.name]
    IN
    /\ pc = "externs" /\ efile.symbols /\ i \in DOMAIN elf.syms
    /\ \/ /\ ~(SymIsExtern(sym) /\ sym.name # "")
          /\ i' = i + 1
          /\ UNCHANGED <<pc, err, externs, nr_extern, live>>
       \/ /\ SymIsExtern(sym) /\ sym.name # "" /\ Faults
          /\ Fail("ENOMEM")
          /\ UNCHANGED <<i, externs, nr_extern, live>>
       \/ /\ SymIsExtern(sym) /\ sym.name # ""
          /\ live' = live \cup {Block("externs")}
          /\ nr_extern' = nr_extern + 1
          /\ \/ /\ ~(known /\ ext.sec \in {"kcfg", "ksym"})
                /\ Fail(IF known THEN "ENOTSUP" ELSE "ESRCH")
                /\ UNCHANGED <<i, externs>>
             \/ /\ known /\ ext.sec \in {"kcfg", "ksym"}
                /\ externs' = [k \in 0 .. nr_extern |->
                                  IF k < nr_extern THEN externs[k]
                                  ELSE [type |-> ext.sec, sym_idx |-> i, name |-> sym.name,
                                        sz |-> ext.sz, align |-> ext.align,
                                        typed |-> ext.typed, rank |-> ext.rank,
                                        data_off |-> 0]]
                /\ \/ /\ ext.sec = "kcfg" => ext.sz > 0 /\ ext.align > 0
                      /\ i' = i + 1
                      /\ UNCHANGED <<pc, err>>
                   \/ /\ ext.sec = "kcfg" /\ (ext.sz < 0 \/ (ext.sz > 0 /\ ext.align <= 0))
                      /\ Fail("EINVAL")
                      /\ UNCHANGED i
                   \/ /\ ext.sec = "kcfg" /\ ext.sz = 0
                      /\ FinalizeBtf
                      /\ i' = 0
    /\ UNCHANGED <<file, j, shndx, efile, programs, nr_programs, maps, nr_maps, maps_cap,
                   kconfig_map_idx, btf, fds>>

(***************************************************************************)
(* cmp_externs(): kcfg before ksym; kcfg by falling alignment, then rising *)
(* size; then by name.                                                     *)
(***************************************************************************)
CmpExterns(a, b) ==
    LET key(e) == IF e.type = "kcfg" THEN <<0, -e.align, e.sz, e.rank>>
                                     ELSE <<1, 0, 0, e.rank>>
        ka == key(a)  kb == key(b)
    IN \E n \in 1 .. 4 : ka[n] < kb[n] /\ \A m \in 1 .. n - 1 : ka[m] = kb[m]

Roundup(n, align) == ((n + align - 1) \div align) * align

(***************************************************************************)
(* The offsets of the kcfg externs in the .kconfig map, in table order:    *)
(* each begins at the next multiple of its alignment behind the one before *)
(* it.  KcfgEnds(exts)[k] is where the first k externs end.                *)
(***************************************************************************)
KcfgEnds(exts) ==
    LET end[k \in 0 .. nr_extern] ==
            IF k = 0 THEN 0
            ELSE IF exts[k - 1].type # "kcfg" THEN end[k - 1]
            ELSE Roundup(end[k - 1], exts[k - 1].align) + exts[k - 1].sz
    IN end

LayoutKcfg(exts) ==
    [k \in 0 .. nr_extern - 1 |->
       IF exts[k].type = "kcfg"
         THEN [exts[k] EXCEPT !.data_off = Roundup(KcfgEnds(exts)[k], exts[k].align)]
         ELSE exts[k]]

(***************************************************************************)
(* The end of bpf_object__collect_externs(): sort, lay the kcfg externs    *)
(* out, and match the variables of their DATASECs.                         *)
(***************************************************************************)
ExternsDone ==
    LET sorted == QSort(externs, nr_extern, CmpExterns)
        kinds == {externs[k].type : k \in 0 .. nr_extern - 1}
        named(n) == \E k \in 0 .. nr_extern - 1 : externs[k].name = n
        unmatched == {n \in DOMAIN elf.btf_externs :
                        elf.btf_externs[n].sec \in kinds /\ ~named(n)}
    IN
    /\ pc = "externs" /\ (~efile.symbols \/ i \notin DOMAIN elf.syms)
    /\ externs' = LayoutKcfg(sorted)
    /\ \/ unmatched # {} /\ Fail("ESRCH")
       \/ unmatched = {} /\ FinalizeBtf
    /\ i' = 0
    /\ UNCHANGED <<file, j, shndx, efile, programs, nr_programs, maps, nr_maps, maps_cap,
                   nr_extern, kconfig_map_idx, btf, live, fds>>

-----------------------------------------------------------------------------
(* Maps *)

BlankMapZeroFd == [fd |-> 0, type |-> "UNSPEC", sec_idx |-> 0, sec_offset |-> 0,
                   value_size |-> 0]            \* faulty variant

BlankMap == [fd |-> -1, type |-> "UNSPEC", sec_idx |-> 0, sec_offset |-> 0,
             value_size |-> 0]

(***************************************************************************)
(* bpf_object__add_map(): the array grows by half, from 4; the new slots   *)
(* are blank, with no descriptor to close.  The slot returned is nr_maps.  *)
(***************************************************************************)
NewCap ==
    IF nr_maps < maps_cap THEN maps_cap
    ELSE IF (maps_cap * 3) \div 2 > 4 THEN (maps_cap * 3) \div 2 ELSE 4

AddMap(set(_)) ==
    /\ maps_cap' = NewCap
    /\ maps' = [k \in 0 .. NewCap - 1 |->
                  LET slot == IF k < maps_cap THEN maps[k] ELSE BlankMap
                  IN IF k = nr_maps THEN set(slot) ELSE slot]
    /\ nr_maps' = nr_maps + 1

(***************************************************************************)
(* The blocks bpf_object__add_map() and strdup() of a map's name take.     *)
(***************************************************************************)
MapBlocks == {Block("maps"), <<"map_name", nr_maps>>}

AddMapFails ==
    /\ Faults /\ nr_maps >= maps_cap
    /\ Fail("ENOMEM")
    /\ UNCHANGED <<maps, nr_maps, maps_cap, live>>

(***************************************************************************)
(* bpf_object__init_user_maps(): every symbol of the "maps" section is a   *)
(* definition, all of the same size (i is the symbol).                     *)
(***************************************************************************)
MapSyms == {k \in DOMAIN elf.syms : elf.syms[k].shndx = shndx["maps"]}

InitUserMap ==
    LET k  == First({m \in MapSyms : m >= i})
        sz == Sec(shndx["maps"]).size
        undetermined == ~efile.symbols \/ sz = 0 \/ MapSyms = {}
                          \/ sz % Cardinality(MapSyms) # 0
        def_sz == sz \div Cardinality(MapSyms)
        set(m) == [m EXCEPT !.sec_idx = shndx["maps"],
                            !.sec_offset = elf.syms[k].value]
    IN
    /\ pc = "user_maps" /\ shndx["maps"] >= 0
    /\ \/ /\ undetermined
          /\ Fail("EINVAL")
          /\ UNCHANGED <<i, maps, nr_maps, maps_cap, live>>
       \/ /\ ~undetermined /\ \E m \in MapSyms : m >= i
          /\ i' = k + 1
          /\ \/ AddMapFails
             \/ /\ AddMap(set)
                /\ IF elf.syms[k].value + def_sz > sz
                     THEN Fail("EINVAL") /\ live' = live \cup {Block("maps")}
                     ELSE \/ /\ live' = live \cup MapBlocks
                             /\ UNCHANGED <<pc, err>>
                          \/ /\ Faults /\ Fail("ENOMEM")
                             /\ live' = live \cup {Block("maps")}
    /\ UNCHANGED <<file, j, shndx, efile, programs, nr_programs, externs, nr_extern,
                   kconfig_map_idx, btf, fds>>

UserMapsDone ==
    /\ pc = "user_maps"
    /\ shndx["maps"] >= 0 => /\ MapSyms # {} /\ \A m \in MapSyms : m < i
    /\ pc' = "user_btf_maps" /\ i' = 1
    /\ UNCHANGED <<file, j, shndx, efile, objvars, live, fds, err>>

(***************************************************************************)
(* bpf_object__init_user_btf_maps(): the variables of the DATASEC .maps.   *)
(* "var" is a variable refused before a map is added for it, "def" one     *)
(* whose definition parse_btf_map_def() refuses.                           *)
(***************************************************************************)
InitUserBtfMap ==
    LET v == elf.btf_maps[i]
        set(m) == [m EXCEPT !.sec_idx = shndx[".maps"], !.sec_offset = v.off]
    IN
    /\ pc = "user_btf_maps" /\ shndx[".maps"] >= 0 /\ i \in DOMAIN elf.btf_maps
    /\ i' = i + 1
    /\ \/ /\ v.def = "var"
          /\ Fail("EINVAL")
          /\ UNCHANGED <<maps, nr_maps, maps_cap, live>>
       \/ /\ v.def # "var"
          /\ AddMapFails
       \/ /\ v.def # "var"
          /\ AddMap(set)
          /\ \/ /\ v.def = "ok"
                /\ live' = live \cup MapBlocks
                /\ UNCHANGED <<pc, err>>
             \/ /\ v.def = "def"
                /\ live' = live \cup MapBlocks
                /\ Fail("EINVAL")
             \/ /\ Faults
                /\ live' = live \cup {Block("maps")}
                /\ Fail("ENOMEM")
    /\ UNCHANGED <<file, j, shndx, efile, programs, nr_programs, externs, nr_extern,
                   kconfig_map_idx, btf, fds>>

UserBtfMapsDone ==
    /\ pc = "user_btf_maps"
    /\ \/ /\ shndx[".maps"] < 0 \/ (elf.btf_maps # <<>> /\ i \notin DOMAIN elf.btf_maps)
          /\ pc' = "internal_maps"
          /\ UNCHANGED err
       \/ /\ shndx[".maps"] >= 0 /\ elf.btf_maps = <<>>      \* no DATASEC .maps
          /\ Fail("ENOENT")
    /\ i' = 1
    /\ UNCHANGED <<file, j, shndx, efile, objvars, live, fds>>

(***************************************************************************)
(* The size of the .kconfig map: the end of the last kcfg extern of the    *)
(* table.                                                                  *)
(***************************************************************************)
KcfgIdxs == {k \in 0 .. nr_extern - 1 : externs[k].type = "kcfg"}

FirstKcfg == First(KcfgIdxs)                    \* faulty variant

LastKcfg == CHOOSE k \in KcfgIdxs : \A m \in KcfgIdxs : m <= k

(***************************************************************************)
(* bpf_object__init_global_data_maps() and bpf_object__init_kconfig_map(): *)
(* one internal map for each of .data, .rodata, .bss (when the file has    *)
(* the section) and .kconfig (when it has kcfg externs), in this order.    *)
(* mmap() refuses a map of size 0.                                         *)
(***************************************************************************)
InternalMaps == <<".data", ".rodata", ".bss", ".kconfig">>

HasInternalMap(n) == IF n = ".kconfig" THEN KcfgIdxs # {} ELSE shndx[n] >= 0

InternalMapSize(n) ==
    IF n = ".kconfig" THEN externs[LastKcfg].data_off + externs[LastKcfg].sz
                      ELSE Sec(shndx[n]).size

InitInternalMap ==
    LET n == InternalMaps[i]
        set(m) ==
          [m EXCEPT !.type = n,
                    !.sec_idx = IF n = ".kconfig" THEN shndx["symtab"] ELSE shndx[n],
                    !.value_size = InternalMapSize(n)]
    IN
    /\ pc = "internal_maps" /\ i \in DOMAIN InternalMaps
    /\ i' = i + 1
    /\ \/ /\ ~HasInternalMap(n)
          /\ UNCHANGED <<pc, err, maps, nr_maps, maps_cap, kconfig_map_idx, live>>
       \/ /\ HasInternalMap(n)
          /\ AddMapFails
          /\ UNCHANGED kconfig_map_idx
       \/ /\ HasInternalMap(n)
          /\ AddMap(set)
          /\ \/ /\ Faults \/ InternalMapSize(n) = 0      \* strdup() or mmap() failed
                /\ Fail("ENOMEM")
                /\ live' = live \cup {Block("maps")}
                /\ UNCHANGED kconfig_map_idx
             \/ /\ InternalMapSize(n) # 0
                /\ live' = live \cup MapBlocks \cup {<<"mmaped", nr_maps>>}
                /\ kconfig_map_idx' = IF n = ".kconfig" THEN nr_maps ELSE kconfig_map_idx
                /\ UNCHANGED <<pc, err>>
    /\ UNCHANGED <<file, j, shndx, efile, programs, nr_programs, externs, nr_extern, btf, fds>>

InitMapsDone ==
    /\ pc = "internal_maps" /\ i \notin DOMAIN InternalMaps
    /\ pc' = "collect_relos" /\ i' = 1 /\ j' = 1
    /\ UNCHANGED <<file, shndx, efile, objvars, live, fds, err>>

-----------------------------------------------------------------------------
(* Relocations *)

(***************************************************************************)
(* bpf_program__record_reloc(): the descriptors a relocation of insn       *)
(* against sym can give; none when it is refused.  map_idx is not assigned *)
(* for calls and externs.                                                  *)
(***************************************************************************)
MapOfSecIdxs(sym) ==                            \* faulty variant
    {k \in 0 .. nr_maps - 1 : maps[k].type = "UNSPEC" /\ maps[k].sec_idx = sym.shndx}

MapAtIdxs(sym) ==
    {k \in 0 .. nr_maps - 1 : /\ maps[k].type = "UNSPEC"
                              /\ maps[k].sec_idx = sym.shndx
                              /\ maps[k].sec_offset = sym.value}

DataSecs == {".data", ".rodata", ".bss"}

DataMapIdxs(sym) ==
    {k \in 0 .. nr_maps - 1 : /\ maps[k].type \in DataSecs
                              /\ shndx[maps[k].type] = sym.shndx}

ExternIdxs(sym_idx) == {k \in 0 .. nr_extern - 1 : externs[k].sym_idx = sym_idx}

RecordReloc(insn, insn_idx, sym_idx) ==
    LET sym == elf.syms[sym_idx]
        desc(type, map_idx, sym_off) ==
          [type |-> type, insn_idx |-> insn_idx, map_idx |-> map_idx, sym_off |-> sym_off]
    IN
    IF insn.code = "call" THEN
       IF /\ insn.src = 1                       \* BPF_PSEUDO_CALL
          /\ sym.shndx # 0 /\ sym.shndx = shndx[".text"]
          /\ sym.value % BPF_INSN_SZ = 0
         THEN {desc("CALL", g, sym.value) : g \in Garbage} ELSE {}
    ELSE IF insn.code # "lddw" THEN {}
    ELSE IF SymIsExtern(sym) THEN
       IF ExternIdxs(sym_idx) # {}
         THEN {desc("EXTERN", g, First(ExternIdxs(sym_idx))) : g \in Garbage} ELSE {}
    ELSE IF sym.shndx \in {0, shndx["symtab"]} THEN {}
    ELSE IF \E n \in DataSecs : shndx[n] = sym.shndx THEN
       IF DataMapIdxs(sym) # {}
         THEN {desc("DATA", First(DataMapIdxs(sym)), sym.value)} ELSE {}
    ELSE IF sym.shndx \in {shndx["maps"], shndx[".maps"]} /\ MapAtIdxs(sym) # {}
         THEN {desc("LD64", First(MapAtIdxs(sym)), 0)} ELSE {}

(***************************************************************************)
(* The relocation that collect_relos has reached: entry j of section i.    *)
(***************************************************************************)
Relos == [sec \in DOMAIN efile.reloc_sects |-> Sec(efile.reloc_sects[sec])]

(***************************************************************************)
(* One relocation of bpf_object__collect_prog_relos().                     *)
(***************************************************************************)
CollectReloc ==
    LET rel  == Relos[i].rels[j]
        idx  == rel.off \div BPF_INSN_SZ
        p    == OwnerOf(programs, Relos[i].info, idx)
        loc  == idx - programs[p].sec_insn_off
        descs == RecordReloc(programs[p].insns[loc + 1], loc, rel.sym)
    IN
    /\ pc = "collect_relos" /\ i \in DOMAIN Relos /\ j \in DOMAIN Relos[i].rels
    /\ \/ /\ rel.sym \notin DOMAIN elf.syms \/ rel.off % BPF_INSN_SZ # 0
          /\ Fail("FORMAT")
          /\ UNCHANGED <<j, programs, live>>
       \/ /\ rel.sym \in DOMAIN elf.syms /\ rel.off % BPF_INSN_SZ = 0
          /\ p = NULL
          /\ Fail("RELOC")
          /\ UNCHANGED <<j, programs, live>>
       \/ /\ rel.sym \in DOMAIN elf.syms /\ rel.off % BPF_INSN_SZ = 0
          /\ p # NULL
          /\ \/ /\ Faults
                /\ Fail("ENOMEM")
                /\ UNCHANGED <<j, programs, live>>
             \/ /\ live' = live \cup {<<"reloc_desc", p>>}
                /\ \/ /\ descs = {}
                      /\ Fail("RELOC")
                      /\ UNCHANGED <<j, programs>>
                   \/ \E d \in descs :
                        /\ programs' = [programs EXCEPT ![p].reloc_desc = Append(@, d)]
                        /\ j' = j + 1
                        /\ UNCHANGED <<pc, err>>
    /\ UNCHANGED <<file, i, shndx, efile, nr_programs, maps, nr_maps, maps_cap, externs,
                   nr_extern, kconfig_map_idx, btf, fds>>

NextReloSect ==
    /\ pc = "collect_relos" /\ i \in DOMAIN Relos /\ j \notin DOMAIN Relos[i].rels
    /\ i' = i + 1 /\ j' = 1
    /\ UNCHANGED <<file, pc, shndx, efile, objvars, live, fds, err>>

(***************************************************************************)
(* cmp_relocs(): by instruction, then by type in the order of the enum.    *)
(***************************************************************************)
RelocTypes == <<"LD64", "CALL", "DATA", "EXTERN">>

CmpRelocs(a, b) ==
    LET ord(t) == CHOOSE k \in DOMAIN RelocTypes : RelocTypes[k] = t IN
    \/ a.insn_idx < b.insn_idx
    \/ a.insn_idx = b.insn_idx /\ ord(a.type) < ord(b.type)

Unsorted(descs) == descs                        \* faulty variant

SortDescs(descs) ==
    LET sorted == QSort([k \in 0 .. Len(descs) - 1 |-> descs[k + 1]], Len(descs), CmpRelocs)
    IN [k \in DOMAIN descs |-> sorted[k - 1]]

(***************************************************************************)
(* The second loop of bpf_object__collect_relos().                         *)
(***************************************************************************)
SortRelos ==
    /\ pc = "collect_relos" /\ i \notin DOMAIN Relos
    /\ programs' = [p \in DOMAIN programs |->
                      [programs[p] EXCEPT !.reloc_desc = SortDescs(@)]]
    /\ pc' = "relos_done"
    /\ UNCHANGED <<file, i, j, shndx, efile, nr_programs, maps, nr_maps, maps_cap, externs,
                   nr_extern, kconfig_map_idx, btf, live, fds, err>>

(***************************************************************************)
(* The object is returned to the caller without its ELF file.  The types   *)
(* that section names give to programs only matter to loading.             *)
(***************************************************************************)
OpenDone ==
    /\ pc = "relos_done"
    /\ ElfFinish
    /\ pc' = "opened"
    /\ UNCHANGED <<file, i, j, shndx, objvars, err>>

(***************************************************************************)
(* bpf_object__close(): what it frees, map by map and program by program,  *)
(* and the descriptors it closes.                                          *)
(***************************************************************************)
FreedWithoutRelocs ==                           \* faulty variant
    {Block(b) : b \in {"obj", "btf", "externs", "maps", "programs"}}
      \cup {<<"map_name", k>> : k \in 0 .. nr_maps - 1}
      \cup {<<"mmaped", k>> : k \in 0 .. nr_maps - 1}
      \cup {<<"prog", k>> : k \in 0 .. nr_programs - 1}

Freed ==
    {Block(b) : b \in {"obj", "btf", "externs", "maps", "programs"}}
      \cup {<<"map_name", k>> : k \in 0 .. nr_maps - 1}
      \cup {<<"mmaped", k>> : k \in 0 .. nr_maps - 1}
      \cup {<<"prog", k>> : k \in 0 .. nr_programs - 1}
      \cup {<<"reloc_desc", k>> : k \in 0 .. nr_programs - 1}

MapFds == {maps[k].fd : k \in 0 .. nr_maps - 1} \ {-1}

Close ==
    /\ live' = live \ (Freed \cup IF Block("elf") \in live THEN {Block("elf"), Block("reloc_sects")} ELSE {})
    /\ fds' = fds \ (MapFds \cup IF Block("elf") \in live THEN {ELF_FD} ELSE {})
    /\ efile' = [efile EXCEPT !.symbols = FALSE, !.reloc_sects = <<>>]
    /\ nr_maps' = 0 /\ nr_extern' = 0 /\ maps' = <<>> /\ externs' = <<>>
    /\ programs' = <<>> /\ nr_programs' = 0 /\ maps_cap' = 0
    /\ btf' = FALSE
    /\ pc' = "closed"
    /\ UNCHANGED <<file, i, j, shndx, kconfig_map_idx, err>>

OpenFails == pc = "close" /\ Close

Finished == pc \in {"opened", "closed"} /\ UNCHANGED vars

Next ==
    \/ ElfInit \/ FindSymtab \/ CollectSection \/ AddProgram \/ AddProgramsDone
    \/ ElfCollectDone \/ CollectExtern \/ ExternsDone
    \/ InitUserMap \/ UserMapsDone \/ InitUserBtfMap \/ UserBtfMapsDone
    \/ InitInternalMap \/ InitMapsDone
    \/ CollectReloc \/ NextReloSect \/ SortRelos
    \/ OpenDone \/ OpenFails \/ Finished

Spec == Init /\ [][Next]_vars

-----------------------------------------------------------------------------

Collected == pc \in {"externs", "user_maps", "user_btf_maps", "internal_maps",
                     "collect_relos", "opened"}

(***************************************************************************)
(* bpf_object__elf_collect() leaves a table that find_prog_by_sec_insn()   *)
(* can search (FindProg assumes it), and the programs of an executable     *)
(* section tile it: every instruction of the section is in exactly the     *)
(* program that owns its index, at its place.                              *)
(***************************************************************************)
ProgramsTile ==
    Collected =>
      /\ nr_programs > 0 => WellFormed(programs)
      /\ \A s \in 1 .. NrSecs : Role(Sec(s)) = "exec" =>
           \A k \in 0 .. Len(Sec(s).insns) - 1 :
             LET p == OwnerOf(programs, s, k) IN
             /\ p # NULL
             /\ programs[p].insns[k - programs[p].sec_insn_off + 1] = Sec(s).insns[k + 1]

(***************************************************************************)
(* A relocation entry of the file is described by descriptor d of program  *)
(* p: at the right instruction, against what its symbol stands for.        *)
(***************************************************************************)
Describes(d, p, sec_idx, rel) ==
    LET sym == elf.syms[rel.sym]
        idx == rel.off \div BPF_INSN_SZ
    IN
    /\ Owns(p, sec_idx, idx)
    /\ p.sec_insn_off + d.insn_idx = idx
    /\ \/ /\ d.type = "CALL"
          /\ Sec(sec_idx).insns[idx + 1].code = "call"
          /\ Sec(sym.shndx).name = ".text" /\ d.sym_off = sym.value
       \/ /\ d.type = "EXTERN"
          /\ externs[d.sym_off].sym_idx = rel.sym
       \/ /\ d.type = "DATA"
          /\ maps[d.map_idx].sec_idx = sym.shndx
          /\ Sec(sym.shndx).name = maps[d.map_idx].type
          /\ d.sym_off = sym.value
       \/ /\ d.type = "LD64"
          /\ maps[d.map_idx].sec_idx = sym.shndx
          /\ maps[d.map_idx].sec_offset = sym.value

(***************************************************************************)
(* When bpf_object__open() succeeds, every relocation of an executable     *)
(* section has been recorded, once, in the program that contains the       *)
(* instruction, and resolves to the map, variable, extern or function the  *)
(* symbol names, whatever the order of sections, symbols and externs.      *)
(***************************************************************************)
RelocEntries ==
    UNION {{<<s, k>> : k \in DOMAIN Sec(s).rels} :
              s \in {t \in 1 .. NrSecs : Role(Sec(t)) = "rel"}}

DescIdxs ==
    UNION {{<<p, k>> : k \in DOMAIN programs[p].reloc_desc} : p \in DOMAIN programs}

RelocsRecorded ==
    pc = "opened" =>
      /\ Cardinality(DescIdxs) = Cardinality(RelocEntries)
      /\ \A e \in RelocEntries : \E x \in DescIdxs :
           Describes(programs[x[1]].reloc_desc[x[2]], programs[x[1]],
                     Sec(e[1]).info, Sec(e[1]).rels[e[2]])

(***************************************************************************)
(* The descriptors of an opened program are in instruction order, whatever *)
(* the order of the file: find_prog_insn_relo() searches them by bisection.*)
(***************************************************************************)
RelocsSorted ==
    pc = "opened" =>
      \A p \in DOMAIN programs : \A k, m \in DOMAIN programs[p].reloc_desc :
        k < m => programs[p].reloc_desc[k].insn_idx <= programs[p].reloc_desc[m].insn_idx

(***************************************************************************)
(* The kcfg externs lie in the .kconfig map, aligned and without overlap:  *)
(* the size taken from the last extern of the table covers all of them.    *)
(***************************************************************************)
KconfigLayout ==
    (Collected /\ kconfig_map_idx >= 0) =>
      \A k \in KcfgIdxs :
        LET e == externs[k] IN
        /\ e.data_off % e.align = 0
        /\ e.data_off + e.sz <= maps[kconfig_map_idx].value_size
        /\ \A m \in KcfgIdxs \ {k} :
             \/ e.data_off + e.sz <= externs[m].data_off
             \/ externs[m].data_off + externs[m].sz <= e.data_off

(***************************************************************************)
(* An open that fails, at whatever step, releases everything it took.  The *)
(* one exception is the descriptor of a file for which elf_begin() gives   *)
(* no handle: bpf_object__elf_finish() returns before it closes it.        *)
(***************************************************************************)
NoLeak ==
    pc = "closed" =>
      /\ live = {}
      /\ fds \subseteq StdFds \cup (IF err = "LIBELF" THEN {ELF_FD} ELSE {})

(***************************************************************************)
(* No descriptor of the caller is closed.                                  *)
(***************************************************************************)
StdFdsKept == StdFds \subseteq fds

=============================================================================
