--------------------------- MODULE ExtractObject ---------------------------
(***************************************************************************)
(* extract() of libbpf.c, the text extractor: it opens an object, numbers  *)
(* its maps with fake descriptors, applies the data relocations of every   *)
(* program and writes what it has to files named after the program's ELF   *)
(* section, then closes the object.  Composes ObjectOpen.                  *)
(***************************************************************************)
EXTENDS ObjectOpen

CONSTANT
    FixProgname     \* fix_progname(), section name -> file name: '/' becomes '-'

VARIABLES
    xpc,            \* where extract() is
    x,              \* its loop counter: the program
    files           \* the output directory: file name -> the files of that name

xvars == <<xpc, x, files>>
allvars == <<vars, xvars>>

XInit ==
    /\ Init
    /\ xpc = "open" /\ x = 0
    /\ files = <<>>

(***************************************************************************)
(* bpf_object__open_file()                                                 *)
(***************************************************************************)
Open ==
    /\ xpc = "open"
    /\ Next
    /\ UNCHANGED xvars

OpenRefused ==
    /\ xpc = "open" /\ pc = "closed"
    /\ xpc' = "done"
    /\ UNCHANGED <<vars, x, files>>

(***************************************************************************)
(* The object is not loaded, so map number k gets descriptor k, and        *)
(* bpf_object__collect_relos() is called once more.                        *)
(***************************************************************************)
NumberMaps ==
    /\ xpc = "open" /\ pc = "opened"
    /\ maps' = [k \in DOMAIN maps |-> IF k < nr_maps THEN [maps[k] EXCEPT !.fd = k]
                                                     ELSE maps[k]]
    /\ pc' = "collect_relos" /\ i' = 1 /\ j' = 1
    /\ xpc' = "collect"
    /\ UNCHANGED <<file, shndx, efile, programs, nr_programs, nr_maps, maps_cap, externs,
                   nr_extern, kconfig_map_idx, btf, live, fds, err, x, files>>

CollectRelosAgain ==
    /\ xpc = "collect"
    /\ CollectReloc \/ NextReloSect \/ SortRelos
    /\ xpc' = IF pc' = "collect_relos" THEN xpc ELSE "write"    \* the result is ignored
    /\ UNCHANGED <<x, files>>

(***************************************************************************)
(* bpf_object__relocate_data(): descriptor d applied to instructions.  The *)
(* kernel addresses of externs are never looked up by the extractor: they  *)
(* are still 0.                                                            *)
(***************************************************************************)
PSEUDO_MAP_FD == 1
PSEUDO_MAP_VALUE == 2
PSEUDO_BTF_ID == 3

Apply(insns, d) ==
    LET lo == d.insn_idx + 1  hi == d.insn_idx + 2
        ext == externs[d.sym_off]
    IN
    CASE d.type = "LD64" ->
           [insns EXCEPT ![lo].src = PSEUDO_MAP_FD, ![lo].imm = maps[d.map_idx].fd]
      [] d.type = "DATA" ->
           [insns EXCEPT ![lo].src = PSEUDO_MAP_VALUE,
                         ![hi].imm = insns[lo].imm + d.sym_off,
                         ![lo].imm = maps[d.map_idx].fd]
      [] d.type = "EXTERN" /\ ext.type = "kcfg" ->
           [insns EXCEPT ![lo].src = PSEUDO_MAP_VALUE,
                         ![lo].imm = maps[kconfig_map_idx].fd,
                         ![hi].imm = ext.data_off]
      [] d.type = "EXTERN" /\ ext.type = "ksym" /\ ext.typed ->
           [insns EXCEPT ![lo].src = PSEUDO_BTF_ID, ![lo].imm = 0]
      [] d.type = "EXTERN" /\ ext.type = "ksym" /\ ~ext.typed ->
           [insns EXCEPT ![lo].imm = 0, ![hi].imm = 0]
      [] d.type = "CALL" -> insns

RelocateData(p) ==
    LET after[k \in 0 .. Len(p.reloc_desc)] ==
          IF k = 0 THEN p.insns ELSE Apply(after[k - 1], p.reloc_desc[k])
    IN [p EXCEPT !.insns = after[Len(p.reloc_desc)]]

(***************************************************************************)
(* What write_insns(), write_relocs() and write_maps() write.              *)
(***************************************************************************)
Written(p) ==
    [insns |-> p.insns, rel |-> p.reloc_desc,
     maps |-> [k \in 0 .. nr_maps - 1 |-> maps[k]]]

(***************************************************************************)
(* One program of extract(): opening a file that exists truncates it.      *)
(***************************************************************************)
ExtractProgram ==
    LET p == RelocateData(programs[x])
        name == FixProgname[p.sec_name]
    IN
    /\ xpc = "write" /\ x < nr_programs
    /\ programs' = [programs EXCEPT ![x] = p]
    /\ files' = [n \in DOMAIN files \cup {name} |->
                   IF n = name THEN Written(p) ELSE files[n]]
    /\ x' = x + 1
    /\ UNCHANGED <<file, pc, i, j, shndx, efile, nr_programs, maps, nr_maps, maps_cap,
                   externs, nr_extern, kconfig_map_idx, btf, live, fds, err, xpc>>

CloseObject ==
    /\ xpc = "write" /\ x = nr_programs
    /\ Close
    /\ xpc' = "done"
    /\ UNCHANGED <<x, files>>

Done == xpc = "done" /\ UNCHANGED allvars

XNext ==
    \/ Open \/ OpenRefused \/ NumberMaps \/ CollectRelosAgain
    \/ ExtractProgram \/ CloseObject \/ Done

XSpec == XInit /\ [][XNext]_allvars

-----------------------------------------------------------------------------

Extracted == xpc = "write" /\ x = nr_programs

(***************************************************************************)
(* Opening an object, also one that is refused half way, never closes a    *)
(* descriptor of the caller: no slot of obj->maps that bpf_object__close() *)
(* visits holds descriptor 0, "fill all fd with -1 so won't close          *)
(* incorrect fd" in bpf_object__add_map().                                 *)
(***************************************************************************)
OpenKeepsStdFds == (xpc = "open" \/ (xpc = "done" /\ err # "none")) => StdFdsKept

(***************************************************************************)
(* The relocation entries of the file at an instruction of a section.      *)
(***************************************************************************)
EntriesAt(sec_idx, k) ==
    {Sec(e[1]).rels[e[2]] : e \in {y \in RelocEntries :
        Sec(y[1]).info = sec_idx /\ Sec(y[1]).rels[y[2]].off = k * BPF_INSN_SZ}}

(***************************************************************************)
(* Instructions lo, hi of an output refer to what relocation entry rel     *)
(* asks for, through the line of the .maps file that lo.imm names; orig is *)
(* the instruction of the ELF file.                                        *)
(***************************************************************************)
RefersTo(lo, hi, lines, orig, rel) ==
    LET sym == elf.syms[rel.sym]
        line == lines[lo.imm]
        ext == externs[First(ExternIdxs(rel.sym))]
    IN
    IF SymIsExtern(sym) THEN
       ext.type = "kcfg" => /\ lo.src = PSEUDO_MAP_VALUE
                            /\ lo.imm \in DOMAIN lines /\ line.type = ".kconfig"
                            /\ hi.imm = ext.data_off
                            /\ ext.data_off + ext.sz <= line.value_size
    ELSE /\ lo.imm \in DOMAIN lines /\ line.fd = lo.imm
         /\ line.sec_idx = sym.shndx
         /\ IF Sec(sym.shndx).name \in DataSecs
              THEN lo.src = PSEUDO_MAP_VALUE /\ hi.imm = orig.imm + sym.value
              ELSE lo.src = PSEUDO_MAP_FD /\ line.sec_offset = sym.value

(***************************************************************************)
(* The output under a name is the code of the last program written there,  *)
(* with every relocation of the ELF file applied exactly once, each map    *)
(* reference being the number of a line of the .maps file that describes   *)
(* that map, and every other instruction as it is in the ELF file.         *)
(***************************************************************************)
OutputFaithful ==
    Extracted => \A n \in DOMAIN files :
      LET p == programs[CHOOSE q \in DOMAIN programs :
                          /\ FixProgname[programs[q].sec_name] = n
                          /\ \A r \in DOMAIN programs :
                               FixProgname[programs[r].sec_name] = n => r <= q]
          f == files[n]
          orig(k) == Sec(p.sec_idx).insns[p.sec_insn_off + k]
          entries(k) == EntriesAt(p.sec_idx, p.sec_insn_off + k - 1)
      IN
      /\ Len(f.insns) = p.sec_insn_cnt
      /\ \A k \in 1 .. p.sec_insn_cnt :
           IF orig(k).code = "lddw" /\ entries(k) # {}
             THEN \A rel \in entries(k) :
                    RefersTo(f.insns[k], f.insns[k + 1], f.maps, orig(k), rel)
             ELSE (k = 1 \/ entries(k - 1) = {} \/ orig(k).code # "hi") =>
                    f.insns[k] = orig(k)

(***************************************************************************)
(* "Generates separate files for each BPF program inside of the ELF"       *)
(* (text-extractor/README.md): the code of every program of the object is  *)
(* in the output.                                                          *)
(***************************************************************************)
EveryProgramWritten ==
    Extracted => \A p \in DOMAIN programs : \E n \in DOMAIN files :
                   files[n].insns = programs[p].insns

=============================================================================
