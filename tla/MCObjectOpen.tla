---------------------------- MODULE MCObjectOpen ----------------------------
(***************************************************************************)
(* ELF files derived from one object: two functions in .text, two programs *)
(* in one other section, two legacy maps defined in the reverse of symbol  *)
(* order, a BTF-defined map, .data, .rodata and .bss, three kcfg externs   *)
(* and a ksym (in all eight maps, so that obj->maps grows twice), and      *)
(* relocation entries in the reverse of instruction order.  An option      *)
(* record says how a file differs from it.                                 *)
(***************************************************************************)
EXTENDS ObjectOpen

Insn(code, src) == [code |-> code, src |-> src, imm |-> 0]
Lddw == <<[Insn("lddw", 0) EXCEPT !.imm = 4], Insn("hi", 0)>>
CallInsn == <<Insn("call", 1)>>
Exit == <<Insn("exit", 0)>>

Section(name, type, size) ==
    [name |-> name, type |-> type, exec |-> FALSE, size |-> size, insns |-> <<>>,
     link |-> 0, info |-> 0, rels |-> <<>>]

Code(name, insns) ==
    [Section(name, "PROGBITS", 8 * Len(insns)) EXCEPT !.exec = TRUE, !.insns = insns]

Rel(name, info, rels) == [Section(name, "REL", 0) EXCEPT !.info = info, !.rels = rels]

Entry(off, sym) == [off |-> off, sym |-> sym]

Sym(name, type, sec, value, size) ==
    [name |-> name, type |-> type, global |-> TRUE, shndx |-> sec, value |-> value,
     size |-> size]

Kcfg(sz, rank) == [sec |-> "kcfg", sz |-> sz, align |-> sz, typed |-> FALSE, rank |-> rank]

K4(o) ==
    CASE o.bad = "size0" -> [Kcfg(4, 3) EXCEPT !.sz = 0]      \* an array of no elements
      [] o.bad = "size" -> [Kcfg(4, 3) EXCEPT !.sz = -1]
      [] o.bad = "align" -> [Kcfg(4, 3) EXCEPT !.align = 0]
      [] OTHER -> Kcfg(4, 3)

SecList(o) ==
    <<Section(".strtab", "STRTAB", 9),
      Code(".text", CallInsn \o Exit \o Lddw),
      Rel(".rel.text", 2, <<Entry(16, 8), Entry(0, 2)>>),
      Code("xdp/a", Lddw \o Lddw \o CallInsn \o Lddw \o Lddw),
      Rel(".relxdp/a", 4, <<Entry(56, o.last), Entry(40, 7), Entry(32, o.callee),
                          Entry(16, 5), Entry(o.off, o.first)>>),
      Section("maps", "PROGBITS", IF o.bad = "mapsz" THEN 41 ELSE 40),
      Section(".data", "PROGBITS", 8),
      Section(".rodata", "PROGBITS", 8),
      Section(".bss", "NOBITS", 16),
      Section(".BTF", "PROGBITS", 9),
      [Section(".symtab", "SYMTAB", 9) EXCEPT !.link = IF o.bad = "strtab" THEN 99 ELSE 1],
      Section(".maps", "PROGBITS", 8),
      IF o.bad = "symtab2" THEN Section(".symtab", "SYMTAB", 9)
      ELSE IF o.bad = "version" THEN Section("version", "PROGBITS", 2)
      ELSE Section("version", "PROGBITS", 4)>>

SymList(o) ==
    <<[Sym("", "NOTYPE", 0, 0, 0) EXCEPT !.global = FALSE],
      Sym("f1", "FUNC", 2, 0, 16), Sym("f2", "FUNC", 2, 16, o.f2),
      Sym("main", "FUNC", 4, 0, 56), Sym("tail", "FUNC", 4, 56, 16),
      Sym("m1", "OBJECT", 6, IF o.bad = "maps" THEN 24 ELSE 20, 20),
      Sym("m0", "OBJECT", 6, 0, 20),
      Sym("dvar", "OBJECT", 7, 4, 4), Sym("", "SECTION", 8, 0, 0),
      Sym("bvar", "OBJECT", 9, 8, 8),
      Sym("K1", "NOTYPE", 0, 0, 0), Sym("K4", "NOTYPE", 0, 0, 0), Sym("K8", "NOTYPE", 0, 0, 0),
      Sym(IF o.bad = "noext" THEN "other" ELSE "ks", "NOTYPE", 0, 0, 0),
      Sym("bm", "OBJECT", 12, 0, 8)>>

Build(o) ==
    LET secs == SecList(o)  syms == SymList(o) IN
    [secs  |-> [k \in DOMAIN secs |->
                  IF secs[k].name \in o.absent THEN Section(".debug_info", "PROGBITS", 1)
                                                ELSE secs[k]],
     syms  |-> [k \in 0 .. Len(syms) - 1 |-> syms[k + 1]],
     valid |-> IF o.bad \in {"ehdr", "rawdata", "endian"} THEN o.bad ELSE "ok",
     btf   |-> IF o.bad = "btf" THEN "bad" ELSE "ok",
     btf_maps |-> IF o.bad = "datasec" THEN <<>> ELSE <<[off |-> 0, def |-> o.def]>>,
     btf_externs |->
       [n \in {"K1", "K4", "K8", "ks"} \cup (IF o.bad = "unmatched" THEN {"K2"} ELSE {}) |->
          CASE n = "K1" -> Kcfg(1, 1) [] n = "K2" -> Kcfg(2, 2) [] n = "K4" -> K4(o)
            [] n = "K8" -> Kcfg(8, 4)
            [] n = "ks" -> [sec |-> IF o.bad = "extsec" THEN "data" ELSE "ksym", sz |-> 0,
                            align |-> 0, typed |-> FALSE, rank |-> 5]]]

Default == [first |-> 6, last |-> 12, callee |-> 2, off |-> 0, f2 |-> 16, def |-> "ok",
            bad |-> "", absent |-> {}]

(***************************************************************************)
(* Every target of the first and of the last relocation of "xdp"; every    *)
(* set of absent data, map and BTF sections; every single defect.          *)
(***************************************************************************)
Options ==
    {[Default EXCEPT !.first = a, !.last = b] : a \in 0 .. 15, b \in {9, 10, 13}}
    \cup {[Default EXCEPT !.absent = a] :
            a \in SUBSET {"maps", ".data", ".rodata", ".bss", ".maps", ".BTF"}}
    \cup {[Default EXCEPT !.first = 14, !.last = 14, !.absent = a] :
            a \in SUBSET {"maps", ".bss", ".rel.text"}}
    \cup {[Default EXCEPT !.f2 = z] : z \in {0, 8, 12, 24}}
    \cup {[Default EXCEPT !.off = z] : z \in {4, 8, 48, 80}}
    \cup {[Default EXCEPT !.callee = z] : z \in {1, 4}}
    \cup {[Default EXCEPT !.def = d] : d \in {"var", "def"}}
    \cup {[Default EXCEPT !.bad = b] :
            b \in {"ehdr", "rawdata", "endian", "strtab", "symtab2", "version", "maps", "mapsz", "btf",
                   "noext", "extsec", "unmatched", "datasec", "size0", "size",
                   "align"}}

MCElfs == [o \in Options |-> Build(o)]
MCGarbage == {0, 77}
=============================================================================
