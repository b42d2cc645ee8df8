------------------------ MODULE ExtractObjectProofs ------------------------
(***************************************************************************)
(* What holds of opening and extracting an object for every ELF file and   *)
(* every choice of failing calls.                                          *)
(***************************************************************************)
EXTENDS ExtractObject, FiniteSetTheorems, NaturalsInduction, SequenceTheorems, TLAPS

ELF == Block("elf")
RELS == Block("reloc_sects")

(***************************************************************************)
(* What bpf_object__close() will find to free covers what the object       *)
(* holds.  The blocks of a map or program are counted from the moment they *)
(* exist; the array of relocation sections exists only with the handle of  *)
(* the file; the file's descriptor is open only with that handle, or is    *)
(* the one that elf_init() loses.                                          *)
(***************************************************************************)
Counts ==
    /\ nr_programs \in Nat /\ nr_maps \in Nat
    /\ DOMAIN programs = 0 .. nr_programs - 1

Covered == \A b \in live : b \in Freed \/ (b \in {ELF, RELS} /\ ELF \in live)

FdsCovered ==
    /\ fds \subseteq StdFds \cup {ELF_FD}
    /\ ELF_FD \in fds => ELF \in live \/ (err = "LIBELF" /\ pc \in {"close", "closed"})

HeldInv == Counts /\ Covered /\ FdsCovered /\ NoLeak

(***************************************************************************)
(* Freed only grows with the two counters.                                 *)
(***************************************************************************)
LEMMA FreedGrows ==
    ASSUME Counts, nr_programs' \in Nat, nr_maps' \in Nat,
           nr_programs <= nr_programs', nr_maps <= nr_maps'
    PROVE  Freed \subseteq Freed'
<1>1. \A a, b \in Nat : a <= b => 0 .. a - 1 \subseteq 0 .. b - 1
  OBVIOUS
<1>2. /\ 0 .. nr_maps - 1 \subseteq 0 .. nr_maps' - 1
      /\ 0 .. nr_programs - 1 \subseteq 0 .. nr_programs' - 1
  BY <1>1 DEF Counts
<1>. QED  BY <1>2 DEF Freed

(***************************************************************************)
(* A step that takes new blocks, each of which will be freed, and leaves   *)
(* the handle and the descriptors alone.                                   *)
(***************************************************************************)
LEMMA TakeBlocks ==
    ASSUME HeldInv, Counts', nr_programs <= nr_programs', nr_maps <= nr_maps',
           live \subseteq live',
           \A b \in live' : b \in live \/ b \in Freed' \/ (b = RELS /\ ELF \in live),
           pc \notin {"close", "closed"}, pc' # "closed", UNCHANGED fds
    PROVE  HeldInv'
<1>1. Freed \subseteq Freed'
  BY FreedGrows DEF HeldInv, Counts
<1>2. Covered'
  BY <1>1 DEF HeldInv, Covered
<1>3. FdsCovered'
  BY DEF HeldInv, FdsCovered
<1>4. NoLeak'
  BY DEF NoLeak
<1>. QED  BY <1>2, <1>3, <1>4 DEF HeldInv

LEMMA ElfInitHeld ==
    ASSUME HeldInv, ElfInit
    PROVE  HeldInv'
<1>1. Counts' /\ Freed' = Freed /\ NoLeak'
  BY DEF ElfInit, HeldInv, Counts, Freed, NoLeak, Fail, objvars
<1>2. Covered'
  BY <1>1 DEF ElfInit, HeldInv, Covered, Fail, ELF
<1>3. FdsCovered'
  BY DEF ElfInit, HeldInv, FdsCovered, Fail, ELF
<1>. QED  BY <1>1, <1>2, <1>3 DEF HeldInv

LEMMA FindSymtabHeld ==
    ASSUME HeldInv, FindSymtab
    PROVE  HeldInv'
BY TakeBlocks DEF FindSymtab, HeldInv, Counts, Fail, objvars

LEMMA CollectSectionHeld ==
    ASSUME HeldInv, CollectSection, ELF \in live
    PROVE  HeldInv'
BY TakeBlocks DEF CollectSection, HeldInv, Counts, Fail, objvars, RELS

LEMMA AddProgramHeld ==
    ASSUME HeldInv, AddProgram
    PROVE  HeldInv'
<1>1. Counts' /\ nr_programs <= nr_programs' /\ nr_maps <= nr_maps'
  BY DEF AddProgram, HeldInv, Counts, Fail
<1>2. \A b \in live' : b \in live \/ b \in Freed'
  BY DEF AddProgram, HeldInv, Counts, Fail, Freed
<1>3. live \subseteq live'
  BY DEF AddProgram
<1>. QED
  BY <1>1, <1>2, <1>3, TakeBlocks DEF AddProgram, Fail

LEMMA OtherOpenHeld ==
    ASSUME HeldInv, AddProgramsDone \/ UserMapsDone \/ UserBtfMapsDone \/ InitMapsDone
                      \/ ExternsDone \/ NextReloSect \/ SortRelos
    PROVE  HeldInv'
<1>1. Counts' /\ nr_programs <= nr_programs' /\ nr_maps <= nr_maps'
  BY DEF AddProgramsDone, UserMapsDone, UserBtfMapsDone, InitMapsDone, ExternsDone,
         NextReloSect, SortRelos, objvars, HeldInv, Counts
<1>2. /\ UNCHANGED <<live, fds>>
      /\ pc \notin {"close", "closed"} /\ pc' # "closed"
  BY DEF AddProgramsDone, UserMapsDone, UserBtfMapsDone, InitMapsDone, ExternsDone,
         NextReloSect, SortRelos, objvars, FinalizeBtf, Fail
<1>. QED  BY <1>1, <1>2, TakeBlocks

LEMMA ElfCollectDoneHeld ==
    ASSUME HeldInv, ElfCollectDone
    PROVE  HeldInv'
<1>1. Counts' /\ nr_programs <= nr_programs' /\ nr_maps <= nr_maps'
  <2>1. DOMAIN QSort(programs, nr_programs, CmpProgs) = 0 .. nr_programs - 1
    BY DEF QSort
  <2>2. nr_programs' = nr_programs /\ nr_maps' = nr_maps
    BY DEF ElfCollectDone
  <2>3. programs' = programs \/ programs' = QSort(programs, nr_programs, CmpProgs)
    BY DEF ElfCollectDone
  <2>. QED  BY <2>1, <2>2, <2>3 DEF HeldInv, Counts
<1>2. Block("btf") \in Freed'
  BY DEF Freed
<1>3. /\ live \subseteq live' /\ live' \subseteq live \cup {Block("btf")}
      /\ UNCHANGED fds /\ pc \notin {"close", "closed"} /\ pc' # "closed"
  BY DEF ElfCollectDone, Fail
<1>. QED  BY <1>1, <1>2, <1>3, TakeBlocks

LEMMA CollectExternHeld ==
    ASSUME HeldInv, CollectExtern
    PROVE  HeldInv'
<1>1. Counts' /\ nr_programs <= nr_programs' /\ nr_maps <= nr_maps'
  <2>1. UNCHANGED <<programs, nr_programs, nr_maps>>
    BY DEF CollectExtern
  <2>. QED  BY <2>1 DEF HeldInv, Counts
<1>2. Block("externs") \in Freed'
  BY DEF Freed
<1>3. /\ live \subseteq live' /\ live' \subseteq live \cup {Block("externs")}
      /\ UNCHANGED fds /\ pc \notin {"close", "closed"} /\ pc' # "closed"
  BY DEF CollectExtern, FinalizeBtf, Fail
<1>. QED  BY <1>1, <1>2, <1>3, TakeBlocks

(***************************************************************************)
(* The three steps that add maps: the blocks of slot nr_maps are freed     *)
(* only because nr_maps grows in the same step.                            *)
(***************************************************************************)
MapStep == InitUserMap \/ InitUserBtfMap \/ InitInternalMap

LEMMA MapStepFrame ==
    ASSUME HeldInv, MapStep
    PROVE  /\ UNCHANGED <<programs, nr_programs, fds, file, shndx, efile, j>>
           /\ pc \in {"user_maps", "user_btf_maps", "internal_maps"}
           /\ pc' \in {pc, "close"}
           /\ pc' = "close" \/ UNCHANGED err
           /\ \/ UNCHANGED <<maps, nr_maps, maps_cap, live>>
              \/ /\ nr_maps' = nr_maps + 1
                 /\ live \subseteq live'
                 /\ live' \subseteq live \cup MapBlocks \cup {<<"mmaped", nr_maps>>}
<1>1. CASE InitUserMap
  BY <1>1 DEF InitUserMap, AddMap, AddMapFails, MapBlocks, Fail
<1>2. CASE InitUserBtfMap
  BY <1>2 DEF InitUserBtfMap, AddMap, AddMapFails, MapBlocks, Fail
<1>3. CASE InitInternalMap
  BY <1>3 DEF InitInternalMap, AddMap, AddMapFails, MapBlocks, Fail
<1>. QED  BY <1>1, <1>2, <1>3 DEF MapStep

LEMMA MapStepHeld ==
    ASSUME HeldInv, MapStep
    PROVE  HeldInv'
<1>1. Counts' /\ nr_programs <= nr_programs' /\ nr_maps <= nr_maps'
  <2>1. programs' = programs /\ nr_programs' = nr_programs
    BY MapStepFrame
  <2>2. nr_maps' = nr_maps \/ nr_maps' = nr_maps + 1
    BY MapStepFrame
  <2>. QED  BY <2>1, <2>2 DEF HeldInv, Counts
<1>2. nr_maps' = nr_maps + 1 =>
        MapBlocks \cup {<<"mmaped", nr_maps>>} \subseteq Freed'
  BY <1>1 DEF HeldInv, Counts, MapBlocks, Freed
<1>3. \A b \in live' : b \in live \/ b \in Freed'
  BY <1>2, MapStepFrame
<1>. QED  BY <1>1, <1>3, MapStepFrame, TakeBlocks

LEMMA CollectRelocHeld ==
    ASSUME HeldInv, CollectReloc
    PROVE  HeldInv'
<1> DEFINE p == OwnerOf(programs, Relos[i].info, Relos[i].rels[j].off \div BPF_INSN_SZ)
<1>1. Counts' /\ nr_programs <= nr_programs' /\ nr_maps <= nr_maps'
  <2>1. nr_programs' = nr_programs /\ nr_maps' = nr_maps
    BY ZenonT(80) DEF CollectReloc
  <2>2. DOMAIN programs' = DOMAIN programs
    BY ZenonT(80) DEF CollectReloc
  <2>. QED  BY <2>1, <2>2 DEF HeldInv, Counts
<1>2. p # NULL => <<"reloc_desc", p>> \in Freed'
  <2>1. p # NULL => p \in DOMAIN programs
    BY DEF OwnerOf
  <2>. QED  BY <2>1, <1>1 DEF CollectReloc, HeldInv, Counts, Freed
<1>3. /\ live \subseteq live'
      /\ live' = live \/ (p # NULL /\ live' = live \cup {<<"reloc_desc", p>>})
      /\ UNCHANGED fds /\ pc \notin {"close", "closed"} /\ pc' # "closed"
  BY DEF CollectReloc, Fail
<1>. HIDE DEF p
<1>. QED  BY <1>1, <1>2, <1>3, TakeBlocks

LEMMA OpenDoneHeld ==
    ASSUME HeldInv, OpenDone
    PROVE  HeldInv'
<1>1. Counts' /\ Freed' = Freed /\ NoLeak'
  BY DEF OpenDone, HeldInv, Counts, Freed, NoLeak, objvars
<1>2. Covered'
  BY <1>1 DEF OpenDone, ElfFinish, HeldInv, Covered, ELF, RELS
<1>3. FdsCovered'
  BY DEF OpenDone, ElfFinish, HeldInv, FdsCovered, ELF
<1>. QED  BY <1>1, <1>2, <1>3 DEF HeldInv

LEMMA CloseHeld ==
    ASSUME HeldInv, Close
    PROVE  HeldInv'
<1>1. Counts'
  BY DEF Close, Counts
<1>2. live' = {}
  BY DEF Close, HeldInv, Covered, ELF, RELS
<1>3. fds' \subseteq fds /\ (ELF \in live => ELF_FD \notin fds') /\ pc' = "closed"
      /\ UNCHANGED err
  BY DEF Close, ELF
<1>4. FdsCovered' /\ NoLeak'
  BY <1>2, <1>3 DEF HeldInv, FdsCovered, NoLeak
<1>. QED  BY <1>1, <1>2, <1>4 DEF HeldInv, Covered

-----------------------------------------------------------------------------
(***************************************************************************)
(* Where open and extract() can be: an error is followed by close; the     *)
(* handle of the file is there until open ends; afterwards there is no     *)
(* relocation section left, so that collecting the relocations once more   *)
(* cannot fail, and an object that was extracted has seen no error.        *)
(***************************************************************************)
CtlInv ==
    /\ xpc \in {"open", "collect", "write", "done"}
    /\ xpc = "collect" => pc = "collect_relos" /\ efile.reloc_sects = <<>>
    /\ xpc = "write" => pc = "relos_done"
    /\ xpc = "done" => pc = "closed"
    /\ pc \notin {"close", "closed"} => err = "none"
    /\ DOMAIN efile = {"symbols", "strtabidx", "reloc_sects", "btf_data"}
    /\ pc = "opened" => xpc = "open" /\ efile.reloc_sects = <<>>
    /\ xpc = "open" /\ pc \notin {"elf_init", "opened", "close", "closed"} => ELF \in live

(***************************************************************************)
(* Until the maps get their numbers, no slot of the array, used or not,    *)
(* holds a descriptor.                                                     *)
(***************************************************************************)
Blank == \A k \in 0 .. maps_cap - 1 : "fd" \in DOMAIN maps[k] /\ maps[k].fd = -1

SlotInv ==
    /\ maps_cap \in Nat /\ nr_maps \in Nat /\ nr_maps <= maps_cap
    /\ xpc = "open" => Blank
    /\ OpenKeepsStdFds

XInv == HeldInv /\ CtlInv /\ SlotInv

LEMMA InitXInv == XInit => XInv
<1> SUFFICES ASSUME XInit PROVE XInv
  OBVIOUS
<1>1. HeldInv
  <2>1. Counts
    BY DEF XInit, Init, Counts
  <2>2. Covered
    BY DEF XInit, Init, Covered, Freed
  <2>3. FdsCovered /\ NoLeak
    BY DEF XInit, Init, FdsCovered, NoLeak, StdFds, ELF_FD
  <2>. QED  BY <2>1, <2>2, <2>3 DEF HeldInv
<1>2. CtlInv
  BY DEF XInit, Init, CtlInv
<1>3. SlotInv
  BY DEF XInit, Init, SlotInv, Blank, OpenKeepsStdFds, StdFdsKept
<1>. QED  BY <1>1, <1>2, <1>3 DEF XInv

(***************************************************************************)
(* The steps of open that touch neither maps nor descriptors.              *)
(***************************************************************************)
Quiet == \/ FindSymtab \/ CollectSection \/ AddProgram \/ AddProgramsDone \/ ElfCollectDone
         \/ CollectExtern \/ ExternsDone \/ UserMapsDone \/ UserBtfMapsDone
         \/ InitMapsDone \/ CollectReloc \/ NextReloSect \/ SortRelos

Within == {"symtab", "elf_collect", "add_programs", "externs", "user_maps", "user_btf_maps",
           "internal_maps", "collect_relos"}

LEMMA QuietFrame ==
    ASSUME HeldInv, DOMAIN efile = {"symbols", "strtabidx", "reloc_sects", "btf_data"}, Quiet
    PROVE  /\ UNCHANGED <<maps, nr_maps, maps_cap, fds>>
           /\ pc \in Within
           /\ pc' \in Within \cup {"relos_done", "close"}
           /\ pc' = "close" \/ UNCHANGED err
           /\ ELF \in live => ELF \in live'
           /\ DOMAIN efile' = DOMAIN efile
<1>1. CASE FindSymtab
  BY <1>1 DEF FindSymtab, objvars, Fail, Within
<1>2. CASE CollectSection
  BY <1>2 DEF CollectSection, objvars, Fail, Within
<1>3. CASE AddProgram
  BY <1>3 DEF AddProgram, Fail, Within
<1>4. CASE AddProgramsDone \/ UserMapsDone \/ UserBtfMapsDone \/ InitMapsDone
  BY <1>4 DEF AddProgramsDone, UserMapsDone, UserBtfMapsDone, InitMapsDone, objvars, Fail,
              Within
<1>5. CASE ElfCollectDone
  BY <1>5 DEF ElfCollectDone, Fail, Within
<1>6. CASE CollectExtern
  BY <1>6 DEF CollectExtern, FinalizeBtf, Fail, Within
<1>7. CASE ExternsDone
  BY <1>7 DEF ExternsDone, FinalizeBtf, Fail, Within
<1>8. CASE CollectReloc
  BY <1>8 DEF CollectReloc, Fail, Within
<1>9. CASE NextReloSect \/ SortRelos
  BY <1>9 DEF NextReloSect, SortRelos, objvars, Within
<1>. QED  BY <1>1, <1>2, <1>3, <1>4, <1>5, <1>6, <1>7, <1>8, <1>9 DEF Quiet

LEMMA QuietHeld ==
    ASSUME HeldInv, Quiet, CollectSection => ELF \in live
    PROVE  HeldInv'
BY FindSymtabHeld, CollectSectionHeld, AddProgramHeld, OtherOpenHeld, ElfCollectDoneHeld,
   CollectExternHeld, CollectRelocHeld DEF Quiet

(***************************************************************************)
(* bpf_object__add_map() leaves every slot without a descriptor, the one   *)
(* it returns and the new ones included.                                   *)
(***************************************************************************)
LEMMA NewCapBounds ==
    ASSUME maps_cap \in Nat, nr_maps \in Nat, nr_maps <= maps_cap
    PROVE  NewCap \in Nat /\ maps_cap <= NewCap /\ nr_maps + 1 <= NewCap
BY DEF NewCap

LEMMA MapStepSlots ==
    ASSUME HeldInv, MapStep, maps_cap \in Nat, nr_maps <= maps_cap, Blank
    PROVE  Blank' /\ maps_cap' \in Nat /\ nr_maps' \in Nat /\ nr_maps' <= maps_cap'
<1>0. nr_maps \in Nat
  BY DEF HeldInv, Counts
<1> DEFINE slot(k) == IF k < maps_cap THEN maps[k] ELSE BlankMap
<1>1. ASSUME NEW k \in 0 .. NewCap - 1
      PROVE  "fd" \in DOMAIN slot(k) /\ slot(k).fd = -1
  BY <1>0, NewCapBounds DEF Blank, BlankMap
<1>2. \/ UNCHANGED <<maps, nr_maps, maps_cap>>
      \/ /\ maps_cap' = NewCap /\ nr_maps' = nr_maps + 1
         /\ \A k \in 0 .. NewCap - 1 :
              "fd" \in DOMAIN slot(k) => "fd" \in DOMAIN maps'[k] /\ maps'[k].fd = slot(k).fd
  <2>1. CASE InitUserMap
    BY <2>1, ZenonT(80) DEF InitUserMap, AddMap, AddMapFails
  <2>2. CASE InitUserBtfMap
    BY <2>2 DEF InitUserBtfMap, AddMap, AddMapFails
  <2>3. CASE InitInternalMap
    BY <2>3 DEF InitInternalMap, AddMap, AddMapFails
  <2>. QED  BY <2>1, <2>2, <2>3, SMTT(40) DEF MapStep
<1>. HIDE DEF slot
<1>. QED  BY <1>0, <1>1, <1>2, NewCapBounds DEF Blank

(***************************************************************************)
(* Every step keeps the invariant.                                         *)
(***************************************************************************)
LEMMA OpenXInv ==
    ASSUME XInv, Open
    PROVE  XInv'
<1>0. HeldInv /\ CtlInv /\ SlotInv /\ Next /\ xpc = "open" /\ UNCHANGED xvars
  BY DEF XInv, Open
<1>1. CASE ElfInit
  <2>1. HeldInv'
    BY <1>0, <1>1, ElfInitHeld
  <2>2. CtlInv'
    BY <1>0, <1>1 DEF CtlInv, ElfInit, Fail, xvars, ELF
  <2>3. SlotInv'
    <3>1. UNCHANGED <<maps, maps_cap, nr_maps>> /\ fds \subseteq fds'
      BY <1>1 DEF ElfInit, objvars
    <3>. QED  BY <3>1, <1>0 DEF SlotInv, Blank, OpenKeepsStdFds, StdFdsKept, xvars
  <2>. QED  BY <2>1, <2>2, <2>3 DEF XInv
<1>2. CASE Quiet
  <2>1. HeldInv'
    BY <1>0, <1>2, QuietHeld DEF CtlInv, CollectSection
  <2>2. CtlInv'
    BY <1>0, <1>2, QuietFrame DEF CtlInv, xvars, Within
  <2>3. SlotInv'
    <3>1. UNCHANGED <<maps, maps_cap, nr_maps, fds>>
      BY <1>0, <1>2, QuietFrame DEF CtlInv
    <3>. QED  BY <3>1, <1>0 DEF SlotInv, Blank, OpenKeepsStdFds, StdFdsKept, xvars
  <2>. QED  BY <2>1, <2>2, <2>3 DEF XInv
<1>3. CASE MapStep
  <2>1. HeldInv'
    BY <1>0, <1>3, MapStepHeld
  <2>2. CtlInv'
    BY <1>0, <1>3, MapStepFrame DEF CtlInv, xvars
  <2>3. SlotInv'
    <3>1. fds' = fds
      BY <1>0, <1>3, MapStepFrame
    <3>. QED  BY <3>1, <1>0, <1>3, MapStepSlots DEF SlotInv, OpenKeepsStdFds, StdFdsKept, xvars
  <2>. QED  BY <2>1, <2>2, <2>3 DEF XInv
<1>4. CASE OpenDone
  <2>1. HeldInv'
    BY <1>0, <1>4, OpenDoneHeld
  <2>2. CtlInv'
    BY <1>0, <1>4 DEF CtlInv, OpenDone, ElfFinish, xvars, ELF
  <2>3. SlotInv'
    <3>1. UNCHANGED <<maps, maps_cap, nr_maps>> /\ fds' \in {fds, fds \ {ELF_FD}}
      BY <1>4 DEF OpenDone, ElfFinish, objvars
    <3>. QED  BY <3>1, <1>0 DEF SlotInv, Blank, OpenKeepsStdFds, StdFdsKept, xvars, StdFds, ELF_FD
  <2>. QED  BY <2>1, <2>2, <2>3 DEF XInv
<1>5. CASE OpenFails
  <2>1. HeldInv'
    BY <1>0, <1>5, CloseHeld DEF OpenFails
  <2>2. CtlInv'
    BY <1>0, <1>5 DEF CtlInv, OpenFails, Close, xvars
  <2>3. SlotInv'
    <3>1. MapFds = {}
      BY <1>0 DEF SlotInv, Blank, MapFds
    <3>2. StdFds \subseteq fds'
      BY <3>1, <1>0, <1>5 DEF OpenFails, Close, SlotInv, OpenKeepsStdFds, StdFdsKept, StdFds,
                              ELF_FD
    <3>3. maps_cap' = 0 /\ nr_maps' = 0
      BY <1>5 DEF OpenFails, Close
    <3>. QED  BY <3>2, <3>3 DEF SlotInv, Blank, OpenKeepsStdFds, StdFdsKept
  <2>. QED  BY <2>1, <2>2, <2>3 DEF XInv
<1>6. CASE Finished
  BY <1>0, <1>6 DEF Finished, vars, objvars, xvars, XInv, HeldInv, CtlInv, SlotInv, Counts, Covered,
                    FdsCovered, NoLeak, Freed, Blank, OpenKeepsStdFds, StdFdsKept
<1>. QED  BY <1>0, <1>1, <1>2, <1>3, <1>4, <1>5, <1>6 DEF Next, Quiet, MapStep

LEMMA StutterXInv ==
    ASSUME XInv, UNCHANGED vars, UNCHANGED xpc
    PROVE  XInv'
BY DEF vars, objvars, XInv, HeldInv, CtlInv, SlotInv, Counts, Covered,
       FdsCovered, NoLeak, Freed, Blank, OpenKeepsStdFds, StdFdsKept

LEMMA NextXInv ==
    ASSUME XInv, [XNext]_allvars
    PROVE  XInv'
<1>0. HeldInv /\ CtlInv /\ SlotInv
  BY DEF XInv
<1>1. CASE Open
  BY <1>1, OpenXInv
<1>2. CASE OpenRefused
  <2>1. HeldInv'
    BY <1>0, <1>2 DEF OpenRefused, vars, objvars, HeldInv, Counts, Covered, FdsCovered, NoLeak,
                      Freed
  <2>2. CtlInv'
    BY <1>0, <1>2 DEF OpenRefused, vars, objvars, CtlInv
  <2>3. SlotInv'
    BY <1>0, <1>2 DEF OpenRefused, vars, objvars, SlotInv, OpenKeepsStdFds, StdFdsKept
  <2>. QED  BY <2>1, <2>2, <2>3 DEF XInv
<1>3. CASE NumberMaps
  <2>1. HeldInv'
    BY <1>0, <1>3 DEF NumberMaps, HeldInv, Counts, Covered, FdsCovered, NoLeak, Freed
  <2>2. CtlInv'
    BY <1>0, <1>3 DEF NumberMaps, CtlInv
  <2>3. SlotInv'
    BY <1>0, <1>3 DEF NumberMaps, SlotInv, OpenKeepsStdFds
  <2>. QED  BY <2>1, <2>2, <2>3 DEF XInv
<1>4. CASE CollectRelosAgain
  <2>1. Relos = <<>>
    BY <1>0, <1>4, SMTT(40) DEF CollectRelosAgain, CtlInv, Relos
  <2>2. SortRelos /\ xpc = "collect" /\ xpc' = "write"
    BY <2>1, <1>4 DEF CollectRelosAgain, CollectReloc, NextReloSect, SortRelos
  <2>3. HeldInv'
    BY <2>2, <1>0, OtherOpenHeld
  <2>4. CtlInv'
    BY <2>2, <1>0 DEF CtlInv, SortRelos
  <2>5. SlotInv'
    BY <2>2, <1>0 DEF SlotInv, SortRelos, OpenKeepsStdFds
  <2>. QED  BY <2>3, <2>4, <2>5 DEF XInv
<1>5. CASE ExtractProgram
  <2>1. DOMAIN programs' = DOMAIN programs
    BY <1>5 DEF ExtractProgram
  <2>2. UNCHANGED <<pc, efile, nr_programs, nr_maps, maps_cap, live, fds, err, xpc>> /\ xpc = "write"
    BY <1>5 DEF ExtractProgram
  <2>3. HeldInv'
    BY <2>1, <2>2, <1>0 DEF HeldInv, Counts, Covered, FdsCovered, NoLeak, Freed
  <2>4. CtlInv'
    BY <2>2, <1>0 DEF CtlInv
  <2>5. SlotInv'
    BY <2>2, <1>0 DEF SlotInv, OpenKeepsStdFds
  <2>. QED  BY <2>3, <2>4, <2>5 DEF XInv
<1>6. CASE CloseObject
  <2>1. HeldInv'
    BY <1>0, <1>6, CloseHeld DEF CloseObject
  <2>2. CtlInv'
    BY <1>0, <1>6 DEF CloseObject, Close, CtlInv
  <2>3. SlotInv'
    BY <1>0, <1>6 DEF CloseObject, Close, CtlInv, SlotInv, OpenKeepsStdFds
  <2>. QED  BY <2>1, <2>2, <2>3 DEF XInv
<1>7. CASE Done \/ UNCHANGED allvars
  <2>1. UNCHANGED vars /\ UNCHANGED xpc
    BY <1>7 DEF Done, allvars, xvars
  <2>. QED  BY <2>1, StutterXInv
<1>. QED  BY <1>1, <1>2, <1>3, <1>4, <1>5, <1>6, <1>7 DEF XNext

(***************************************************************************)
(* An open that fails, at whatever step, of whatever file, has released    *)
(* everything but the descriptor of a file that libelf refuses; so has     *)
(* bpf_object__close() after an extraction.                                *)
(***************************************************************************)
THEOREM NothingLeaks == XSpec => []NoLeak
<1>1. XInv => NoLeak
  BY DEF XInv, HeldInv
<1>. QED  BY <1>1, InitXInv, NextXInv, PTL DEF XSpec

(***************************************************************************)
(* Opening an object never closes a descriptor of the caller.              *)
(***************************************************************************)
THEOREM OpenKeepsDescriptors == XSpec => []OpenKeepsStdFds
<1>1. XInv => OpenKeepsStdFds
  BY DEF XInv, SlotInv
<1>. QED  BY <1>1, InitXInv, NextXInv, PTL DEF XSpec

-----------------------------------------------------------------------------
(***************************************************************************)
(* What QSort rests on: in a strict total order of 0 .. n-1, given as the  *)
(* set P of its pairs, the elements have the ranks 0 .. n-1, each once,    *)
(* and the ranks rise along the order.                                     *)
(***************************************************************************)
StrictTotal(P, n) ==
    /\ \A a \in 0 .. n - 1 : <<a, a>> \notin P
    /\ \A a, b \in 0 .. n - 1 : a # b => <<a, b>> \in P \/ <<b, a>> \in P
    /\ \A a, b, c \in 0 .. n - 1 : <<a, b>> \in P /\ <<b, c>> \in P => <<a, c>> \in P

Below(P, n, a) == {b \in 0 .. n - 1 : <<b, a>> \in P}
Rank(P, n, a) == Cardinality(Below(P, n, a))

LEMMA RankRises ==
    ASSUME NEW n \in Nat, NEW P, StrictTotal(P, n), NEW a \in 0 .. n - 1, NEW b \in 0 .. n - 1,
           <<a, b>> \in P
    PROVE  Rank(P, n, a) < Rank(P, n, b)
<1>1. IsFiniteSet(Below(P, n, b))
  <2>1. IsFiniteSet(0 .. n - 1)
    BY FS_Interval
  <2>2. Below(P, n, b) \in SUBSET (0 .. n - 1)
    BY DEF Below
  <2>. QED  BY <2>1, <2>2, FS_Subset
<1>2. Below(P, n, a) \in SUBSET Below(P, n, b)
  BY DEF StrictTotal, Below
<1>3. a \in Below(P, n, b) /\ a \notin Below(P, n, a)
  BY DEF StrictTotal, Below
<1>4. IsFiniteSet(Below(P, n, a))
  BY <1>1, <1>2, FS_Subset
<1>5. Rank(P, n, a) <= Rank(P, n, b) /\ Rank(P, n, a) # Rank(P, n, b)
  BY <1>1, <1>2, <1>3, FS_Subset DEF Rank
<1>6. Rank(P, n, a) \in Nat /\ Rank(P, n, b) \in Nat
  BY <1>1, <1>4, FS_CardinalityType DEF Rank
<1>. QED  BY <1>5, <1>6

LEMMA RankType ==
    ASSUME NEW n \in Nat, NEW P, StrictTotal(P, n), NEW a \in 0 .. n - 1
    PROVE  Rank(P, n, a) \in 0 .. n - 1
<1>1. IsFiniteSet(0 .. n - 1) /\ Cardinality(0 .. n - 1) = n
  BY FS_Interval
<1>2. Below(P, n, a) \in SUBSET (0 .. n - 1) /\ Below(P, n, a) # 0 .. n - 1
  BY DEF StrictTotal, Below
<1>3. IsFiniteSet(Below(P, n, a)) /\ Rank(P, n, a) <= n /\ Rank(P, n, a) # n
  BY <1>1, <1>2, FS_Subset DEF Rank
<1>4. Rank(P, n, a) \in Nat
  BY <1>3, FS_CardinalityType DEF Rank
<1>. QED  BY <1>3, <1>4

LEMMA RankOnto ==
    ASSUME NEW n \in Nat, NEW P, StrictTotal(P, n), NEW k \in 0 .. n - 1
    PROVE  \E a \in 0 .. n - 1 : Rank(P, n, a) = k
<1> DEFINE f == [a \in 0 .. n - 1 |-> Rank(P, n, a)]
<1>1. f \in [0 .. n - 1 -> 0 .. n - 1]
  BY RankType
<1>2. ASSUME NEW a \in 0 .. n - 1, NEW b \in 0 .. n - 1, Rank(P, n, a) = Rank(P, n, b)
      PROVE  a = b
  <2>1. SUFFICES ASSUME a # b PROVE FALSE
    OBVIOUS
  <2>2. Rank(P, n, a) \in Int /\ Rank(P, n, b) \in Int
    BY RankType
  <2>3. <<a, b>> \in P \/ <<b, a>> \in P
    BY <2>1 DEF StrictTotal
  <2>4. Rank(P, n, a) < Rank(P, n, b) \/ Rank(P, n, b) < Rank(P, n, a)
    BY <2>3, RankRises
  <2>. QED  BY <2>2, <2>4, <1>2
<1>3. f \in Injection(0 .. n - 1, 0 .. n - 1)
  BY <1>1, <1>2 DEF Injection, IsInjective
<1>4. IsFiniteSet(0 .. n - 1)
  BY FS_Interval
<1>5. f \in Surjection(0 .. n - 1, 0 .. n - 1)
  BY <1>3, <1>4, FS_Injection
<1>. QED  BY <1>5 DEF Surjection

(***************************************************************************)
(* A relocation descriptor, as far as cmp_relocs() reads it.               *)
(***************************************************************************)
IsDesc(d) == d.type \in {"LD64", "CALL", "DATA", "EXTERN"} /\ d.insn_idx \in Int

RelocOrd(t) == CHOOSE k \in DOMAIN RelocTypes : RelocTypes[k] = t

LEMMA RelocOrdType ==
    ASSUME NEW t \in {"LD64", "CALL", "DATA", "EXTERN"}
    PROVE  RelocOrd(t) \in Int
<1>1. DOMAIN RelocTypes = 1 .. 4
  BY DEF RelocTypes
<1>2. \E k \in 1 .. 4 : RelocTypes[k] = t
  BY DEF RelocTypes
<1>. QED  BY <1>1, <1>2 DEF RelocOrd

LEMMA CmpRelocsIs ==
    ASSUME NEW a, NEW b
    PROVE  CmpRelocs(a, b) <=> \/ a.insn_idx < b.insn_idx
                               \/ a.insn_idx = b.insn_idx /\ RelocOrd(a.type) < RelocOrd(b.type)
BY DEF CmpRelocs, RelocOrd

(***************************************************************************)
(* qsort() of the descriptors of a program puts them in instruction order. *)
(***************************************************************************)
LEMMA SortDescsSorts ==
    ASSUME NEW s, Len(s) \in Nat, DOMAIN s = 1 .. Len(s), \A k \in DOMAIN s : IsDesc(s[k])
    PROVE  /\ DOMAIN SortDescs(s) = DOMAIN s
           /\ \A k, m \in DOMAIN s :
                k < m => SortDescs(s)[k].insn_idx <= SortDescs(s)[m].insn_idx
           /\ \A k \in DOMAIN s : \E m \in DOMAIN s : SortDescs(s)[m] = s[k]
<1> DEFINE n == Len(s)
           D == 0 .. n - 1
           t == [k \in 0 .. n - 1 |-> s[k + 1]]
           key(a) == t[a].insn_idx
           ord(a) == RelocOrd(t[a].type)
           precedes(a, b) == CmpRelocs(t[a], t[b]) \/ (~CmpRelocs(t[b], t[a]) /\ a < b)
           P == {e \in D \X D : precedes(e[1], e[2])}
           rank(a) == Cardinality({b \in 0 .. n - 1 : precedes(b, a)})
           c(k) == CHOOSE a \in 0 .. n - 1 : rank(a) = k
<1>1. \A a \in D : key(a) \in Int /\ ord(a) \in Int
  <2>1. SUFFICES ASSUME NEW a \in D PROVE key(a) \in Int /\ ord(a) \in Int
    OBVIOUS
  <2>2. IsDesc(t[a])
    OBVIOUS
  <2>. QED  BY <2>2, RelocOrdType DEF IsDesc
<1>2. \A a, b \in D : CmpRelocs(t[a], t[b]) <=>
        key(a) < key(b) \/ (key(a) = key(b) /\ ord(a) < ord(b))
  BY CmpRelocsIs
<1>3. \A a, b \in D : <<a, b>> \in P <=> precedes(a, b)
  OBVIOUS
<1>. HIDE DEF key, ord, P
<1>4. \A a, b \in D : precedes(a, b) <=>
        \/ key(a) < key(b)
        \/ key(a) = key(b) /\ (ord(a) < ord(b) \/ (ord(a) = ord(b) /\ a < b))
  <2>. HIDE DEF t
  <2>. QED  BY <1>1, <1>2, SMTT(40)
<1>. HIDE DEF precedes
<1>5. StrictTotal(P, n)
  <2>1. \A a \in D : <<a, a>> \notin P
    BY <1>1, <1>3, <1>4
  <2>2. \A a, b \in D : a # b => <<a, b>> \in P \/ <<b, a>> \in P
    <3>1. SUFFICES ASSUME NEW a \in D, NEW b \in D, a # b
                   PROVE  precedes(a, b) \/ precedes(b, a)
      BY <1>3
    <3>2. /\ key(a) \in Int /\ key(b) \in Int /\ ord(a) \in Int /\ ord(b) \in Int
          /\ a \in Int /\ b \in Int
      BY <1>1
    <3>. QED  BY <3>1, <3>2, <1>4
  <2>3. \A a, b, e \in D : <<a, b>> \in P /\ <<b, e>> \in P => <<a, e>> \in P
    <3>1. SUFFICES ASSUME NEW a \in D, NEW b \in D, NEW e \in D, precedes(a, b), precedes(b, e)
                   PROVE  precedes(a, e)
      BY <1>3
    <3>2. /\ key(a) \in Int /\ key(b) \in Int /\ key(e) \in Int
          /\ ord(a) \in Int /\ ord(b) \in Int /\ ord(e) \in Int
      BY <1>1
    <3>. QED  BY <3>1, <3>2, <1>4, SMTT(40)
  <2>. QED  BY <2>1, <2>2, <2>3 DEF StrictTotal
<1>6. \A a \in D : rank(a) = Rank(P, n, a)
  <2>1. SUFFICES ASSUME NEW a \in D PROVE rank(a) = Rank(P, n, a)
    OBVIOUS
  <2>2. {b \in 0 .. n - 1 : precedes(b, a)} = Below(P, n, a)
    BY <1>3 DEF Below
  <2>. QED  BY <2>2 DEF Rank
<1>. HIDE DEF rank
<1>7. \A k \in D : c(k) \in D /\ Rank(P, n, c(k)) = k
  <2>1. SUFFICES ASSUME NEW k \in D PROVE c(k) \in D /\ Rank(P, n, c(k)) = k
    OBVIOUS
  <2>2. \E a \in 0 .. n - 1 : rank(a) = k
    <3>1. \E a \in 0 .. n - 1 : Rank(P, n, a) = k
      <4>1. n \in Nat /\ k \in 0 .. n - 1
        OBVIOUS
      <4>. HIDE DEF n, D, c
      <4>. QED  BY <1>5, <4>1, RankOnto
    <3>. QED  BY <3>1, <1>6
  <2>3. c(k) \in 0 .. n - 1 /\ rank(c(k)) = k
    BY <2>2
  <2>. QED  BY <2>3, <1>6
<1>8. ASSUME NEW k \in D, NEW m \in D, k < m
      PROVE  key(c(k)) <= key(c(m))
  <2>. HIDE DEF c
  <2>1. <<c(m), c(k)>> \notin P
    BY <1>5, <1>7, <1>8, RankRises
  <2>2. c(k) # c(m)
    BY <1>7, <1>8
  <2>3. precedes(c(k), c(m))
    BY <2>1, <2>2, <1>3, <1>5, <1>7 DEF StrictTotal
  <2>4. c(k) \in D /\ c(m) \in D
    BY <1>7
  <2>5. key(c(k)) \in Int /\ key(c(m)) \in Int
    BY <2>4, <1>1
  <2>6. key(c(k)) < key(c(m)) \/ key(c(k)) = key(c(m))
    BY <2>3, <2>4, <1>4
  <2>. QED  BY <2>5, <2>6
<1>9. SortDescs(s) = [k \in DOMAIN s |-> t[c(k - 1)]]
  <2>1. QSort(t, n, CmpRelocs) = [k \in 0 .. n - 1 |-> t[c(k)]]
    BY DEF QSort, rank, precedes
  <2>2. SortDescs(s) = [k \in DOMAIN s |-> QSort(t, n, CmpRelocs)[k - 1]]
    BY DEF SortDescs
  <2>3. \A k \in DOMAIN s : k - 1 \in 0 .. n - 1
    OBVIOUS
  <2>. HIDE DEF t, c
  <2>. QED  BY <2>1, <2>2, <2>3
<1>10. \A k \in DOMAIN s : k - 1 \in D
  OBVIOUS
<1>11. ASSUME NEW k \in DOMAIN s, NEW m \in DOMAIN s, k < m
       PROVE  SortDescs(s)[k].insn_idx <= SortDescs(s)[m].insn_idx
  <2>1. key(c(k - 1)) <= key(c(m - 1))
    BY <1>8, <1>10, <1>11
  <2>. QED  BY <2>1, <1>9 DEF key
<1>12. ASSUME NEW k \in DOMAIN s
       PROVE  \E m \in DOMAIN s : SortDescs(s)[m] = s[k]
  <2>1. n \in Nat /\ k - 1 \in 0 .. n - 1 /\ t[k - 1] = s[k]
    OBVIOUS
  <2> DEFINE a == k - 1
             m == Rank(P, n, a)
  <2>2. m \in 0 .. n - 1
    <3>. HIDE DEF n
    <3>. QED  BY <1>5, <2>1, RankType
  <2>3. c(m) \in D /\ Rank(P, n, c(m)) = m
    BY <1>7, <2>2
  <2>4. c(m) = a
    <3>. HIDE DEF c, n
    <3>1. a \in 0 .. n - 1 /\ c(m) \in 0 .. n - 1 /\ Rank(P, n, c(m)) = Rank(P, n, a) /\ m \in Int
      BY <2>1, <2>2, <2>3
    <3>2. <<c(m), a>> \notin P
      BY <1>5, <2>1, <3>1, RankRises
    <3>3. <<a, c(m)>> \notin P
      BY <1>5, <2>1, <3>1, RankRises
    <3>. QED  BY <1>5, <3>1, <3>2, <3>3 DEF StrictTotal
  <2>5. m + 1 \in DOMAIN s /\ (m + 1) - 1 = m
    BY <2>2
  <2>. HIDE DEF c, m, t, n
  <2>6. SortDescs(s)[m + 1] = t[c(m)]
    BY <1>9, <2>5
  <2>. QED  BY <2>1, <2>4, <2>5, <2>6
<1>. QED  BY <1>9, <1>11, <1>12

(***************************************************************************)
(* The first of a set of indexes is one of them, and none is before it.    *)
(***************************************************************************)
LEMMA FirstIsIn ==
    ASSUME NEW S \in SUBSET Nat, S # {}
    PROVE  First(S) \in S /\ \A b \in S : First(S) <= b
<1>1. PICK a \in S : \A b \in S : ~(<<b, a>> \in OpToRel(<, Nat))
  BY NatLessThanWellFounded, WFMin
<1>2. \A b \in S : a <= b
  <2>1. SUFFICES ASSUME NEW b \in S PROVE a <= b
    OBVIOUS
  <2>2. a \in Nat /\ b \in Nat
    OBVIOUS
  <2>3. ~(<<b, a>> \in OpToRel(<, Nat))
    BY <1>1
  <2>4. ~(b < a)
    BY <2>2, <2>3 DEF OpToRel
  <2>. QED  BY ONLY <2>2, <2>4
<1>. QED  BY <1>2 DEF First

-----------------------------------------------------------------------------
(***************************************************************************)
(* The programs while sections are collected.  A program is a stretch of   *)
(* its section's instructions; programs are found in the order of sections *)
(* and offsets, none behind the place the scan has reached (the section    *)
(* before i + 1, or byte j of section i + 1); and what the scan has passed *)
(* is owned: it goes on only where the program before ended.               *)
(***************************************************************************)
ProgFields == {"sec_idx", "sec_insn_off", "sec_insn_cnt", "insns", "reloc_desc"}

IsCode(p) ==
    /\ ProgFields \subseteq DOMAIN p
    /\ p.sec_idx \in Nat /\ p.sec_insn_off \in Nat
    /\ p.sec_insn_cnt \in Nat /\ p.sec_insn_cnt > 0
    /\ \A n \in 1 .. p.sec_insn_cnt :
         p.insns[n] = Sec(p.sec_idx).insns[p.sec_insn_off + n]

Precedes(p, q) ==
    /\ CmpProgs(p, q)
    /\ p.sec_idx = q.sec_idx => p.sec_insn_off + p.sec_insn_cnt <= q.sec_insn_off

AllCode == \A a \in DOMAIN programs : IsCode(programs[a])

InOrder == \A a, b \in DOMAIN programs : a < b => Precedes(programs[a], programs[b])

Tiled(s, n) == \A k \in 0 .. n - 1 : \E a \in DOMAIN programs : Owns(programs[a], s, k)

TiledUpTo(last) ==
    \A s \in 1 .. last : Role(Sec(s)) = "exec" => Tiled(s, Len(Sec(s).insns))

Scanned == {"externs", "user_maps", "user_btf_maps", "internal_maps", "collect_relos",
            "relos_done", "opened"}

CodeInv ==
    /\ file \in DOMAIN Elfs
    /\ pc \in {"elf_init", "symtab"} => nr_programs = 0 /\ i = 0
    /\ AllCode /\ InOrder
    /\ pc = "elf_collect" =>
         /\ i \in 0 .. NrSecs
         /\ \A a \in DOMAIN programs : programs[a].sec_idx <= i
         /\ TiledUpTo(i)
    /\ pc = "add_programs" =>
         /\ i \in 0 .. NrSecs /\ i + 1 \in 1 .. NrSecs /\ Role(Sec(i + 1)) = "exec"
         /\ j \in Nat /\ j % 8 = 0 /\ j <= Sec(i + 1).size
         /\ \A a \in DOMAIN programs :
              \/ programs[a].sec_idx <= i
              \/ /\ programs[a].sec_idx = i + 1
                 /\ programs[a].sec_insn_off + programs[a].sec_insn_cnt <= j \div 8
         /\ TiledUpTo(i) /\ Tiled(i + 1, j \div 8)
    /\ pc \in Scanned => TiledUpTo(NrSecs)

LEMMA CodeTiles ==
    ASSUME Counts, CodeInv
    PROVE  ProgramsTile
<1>1. SUFFICES ASSUME Collected
               PROVE  /\ nr_programs > 0 => WellFormed(programs)
                      /\ \A s \in 1 .. NrSecs : Role(Sec(s)) = "exec" =>
                           \A k \in 0 .. Len(Sec(s).insns) - 1 :
                             LET p == OwnerOf(programs, s, k) IN
                             /\ p # NULL
                             /\ programs[p].insns[k - programs[p].sec_insn_off + 1]
                                   = Sec(s).insns[k + 1]
  BY DEF ProgramsTile
<1>2. AllCode /\ InOrder /\ TiledUpTo(NrSecs)
  BY <1>1 DEF CodeInv, Collected, Scanned
<1>3. ASSUME nr_programs > 0
      PROVE  WellFormed(programs)
  <2>1. nr_programs - 1 \in DOMAIN programs /\ \A a \in DOMAIN programs : a <= nr_programs - 1
    BY <1>3 DEF Counts
  <2>2. LastIdx(programs) = nr_programs - 1
    <3>1. \A a \in DOMAIN programs : a \in Int
      BY DEF Counts
    <3>2. \E a \in DOMAIN programs : \A b \in DOMAIN programs : b <= a
      BY <2>1
    <3>3. LastIdx(programs) \in DOMAIN programs /\ \A b \in DOMAIN programs : b <= LastIdx(programs)
      BY <3>2 DEF LastIdx
    <3>. HIDE DEF LastIdx
    <3>4. nr_programs \in Nat /\ LastIdx(programs) \in Int
      BY <3>1, <3>3 DEF Counts
    <3>5. LastIdx(programs) <= nr_programs - 1 /\ nr_programs - 1 <= LastIdx(programs)
      BY <2>1, <3>3
    <3>. QED  BY ONLY <3>4, <3>5
  <2>3. \A a \in DOMAIN programs : IsProgram(programs[a])
    BY <1>2 DEF AllCode, IsCode, IsProgram
  <2>4. LastIdx(programs) \in Nat /\ DOMAIN programs = 0 .. LastIdx(programs)
    BY <1>3, <2>2 DEF Counts
  <2>5. \A a, b \in DOMAIN programs :
          a < b => /\ CmpProgs(programs[a], programs[b])
                   /\ programs[a].sec_idx = programs[b].sec_idx =>
                         programs[a].sec_insn_off + programs[a].sec_insn_cnt
                            <= programs[b].sec_insn_off
    BY <1>2 DEF InOrder, Precedes
  <2>. QED  BY <2>3, <2>4, <2>5 DEF WellFormed
<1>4. ASSUME NEW s \in 1 .. NrSecs, Role(Sec(s)) = "exec", NEW k \in 0 .. Len(Sec(s).insns) - 1
      PROVE  LET p == OwnerOf(programs, s, k) IN
             /\ p # NULL
             /\ programs[p].insns[k - programs[p].sec_insn_off + 1] = Sec(s).insns[k + 1]
  <2> DEFINE p == OwnerOf(programs, s, k)
             q == programs[p]
  <2>1. \E a \in DOMAIN programs : Owns(programs[a], s, k)
    BY <1>2, <1>4 DEF TiledUpTo, Tiled
  <2>2. p \in DOMAIN programs /\ Owns(q, s, k)
    BY <2>1 DEF OwnerOf
  <2>3. p # NULL
    BY <2>2 DEF Counts, NULL
  <2>4. IsCode(q)
    BY <2>2, <1>2 DEF AllCode
  <2>5. q.sec_idx = s /\ q.sec_insn_off <= k /\ k < q.sec_insn_off + q.sec_insn_cnt
    BY <2>2, <2>4 DEF Owns, ContainsInsn, IsCode
  <2>. HIDE DEF p, q
  <2> DEFINE n == k - q.sec_insn_off + 1
  <2>6. k \in Nat /\ q.sec_insn_off \in Nat /\ q.sec_insn_cnt \in Nat
    BY <2>4 DEF IsCode
  <2>7. n \in 1 .. q.sec_insn_cnt /\ q.sec_insn_off + n = k + 1
    BY <2>5, <2>6
  <2>. HIDE DEF n
  <2>8. q.insns[n] = Sec(s).insns[k + 1]
    BY <2>4, <2>5, <2>7 DEF IsCode
  <2>. QED  BY <2>3, <2>8 DEF n, p, q
<1>. QED  BY <1>3, <1>4

(***************************************************************************)
(* A step that changes no more of the programs than their descriptors.     *)
(***************************************************************************)
SameCode ==
    /\ DOMAIN programs' = DOMAIN programs
    /\ \A a \in DOMAIN programs :
         /\ DOMAIN programs'[a] = DOMAIN programs[a]
         /\ \A f \in ProgFields \ {"reloc_desc"} : programs'[a][f] = programs[a][f]

LEMMA SameCodeKeeps ==
    ASSUME file' = file, SameCode, AllCode, InOrder
    PROVE  /\ AllCode' /\ InOrder'
           /\ \A s, n : Tiled(s, n) => Tiled(s, n)'
           /\ \A last : TiledUpTo(last) => TiledUpTo(last)'
           /\ \A a \in DOMAIN programs' : programs'[a].sec_idx = programs[a].sec_idx
<1>1. \A a \in DOMAIN programs :
        /\ DOMAIN programs'[a] = DOMAIN programs[a]
        /\ programs'[a].sec_idx = programs[a].sec_idx
        /\ programs'[a].sec_insn_off = programs[a].sec_insn_off
        /\ programs'[a].sec_insn_cnt = programs[a].sec_insn_cnt
        /\ programs'[a].insns = programs[a].insns
  BY DEF SameCode, ProgFields
<1>2. DOMAIN programs' = DOMAIN programs
  BY DEF SameCode
<1>3. AllCode'
  BY <1>1, <1>2 DEF AllCode, IsCode, Sec, elf
<1>4. InOrder'
  BY <1>1, <1>2 DEF InOrder, Precedes, CmpProgs
<1>5. ASSUME NEW s, NEW n, Tiled(s, n)
      PROVE  Tiled(s, n)'
  BY <1>1, <1>2, <1>5 DEF Tiled, Owns, ContainsInsn
<1>6. ASSUME NEW last, TiledUpTo(last)
      PROVE  TiledUpTo(last)'
  <2>1. \A s : Role(Sec(s))' = Role(Sec(s)) /\ Sec(s)' = Sec(s)
    BY DEF Role, IgnoreElfSection, Sec, elf
  <2>. QED  BY <2>1, <1>5, <1>6 DEF TiledUpTo
<1>. QED  BY <1>1, <1>2, <1>3, <1>4, <1>5, <1>6

LEMMA LaterCode ==
    ASSUME CodeInv, SameCode, file' = file, pc \in Scanned, pc' \in Scanned \cup {"close"}
    PROVE  CodeInv'
<1>1. AllCode' /\ InOrder' /\ (TiledUpTo(NrSecs) => TiledUpTo(NrSecs)')
  <2>1. \A last : TiledUpTo(last) => TiledUpTo(last)'
    BY SameCodeKeeps DEF CodeInv
  <2>2. NrSecs' = NrSecs
    BY DEF NrSecs, elf
  <2>3. TiledUpTo(NrSecs) => TiledUpTo(NrSecs)'
    <3>1. PICK last : last = NrSecs
      OBVIOUS
    <3>2. TiledUpTo(last) => TiledUpTo(last)'
      BY <2>1
    <3>3. TiledUpTo(last)' <=> TiledUpTo(NrSecs)'
      BY <3>1, <2>2 DEF TiledUpTo
    <3>. QED  BY <3>1, <3>2, <3>3
  <2>. QED  BY <2>3, SameCodeKeeps DEF CodeInv
<1>. QED  BY <1>1 DEF CodeInv, Scanned

LEMMA ElfTypes ==
    ASSUME file \in DOMAIN Elfs
    PROVE  /\ NrSecs \in Nat
           /\ \A k \in 1 .. NrSecs :
                /\ Sec(k).size \in Nat
                /\ Sec(k).insns \in Seq({Sec(k).insns[n] : n \in DOMAIN Sec(k).insns})
                /\ Sec(k).exec => Len(Sec(k).insns) = Sec(k).size \div 8
                /\ \A n \in DOMAIN Sec(k).rels : Sec(k).rels[n].off \in Nat
           /\ DOMAIN elf.syms \subseteq Nat
           /\ \A k \in DOMAIN elf.syms : elf.syms[k].size \in Nat
BY ElfsAssumption DEF WellTyped, NrSecs, Sec, elf, BPF_INSN_SZ

LEMMA ExecRole ==
    ASSUME NEW s, Role(s) = "exec"
    PROVE  s.exec
BY DEF Role

LEMMA FindSymtabCode ==
    ASSUME Counts, CodeInv, FindSymtab
    PROVE  CodeInv'
<1>1. UNCHANGED <<file, programs, nr_programs, i>> /\ pc = "symtab" /\ pc' \in {"elf_collect", "close"}
  BY DEF FindSymtab, Fail, objvars
<1>2. nr_programs = 0 /\ i = 0 /\ DOMAIN programs = {}
  BY <1>1 DEF CodeInv, Counts
<1>3. NrSecs' \in Nat
  BY <1>1, ElfTypes DEF CodeInv, NrSecs, elf
<1>4. TiledUpTo(i)'
  BY <1>1, <1>2 DEF TiledUpTo
<1>5. AllCode' /\ InOrder'
  BY <1>1, <1>2 DEF AllCode, InOrder
<1>. QED  BY <1>1, <1>2, <1>3, <1>4, <1>5 DEF CodeInv, Scanned

LEMMA CollectSectionCode ==
    ASSUME Counts, CodeInv, CollectSection
    PROVE  CodeInv'
<1>0. file \in DOMAIN Elfs /\ NrSecs \in Nat /\ i \in 0 .. NrSecs /\ i < NrSecs /\ TiledUpTo(i)
  BY ElfTypes DEF CodeInv, CollectSection
<1>1. UNCHANGED <<file, programs>> /\ pc = "elf_collect" /\ j' = 0
  BY DEF CollectSection, objvars
<1>2. \/ pc' = "close"
      \/ pc' = "add_programs" /\ i' = i /\ Role(Sec(i + 1)) = "exec"
      \/ pc' = "elf_collect" /\ i' = i + 1 /\ Role(Sec(i + 1)) # "exec"
  BY <1>1 DEF CollectSection, Fail
<1>3. /\ \A s : Sec(s)' = Sec(s) /\ Role(Sec(s))' = Role(Sec(s))
      /\ NrSecs' = NrSecs
  BY <1>1 DEF Sec, Role, IgnoreElfSection, NrSecs, elf
<1>4. AllCode' /\ InOrder'
  BY <1>1 DEF CodeInv, AllCode, InOrder, IsCode, Sec, elf
<1>5. pc' # "close" => TiledUpTo(i)'
  <2>1. CASE i' = i
    BY <2>1, <1>0, <1>1, <1>3 DEF TiledUpTo, Tiled
  <2>2. CASE i' = i + 1 /\ Role(Sec(i + 1)) # "exec"
    BY <2>2, <1>0, <1>1, <1>3 DEF TiledUpTo, Tiled
  <2>. QED  BY <2>1, <2>2, <1>2
<1>6. CASE pc' = "close"
  BY <1>0, <1>1, <1>4, <1>6 DEF CodeInv, Scanned
<1>7. CASE pc' = "add_programs" /\ i' = i /\ Role(Sec(i + 1)) = "exec"
  <2>1. Tiled(i + 1, j \div 8)'
    BY <1>1 DEF Tiled
  <2>2. \A a \in DOMAIN programs' : programs'[a].sec_idx <= i'
    BY <1>1, <1>7 DEF CodeInv
  <2>3. (Role(Sec(i + 1)) = "exec")'
    BY <1>3, <1>7
  <2>4. (j <= Sec(i + 1).size)' /\ (i + 1 \in 1 .. NrSecs)' /\ (i \in 0 .. NrSecs)'
    <3>1. i + 1 \in 1 .. NrSecs
      BY <1>0
    <3>2. Sec(i + 1).size \in Nat
      BY <1>0, <3>1, ElfTypes
    <3>3. Sec(i + 1)' = Sec(i + 1)
      BY <1>1, <1>7 DEF Sec, elf
    <3>4. (j <= Sec(i + 1).size)'
      BY <1>1, <3>2, <3>3
    <3>5. i' + 1 \in 1 .. NrSecs' /\ i' \in 0 .. NrSecs'
      BY <1>0, <1>3, <1>7, <3>1
    <3>. QED  BY <3>4, <3>5
  <2>. QED  BY <1>0, <1>1, <1>4, <1>5, <1>7, <2>1, <2>2, <2>3, <2>4 DEF CodeInv, Scanned
<1>8. CASE pc' = "elf_collect" /\ i' = i + 1
  <2>1. \A a \in DOMAIN programs' : programs'[a].sec_idx <= i'
    BY <1>0, <1>1, <1>8 DEF CodeInv, AllCode, IsCode
  <2>2. (i \in 0 .. NrSecs)'
    BY <1>0, <1>3, <1>8
  <2>. QED  BY <1>0, <1>1, <1>4, <1>5, <1>8, <2>1, <2>2 DEF CodeInv, Scanned
<1>. QED  BY <1>2, <1>6, <1>7, <1>8

(***************************************************************************)
(* The arithmetic of add_programs: bytes to instructions.                  *)
(***************************************************************************)
LEMMA Bytes ==
    ASSUME NEW off \in Nat, NEW sz \in Nat, NEW size \in Nat, off % 8 = 0, sz % 8 = 0, sz # 0,
           off + sz <= size
    PROVE  /\ off \div 8 \in Nat /\ sz \div 8 \in Nat /\ sz \div 8 > 0
           /\ (off + sz) \div 8 = (off \div 8) + (sz \div 8)
           /\ (off + sz) % 8 = 0
           /\ (off \div 8) + (sz \div 8) <= size \div 8
OBVIOUS

(***************************************************************************)
(* bpf_object__init_prog() copies a stretch of its section.                *)
(***************************************************************************)
LEMMA NewProgramIsCode ==
    ASSUME file \in DOMAIN Elfs, NEW idx \in 1 .. NrSecs, Sec(idx).exec,
           NEW off \in Nat, NEW sz \in Nat, off % 8 = 0, sz % 8 = 0, sz # 0,
           off + sz <= Sec(idx).size
    PROVE  LET p == NewProgram(idx, off, sz) IN
           /\ IsCode(p)
           /\ p.sec_idx = idx /\ p.sec_insn_off = off \div 8 /\ p.sec_insn_cnt = sz \div 8
           /\ p.reloc_desc = <<>>
<1> DEFINE p == NewProgram(idx, off, sz)
           o == off \div 8
           c == sz \div 8
           s == Sec(idx).insns
           S == {s[n] : n \in DOMAIN s}
<1>1. /\ p.sec_idx = idx /\ p.sec_insn_off = o /\ p.sec_insn_cnt = c
      /\ p.reloc_desc = <<>> /\ ProgFields \subseteq DOMAIN p
  BY DEF NewProgram, BPF_INSN_SZ, ProgFields
<1>2. p.insns = SubSeq(s, o + 1, (off + sz) \div 8)
  BY DEF NewProgram, BPF_INSN_SZ
<1>3. Sec(idx).size \in Nat /\ s \in Seq(S) /\ Len(s) = Sec(idx).size \div 8
  BY ElfTypes
<1>4. /\ o \in Nat /\ c \in Nat /\ c > 0 /\ (off + sz) \div 8 = o + c
      /\ o + c <= Len(s)
  BY <1>3, Bytes
<1>5. NrSecs \in Nat /\ idx \in Nat
  BY ElfTypes
<1>. HIDE DEF p, o, c, s
<1>6. \A k \in o + 1 .. o + c : s[k] \in S
  <2>1. Len(s) \in Nat /\ DOMAIN s = 1 .. Len(s)
    BY <1>3
  <2>. QED  BY <1>4, <2>1
<1>7. \A n \in 1 .. c : p.insns[n] = s[o + n]
  <2>1. o + 1 \in Int /\ o + c \in Int
    BY <1>4
  <2>2. \A n \in 1 .. (o + c) - (o + 1) + 1 :
          SubSeq(s, o + 1, o + c)[n] = s[(o + 1) + n - 1]
    BY <2>1, <1>6, SubSeqProperties
  <2>3. (o + c) - (o + 1) + 1 = c /\ \A n \in 1 .. c : (o + 1) + n - 1 = o + n
    BY <1>4
  <2>. QED  BY <1>2, <1>4, <2>2, <2>3
<1>8. IsCode(p)
  BY <1>1, <1>4, <1>5, <1>7 DEF IsCode, s
<1>. QED  BY <1>1, <1>8 DEF p, o, c

(***************************************************************************)
(* The table with one more program, behind all others.                     *)
(***************************************************************************)
LEMMA AppendCode ==
    ASSUME Counts, AllCode, InOrder, file' = file, NEW p, IsCode(p),
           programs' = [k \in 0 .. nr_programs |-> IF k = nr_programs THEN p ELSE programs[k]],
           \A a \in DOMAIN programs : Precedes(programs[a], p)
    PROVE  /\ AllCode' /\ InOrder'
           /\ \A s, n : Tiled(s, n) => Tiled(s, n)'
           /\ nr_programs \in DOMAIN programs' /\ programs'[nr_programs] = p
<1>1. /\ DOMAIN programs' = 0 .. nr_programs
      /\ nr_programs \in DOMAIN programs' /\ programs'[nr_programs] = p
  BY DEF Counts
<1>2. \A a \in DOMAIN programs' : a \in Int /\ (a = nr_programs \/ (a \in DOMAIN programs /\ a < nr_programs))
  BY <1>1 DEF Counts
<1>3. \A a \in DOMAIN programs : a \in DOMAIN programs' /\ programs'[a] = programs[a]
  BY DEF Counts
<1>4. AllCode'
  <2>1. SUFFICES ASSUME NEW a \in DOMAIN programs' PROVE IsCode(programs'[a])
    BY DEF AllCode, IsCode, Sec, elf
  <2>. QED  BY <1>1, <1>2, <1>3, SMTT(40) DEF AllCode
<1>5. InOrder'
  <2>1. SUFFICES ASSUME NEW a \in DOMAIN programs', NEW b \in DOMAIN programs', a < b
                 PROVE  Precedes(programs'[a], programs'[b])
    BY DEF InOrder
  <2>2. a \in DOMAIN programs
    BY <2>1, <1>2 DEF Counts
  <2>. QED  BY <1>1, <1>2, <1>3, <2>1, <2>2 DEF InOrder
<1>6. ASSUME NEW s, NEW n, Tiled(s, n)
      PROVE  Tiled(s, n)'
  BY <1>3, <1>6 DEF Tiled
<1>. QED  BY <1>1, <1>4, <1>5, <1>6

LEMMA AddProgramCode ==
    ASSUME Counts, CodeInv, AddProgram
    PROVE  CodeInv'
<1>0. /\ file \in DOMAIN Elfs /\ i \in 0 .. NrSecs /\ i + 1 \in 1 .. NrSecs
      /\ Role(Sec(i + 1)) = "exec" /\ j \in Nat /\ j % 8 = 0
      /\ AllCode /\ InOrder /\ TiledUpTo(i) /\ Tiled(i + 1, j \div 8)
      /\ \A a \in DOMAIN programs :
           \/ programs[a].sec_idx <= i
           \/ /\ programs[a].sec_idx = i + 1
              /\ programs[a].sec_insn_off + programs[a].sec_insn_cnt <= j \div 8
  BY DEF CodeInv, AddProgram
<1>1. UNCHANGED <<file, i>>
  BY DEF AddProgram
<1>2. CASE pc' = "close"
  <2>1. programs' = programs
    BY <1>2 DEF AddProgram, Fail
  <2>2. AllCode' /\ InOrder'
    BY <1>0, <1>1, <2>1 DEF AllCode, InOrder, IsCode, Sec, elf
  <2>. QED  BY <1>0, <1>1, <1>2, <2>2 DEF CodeInv, Scanned
<1>3. CASE pc' # "close"
  <2> DEFINE sz == elf.syms[First(FuncSymsAt(i + 1, j))].size
             p == NewProgram(i + 1, j, sz)
             o == j \div 8
             c == sz \div 8
  <2>1. /\ FuncSymsAt(i + 1, j) # {} /\ j + sz <= Sec(i + 1).size
        /\ sz # 0 /\ sz % 8 = 0 /\ pc' = pc /\ pc = "add_programs"
        /\ programs' = [k \in 0 .. nr_programs |-> IF k = nr_programs THEN p ELSE programs[k]]
        /\ j' = j + sz
    BY <1>3 DEF AddProgram, Fail, BPF_INSN_SZ
  <2>2. sz \in Nat
    <3>1. FuncSymsAt(i + 1, j) \in SUBSET Nat /\ FuncSymsAt(i + 1, j) \subseteq DOMAIN elf.syms
      BY <1>0, ElfTypes DEF FuncSymsAt
    <3>2. First(FuncSymsAt(i + 1, j)) \in FuncSymsAt(i + 1, j)
      BY <2>1, <3>1, FirstIsIn
    <3>. QED  BY <1>0, <3>1, <3>2, ElfTypes
  <2>. HIDE DEF sz
  <2>3. Sec(i + 1).exec /\ Sec(i + 1).size \in Nat
    BY <1>0, ExecRole, ElfTypes
  <2>4. /\ IsCode(p)
        /\ p.sec_idx = i + 1 /\ p.sec_insn_off = o /\ p.sec_insn_cnt = c
    BY <1>0, <2>1, <2>2, <2>3, NewProgramIsCode
  <2>5. /\ o \in Nat /\ c \in Nat /\ c > 0 /\ (j + sz) \div 8 = o + c /\ (j + sz) % 8 = 0
    BY <1>0, <2>1, <2>2, <2>3, Bytes
  <2>. HIDE DEF p, o, c
  <2>6. ASSUME NEW a \in DOMAIN programs
        PROVE  Precedes(programs[a], p)
    <3> DEFINE q == programs[a]
    <3>1. /\ q.sec_idx \in Nat /\ q.sec_insn_off \in Nat /\ q.sec_insn_cnt \in Nat
          /\ q.sec_insn_cnt > 0
      BY <1>0 DEF AllCode, IsCode
    <3>2. \/ q.sec_idx <= i
          \/ q.sec_idx = i + 1 /\ q.sec_insn_off + q.sec_insn_cnt <= o
      BY <1>0 DEF o
    <3>. HIDE DEF q
    <3>3. i \in Nat
      BY <1>0
    <3>4. Precedes(q, p)
      BY <2>4, <2>5, <3>1, <3>2, <3>3 DEF Precedes, CmpProgs
    <3>. QED  BY <3>4 DEF q
  <2>7. /\ AllCode' /\ InOrder'
        /\ \A s, n : Tiled(s, n) => Tiled(s, n)'
        /\ nr_programs \in DOMAIN programs' /\ programs'[nr_programs] = p
    BY <1>0, <1>1, <2>1, <2>4, <2>6, AppendCode
  <2>8. /\ \A s : Sec(s)' = Sec(s) /\ Role(Sec(s))' = Role(Sec(s))
        /\ NrSecs' = NrSecs
    BY <1>1 DEF Sec, Role, IgnoreElfSection, NrSecs, elf
  <2>9. TiledUpTo(i)'
    BY <1>0, <1>1, <2>7, <2>8 DEF TiledUpTo
  <2>10. Tiled(i + 1, j \div 8)'
    <3>1. SUFFICES ASSUME NEW k \in 0 .. (o + c) - 1
                   PROVE  \E a \in DOMAIN programs' : Owns(programs'[a], i + 1, k)
      BY <1>1, <2>1, <2>5 DEF Tiled
    <3>2. CASE k < o
      <4>1. PICK a \in DOMAIN programs : Owns(programs[a], i + 1, k)
        BY <1>0, <2>5, <3>2 DEF Tiled, o
      <4>2. a \in DOMAIN programs' /\ programs'[a] = programs[a]
        BY <2>1 DEF Counts
      <4>. QED  BY <4>1, <4>2
    <3>3. CASE o <= k
      <4>1. Owns(p, i + 1, k)
        BY <2>4, <2>5, <3>3 DEF Owns, ContainsInsn
      <4>. QED  BY <4>1, <2>7
    <3>. QED  BY <2>5, <3>2, <3>3
  <2>11. ASSUME NEW a \in DOMAIN programs'
         PROVE  \/ programs'[a].sec_idx <= i
                \/ /\ programs'[a].sec_idx = i + 1
                   /\ programs'[a].sec_insn_off + programs'[a].sec_insn_cnt <= o + c
    <3>1. CASE a = nr_programs
      BY <2>4, <2>5, <2>7, <3>1
    <3>2. CASE a # nr_programs
      <4>1. a \in DOMAIN programs /\ programs'[a] = programs[a]
        BY <2>1, <3>2 DEF Counts
      <4>2. programs[a].sec_insn_off \in Nat /\ programs[a].sec_insn_cnt \in Nat
        BY <1>0, <4>1 DEF AllCode, IsCode
      <4>3. programs[a].sec_insn_off + programs[a].sec_insn_cnt <= o
              => programs[a].sec_insn_off + programs[a].sec_insn_cnt <= o + c
        BY <2>5, <4>2
      <4>. QED  BY <1>0, <4>1, <4>3 DEF o
    <3>. QED  BY <3>1, <3>2
  <2>12. /\ (i + 1 \in 1 .. NrSecs)' /\ (i \in 0 .. NrSecs)' /\ (Role(Sec(i + 1)) = "exec")'
    BY <1>0, <1>1, <2>8
  <2>13. (j \in Nat /\ j % 8 = 0 /\ j <= Sec(i + 1).size)' /\ j' \div 8 = o + c
    BY <1>0, <1>1, <2>1, <2>2, <2>5, <2>8
  <2>14. \A a \in DOMAIN programs' :
           \/ programs'[a].sec_idx <= i'
           \/ /\ programs'[a].sec_idx = i' + 1
              /\ programs'[a].sec_insn_off + programs'[a].sec_insn_cnt <= j' \div 8
    BY <1>1, <2>11, <2>13
  <2>. QED  BY <1>0, <1>1, <2>1, <2>7, <2>9, <2>10, <2>12, <2>13, <2>14 DEF CodeInv, Scanned
<1>. QED  BY <1>2, <1>3

LEMMA AddProgramsDoneCode ==
    ASSUME Counts, CodeInv, AddProgramsDone
    PROVE  CodeInv'
<1>0. /\ file \in DOMAIN Elfs /\ i \in 0 .. NrSecs /\ i + 1 \in 1 .. NrSecs
      /\ Role(Sec(i + 1)) = "exec" /\ j \in Nat /\ j % 8 = 0 /\ j <= Sec(i + 1).size
      /\ AllCode /\ InOrder /\ TiledUpTo(i) /\ Tiled(i + 1, j \div 8)
      /\ \A a \in DOMAIN programs : programs[a].sec_idx <= i \/ programs[a].sec_idx = i + 1
  BY DEF CodeInv, AddProgramsDone
<1>1. UNCHANGED <<file, programs>> /\ i' = i + 1 /\ pc' = "elf_collect" /\ j >= Sec(i + 1).size
  BY DEF AddProgramsDone, objvars
<1>2. Len(Sec(i + 1).insns) = j \div 8
  <2>1. Sec(i + 1).size \in Nat /\ Len(Sec(i + 1).insns) = Sec(i + 1).size \div 8
    BY <1>0, ExecRole, ElfTypes
  <2>2. j = Sec(i + 1).size
    BY <1>0, <1>1, <2>1
  <2>. QED  BY <2>1, <2>2
<1>3. TiledUpTo(i + 1)
  BY <1>0, <1>2 DEF TiledUpTo
<1>4. /\ \A s : Sec(s)' = Sec(s) /\ Role(Sec(s))' = Role(Sec(s))
      /\ NrSecs' = NrSecs
  BY <1>1 DEF Sec, Role, IgnoreElfSection, NrSecs, elf
<1>5. TiledUpTo(i)'
  BY <1>1, <1>3, <1>4 DEF TiledUpTo, Tiled
<1>6. AllCode' /\ InOrder'
  BY <1>0, <1>1 DEF AllCode, InOrder, IsCode, Sec, elf
<1>7. \A a \in DOMAIN programs' : programs'[a].sec_idx <= i'
  <2>1. SUFFICES ASSUME NEW a \in DOMAIN programs PROVE programs[a].sec_idx <= i + 1
    BY <1>1
  <2>2. programs[a].sec_idx \in Nat /\ i \in Nat
    BY <1>0 DEF AllCode, IsCode
  <2>. QED  BY <1>0, <2>2
<1>8. i' \in 0 .. NrSecs'
  BY <1>0, <1>1, <1>4, ElfTypes
<1>. QED  BY <1>0, <1>1, <1>5, <1>6, <1>7, <1>8 DEF CodeInv, Scanned

(***************************************************************************)
(* qsort() of a table in order leaves it as it is: the program at index a  *)
(* has just the a programs before it.                                      *)
(***************************************************************************)
LEMMA SortedStays ==
    ASSUME Counts, AllCode, InOrder
    PROVE  \A a \in DOMAIN programs : QSort(programs, nr_programs, CmpProgs)[a] = programs[a]
<1> DEFINE n == nr_programs
           t == programs
           precedes(b, a) == CmpProgs(t[b], t[a]) \/ (~CmpProgs(t[a], t[b]) /\ b < a)
           rank(a) == Cardinality({b \in 0 .. n - 1 : precedes(b, a)})
           c(k) == CHOOSE a \in 0 .. n - 1 : rank(a) = k
<1>1. QSort(programs, nr_programs, CmpProgs) = [k \in 0 .. n - 1 |-> t[c(k)]]
  BY DEF QSort
<1>2. \A a, b \in 0 .. n - 1 : precedes(b, a) <=> b < a
  <2>1. SUFFICES ASSUME NEW a \in 0 .. n - 1, NEW b \in 0 .. n - 1
                 PROVE  precedes(b, a) <=> b < a
    OBVIOUS
  <2>2. a \in DOMAIN t /\ b \in DOMAIN t /\ a \in Int /\ b \in Int
    BY DEF Counts
  <2>3. /\ t[a].sec_idx \in Nat /\ t[a].sec_insn_off \in Nat
        /\ t[b].sec_idx \in Nat /\ t[b].sec_insn_off \in Nat
    BY <2>2 DEF AllCode, IsCode
  <2>4. (a < b => CmpProgs(t[a], t[b])) /\ (b < a => CmpProgs(t[b], t[a]))
    BY <2>2 DEF InOrder, Precedes
  <2>5. ~(CmpProgs(t[a], t[b]) /\ CmpProgs(t[b], t[a]))
    BY <2>3 DEF CmpProgs
  <2>6. a = b => ~CmpProgs(t[a], t[b])
    BY <2>3 DEF CmpProgs
  <2>7. a < b \/ a = b \/ b < a
    BY <2>2
  <2>. QED  BY <2>2, <2>4, <2>5, <2>6, <2>7
<1>. HIDE DEF precedes
<1>3. \A a \in 0 .. n - 1 : rank(a) = a
  <2>1. SUFFICES ASSUME NEW a \in 0 .. n - 1 PROVE rank(a) = a
    OBVIOUS
  <2>2. n \in Nat /\ a \in Nat /\ a < n
    BY DEF Counts
  <2>3. {b \in 0 .. n - 1 : precedes(b, a)} = {b \in 0 .. n - 1 : b < a}
    BY <1>2
  <2>4. {b \in 0 .. n - 1 : b < a} = 0 .. a - 1
    BY <2>2
  <2>5. Cardinality(0 .. a - 1) = a
    BY <2>2, FS_Interval
  <2>. QED  BY <2>3, <2>4, <2>5
<1>. HIDE DEF rank
<1>4. \A k \in 0 .. n - 1 : c(k) = k
  BY <1>3
<1>. HIDE DEF c
<1>. QED  BY <1>1, <1>4 DEF Counts

LEMMA ElfCollectDoneCode ==
    ASSUME Counts, CodeInv, ElfCollectDone
    PROVE  CodeInv'
<1>0. /\ file \in DOMAIN Elfs /\ AllCode /\ InOrder /\ TiledUpTo(NrSecs)
  BY DEF CodeInv, ElfCollectDone
<1>1. file' = file /\ pc' \in {"externs", "close"}
  BY DEF ElfCollectDone, Fail
<1>2. programs' = programs \/ programs' = QSort(programs, nr_programs, CmpProgs)
  BY DEF ElfCollectDone
<1>3. SameCode
  <2>1. DOMAIN QSort(programs, nr_programs, CmpProgs) = 0 .. nr_programs - 1
    BY DEF QSort
  <2>2. \A a \in DOMAIN programs : programs'[a] = programs[a]
    BY <1>0, <1>2, SortedStays
  <2>3. DOMAIN programs' = DOMAIN programs
    BY <1>2, <2>1 DEF Counts
  <2>. QED  BY <2>2, <2>3 DEF SameCode
<1>4. AllCode' /\ InOrder' /\ \A s, n : Tiled(s, n) => Tiled(s, n)'
  BY <1>0, <1>1, <1>3, SameCodeKeeps
<1>5. /\ \A s : Sec(s)' = Sec(s) /\ Role(Sec(s))' = Role(Sec(s))
      /\ NrSecs' = NrSecs
  BY <1>1 DEF Sec, Role, IgnoreElfSection, NrSecs, elf
<1>6. TiledUpTo(NrSecs)'
  BY <1>0, <1>4, <1>5 DEF TiledUpTo
<1>. QED  BY <1>0, <1>1, <1>4, <1>6 DEF CodeInv, Scanned

(***************************************************************************)
(* The steps after the scan, and those that end or repeat.                 *)
(***************************************************************************)
LEMMA CollectRelocSameCode ==
    ASSUME CollectReloc, AllCode
    PROVE  SameCode /\ file' = file /\ pc = "collect_relos" /\ pc' \in {"collect_relos", "close"}
<1> DEFINE p == OwnerOf(programs, Relos[i].info, Relos[i].rels[j].off \div BPF_INSN_SZ)
<1>1. \/ programs' = programs
      \/ \E d : programs' = [programs EXCEPT ![p].reloc_desc = Append(@, d)]
  BY ZenonT(80) DEF CollectReloc
<1>2. file' = file /\ pc = "collect_relos" /\ pc' \in {"collect_relos", "close"}
  BY DEF CollectReloc, Fail
<1>. HIDE DEF p
<1>3. SameCode
  BY <1>1 DEF SameCode, ProgFields, AllCode, IsCode
<1>. QED  BY <1>2, <1>3

LEMMA SortRelosSameCode ==
    ASSUME SortRelos, AllCode
    PROVE  SameCode /\ file' = file /\ pc = "collect_relos" /\ pc' = "relos_done"
<1>1. programs' = [q \in DOMAIN programs |-> [programs[q] EXCEPT !.reloc_desc = SortDescs(@)]]
  BY DEF SortRelos
<1>2. SameCode
  BY <1>1 DEF SameCode, ProgFields, AllCode, IsCode
<1>. QED  BY <1>2 DEF SortRelos

LEMMA UnchangedSameCode ==
    ASSUME programs' = programs
    PROVE  SameCode
BY DEF SameCode

LEMMA LaterStepCode ==
    ASSUME CodeInv, \/ CollectExtern \/ ExternsDone \/ UserMapsDone \/ UserBtfMapsDone
                    \/ InitMapsDone \/ CollectReloc \/ NextReloSect \/ SortRelos \/ OpenDone
                    \/ InitUserMap \/ InitUserBtfMap \/ InitInternalMap
    PROVE  CodeInv'
<1>1. CASE CollectReloc
  BY <1>1, CollectRelocSameCode, LaterCode DEF CodeInv, Scanned
<1>2. CASE SortRelos
  BY <1>2, SortRelosSameCode, LaterCode DEF CodeInv, Scanned
<1>3. CASE CollectExtern \/ ExternsDone
  <2>1. programs' = programs /\ file' = file /\ pc = "externs" /\ pc' \in {"externs", "user_maps", "close"}
    BY <1>3 DEF CollectExtern, ExternsDone, FinalizeBtf, Fail
  <2>. QED  BY <2>1, UnchangedSameCode, LaterCode DEF Scanned
<1>4. CASE UserMapsDone \/ UserBtfMapsDone \/ InitMapsDone \/ NextReloSect
  <2>1. programs' = programs /\ file' = file /\ pc \in Scanned /\ pc' \in Scanned \cup {"close"}
    BY <1>4 DEF UserMapsDone, UserBtfMapsDone, InitMapsDone, NextReloSect, objvars, Fail, Scanned
  <2>. QED  BY <2>1, UnchangedSameCode, LaterCode
<1>5. CASE OpenDone
  <2>1. programs' = programs /\ file' = file /\ pc \in Scanned /\ pc' \in Scanned \cup {"close"}
    BY <1>5 DEF OpenDone, objvars, Scanned
  <2>. QED  BY <2>1, UnchangedSameCode, LaterCode
<1>6. CASE InitUserMap \/ InitUserBtfMap
  <2>1. programs' = programs /\ file' = file /\ pc \in Scanned /\ pc' \in Scanned \cup {"close"}
    BY <1>6 DEF InitUserMap, InitUserBtfMap, AddMapFails, Fail, Scanned
  <2>. QED  BY <2>1, UnchangedSameCode, LaterCode
<1>7. CASE InitInternalMap
  <2>1. programs' = programs /\ file' = file /\ pc \in Scanned /\ pc' \in Scanned \cup {"close"}
    BY <1>7 DEF InitInternalMap, AddMapFails, Fail, Scanned
  <2>. QED  BY <2>1, UnchangedSameCode, LaterCode
<1>. QED  BY <1>1, <1>2, <1>3, <1>4, <1>5, <1>6, <1>7

LEMMA CloseCode ==
    ASSUME CodeInv, Close
    PROVE  CodeInv'
<1>1. programs' = <<>> /\ file' = file /\ pc' = "closed"
  BY DEF Close
<1>2. DOMAIN programs' = {}
  BY <1>1
<1>3. AllCode' /\ InOrder'
  BY <1>2 DEF AllCode, InOrder
<1>. QED  BY <1>1, <1>3 DEF CodeInv, Scanned

-----------------------------------------------------------------------------
(***************************************************************************)
(* The descriptors: until they are sorted every program has a sequence of  *)
(* proper ones, made from relocation sections that are sections of the     *)
(* file.                                                                   *)
(***************************************************************************)
IsDescs(s) == \E S : s \in Seq(S) /\ \A d \in S : IsDesc(d)

AllDescs == \A a \in DOMAIN programs : IsDescs(programs[a].reloc_desc)

AllSorted ==
    \A a \in DOMAIN programs : \A k, m \in DOMAIN programs[a].reloc_desc :
      k < m => programs[a].reloc_desc[k].insn_idx <= programs[a].reloc_desc[m].insn_idx

DescInv ==
    /\ efile.reloc_sects \in Seq(1 .. NrSecs)
    /\ IF pc \in {"relos_done", "opened"} THEN AllSorted ELSE AllDescs

LEMMA AppendDesc ==
    ASSUME NEW s, IsDescs(s), NEW d, IsDesc(d)
    PROVE  IsDescs(Append(s, d))
<1>1. PICK S : s \in Seq(S) /\ \A e \in S : IsDesc(e)
  BY DEF IsDescs
<1>2. s \in Seq(S \cup {d})
  BY <1>1
<1>3. Append(s, d) \in Seq(S \cup {d}) /\ \A e \in S \cup {d} : IsDesc(e)
  BY <1>1, <1>2
<1>. QED  BY <1>3 DEF IsDescs

LEMMA AppendedDesc ==
    ASSUME NEW s, IsDescs(s), NEW d
    PROVE  /\ Len(s) \in Nat /\ DOMAIN s = 1 .. Len(s)
           /\ DOMAIN Append(s, d) = 1 .. Len(s) + 1
           /\ Append(s, d)[Len(s) + 1] = d
           /\ \A k \in 1 .. Len(s) : Append(s, d)[k] = s[k]
<1>1. PICK S : s \in Seq(S)
  BY DEF IsDescs
<1>2. s \in Seq(S \cup {d})
  BY <1>1
<1>. QED  BY <1>2

LEMMA EmptyDescs ==
    ASSUME NEW s, s = <<>>
    PROVE  IsDescs(s)
<1>1. PICK S : S = {}
  OBVIOUS
<1>2. s \in Seq(S) /\ \A d \in S : IsDesc(d)
  BY <1>1
<1>. QED  BY <1>2 DEF IsDescs

(***************************************************************************)
(* Every descriptor bpf_program__record_reloc() makes.                     *)
(***************************************************************************)
LEMMA RecordRelocIsDesc ==
    ASSUME NEW insn, NEW loc \in Int, NEW sym, NEW d \in RecordReloc(insn, loc, sym)
    PROVE  IsDesc(d)
BY DEF RecordReloc, IsDesc

LEMMA FrameDescs ==
    ASSUME DescInv, UNCHANGED <<programs, file, efile>>,
           pc \notin {"relos_done", "opened"}, pc' \notin {"relos_done", "opened"}
    PROVE  DescInv'
BY DEF DescInv, AllDescs, NrSecs, elf

LEMMA CollectSectionDescs ==
    ASSUME CtlInv, CodeInv, DescInv, CollectSection
    PROVE  DescInv'
<1>1. /\ UNCHANGED <<programs, file>> /\ pc = "elf_collect"
      /\ pc' \in {"elf_collect", "add_programs", "close"}
  BY DEF CollectSection, objvars, Fail
<1>2. i + 1 \in 1 .. NrSecs
  BY ElfTypes DEF CollectSection, CodeInv
<1>3. \/ efile'.reloc_sects = efile.reloc_sects
      \/ efile'.reloc_sects = Append(efile.reloc_sects, i + 1)
  BY DEF CollectSection, CtlInv
<1>4. efile'.reloc_sects \in Seq(1 .. NrSecs)
  <2> DEFINE T == 1 .. NrSecs
  <2>1. efile.reloc_sects \in Seq(T) /\ i + 1 \in T
    BY <1>2 DEF DescInv
  <2>. HIDE DEF T
  <2>2. Append(efile.reloc_sects, i + 1) \in Seq(T)
    BY <2>1
  <2>3. efile'.reloc_sects \in Seq(T)
    BY <1>3, <2>1, <2>2
  <2>. QED  BY <2>3 DEF T
<1>. QED  BY <1>1, <1>4 DEF DescInv, AllDescs, NrSecs, elf

LEMMA FindSymtabDescs ==
    ASSUME CtlInv, DescInv, FindSymtab
    PROVE  DescInv'
<1>1. UNCHANGED <<programs, file>> /\ pc = "symtab" /\ pc' \in {"elf_collect", "close"}
  BY DEF FindSymtab, objvars, Fail
<1>2. efile'.reloc_sects = efile.reloc_sects
  BY DEF FindSymtab, CtlInv
<1>. QED  BY <1>1, <1>2 DEF DescInv, AllDescs, NrSecs, elf

LEMMA AddProgramDescs ==
    ASSUME Counts, DescInv, AddProgram
    PROVE  DescInv'
<1>1. UNCHANGED <<file, efile>> /\ pc = "add_programs" /\ pc' \in {"add_programs", "close"}
  BY DEF AddProgram, Fail
<1>2. \/ programs' = programs
      \/ \E idx, off, sz : programs' = [k \in 0 .. nr_programs |->
            IF k = nr_programs THEN NewProgram(idx, off, sz) ELSE programs[k]]
  BY DEF AddProgram
<1>3. \A idx, off, sz : NewProgram(idx, off, sz).reloc_desc = <<>>
  BY DEF NewProgram
<1>4. AllDescs'
  <2>1. CASE programs' = programs
    BY <1>1, <2>1 DEF DescInv, AllDescs
  <2>2. CASE programs' # programs
    <3>1. PICK idx, off, sz : programs' = [k \in 0 .. nr_programs |->
            IF k = nr_programs THEN NewProgram(idx, off, sz) ELSE programs[k]]
      BY <1>2, <2>2
    <3>2. \A a \in DOMAIN programs' :
            \/ programs'[a].reloc_desc = <<>>
            \/ a \in DOMAIN programs /\ programs'[a] = programs[a]
      BY <3>1, <1>3 DEF Counts
    <3>. QED  BY <1>1, <3>2, EmptyDescs DEF DescInv, AllDescs
  <2>. QED  BY <2>1, <2>2
<1>. QED  BY <1>1, <1>4 DEF DescInv, NrSecs, elf

LEMMA ElfCollectDoneDescs ==
    ASSUME Counts, CodeInv, DescInv, ElfCollectDone
    PROVE  DescInv'
<1>1. UNCHANGED <<file, efile>> /\ pc = "elf_collect" /\ pc' \in {"externs", "close"}
  BY DEF ElfCollectDone, Fail
<1>2. programs' = programs \/ programs' = QSort(programs, nr_programs, CmpProgs)
  BY DEF ElfCollectDone
<1>3. DOMAIN programs' = DOMAIN programs
  <2>1. DOMAIN QSort(programs, nr_programs, CmpProgs) = 0 .. nr_programs - 1
    BY DEF QSort
  <2>. QED  BY <1>2, <2>1 DEF Counts
<1>4. \A a \in DOMAIN programs : programs'[a] = programs[a]
  BY <1>2, SortedStays DEF CodeInv
<1>. QED  BY <1>1, <1>3, <1>4 DEF DescInv, AllDescs, NrSecs, elf

LEMMA CollectRelocDescs ==
    ASSUME Counts, CodeInv, DescInv, CollectReloc
    PROVE  DescInv'
<1> DEFINE rel == Relos[i].rels[j]
           idx == rel.off \div BPF_INSN_SZ
           q == OwnerOf(programs, Relos[i].info, idx)
           loc == idx - programs[q].sec_insn_off
           insn == programs[q].insns[loc + 1]
<1>1. /\ UNCHANGED <<file, efile>> /\ pc = "collect_relos" /\ pc' \in {"collect_relos", "close"}
      /\ i \in DOMAIN Relos /\ j \in DOMAIN Relos[i].rels
  BY ZenonT(80) DEF CollectReloc, Fail
<1>2. \/ programs' = programs
      \/ /\ q # NULL
         /\ \E d \in RecordReloc(insn, loc, rel.sym) :
              programs' = [programs EXCEPT ![q].reloc_desc = Append(@, d)]
  BY DEF CollectReloc
<1>3. rel.off \in Nat
  <2>1. efile.reloc_sects[i] \in 1 .. NrSecs /\ Relos[i] = Sec(efile.reloc_sects[i])
    <3> DEFINE T == 1 .. NrSecs
               r == efile.reloc_sects
    <3>1. r \in Seq(T) /\ Relos = [sec \in DOMAIN r |-> Sec(r[sec])]
      BY DEF DescInv, Relos
    <3>2. i \in DOMAIN r
      BY <1>1, <3>1
    <3>. HIDE DEF T, r
    <3>3. r[i] \in T /\ Relos[i] = Sec(r[i])
      BY <3>1, <3>2
    <3>. QED  BY <3>3 DEF T, r
  <2>. QED  BY <1>1, <2>1, ElfTypes DEF CodeInv
<1>4. idx \in Int
  BY <1>3 DEF BPF_INSN_SZ
<1>. HIDE DEF rel, idx
<1>5. AllDescs'
  <2>1. CASE programs' = programs
    BY <1>1, <2>1 DEF DescInv, AllDescs
  <2>2. CASE programs' # programs
    <3>1. q # NULL
      BY <1>2, <2>2
    <3>2. q \in DOMAIN programs
      BY <3>1 DEF OwnerOf
    <3>3. IsCode(programs[q])
      BY <3>2 DEF CodeInv, AllCode
    <3>4. loc \in Int
      BY <1>4, <3>3 DEF IsCode
    <3>5. PICK d \in RecordReloc(insn, loc, rel.sym) :
            programs' = [programs EXCEPT ![q].reloc_desc = Append(@, d)]
      BY <1>2, <2>2
    <3>6. IsDesc(d)
      BY <3>4, RecordRelocIsDesc
    <3>. HIDE DEF q, loc, insn
    <3>7. "reloc_desc" \in DOMAIN programs[q]
      BY <3>3 DEF IsCode, ProgFields
    <3>8. DOMAIN programs' = DOMAIN programs
      BY <3>5
    <3>9. \A a \in DOMAIN programs : a # q => programs'[a] = programs[a]
      BY <3>5
    <3>10. programs'[q].reloc_desc = Append(programs[q].reloc_desc, d)
      BY <3>2, <3>5, <3>7
    <3>11. AllDescs
      BY <1>1 DEF DescInv
    <3>12. IsDescs(programs'[q].reloc_desc)
      BY <3>2, <3>6, <3>10, <3>11, AppendDesc DEF AllDescs
    <3>. QED  BY <3>8, <3>9, <3>11, <3>12, SMTT(40) DEF AllDescs
  <2>. QED  BY <2>1, <2>2
<1>. QED  BY <1>1, <1>5 DEF DescInv, NrSecs, elf

LEMMA SortRelosDescs ==
    ASSUME CodeInv, DescInv, SortRelos
    PROVE  DescInv'
<1>1. /\ UNCHANGED <<file, efile>> /\ pc = "collect_relos" /\ pc' = "relos_done"
      /\ programs' = [q \in DOMAIN programs |-> [programs[q] EXCEPT !.reloc_desc = SortDescs(@)]]
  BY DEF SortRelos
<1>2. ASSUME NEW a \in DOMAIN programs
      PROVE  programs'[a].reloc_desc = SortDescs(programs[a].reloc_desc)
  BY <1>1 DEF CodeInv, AllCode, IsCode, ProgFields
<1>3. ASSUME NEW a \in DOMAIN programs
      PROVE  LET r == SortDescs(programs[a].reloc_desc) IN
             \A k, m \in DOMAIN r : k < m => r[k].insn_idx <= r[m].insn_idx
  <2> DEFINE s == programs[a].reloc_desc
  <2>1. PICK S : s \in Seq(S) /\ \A d \in S : IsDesc(d)
    BY <1>1 DEF DescInv, AllDescs, IsDescs
  <2>2. Len(s) \in Nat /\ DOMAIN s = 1 .. Len(s) /\ \A k \in DOMAIN s : IsDesc(s[k])
    BY <2>1
  <2>. QED  BY <2>2, SortDescsSorts
<1>4. AllSorted'
  BY <1>1, <1>2, <1>3 DEF AllSorted
<1>. QED  BY <1>1, <1>4 DEF DescInv, NrSecs, elf

LEMMA OpenDoneDescs ==
    ASSUME CtlInv, DescInv, OpenDone
    PROVE  DescInv'
<1>1. UNCHANGED <<file, programs>> /\ pc = "relos_done" /\ pc' = "opened"
  BY DEF OpenDone, objvars
<1>2. efile'.reloc_sects \in {efile.reloc_sects, <<>>}
  BY DEF OpenDone, ElfFinish, CtlInv
<1>3. efile'.reloc_sects \in Seq(1 .. NrSecs)
  <2>1. \A T : <<>> \in Seq(T)
    OBVIOUS
  <2>2. <<>> \in Seq(1 .. NrSecs)
    BY <2>1
  <2>. QED  BY <1>2, <2>2 DEF DescInv
<1>. QED  BY <1>1, <1>3 DEF DescInv, AllSorted, NrSecs, elf

(***************************************************************************)
(* The whole invariant: of the code and the descriptors while the object   *)
(* is being opened, and of the code until extract() starts to rewrite it.  *)
(***************************************************************************)
OInv ==
    /\ XInv
    /\ xpc \in {"open", "collect"} => CodeInv
    /\ xpc = "open" => DescInv

LEMMA InitOInv == XInit => OInv
<1> SUFFICES ASSUME XInit PROVE OInv
  OBVIOUS
<1>1. XInv
  BY InitXInv
<1>2. file \in DOMAIN Elfs /\ pc = "elf_init" /\ i = 0 /\ nr_programs = 0 /\ DOMAIN programs = {}
  BY DEF XInit, Init
<1>3. AllCode /\ InOrder /\ AllDescs
  BY <1>2 DEF AllCode, InOrder, AllDescs
<1>4. CodeInv
  BY <1>2, <1>3 DEF CodeInv, Scanned
<1>5. efile.reloc_sects \in Seq(1 .. NrSecs)
  <2>1. \A T : <<>> \in Seq(T)
    OBVIOUS
  <2>2. efile.reloc_sects = <<>>
    BY DEF XInit, Init
  <2>. QED  BY <2>1, <2>2
<1>6. DescInv
  BY <1>2, <1>3, <1>5 DEF DescInv
<1>. QED  BY <1>1, <1>4, <1>6 DEF OInv

LEMMA StutterCode ==
    ASSUME UNCHANGED <<file, pc, i, j, programs, nr_programs, efile>>
    PROVE  (CodeInv => CodeInv') /\ (DescInv => DescInv')
<1>1. /\ \A s : Sec(s)' = Sec(s) /\ Role(Sec(s))' = Role(Sec(s))
      /\ NrSecs' = NrSecs /\ elf' = elf
  BY DEF Sec, Role, IgnoreElfSection, NrSecs, elf
<1>2. (AllCode => AllCode') /\ (InOrder => InOrder') /\ (AllDescs => AllDescs')
      /\ (AllSorted => AllSorted')
  BY <1>1 DEF AllCode, InOrder, AllDescs, AllSorted, IsCode, Sec
<1>3. (TiledUpTo(i) => TiledUpTo(i)') /\ (TiledUpTo(NrSecs) => TiledUpTo(NrSecs)')
      /\ (Tiled(i + 1, j \div 8) => Tiled(i + 1, j \div 8)')
  BY <1>1 DEF TiledUpTo, Tiled
<1>4. CodeInv => CodeInv'
  BY <1>1, <1>2, <1>3 DEF CodeInv
<1>5. DescInv => DescInv'
  BY <1>1, <1>2 DEF DescInv
<1>. QED  BY <1>4, <1>5

LEMMA OpenOInv ==
    ASSUME OInv, Open
    PROVE  CodeInv' /\ DescInv'
<1>0. HeldInv /\ Counts /\ CtlInv /\ CodeInv /\ DescInv /\ Next
  BY DEF OInv, XInv, HeldInv, Open
<1>1. CASE ElfInit
  <2>1. UNCHANGED <<programs, nr_programs, file, efile, i>> /\ pc = "elf_init"
        /\ pc' \in {"symtab", "close"}
    BY <1>1 DEF ElfInit, Fail, objvars
  <2>2. AllCode' /\ InOrder'
    BY <1>0, <2>1 DEF CodeInv, AllCode, InOrder, IsCode, Sec, elf
  <2>3. CodeInv'
    BY <1>0, <2>1, <2>2 DEF CodeInv, Scanned
  <2>. QED  BY <1>0, <2>1, <2>3, FrameDescs
<1>2. CASE FindSymtab
  BY <1>0, <1>2, FindSymtabCode, FindSymtabDescs
<1>3. CASE CollectSection
  BY <1>0, <1>3, CollectSectionCode, CollectSectionDescs
<1>4. CASE AddProgram
  BY <1>0, <1>4, AddProgramCode, AddProgramDescs
<1>5. CASE AddProgramsDone
  <2>1. UNCHANGED <<programs, file, efile>> /\ pc = "add_programs" /\ pc' = "elf_collect"
    BY <1>5 DEF AddProgramsDone, objvars
  <2>. QED  BY <1>0, <1>5, <2>1, AddProgramsDoneCode, FrameDescs
<1>6. CASE ElfCollectDone
  BY <1>0, <1>6, ElfCollectDoneCode, ElfCollectDoneDescs
<1>7. CASE CollectExtern \/ ExternsDone \/ UserMapsDone \/ UserBtfMapsDone \/ InitMapsDone
             \/ NextReloSect
  <2>1. /\ UNCHANGED <<programs, file, efile>>
        /\ pc \notin {"relos_done", "opened"} /\ pc' \notin {"relos_done", "opened"}
    BY <1>7 DEF CollectExtern, ExternsDone, UserMapsDone, UserBtfMapsDone, InitMapsDone, NextReloSect,
                FinalizeBtf, Fail, objvars
  <2>. QED  BY <1>0, <1>7, <2>1, LaterStepCode, FrameDescs
<1>8. CASE MapStep
  <2>1. /\ UNCHANGED <<programs, file, efile>>
        /\ pc \notin {"relos_done", "opened"} /\ pc' \notin {"relos_done", "opened"}
    BY <1>0, <1>8, MapStepFrame
  <2>. QED  BY <1>0, <1>8, <2>1, LaterStepCode, FrameDescs DEF MapStep
<1>9. CASE CollectReloc
  BY <1>0, <1>9, LaterStepCode, CollectRelocDescs
<1>10. CASE SortRelos
  BY <1>0, <1>10, LaterStepCode, SortRelosDescs
<1>11. CASE OpenDone
  BY <1>0, <1>11, LaterStepCode, OpenDoneDescs
<1>12. CASE OpenFails
  <2>1. Close
    BY <1>12 DEF OpenFails
  <2>2. programs' = <<>> /\ file' = file /\ pc' = "closed" /\ efile'.reloc_sects = <<>>
    BY <1>0, <2>1 DEF Close, CtlInv
  <2>3. \A T : <<>> \in Seq(T)
    OBVIOUS
  <2>4. efile'.reloc_sects \in Seq(1 .. NrSecs')
    BY <2>2, <2>3
  <2>5. DOMAIN programs' = {}
    BY <2>2
  <2>6. DescInv'
    BY <2>2, <2>4, <2>5 DEF DescInv, AllDescs
  <2>. QED  BY <1>0, <2>1, <2>6, CloseCode
<1>13. CASE Finished
  BY <1>0, <1>13, StutterCode DEF Finished, vars, objvars
<1>. QED  BY <1>0, <1>1, <1>2, <1>3, <1>4, <1>5, <1>6, <1>7, <1>8, <1>9, <1>10, <1>11, <1>12, <1>13
          DEF Next, MapStep

LEMMA NextOInv ==
    ASSUME OInv, [XNext]_allvars
    PROVE  OInv'
<1>0. XInv' /\ CtlInv /\ XInv
  BY NextXInv DEF OInv, XInv
<1>1. CASE Open
  BY <1>0, <1>1, OpenOInv DEF OInv
<1>2. CASE OpenRefused \/ CloseObject
  <2>1. xpc' = "done"
    BY <1>2 DEF OpenRefused, CloseObject
  <2>. QED  BY <1>0, <2>1 DEF OInv
<1>3. CASE NumberMaps
  <2>1. UNCHANGED <<programs, file>> /\ pc = "opened" /\ xpc = "open"
        /\ pc' = "collect_relos" /\ xpc' = "collect"
    BY <1>3 DEF NumberMaps
  <2>2. CodeInv'
    BY <2>1, UnchangedSameCode, LaterCode DEF OInv, Scanned
  <2>. QED  BY <1>0, <2>1, <2>2 DEF OInv
<1>4. CASE CollectRelosAgain
  <2>1. CodeInv
    BY <1>4 DEF CollectRelosAgain, OInv
  <2>2. CodeInv'
    BY <1>4, <2>1, LaterStepCode DEF CollectRelosAgain
  <2>3. xpc' # "open"
    BY <1>4 DEF CollectRelosAgain
  <2>. QED  BY <1>0, <2>2, <2>3 DEF OInv
<1>5. CASE ExtractProgram
  <2>1. xpc' = "write"
    BY <1>5 DEF ExtractProgram
  <2>. QED  BY <1>0, <2>1 DEF OInv
<1>6. CASE Done \/ UNCHANGED allvars
  <2>1. UNCHANGED <<file, pc, i, j, programs, nr_programs, efile, xpc>>
    BY <1>6 DEF Done, allvars, xvars, vars, objvars
  <2>. QED  BY <1>0, <2>1, StutterCode DEF OInv
<1>. QED  BY <1>1, <1>2, <1>3, <1>4, <1>5, <1>6 DEF XNext

(***************************************************************************)
(* bpf_object__elf_collect() leaves, of every file it accepts, a table     *)
(* that find_prog_by_sec_insn() can search (the assumption under which     *)
(* FindProgProofs proves the search correct), in which every instruction   *)
(* of an executable section has its owner and is at its place there.       *)
(***************************************************************************)
THEOREM ProgramsAlwaysTile == XSpec => []ProgramsTile
<1>1. OInv => ProgramsTile
  <2>1. SUFFICES ASSUME OInv, Collected PROVE ProgramsTile
    BY DEF ProgramsTile
  <2>2. xpc \in {"open", "collect"}
    BY <2>1 DEF OInv, XInv, CtlInv, Collected
  <2>. QED  BY <2>1, <2>2, CodeTiles DEF OInv, XInv, HeldInv
<1>. QED  BY <1>1, InitOInv, NextOInv, PTL DEF XSpec

(***************************************************************************)
(* The descriptors of every program of an opened object are in instruction *)
(* order, in whatever order the file has its relocations.                  *)
(***************************************************************************)
THEOREM RelocsAreSorted == XSpec => []RelocsSorted
<1>1. OInv => RelocsSorted
  <2>1. SUFFICES ASSUME OInv, pc = "opened" PROVE RelocsSorted
    BY DEF RelocsSorted
  <2>2. DescInv
    BY <2>1 DEF OInv, XInv, CtlInv
  <2>. QED  BY <2>1, <2>2 DEF DescInv, AllSorted, RelocsSorted
<1>. QED  BY <1>1, InitOInv, NextOInv, PTL DEF XSpec

-----------------------------------------------------------------------------
(***************************************************************************)
(* A recursion over the externs has the function it defines: one for every *)
(* number of them, by extending the one for the first n - 1.               *)
(***************************************************************************)
KcfgStep(exts, off, k) ==
    IF exts[k - 1].type # "kcfg" THEN off
    ELSE Roundup(off, exts[k - 1].align) + exts[k - 1].sz

IsKcfgEnds(f, exts, n) ==
    f = [k \in 0 .. n |-> IF k = 0 THEN 0 ELSE KcfgStep(exts, f[k - 1], k)]

LEMMA KcfgEndsExist ==
    ASSUME NEW exts, NEW n \in Nat
    PROVE  \E f : IsKcfgEnds(f, exts, n)
<1> DEFINE S == {a \in Nat : ~ \E f : IsKcfgEnds(f, exts, a)}
           a == First(S)
<1>1. SUFFICES ASSUME n \in S PROVE FALSE
  OBVIOUS
<1>2. a \in S /\ \A b \in S : a <= b
  BY <1>1, FirstIsIn
<1>3. a \in Nat /\ ~ \E f : IsKcfgEnds(f, exts, a)
  BY <1>2
<1>. HIDE DEF a
<1>4. a # 0
  <2> DEFINE f == [k \in 0 .. 0 |-> 0]
  <2>1. f = [k \in 0 .. 0 |-> IF k = 0 THEN 0 ELSE KcfgStep(exts, f[k - 1], k)]
    OBVIOUS
  <2>2. IsKcfgEnds(f, exts, 0)
    BY <2>1 DEF IsKcfgEnds
  <2>. QED  BY <1>3, <2>2
<1>5. a - 1 \in Nat
  BY <1>3, <1>4
<1>6. a - 1 \notin S
  BY <1>2, <1>3, <1>5
<1>7. PICK g : IsKcfgEnds(g, exts, a - 1)
  BY <1>5, <1>6
<1> DEFINE f == [k \in 0 .. a |-> IF k = a THEN KcfgStep(exts, g[a - 1], a) ELSE g[k]]
<1>8. \A k \in 0 .. a : f[k] = IF k = 0 THEN 0 ELSE KcfgStep(exts, f[k - 1], k)
  <2>1. SUFFICES ASSUME NEW k \in 0 .. a
                 PROVE  f[k] = IF k = 0 THEN 0 ELSE KcfgStep(exts, f[k - 1], k)
    OBVIOUS
  <2>2. \A m \in 0 .. a - 1 : g[m] = IF m = 0 THEN 0 ELSE KcfgStep(exts, g[m - 1], m)
    BY <1>7 DEF IsKcfgEnds
  <2>3. \A m \in 0 .. a - 1 : m \in 0 .. a /\ m # a
    BY <1>3
  <2>4. \A m \in 0 .. a - 1 : f[m] = g[m]
    BY <2>3
  <2>5. CASE k = a
    <3>1. f[a] = KcfgStep(exts, g[a - 1], a)
      BY <1>3
    <3>2. f[a - 1] = g[a - 1]
      BY <1>3, <1>5, <2>4
    <3>. HIDE DEF f
    <3>. QED  BY <1>4, <2>5, <3>1, <3>2
  <2>6. CASE k # a
    <3>1. k \in 0 .. a - 1 /\ (k # 0 => k - 1 \in 0 .. a - 1)
      BY <1>3, <2>6
    <3>2. f[k] = IF k = 0 THEN 0 ELSE KcfgStep(exts, g[k - 1], k)
      BY <2>2, <2>4, <3>1
    <3>3. k # 0 => f[k - 1] = g[k - 1]
      BY <2>4, <3>1
    <3>. HIDE DEF f
    <3>. QED  BY <3>2, <3>3
  <2>. QED  BY <2>5, <2>6
<1>9. f = [k \in 0 .. a |-> f[k]]
  OBVIOUS
<1>. HIDE DEF f
<1>10. IsKcfgEnds(f, exts, a)
  BY <1>8, <1>9 DEF IsKcfgEnds
<1>. QED  BY <1>3, <1>10

LEMMA KcfgEndsIs ==
    ASSUME nr_extern \in Nat, NEW exts
    PROVE  /\ KcfgEnds(exts)[0] = 0
           /\ \A k \in 0 .. nr_extern - 1 :
                KcfgEnds(exts)[k + 1] = KcfgStep(exts, KcfgEnds(exts)[k], k + 1)
<1>1. KcfgEnds(exts) = CHOOSE f : IsKcfgEnds(f, exts, nr_extern)
  BY DEF KcfgEnds, IsKcfgEnds, KcfgStep
<1>2. IsKcfgEnds(KcfgEnds(exts), exts, nr_extern)
  BY <1>1, KcfgEndsExist
<1> DEFINE f == KcfgEnds(exts)
<1>3. f = [k \in 0 .. nr_extern |-> IF k = 0 THEN 0 ELSE KcfgStep(exts, f[k - 1], k)]
  BY <1>2 DEF IsKcfgEnds
<1>. HIDE DEF f
<1>4. \A k \in 0 .. nr_extern : f[k] = IF k = 0 THEN 0 ELSE KcfgStep(exts, f[k - 1], k)
  BY <1>3
<1>5. \A k \in 0 .. nr_extern - 1 : k + 1 \in 0 .. nr_extern /\ (k + 1) - 1 = k /\ k + 1 # 0
  OBVIOUS
<1>6. f[0] = 0
  BY <1>4
<1>7. \A k \in 0 .. nr_extern - 1 : f[k + 1] = KcfgStep(exts, f[k], k + 1)
  BY <1>4, <1>5
<1>. QED  BY <1>6, <1>7 DEF f


(***************************************************************************)
(* A descriptor of an extern that bpf_object__collect_externs() has taken. *)
(***************************************************************************)
ExternFields == {"type", "sym_idx", "sz", "align", "rank", "data_off"}

IsExtern(e) ==
    /\ ExternFields \subseteq DOMAIN e
    /\ e.type \in {"kcfg", "ksym"} /\ e.rank \in Int
    /\ e.type = "kcfg" => e.sz \in Nat /\ e.align \in Nat /\ e.align # 0

LEMMA RoundupBounds ==
    ASSUME NEW off \in Nat, NEW align \in Nat, align # 0
    PROVE  /\ Roundup(off, align) \in Nat /\ off <= Roundup(off, align)
           /\ Roundup(off, align) % align = 0
<1> DEFINE q == (off + align - 1) \div align
<1>1. q \in Nat /\ q * align \in Nat /\ q * align >= off
  OBVIOUS
<1>2. Roundup(off, align) = q * align
  BY DEF Roundup
<1>. HIDE DEF q
<1>3. (q * align) % align = 0
  BY <1>1
<1>. QED  BY <1>1, <1>2, <1>3

LEMMA KcfgStepRises ==
    ASSUME NEW exts, NEW k, IsExtern(exts[k - 1]), NEW off \in Nat
    PROVE  KcfgStep(exts, off, k) \in Nat /\ off <= KcfgStep(exts, off, k)
<1> DEFINE e == exts[k - 1]
<1>1. CASE e.type = "kcfg"
  <2>1. e.sz \in Nat /\ e.align \in Nat /\ e.align # 0
    BY <1>1 DEF IsExtern
  <2>2. KcfgStep(exts, off, k) = Roundup(off, e.align) + e.sz
    BY <1>1 DEF KcfgStep
  <2>3. Roundup(off, e.align) \in Nat /\ off <= Roundup(off, e.align)
    BY <2>1, RoundupBounds
  <2>. HIDE DEF e
  <2>. QED  BY <2>1, <2>2, <2>3
<1>2. CASE e.type # "kcfg"
  BY <1>2 DEF KcfgStep
<1>. QED  BY <1>1, <1>2

LEMMA KcfgEndsRise ==
    ASSUME nr_extern \in Nat, NEW exts, \A k \in 0 .. nr_extern - 1 : IsExtern(exts[k])
    PROVE  /\ \A k \in 0 .. nr_extern : KcfgEnds(exts)[k] \in Nat
           /\ \A k, m \in 0 .. nr_extern : k <= m => KcfgEnds(exts)[k] <= KcfgEnds(exts)[m]
<1> DEFINE f == KcfgEnds(exts)
           n == nr_extern
<1>1. f[0] = 0
  BY KcfgEndsIs
<1>2. ASSUME NEW k \in 1 .. n, f[k - 1] \in Nat
      PROVE  f[k] \in Nat /\ f[k - 1] <= f[k]
  <2>1. k - 1 \in 0 .. n - 1 /\ (k - 1) + 1 = k
    OBVIOUS
  <2>2. f[k] = KcfgStep(exts, f[k - 1], k)
    <3>1. f[(k - 1) + 1] = KcfgStep(exts, f[k - 1], (k - 1) + 1)
      BY <2>1, KcfgEndsIs
    <3>. QED  BY <2>1, <3>1
  <2>3. IsExtern(exts[k - 1])
    BY <2>1
  <2>. HIDE DEF f
  <2>. QED  BY <1>2, <2>2, <2>3, KcfgStepRises
<1>. HIDE DEF f
<1>3. ASSUME NEW k \in 0 .. n
      PROVE  f[k] \in Nat
  <2> DEFINE S == {b \in 0 .. n : f[b] \notin Nat}
             a == First(S)
  <2>1. SUFFICES ASSUME k \in S PROVE FALSE
    OBVIOUS
  <2>2. a \in S /\ \A b \in S : a <= b
    BY <2>1, FirstIsIn
  <2>3. a \in 0 .. n /\ f[a] \notin Nat
    BY <2>2
  <2>4. \A b \in 0 .. n : b < a => f[b] \in Nat
    BY <2>2, <2>3
  <2>. HIDE DEF S, a
  <2>5. a \in 1 .. n /\ a - 1 \in 0 .. n /\ a - 1 < a
    BY <1>1, <2>3
  <2>. QED  BY <1>2, <2>3, <2>4, <2>5
<1>4. ASSUME NEW k \in 0 .. n, NEW m \in 0 .. n, k <= m
      PROVE  f[k] <= f[m]
  <2> DEFINE S == {b \in k .. n : ~(f[k] <= f[b])}
             a == First(S)
  <2>1. SUFFICES ASSUME m \in S PROVE FALSE
    BY <1>4
  <2>2. a \in S /\ \A b \in S : a <= b
    BY <2>1, FirstIsIn
  <2>3. a \in k .. n /\ ~(f[k] <= f[a])
    BY <2>2
  <2>4. \A b \in k .. n : b < a => f[k] <= f[b]
    BY <2>2, <2>3
  <2>. HIDE DEF S, a
  <2>5. a # k
    BY <1>3, <2>3
  <2>6. a \in 1 .. n /\ a - 1 \in k .. n /\ a - 1 < a /\ a - 1 \in 0 .. n /\ a \in 0 .. n
    BY <2>3, <2>5
  <2>7. f[k] <= f[a - 1] /\ f[a - 1] <= f[a]
    BY <1>2, <1>3, <2>4, <2>6
  <2>8. f[k] \in Nat /\ f[a - 1] \in Nat /\ f[a] \in Nat
    BY <1>3, <2>6
  <2>. QED  BY ONLY <2>3, <2>7, <2>8
<1>. QED  BY <1>3, <1>4 DEF f


LEMMA LayoutIsLaid ==
    ASSUME nr_extern \in Nat, NEW exts, \A k \in 0 .. nr_extern - 1 : IsExtern(exts[k]),
           NEW k \in 0 .. nr_extern - 1, LayoutKcfg(exts)[k].type = "kcfg"
    PROVE  LET e == LayoutKcfg(exts)[k] IN
           /\ e.data_off \in Nat /\ e.sz \in Nat /\ e.data_off % e.align = 0
           /\ \A m \in 0 .. nr_extern - 1 :
                LayoutKcfg(exts)[m].type = "kcfg" /\ k < m =>
                  e.data_off + e.sz <= LayoutKcfg(exts)[m].data_off
<1> DEFINE f == KcfgEnds(exts)
           r == LayoutKcfg(exts)
<1>1. ASSUME NEW a \in 0 .. nr_extern - 1, r[a].type = "kcfg"
      PROVE  /\ exts[a].type = "kcfg" /\ r[a].sz = exts[a].sz /\ r[a].align = exts[a].align
             /\ r[a].data_off = Roundup(f[a], exts[a].align)
  <2>1. IsExtern(exts[a])
    OBVIOUS
  <2>2. r[a] = IF exts[a].type = "kcfg"
                 THEN [exts[a] EXCEPT !.data_off = Roundup(f[a], exts[a].align)] ELSE exts[a]
    BY DEF LayoutKcfg
  <2>3. exts[a].type = "kcfg"
    BY <1>1, <2>2
  <2>. HIDE DEF r, f
  <2>. QED  BY <2>1, <2>2, <2>3 DEF IsExtern, ExternFields
<1>2. ASSUME NEW a \in 0 .. nr_extern - 1, exts[a].type = "kcfg"
      PROVE  /\ exts[a].sz \in Nat /\ exts[a].align \in Nat /\ exts[a].align # 0
             /\ f[a] \in Nat /\ f[a + 1] \in Nat
             /\ Roundup(f[a], exts[a].align) \in Nat
             /\ f[a] <= Roundup(f[a], exts[a].align)
             /\ Roundup(f[a], exts[a].align) % exts[a].align = 0
             /\ f[a + 1] = Roundup(f[a], exts[a].align) + exts[a].sz
  <2>1. IsExtern(exts[a])
    OBVIOUS
  <2>2. exts[a].sz \in Nat /\ exts[a].align \in Nat /\ exts[a].align # 0
    BY <1>2, <2>1 DEF IsExtern
  <2>3. a \in 0 .. nr_extern /\ a + 1 \in 0 .. nr_extern /\ (a + 1) - 1 = a
    OBVIOUS
  <2>4. f[a] \in Nat /\ f[a + 1] \in Nat
    BY <2>3, KcfgEndsRise
  <2>5. f[a + 1] = KcfgStep(exts, f[a], a + 1)
    BY KcfgEndsIs
  <2>. HIDE DEF f
  <2>6. f[a + 1] = Roundup(f[a], exts[a].align) + exts[a].sz
    BY <1>2, <2>3, <2>5 DEF KcfgStep
  <2>. QED  BY <2>2, <2>4, <2>6, RoundupBounds
<1>3. \A m \in 0 .. nr_extern - 1 : k < m => f[k + 1] <= f[m]
  <2>1. \A m \in 0 .. nr_extern - 1 :
          k < m => k + 1 \in 0 .. nr_extern /\ m \in 0 .. nr_extern /\ k + 1 <= m
    OBVIOUS
  <2>. QED  BY <2>1, KcfgEndsRise
<1>. HIDE DEF f, r
<1>4. r[k].type = "kcfg"
  BY DEF r
<1>5. ASSUME NEW m \in 0 .. nr_extern - 1, r[m].type = "kcfg", k < m
      PROVE  r[k].data_off + r[k].sz <= r[m].data_off
  <2>1. /\ r[k].data_off + r[k].sz = f[k + 1] /\ f[k + 1] \in Nat
    BY <1>1, <1>2, <1>4
  <2>2. /\ f[m] <= r[m].data_off /\ f[m] \in Nat /\ r[m].data_off \in Nat
    BY <1>1, <1>2, <1>5
  <2>3. f[k + 1] <= f[m]
    BY <1>3, <1>5
  <2>. QED  BY <2>1, <2>2, <2>3
<1>. QED  BY <1>1, <1>2, <1>4, <1>5 DEF r

(***************************************************************************)
(* qsort() by cmp_externs(), a lexicographic order of four keys, gives     *)
(* back the externs it was given.                                          *)
(***************************************************************************)
ExternKey(e) ==
    IF e.type = "kcfg" THEN <<0, -e.align, e.sz, e.rank>> ELSE <<1, 0, 0, e.rank>>

KeyBefore(a, b) ==
    \/ a[1] < b[1]
    \/ a[1] = b[1] /\ a[2] < b[2]
    \/ a[1] = b[1] /\ a[2] = b[2] /\ a[3] < b[3]
    \/ a[1] = b[1] /\ a[2] = b[2] /\ a[3] = b[3] /\ a[4] < b[4]

LEMMA ExternKeyType ==
    ASSUME NEW e, IsExtern(e)
    PROVE  /\ ExternKey(e)[1] \in Int /\ ExternKey(e)[2] \in Int
           /\ ExternKey(e)[3] \in Int /\ ExternKey(e)[4] \in Int
BY DEF IsExtern, ExternKey

LEMMA CmpExternsIs ==
    ASSUME NEW a, NEW b
    PROVE  CmpExterns(a, b) <=> KeyBefore(ExternKey(a), ExternKey(b))
<1> DEFINE ka == ExternKey(a)
           kb == ExternKey(b)
<1>1. CmpExterns(a, b) <=> \E n \in 1 .. 4 : ka[n] < kb[n] /\ \A m \in 1 .. n - 1 : ka[m] = kb[m]
  BY DEF CmpExterns, ExternKey
<1>. HIDE DEF ka, kb
<1>2. (\E n \in 1 .. 4 : ka[n] < kb[n] /\ \A m \in 1 .. n - 1 : ka[m] = kb[m])
        <=> KeyBefore(ka, kb)
  BY DEF KeyBefore
<1>. QED  BY <1>1, <1>2 DEF ka, kb


LEMMA ExternsStay ==
    ASSUME NEW n \in Nat, NEW t, \A a \in 0 .. n - 1 : IsExtern(t[a])
    PROVE  \A k \in 0 .. n - 1 : \E a \in 0 .. n - 1 : QSort(t, n, CmpExterns)[k] = t[a]
<1> DEFINE D == 0 .. n - 1
           key(a) == ExternKey(t[a])
           precedes(a, b) == CmpExterns(t[a], t[b]) \/ (~CmpExterns(t[b], t[a]) /\ a < b)
           P == {e \in D \X D : precedes(e[1], e[2])}
           rank(a) == Cardinality({b \in 0 .. n - 1 : precedes(b, a)})
           c(k) == CHOOSE a \in 0 .. n - 1 : rank(a) = k
<1>1. \A a \in D : /\ key(a)[1] \in Int /\ key(a)[2] \in Int
                   /\ key(a)[3] \in Int /\ key(a)[4] \in Int
  BY ExternKeyType
<1>2. \A a, b \in D : CmpExterns(t[a], t[b]) <=> KeyBefore(key(a), key(b))
  BY CmpExternsIs
<1>3. \A a, b \in D : <<a, b>> \in P <=> precedes(a, b)
  OBVIOUS
<1>. HIDE DEF key, P
<1>4. \A a, b \in D : precedes(a, b) <=>
        KeyBefore(key(a), key(b)) \/ (~KeyBefore(key(b), key(a)) /\ a < b)
  BY <1>2
<1>. HIDE DEF precedes
<1>5. StrictTotal(P, n)
  <2>1. ASSUME NEW a \in D PROVE ~precedes(a, a)
    BY <1>1, <1>4 DEF KeyBefore
  <2>2. ASSUME NEW a \in D, NEW b \in D, a # b
        PROVE  precedes(a, b) \/ precedes(b, a)
    BY <1>1, <1>4, <2>2 DEF KeyBefore
  <2>3. ASSUME NEW a \in D, NEW b \in D, NEW e \in D, precedes(a, b), precedes(b, e)
        PROVE  precedes(a, e)
    <3>1. /\ KeyBefore(key(a), key(b)) \/ (~KeyBefore(key(b), key(a)) /\ a < b)
          /\ KeyBefore(key(b), key(e)) \/ (~KeyBefore(key(e), key(b)) /\ b < e)
      BY <1>4, <2>3
    <3>2. KeyBefore(key(a), key(e)) \/ (~KeyBefore(key(e), key(a)) /\ a < e)
      BY <1>1, <3>1, SMTT(40) DEF KeyBefore
    <3>. QED  BY <1>4, <3>2
  <2>. QED  BY <1>3, <2>1, <2>2, <2>3 DEF StrictTotal
<1>6. \A a \in D : rank(a) = Rank(P, n, a)
  <2>1. SUFFICES ASSUME NEW a \in D PROVE rank(a) = Rank(P, n, a)
    OBVIOUS
  <2>2. {b \in 0 .. n - 1 : precedes(b, a)} = Below(P, n, a)
    BY <1>3 DEF Below
  <2>. QED  BY <2>2 DEF Rank
<1>. HIDE DEF rank
<1>7. ASSUME NEW k \in D
      PROVE  c(k) \in D
  <2>1. \E a \in 0 .. n - 1 : Rank(P, n, a) = k
    BY <1>5, RankOnto
  <2>2. \E a \in 0 .. n - 1 : rank(a) = k
    BY <1>6, <2>1
  <2>. QED  BY <2>2
<1>8. QSort(t, n, CmpExterns) = [k \in 0 .. n - 1 |-> t[c(k)]]
  BY DEF QSort, rank, precedes
<1>. HIDE DEF c
<1>9. \A k \in D : QSort(t, n, CmpExterns)[k] = t[c(k)]
  BY <1>8
<1>. QED  BY <1>7, <1>9


(***************************************************************************)
(* The last kcfg extern of the table.                                      *)
(***************************************************************************)
LEMMA LastKcfgIs ==
    ASSUME nr_extern \in Nat, KcfgIdxs # {}
    PROVE  LastKcfg \in KcfgIdxs /\ \A m \in KcfgIdxs : m <= LastKcfg
<1> DEFINE S == {nr_extern - 1 - k : k \in KcfgIdxs}
           last == nr_extern - 1 - First(S)
<1>1. \A k \in KcfgIdxs : k \in 0 .. nr_extern - 1
  BY DEF KcfgIdxs
<1>2. S \in SUBSET Nat /\ S # {}
  BY <1>1
<1>3. First(S) \in S /\ \A b \in S : First(S) <= b
  BY <1>2, FirstIsIn
<1>4. last \in KcfgIdxs
  <2>1. PICK k \in KcfgIdxs : First(S) = nr_extern - 1 - k
    BY <1>3
  <2>. HIDE DEF S
  <2>2. last = k
    BY <1>1, <2>1
  <2>. QED  BY <2>2
<1>5. \A m \in KcfgIdxs : m <= last
  <2>1. SUFFICES ASSUME NEW m \in KcfgIdxs PROVE m <= last
    OBVIOUS
  <2>2. First(S) <= nr_extern - 1 - m /\ First(S) \in Nat
    BY <1>2, <1>3
  <2>. HIDE DEF S
  <2>. QED  BY <1>1, <2>2
<1>. HIDE DEF last
<1>. QED  BY <1>4, <1>5 DEF LastKcfg

(***************************************************************************)
(* The externs from their collection on.  Either they lie behind each      *)
(* other, aligned; or collect_externs() gave up at one of size 0 without   *)
(* an error: then that is the last one, at offset 0, and mmap() will       *)
(* refuse the .kconfig map.  The map, once it exists, ends where the last  *)
(* kcfg extern does.                                                       *)
(***************************************************************************)
Externs == \A k \in 0 .. nr_extern - 1 : IsExtern(externs[k])

Laid ==
    \A k \in KcfgIdxs :
      /\ externs[k].data_off \in Nat /\ externs[k].sz \in Nat
      /\ externs[k].data_off % externs[k].align = 0
      /\ \A m \in KcfgIdxs :
           k < m => externs[k].data_off + externs[k].sz <= externs[m].data_off

Unsized ==
    /\ nr_extern > 0
    /\ LET e == externs[nr_extern - 1] IN e.type = "kcfg" /\ e.data_off = 0 /\ e.sz = 0

KconfigMap ==
    /\ kconfig_map_idx \in 0 .. nr_maps - 1
    /\ maps[kconfig_map_idx].value_size = InternalMapSize(".kconfig")

BeforeExterns == {"elf_init", "symtab", "elf_collect", "add_programs"}
AfterExterns == Scanned \ {"externs"}
AfterMaps == {"collect_relos", "relos_done", "opened"}

KcfgInv ==
    /\ nr_extern \in Nat
    /\ pc \in BeforeExterns => nr_extern = 0
    /\ pc = "externs" => Externs
    /\ pc \in AfterExterns => Laid \/ Unsized
    /\ kconfig_map_idx # -1 => /\ pc \in AfterMaps \cup {"internal_maps", "close", "closed"}
                               /\ pc = "internal_maps" => i = 5
                               /\ pc \notin {"close", "closed"} => Laid /\ KconfigMap

MapFields == {"fd", "type", "sec_idx", "sec_offset", "value_size"}

ShapeInv ==
    /\ DOMAIN maps = 0 .. maps_cap - 1
    /\ \A k \in DOMAIN maps : MapFields \subseteq DOMAIN maps[k]

LEMMA LaidIsLayout ==
    ASSUME KcfgInv
    PROVE  KconfigLayout
<1>1. SUFFICES ASSUME Collected, kconfig_map_idx >= 0, NEW k \in KcfgIdxs
               PROVE  /\ externs[k].data_off % externs[k].align = 0
                      /\ externs[k].data_off + externs[k].sz <= maps[kconfig_map_idx].value_size
                      /\ \A m \in KcfgIdxs \ {k} :
                           \/ externs[k].data_off + externs[k].sz <= externs[m].data_off
                           \/ externs[m].data_off + externs[m].sz <= externs[k].data_off
  BY DEF KconfigLayout
<1>2. Laid /\ KconfigMap
  BY <1>1 DEF KcfgInv, Collected
<1>3. \A m \in KcfgIdxs : m \in Nat
  BY DEF KcfgIdxs
<1>4. \A m \in KcfgIdxs : m < k \/ m = k \/ k < m
  BY <1>1, <1>3
<1>5. LastKcfg \in KcfgIdxs /\ (k = LastKcfg \/ k < LastKcfg)
  <2>1. LastKcfg \in KcfgIdxs /\ k <= LastKcfg
    BY LastKcfgIs DEF KcfgInv
  <2>. HIDE DEF LastKcfg
  <2>. QED  BY <1>3, <2>1
<1>6. maps[kconfig_map_idx].value_size = externs[LastKcfg].data_off + externs[LastKcfg].sz
  BY <1>2 DEF KconfigMap, InternalMapSize
<1>7. externs[k].data_off + externs[k].sz <= externs[LastKcfg].data_off + externs[LastKcfg].sz
  <2> DEFINE last == LastKcfg
  <2>. HIDE DEF last
  <2>1. last \in KcfgIdxs /\ (k = last \/ k < last)
    BY <1>5 DEF last
  <2>2. /\ externs[k].data_off \in Nat /\ externs[k].sz \in Nat
        /\ externs[last].data_off \in Nat /\ externs[last].sz \in Nat
    BY <1>2, <2>1 DEF Laid
  <2>3. k < last => externs[k].data_off + externs[k].sz <= externs[last].data_off
    BY <1>2, <2>1 DEF Laid
  <2>4. externs[k].data_off + externs[k].sz <= externs[last].data_off + externs[last].sz
    BY <2>1, <2>2, <2>3
  <2>. QED  BY <2>4 DEF last
<1>8. \A m \in KcfgIdxs \ {k} :
        \/ externs[k].data_off + externs[k].sz <= externs[m].data_off
        \/ externs[m].data_off + externs[m].sz <= externs[k].data_off
  BY <1>2, <1>4 DEF Laid
<1>9. externs[k].data_off % externs[k].align = 0
  BY <1>2 DEF Laid
<1>. QED  BY <1>6, <1>7, <1>8, <1>9

(***************************************************************************)
(* A step that leaves externs and maps alone.                              *)
(***************************************************************************)
LEMMA QuietKcfg ==
    ASSUME KcfgInv, UNCHANGED <<externs, nr_extern, maps, nr_maps, kconfig_map_idx>>,
           \/ pc' = pc /\ (pc = "internal_maps" => i' = i)
           \/ pc' \in {"close", "closed"}
           \/ pc \in BeforeExterns /\ pc' \in BeforeExterns \cup {"externs"}
           \/ pc \in AfterExterns \ AfterMaps /\ pc' \in {"user_btf_maps", "internal_maps"}
              /\ kconfig_map_idx = -1
           \/ pc \in AfterMaps \cup {"internal_maps"} /\ pc' \in AfterMaps
    PROVE  KcfgInv'
<1>1. (Externs => Externs') /\ (Laid => Laid') /\ (Unsized => Unsized')
  BY DEF Externs, Laid, Unsized, KcfgIdxs
<1>2. KconfigMap => KconfigMap'
  BY DEF KconfigMap, InternalMapSize, LastKcfg, KcfgIdxs
<1>3. nr_extern = 0 => Externs'
  BY DEF Externs
<1>. QED
  BY <1>1, <1>2, <1>3 DEF KcfgInv, BeforeExterns, AfterExterns, AfterMaps, Scanned

LEMMA CollectExternKcfg ==
    ASSUME KcfgInv, file \in DOMAIN Elfs, CollectExtern
    PROVE  KcfgInv'
<1> DEFINE sym == elf.syms[i]
           ext == elf.btf_externs[sym.name]
           new == [type |-> ext.sec, sym_idx |-> i, name |-> sym.name, sz |-> ext.sz,
                   align |-> ext.align, typed |-> ext.typed, rank |-> ext.rank,
                   data_off |-> 0]
<1>1. pc = "externs" /\ kconfig_map_idx = -1 /\ kconfig_map_idx' = -1 /\ nr_extern \in Nat /\ Externs
  BY DEF CollectExtern, KcfgInv, AfterMaps
<1>2. nr_extern' \in {nr_extern, nr_extern + 1}
  BY DEF CollectExtern
<1>3. CASE pc' = "close"
  BY <1>1, <1>2, <1>3 DEF KcfgInv, BeforeExterns, AfterExterns, Scanned
<1>4. CASE pc' # "close" /\ externs' = externs /\ nr_extern' = nr_extern
  <2>1. pc' = "externs"
    <3>0. nr_extern + 1 # nr_extern
      BY <1>1
    <3>1. \/ UNCHANGED pc \/ pc' = "close" \/ nr_extern' = nr_extern + 1
      BY DEF CollectExtern, Fail
    <3>. QED  BY <1>1, <1>4, <3>0, <3>1
  <2>. QED  BY <1>1, <1>4, <2>1, QuietKcfg DEF KcfgInv, Externs, BeforeExterns, AfterExterns
<1>5. CASE pc' # "close" /\ ~(externs' = externs /\ nr_extern' = nr_extern)
  <2>1. /\ nr_extern' = nr_extern + 1
        /\ externs' = [k \in 0 .. nr_extern |-> IF k < nr_extern THEN externs[k] ELSE new]
        /\ KnownToBtf(sym.name) /\ ext.sec \in {"kcfg", "ksym"}
        /\ \/ /\ ext.sec = "kcfg" => ext.sz > 0 /\ ext.align > 0
              /\ pc' = "externs"
           \/ ext.sec = "kcfg" /\ ext.sz = 0 /\ pc' = "user_maps"
    BY <1>1, <1>5 DEF CollectExtern, Fail, FinalizeBtf
  <2>2. ext.sz \in Int /\ ext.align \in Int /\ ext.rank \in Int
    <3>1. WellTyped(elf) /\ sym.name \in DOMAIN elf.btf_externs
      BY <2>1, ElfsAssumption DEF KnownToBtf, elf
    <3>. QED  BY <3>1 DEF WellTyped
  <2>3. externs'[nr_extern] = new /\ \A k \in 0 .. nr_extern - 1 : externs'[k] = externs[k]
    <3>. HIDE DEF new
    <3>. QED  BY <1>1, <2>1
  <2>4. CASE pc' = "externs"
    <3>1. IsExtern(new)
      BY <1>1, <2>1, <2>2, <2>4 DEF IsExtern, ExternFields
    <3>. HIDE DEF new
    <3>2. \A k \in 0 .. nr_extern' - 1 : k = nr_extern \/ k \in 0 .. nr_extern - 1
      BY <1>1, <2>1
    <3>3. Externs'
      BY <1>1, <2>3, <3>1, <3>2 DEF Externs
    <3>. QED  BY <1>1, <1>2, <2>4, <3>3 DEF KcfgInv, BeforeExterns, AfterExterns
  <2>5. CASE pc' = "user_maps"
    <3>1. new.type = "kcfg" /\ new.data_off = 0 /\ new.sz = 0
      BY <2>1, <2>5
    <3>. HIDE DEF new
    <3>2. nr_extern' > 0 /\ nr_extern' - 1 = nr_extern
      BY <1>1, <2>1
    <3>3. Unsized'
      BY <2>3, <3>1, <3>2 DEF Unsized
    <3>. QED  BY <1>1, <1>2, <2>5, <3>3 DEF KcfgInv, BeforeExterns, AfterExterns
  <2>. QED  BY <2>1, <2>4, <2>5
<1>. QED  BY <1>3, <1>4, <1>5

LEMMA ExternsDoneKcfg ==
    ASSUME KcfgInv, ExternsDone
    PROVE  KcfgInv'
<1> DEFINE n == nr_extern
           t == QSort(externs, nr_extern, CmpExterns)
<1>1. /\ pc = "externs" /\ kconfig_map_idx = -1 /\ kconfig_map_idx' = -1 /\ n \in Nat /\ Externs
      /\ nr_extern' = nr_extern /\ externs' = LayoutKcfg(t) /\ pc' \in {"close", "user_maps"}
  BY DEF ExternsDone, KcfgInv, AfterMaps, Fail, FinalizeBtf
<1>2. \A k \in 0 .. n - 1 : IsExtern(t[k])
  <2>1. \A a \in 0 .. n - 1 : IsExtern(externs[a])
    BY <1>1 DEF Externs
  <2>2. \A k \in 0 .. n - 1 : \E a \in 0 .. n - 1 : t[k] = externs[a]
    BY <1>1, <2>1, ExternsStay
  <2>. HIDE DEF t
  <2>. QED  BY <2>1, <2>2
<1>. HIDE DEF t
<1>3. Laid'
  <2>1. \A k \in KcfgIdxs' : k \in 0 .. n - 1 /\ externs'[k].type = "kcfg"
    BY <1>1 DEF KcfgIdxs
  <2>2. \A k \in KcfgIdxs' :
          /\ externs'[k].data_off \in Nat /\ externs'[k].sz \in Nat
          /\ externs'[k].data_off % externs'[k].align = 0
          /\ \A m \in KcfgIdxs' :
               k < m => externs'[k].data_off + externs'[k].sz <= externs'[m].data_off
    BY <1>1, <1>2, <2>1, LayoutIsLaid
  <2>. QED  BY <2>2 DEF Laid
<1>. QED  BY <1>1, <1>3 DEF KcfgInv, BeforeExterns, AfterExterns

(***************************************************************************)
(* bpf_object__add_map() hands out slot nr_maps and leaves the others as   *)
(* they are or blank.                                                      *)
(***************************************************************************)
Slot(k) == IF k < maps_cap THEN maps[k] ELSE BlankMap

MapAdded ==
    /\ nr_maps' = nr_maps + 1 /\ maps_cap' = NewCap
    /\ DOMAIN maps' = 0 .. NewCap - 1
    /\ \A k \in 0 .. NewCap - 1 : /\ DOMAIN maps'[k] = DOMAIN Slot(k)
                                  /\ k # nr_maps => maps'[k] = Slot(k)

LEMMA MapStepAdds ==
    ASSUME MapStep
    PROVE  UNCHANGED <<maps, nr_maps, maps_cap>> \/ MapAdded
<1>1. CASE InitUserMap
  BY <1>1, ZenonT(80) DEF InitUserMap, AddMap, AddMapFails, MapAdded, Slot
<1>2. CASE InitUserBtfMap
  BY <1>2 DEF InitUserBtfMap, AddMap, AddMapFails, MapAdded, Slot
<1>3. CASE InitInternalMap
  BY <1>3 DEF InitInternalMap, AddMap, AddMapFails, MapAdded, Slot
<1>. QED  BY <1>1, <1>2, <1>3 DEF MapStep

LEMMA MapStepShape ==
    ASSUME Counts, SlotInv, ShapeInv, MapStep
    PROVE  ShapeInv'
<1>1. CASE UNCHANGED <<maps, nr_maps, maps_cap>>
  BY <1>1 DEF ShapeInv
<1>2. CASE MapAdded
  <2>1. ASSUME NEW k \in 0 .. NewCap - 1
        PROVE  MapFields \subseteq DOMAIN Slot(k)
    <3>1. CASE k < maps_cap
      <4>1. k \in DOMAIN maps
        BY <3>1 DEF ShapeInv, SlotInv
      <4>. QED  BY <3>1, <4>1 DEF ShapeInv, Slot
    <3>2. CASE ~(k < maps_cap)
      BY <3>2 DEF Slot, BlankMap, MapFields
    <3>. QED  BY <3>1, <3>2
  <2>. QED  BY <1>2, <2>1 DEF MapAdded, ShapeInv
<1>. QED  BY <1>1, <1>2, MapStepAdds

LEMMA UserMapKcfg ==
    ASSUME Counts, KcfgInv, InitUserMap \/ InitUserBtfMap
    PROVE  KcfgInv'
<1>1. /\ UNCHANGED <<externs, nr_extern, kconfig_map_idx>>
      /\ pc \in {"user_maps", "user_btf_maps"} /\ pc' \in {pc, "close"}
  BY DEF InitUserMap, InitUserBtfMap, AddMap, AddMapFails, Fail
<1>2. (Laid => Laid') /\ (Unsized => Unsized')
  BY <1>1 DEF Laid, Unsized, KcfgIdxs
<1>. QED  BY <1>1, <1>2 DEF KcfgInv, BeforeExterns, AfterExterns, AfterMaps, Scanned

LEMMA InternalMapKcfg ==
    ASSUME Counts, SlotInv, ShapeInv, KcfgInv, InitInternalMap
    PROVE  KcfgInv'
<1>1. /\ UNCHANGED <<externs, nr_extern>> /\ nr_extern \in Nat
      /\ pc = "internal_maps" /\ pc' \in {pc, "close"} /\ i \in 1 .. 4 /\ i' = i + 1
      /\ (Laid \/ Unsized) /\ kconfig_map_idx = -1
  BY DEF InitInternalMap, AddMapFails, Fail, InternalMaps, KcfgInv, AfterExterns, Scanned
<1>2. (Laid => Laid') /\ (Unsized => Unsized')
  BY <1>1 DEF Laid, Unsized, KcfgIdxs
<1>3. CASE pc' = "close"
  BY <1>1, <1>2, <1>3 DEF KcfgInv, BeforeExterns, AfterExterns, AfterMaps, Scanned
<1>4. CASE pc' # "close" /\ kconfig_map_idx' = -1
  BY <1>1, <1>2, <1>4 DEF KcfgInv, BeforeExterns, AfterExterns, AfterMaps, Scanned
<1>5. CASE pc' # "close" /\ kconfig_map_idx' # -1
  <2> DEFINE n == InternalMaps[i]
             sec == IF n = ".kconfig" THEN shndx["symtab"] ELSE shndx[n]
             set(m) == [m EXCEPT !.type = n, !.sec_idx = sec, !.value_size = InternalMapSize(n)]
  <2>1. /\ HasInternalMap(n) /\ InternalMapSize(n) # 0 /\ AddMap(set)
        /\ kconfig_map_idx' = IF n = ".kconfig" THEN nr_maps ELSE kconfig_map_idx
    BY <1>1, <1>5 DEF InitInternalMap, AddMapFails, Fail
  <2>2. n = ".kconfig"
    BY <1>1, <1>5, <2>1
  <2>3. /\ InternalMaps[i] = ".kconfig" /\ HasInternalMap(".kconfig")
        /\ InternalMapSize(".kconfig") # 0
        /\ kconfig_map_idx' = nr_maps /\ nr_maps' = nr_maps + 1
        /\ maps' = [k \in 0 .. NewCap - 1 |->
             IF k = nr_maps THEN [Slot(k) EXCEPT !.type = ".kconfig", !.sec_idx = sec,
                                        !.value_size = InternalMapSize(".kconfig")]
             ELSE Slot(k)]
    BY <2>1, <2>2 DEF AddMap, Slot
  <2>4. i' = 5
    <3>1. InternalMaps[1] # ".kconfig" /\ InternalMaps[2] # ".kconfig" /\ InternalMaps[3] # ".kconfig"
      BY DEF InternalMaps
    <3>2. i = 1 \/ i = 2 \/ i = 3 \/ i = 4
      BY <1>1
    <3>. QED  BY <1>1, <2>2, <3>1, <3>2
  <2>5. Laid
    <3>1. SUFFICES ASSUME Unsized PROVE InternalMapSize(".kconfig") = 0
      BY <1>1, <2>3
    <3>2. LastKcfg \in KcfgIdxs /\ \A m \in KcfgIdxs : m <= LastKcfg
      BY <1>1, <2>3, LastKcfgIs DEF HasInternalMap
    <3>3. nr_extern - 1 \in KcfgIdxs
      BY <1>1, <3>1 DEF Unsized, KcfgIdxs
    <3>4. LastKcfg = nr_extern - 1
      <4> DEFINE last == LastKcfg
      <4>1. last \in 0 .. nr_extern - 1 /\ nr_extern - 1 <= last
        BY <3>2, <3>3 DEF KcfgIdxs
      <4>. HIDE DEF last
      <4>2. last = nr_extern - 1
        BY <1>1, <4>1
      <4>. QED  BY <4>2 DEF last
    <3>. QED  BY <3>1, <3>4 DEF Unsized, InternalMapSize
  <2>6. KconfigMap'
    <3>1. nr_maps \in Nat /\ nr_maps \in 0 .. NewCap - 1
      BY NewCapBounds DEF SlotInv
    <3>2. "value_size" \in DOMAIN Slot(nr_maps)
      <4>1. CASE nr_maps < maps_cap
        <5>1. nr_maps \in DOMAIN maps
          BY <4>1 DEF ShapeInv, SlotInv
        <5>. QED  BY <4>1, <5>1 DEF ShapeInv, Slot, MapFields
      <4>2. CASE ~(nr_maps < maps_cap)
        BY <4>2 DEF Slot, BlankMap
      <4>. QED  BY <4>1, <4>2
    <3> DEFINE sz == InternalMapSize(".kconfig")
    <3>3. sz' = sz
      BY <1>1 DEF InternalMapSize, LastKcfg, KcfgIdxs
    <3>. HIDE DEF sz
    <3>4. maps'[nr_maps].value_size = sz
      BY <2>3, <3>1, <3>2 DEF sz
    <3>5. kconfig_map_idx' = nr_maps
      BY <2>1, <2>2
    <3>6. maps'[kconfig_map_idx'].value_size = sz'
      BY <3>5, <3>3, <3>4
    <3>7. kconfig_map_idx' \in 0 .. nr_maps' - 1
      <4>1. nr_maps' = nr_maps + 1
        BY <2>1 DEF AddMap
      <4>. QED  BY <3>5, <3>1, <4>1
    <3>. QED  BY <3>6, <3>7 DEF KconfigMap, sz
  <2>. QED  BY <1>1, <1>2, <1>5, <2>4, <2>5, <2>6
            DEF KcfgInv, BeforeExterns, AfterExterns, AfterMaps, Scanned
<1>. QED  BY <1>3, <1>4, <1>5

LEMMA CloseKcfg ==
    ASSUME KcfgInv, Close
    PROVE  KcfgInv' /\ ShapeInv'
<1>1. nr_extern' = 0 /\ maps' = <<>> /\ maps_cap' = 0 /\ pc' = "closed"
  BY DEF Close
<1>2. KcfgInv'
  BY <1>1 DEF KcfgInv, BeforeExterns, AfterExterns, AfterMaps, Scanned
<1>3. ShapeInv'
  BY <1>1 DEF ShapeInv
<1>. QED  BY <1>2, <1>3

LEMMA QuietKcfgSteps ==
    ASSUME KcfgInv,
           \/ ElfInit \/ FindSymtab \/ CollectSection \/ AddProgram \/ AddProgramsDone
           \/ ElfCollectDone \/ UserMapsDone \/ UserBtfMapsDone \/ InitMapsDone
           \/ CollectReloc \/ NextReloSect \/ SortRelos \/ OpenDone
    PROVE  KcfgInv' /\ UNCHANGED <<maps, maps_cap>>
<1>1. CASE ElfInit \/ FindSymtab
  <2>1. /\ UNCHANGED <<externs, nr_extern, maps, nr_maps, maps_cap, kconfig_map_idx>>
        /\ pc \in {"elf_init", "symtab"} /\ pc' \in {"symtab", "elf_collect", "close"}
    BY <1>1 DEF ElfInit, FindSymtab, Fail, objvars
  <2>. QED  BY <2>1, QuietKcfg DEF BeforeExterns
<1>2. CASE CollectSection
  <2>1. /\ UNCHANGED <<externs, nr_extern, maps, nr_maps, maps_cap, kconfig_map_idx>>
        /\ pc = "elf_collect" /\ pc' \in {"elf_collect", "add_programs", "close"}
    BY <1>2 DEF CollectSection, Fail, objvars
  <2>. QED  BY <2>1, QuietKcfg DEF BeforeExterns
<1>3. CASE AddProgram \/ AddProgramsDone
  <2>1. /\ UNCHANGED <<externs, nr_extern, maps, nr_maps, maps_cap, kconfig_map_idx>>
        /\ pc = "add_programs" /\ pc' \in {"elf_collect", "add_programs", "close"}
    BY <1>3 DEF AddProgram, AddProgramsDone, Fail, objvars
  <2>. QED  BY <2>1, QuietKcfg DEF BeforeExterns
<1>4. CASE ElfCollectDone
  <2>1. /\ UNCHANGED <<externs, nr_extern, maps, nr_maps, maps_cap, kconfig_map_idx>>
        /\ pc = "elf_collect" /\ pc' \in {"externs", "close"}
    BY <1>4 DEF ElfCollectDone, Fail
  <2>. QED  BY <2>1, QuietKcfg DEF BeforeExterns
<1>5. CASE UserMapsDone \/ UserBtfMapsDone
  <2>1. /\ UNCHANGED <<externs, nr_extern, maps, nr_maps, maps_cap, kconfig_map_idx>>
        /\ pc \in {"user_maps", "user_btf_maps"}
        /\ pc' \in {"user_btf_maps", "internal_maps", "close"}
    BY <1>5 DEF UserMapsDone, UserBtfMapsDone, Fail, objvars
  <2>2. kconfig_map_idx = -1
    BY <2>1 DEF KcfgInv, AfterMaps
  <2>. QED  BY <2>1, <2>2, QuietKcfg DEF AfterExterns, AfterMaps, Scanned
<1>6. CASE InitMapsDone \/ NextReloSect \/ SortRelos
  <2>1. /\ UNCHANGED <<externs, nr_extern, maps, nr_maps, maps_cap, kconfig_map_idx>>
        /\ pc \in {"internal_maps", "collect_relos"}
        /\ pc' \in {"collect_relos", "relos_done"}
    BY <1>6 DEF InitMapsDone, NextReloSect, SortRelos, objvars
  <2>. QED  BY <2>1, QuietKcfg DEF AfterMaps
<1>7. CASE CollectReloc
  <2>1. /\ UNCHANGED <<externs, nr_extern, maps, nr_maps, maps_cap, kconfig_map_idx>>
        /\ pc = "collect_relos" /\ pc' \in {"collect_relos", "close"}
    BY <1>7 DEF CollectReloc, Fail
  <2>. QED  BY <2>1, QuietKcfg DEF AfterMaps
<1>8. CASE OpenDone
  <2>1. /\ UNCHANGED <<externs, nr_extern, maps, nr_maps, maps_cap, kconfig_map_idx>>
        /\ pc = "relos_done" /\ pc' = "opened"
    BY <1>8 DEF OpenDone, objvars
  <2>. QED  BY <2>1, QuietKcfg DEF AfterMaps
<1>. QED  BY <1>1, <1>2, <1>3, <1>4, <1>5, <1>6, <1>7, <1>8

LEMMA NextKcfg ==
    ASSUME OInv, ShapeInv, KcfgInv, [XNext]_allvars
    PROVE  ShapeInv' /\ KcfgInv'
<1>0. Counts /\ SlotInv /\ CtlInv
  BY DEF OInv, XInv, HeldInv
<1>1. CASE Open
  <2>0. Next /\ file \in DOMAIN Elfs
    BY <1>1 DEF Open, OInv, CodeInv
  <2>1. CASE \/ ElfInit \/ FindSymtab \/ CollectSection \/ AddProgram \/ AddProgramsDone
             \/ ElfCollectDone \/ UserMapsDone \/ UserBtfMapsDone \/ InitMapsDone
             \/ CollectReloc \/ NextReloSect \/ SortRelos \/ OpenDone
    BY <2>1, QuietKcfgSteps DEF ShapeInv
  <2>2. CASE CollectExtern
    <3>1. UNCHANGED <<maps, maps_cap>>
      BY <2>2 DEF CollectExtern
    <3>. QED  BY <2>0, <2>2, <3>1, CollectExternKcfg DEF ShapeInv
  <2>3. CASE ExternsDone
    <3>1. UNCHANGED <<maps, maps_cap>>
      BY <2>3 DEF ExternsDone
    <3>. QED  BY <2>3, <3>1, ExternsDoneKcfg DEF ShapeInv
  <2>4. CASE MapStep
    BY <1>0, <2>4, MapStepShape, UserMapKcfg, InternalMapKcfg DEF MapStep
  <2>5. CASE OpenFails
    BY <2>5, CloseKcfg DEF OpenFails
  <2>6. CASE Finished
    <3>1. UNCHANGED <<externs, nr_extern, maps, maps_cap, nr_maps, kconfig_map_idx, pc, i>>
      BY <2>6 DEF Finished, vars, objvars
    <3>. QED  BY <3>1, QuietKcfg DEF ShapeInv
  <2>. QED  BY <2>0, <2>1, <2>2, <2>3, <2>4, <2>5, <2>6 DEF Next, MapStep
<1>2. CASE OpenRefused \/ ExtractProgram \/ Done \/ UNCHANGED allvars
  <2>1. UNCHANGED <<externs, nr_extern, maps, maps_cap, nr_maps, kconfig_map_idx, pc, i>>
    BY <1>2 DEF OpenRefused, ExtractProgram, Done, allvars, vars, objvars
  <2>. QED  BY <2>1, QuietKcfg DEF ShapeInv
<1>3. CASE NumberMaps
  <2>1. /\ UNCHANGED <<externs, nr_extern, nr_maps, maps_cap, kconfig_map_idx>>
        /\ pc = "opened" /\ pc' = "collect_relos"
        /\ maps' = [k \in DOMAIN maps |-> IF k < nr_maps THEN [maps[k] EXCEPT !.fd = k]
                                                         ELSE maps[k]]
    BY <1>3 DEF NumberMaps
  <2>2. \A k \in DOMAIN maps : /\ DOMAIN maps'[k] = DOMAIN maps[k]
                               /\ "value_size" \in DOMAIN maps[k]
                               /\ maps'[k].value_size = maps[k].value_size
    BY <2>1 DEF ShapeInv, MapFields
  <2>3. DOMAIN maps' = DOMAIN maps
    BY <2>1
  <2>4. ShapeInv'
    BY <2>1, <2>2, <2>3 DEF ShapeInv
  <2>5. Laid => Laid'
    BY <2>1 DEF Laid, KcfgIdxs
  <2>6. KconfigMap => KconfigMap'
    <3>1. SUFFICES ASSUME KconfigMap PROVE KconfigMap'
      OBVIOUS
    <3>2. InternalMapSize(".kconfig")' = InternalMapSize(".kconfig")
      BY <2>1 DEF InternalMapSize, LastKcfg, KcfgIdxs
    <3>3. kconfig_map_idx \in DOMAIN maps
      BY <1>0, <3>1 DEF KconfigMap, ShapeInv, SlotInv
    <3>. QED  BY <2>1, <2>2, <3>1, <3>2, <3>3 DEF KconfigMap
  <2>7. Unsized => Unsized'
    BY <2>1 DEF Unsized
  <2>8. KcfgInv'
    BY <2>1, <2>5, <2>6, <2>7 DEF KcfgInv, BeforeExterns, AfterExterns, AfterMaps, Scanned
  <2>. QED  BY <2>4, <2>8
<1>4. CASE CollectRelosAgain
  BY <1>4, QuietKcfgSteps DEF CollectRelosAgain, ShapeInv
<1>5. CASE CloseObject
  BY <1>5, CloseKcfg DEF CloseObject
<1>. QED  BY <1>1, <1>2, <1>3, <1>4, <1>5 DEF XNext

(***************************************************************************)
(* In every object that has a .kconfig map, whatever the externs of the    *)
(* file, their order and the failures met while opening it, the kcfg       *)
(* externs lie in the map, each aligned, none over another: the size       *)
(* bpf_object__init_kconfig_map() takes from the last one covers them all, *)
(* also where collect_externs() returns 0 early, without a layout.         *)
(***************************************************************************)
THEOREM KconfigAlwaysLaidOut == XSpec => []KconfigLayout
<1>1. XInit => ShapeInv /\ KcfgInv
  <2>1. SUFFICES ASSUME XInit PROVE ShapeInv /\ KcfgInv
    OBVIOUS
  <2>2. nr_extern = 0 /\ kconfig_map_idx = -1 /\ pc = "elf_init" /\ maps = <<>> /\ maps_cap = 0
    BY <2>1 DEF XInit, Init
  <2>3. ShapeInv
    BY <2>2 DEF ShapeInv
  <2>. QED  BY <2>2, <2>3 DEF KcfgInv, AfterExterns, Scanned
<1>. QED  BY <1>1, InitOInv, NextOInv, NextKcfg, LaidIsLayout, PTL DEF XSpec

-----------------------------------------------------------------------------
(***************************************************************************)
(* What the scan of the sections leaves for collect_relos(): the numbers   *)
(* of .text and of the data sections are those of sections of that name,   *)
(* and reloc_sects has every relocation section of code, once.             *)
(***************************************************************************)
ShndxInv ==
    /\ DOMAIN shndx = SecNames
    /\ \A n \in {".text"} \cup DataSecs :
         /\ shndx[n] \in Int
         /\ IF n = ".text" THEN shndx[n] >= 0 ELSE shndx[n] # 0
         /\ shndx[n] >= 1 => shndx[n] \in 1 .. NrSecs /\ Sec(shndx[n]).name = n

SectsUpTo(last) ==
    /\ \A a, b \in DOMAIN efile.reloc_sects :
         efile.reloc_sects[a] = efile.reloc_sects[b] => a = b
    /\ \A s \in 1 .. NrSecs : (\E a \in DOMAIN efile.reloc_sects : efile.reloc_sects[a] = s)
                              <=> s <= last /\ Role(Sec(s)) = "rel"

SectsInv ==
    /\ pc \in BeforeExterns => SectsUpTo(i)
    /\ pc \in Scanned \ {"opened"} => SectsUpTo(NrSecs)

(***************************************************************************)
(* The map of a data section has the number of that section; slots of the  *)
(* array that are not in use have no type.                                 *)
(***************************************************************************)
BeforeMaps == BeforeExterns \cup {"externs"}

TypedMaps ==
    /\ pc \in BeforeMaps => maps_cap = 0
    /\ \A k \in 0 .. maps_cap - 1 :
         /\ k >= nr_maps => maps[k].type = "UNSPEC"
         /\ maps[k].type \in DataSecs =>
              maps[k].sec_idx = shndx[maps[k].type] /\ shndx[maps[k].type] >= 1

(***************************************************************************)
(* The entries that collect_relos() has passed (i, j is where it stands):  *)
(* each is described, and there are as many descriptors as entries.        *)
(***************************************************************************)
Passed ==
    {e \in RelocEntries : \E a \in DOMAIN efile.reloc_sects :
        efile.reloc_sects[a] = e[1] /\ (a < i \/ (a = i /\ e[2] < j))}

Described(e) ==
    \E u \in DescIdxs : Describes(programs[u[1]].reloc_desc[u[2]], programs[u[1]],
                                  Sec(e[1]).info, Sec(e[1]).rels[e[2]])

AllRecorded(E) ==
    /\ IsFiniteSet(E) /\ IsFiniteSet(DescIdxs)
    /\ Cardinality(DescIdxs) = Cardinality(E)
    /\ \A e \in E : Described(e)

BeforeRelos == BeforeMaps \cup {"user_maps", "user_btf_maps", "internal_maps"}

NoDescs == \A a \in DOMAIN programs : programs[a].reloc_desc = <<>>

Place ==
    /\ i \in 1 .. Len(efile.reloc_sects) + 1 /\ j \in Nat /\ j >= 1
    /\ i \in DOMAIN efile.reloc_sects => j <= Len(Sec(efile.reloc_sects[i]).rels) + 1

RecInv ==
    /\ pc \in BeforeRelos => NoDescs
    /\ pc = "collect_relos" => Place /\ AllRecorded(Passed)
    /\ pc \in {"relos_done", "opened"} => AllRecorded(RelocEntries)

RInv == ShndxInv /\ SectsInv /\ TypedMaps /\ RecInv

-----------------------------------------------------------------------------
(***************************************************************************)
(* What the file determines stays.                                         *)
(***************************************************************************)
LEMMA SameFile ==
    ASSUME file' = file
    PROVE  /\ elf' = elf /\ NrSecs' = NrSecs /\ RelocEntries' = RelocEntries
           /\ \A s : Sec(s)' = Sec(s) /\ Role(Sec(s))' = Role(Sec(s))
BY DEF elf, Sec, Role, IgnoreElfSection, NrSecs, RelocEntries

LEMMA RelsAreSeq ==
    ASSUME file \in DOMAIN Elfs, NEW s \in 1 .. NrSecs
    PROVE  Len(Sec(s).rels) \in Nat /\ DOMAIN Sec(s).rels = 1 .. Len(Sec(s).rels)
<1>1. Sec(s).rels \in Seq({Sec(s).rels[n] : n \in DOMAIN Sec(s).rels})
  BY ElfsAssumption DEF WellTyped, NrSecs, Sec, elf
<1>. QED  BY <1>1

LEMMA FrameShndx ==
    ASSUME ShndxInv, UNCHANGED <<file, shndx>>
    PROVE  ShndxInv'
BY SameFile DEF ShndxInv

LEMMA FrameSectsUpTo ==
    ASSUME UNCHANGED <<file, efile>>
    PROVE  /\ SectsUpTo(NrSecs) => SectsUpTo(NrSecs)'
           /\ SectsUpTo(i) /\ i' = i => SectsUpTo(i)'
           /\ SectsUpTo(i) /\ i = NrSecs => SectsUpTo(NrSecs)'
BY SameFile DEF SectsUpTo

LEMMA FrameTyped ==
    ASSUME TypedMaps, UNCHANGED <<maps, maps_cap, nr_maps, shndx>>,
           pc' \in BeforeMaps => pc \in BeforeMaps
    PROVE  TypedMaps'
BY DEF TypedMaps

(***************************************************************************)
(* The second pass over the sections.                                      *)
(***************************************************************************)
LEMMA CollectSectionSects ==
    ASSUME CtlInv, CodeInv, DescInv, RInv, CollectSection
    PROVE  RInv'
<1> DEFINE s == Sec(i + 1)
           r == efile.reloc_sects
<1>0. /\ UNCHANGED <<file, maps, maps_cap, nr_maps, programs>> /\ pc = "elf_collect"
      /\ pc' \in {"elf_collect", "add_programs", "close"}
  BY DEF CollectSection, objvars, Fail
<1>1. file \in DOMAIN Elfs /\ NrSecs \in Nat /\ i \in 0 .. NrSecs /\ i + 1 \in 1 .. NrSecs
  BY ElfTypes DEF CodeInv, CollectSection
<1>2. shndx' = shndx \/ shndx' = [shndx EXCEPT ![s.name] = i + 1]
  BY DEF CollectSection
<1>3. ShndxInv'
  <2>1. ASSUME NEW n \in {".text"} \cup DataSecs
        PROVE  shndx'[n] = shndx[n] \/ (shndx'[n] = i + 1 /\ s.name = n)
    BY <1>2 DEF RInv, ShndxInv, SecNames, DataSecs
  <2>2. DOMAIN shndx' = DOMAIN shndx
    BY <1>2
  <2>3. i + 1 >= 1 /\ i + 1 \in Int /\ i + 1 # 0
    BY <1>1
  <2>. HIDE DEF s
  <2>4. ASSUME NEW n \in {".text"} \cup DataSecs
        PROVE  /\ shndx'[n] \in Int
               /\ IF n = ".text" THEN shndx'[n] >= 0 ELSE shndx'[n] # 0
               /\ shndx'[n] >= 1 => shndx'[n] \in 1 .. NrSecs /\ Sec(shndx'[n]).name = n
    <3>1. CASE shndx'[n] = shndx[n]
      BY <3>1 DEF RInv, ShndxInv
    <3>2. CASE shndx'[n] = i + 1 /\ s.name = n
      BY <1>1, <2>3, <3>2 DEF s
    <3>. QED  BY <2>1, <3>1, <3>2
  <2>. QED  BY <1>0, <2>2, <2>4, SameFile DEF RInv, ShndxInv
<1>4. SectsInv'
  <2>1. CASE pc' = "close"
    BY <2>1 DEF SectsInv, BeforeExterns, Scanned
  <2>2. CASE pc' # "close" /\ Role(s) # "rel"
    <3>1. /\ efile'.reloc_sects = r
          /\ i' = i \/ i' = i + 1
      BY <1>0, <2>2 DEF CollectSection, Fail, CtlInv
    <3>2. \A t \in 1 .. NrSecs : t <= i' /\ Role(Sec(t)) = "rel" <=> t <= i /\ Role(Sec(t)) = "rel"
      BY <1>1, <2>2, <3>1
    <3>3. SectsUpTo(i)
      BY <1>0 DEF RInv, SectsInv, BeforeExterns
    <3>. HIDE DEF s
    <3>4. SectsUpTo(i)'
      BY <1>0, <3>1, <3>2, <3>3, SameFile DEF SectsUpTo
    <3>. QED  BY <1>0, <2>2, <3>4 DEF SectsInv, Scanned
  <2>3. CASE pc' # "close" /\ Role(s) = "rel"
    <3>1. efile'.reloc_sects = Append(r, i + 1) /\ i' = i + 1
      BY <1>0, <2>3 DEF CollectSection, Fail, CtlInv
    <3> DEFINE T == 1 .. NrSecs
               r2 == efile'.reloc_sects
    <3>2. r \in Seq(T) /\ i + 1 \in T
      BY <1>1 DEF DescInv
    <3>3. SectsUpTo(i)
      BY <1>0 DEF RInv, SectsInv, BeforeExterns
    <3>4. \A a \in DOMAIN r : r[a] \in T /\ r[a] <= i
      <4>1. \A a \in DOMAIN r : r[a] \in T
        <5>. HIDE DEF r, T
        <5>. QED  BY <3>2
      <4>. QED  BY <3>3, <4>1 DEF SectsUpTo
    <3>5. /\ Len(r) \in Nat /\ DOMAIN r = 1 .. Len(r) /\ DOMAIN r2 = 1 .. Len(r) + 1
          /\ r2[Len(r) + 1] = i + 1
          /\ \A a \in 1 .. Len(r) : r2[a] = r[a]
      <4>. HIDE DEF T
      <4>1. r \in Seq(T) /\ i + 1 \in T /\ r2 = Append(r, i + 1)
        BY <3>1, <3>2
      <4>. HIDE DEF r, r2
      <4>. QED  BY <4>1
    <3>. HIDE DEF r, r2, s
    <3>6. \A a \in DOMAIN r2 : a \in DOMAIN r \/ a = Len(r) + 1
      BY <3>5
    <3>7. \A a, b \in DOMAIN r2 : r2[a] = r2[b] => a = b
      <4>1. \A a, b \in DOMAIN r : r[a] = r[b] => a = b
        BY <3>3 DEF SectsUpTo, r
      <4>2. \A a \in DOMAIN r : r2[a] = r[a] /\ r[a] # i + 1
        BY <1>1, <3>4, <3>5
      <4>. QED  BY <3>5, <3>6, <4>1, <4>2
    <3>8. ASSUME NEW t \in 1 .. NrSecs
          PROVE  (\E a \in DOMAIN r2 : r2[a] = t) <=> t <= i + 1 /\ Role(Sec(t)) = "rel"
      <4>1. (\E a \in DOMAIN r : r[a] = t) <=> t <= i /\ Role(Sec(t)) = "rel"
        BY <3>3 DEF SectsUpTo, r
      <4>2. (\E a \in DOMAIN r2 : r2[a] = t) <=> (\E a \in DOMAIN r : r[a] = t) \/ t = i + 1
        BY <3>5, <3>6
      <4>3. t <= i + 1 <=> t <= i \/ t = i + 1
        BY <1>1
      <4>4. t = i + 1 => Role(Sec(t)) = "rel"
        BY <2>3 DEF s
      <4>. QED  BY <4>1, <4>2, <4>3, <4>4
    <3>9. SectsUpTo(i)'
      BY <1>0, <3>1, <3>7, <3>8, SameFile DEF SectsUpTo, r2
    <3>. QED  BY <1>0, <3>9 DEF SectsInv, Scanned
  <2>. QED  BY <2>1, <2>2, <2>3
<1>5. TypedMaps'
  <2>1. maps_cap = 0
    BY <1>0 DEF RInv, TypedMaps, BeforeMaps, BeforeExterns
  <2>. QED  BY <1>0, <2>1 DEF TypedMaps
<1>6. RecInv'
  BY <1>0 DEF RInv, RecInv, NoDescs, BeforeRelos, BeforeMaps, BeforeExterns
<1>. QED  BY <1>3, <1>4, <1>5, <1>6 DEF RInv

LEMMA AddProgramSects ==
    ASSUME Counts, CodeInv, RInv, AddProgram
    PROVE  RInv'
<1>1. /\ UNCHANGED <<file, i, shndx, efile, maps, maps_cap, nr_maps>>
      /\ pc = "add_programs" /\ pc' \in {"add_programs", "close"}
  BY DEF AddProgram, Fail
<1>2. \/ programs' = programs
      \/ \E idx, off, sz : programs' = [k \in 0 .. nr_programs |->
            IF k = nr_programs THEN NewProgram(idx, off, sz) ELSE programs[k]]
  BY DEF AddProgram
<1>3. \A idx, off, sz : NewProgram(idx, off, sz).reloc_desc = <<>>
  BY DEF NewProgram
<1>4. NoDescs
  BY <1>1 DEF RInv, RecInv, BeforeRelos, BeforeMaps, BeforeExterns
<1>5. NoDescs'
  <2>1. CASE programs' = programs
    BY <1>4, <2>1 DEF NoDescs
  <2>2. CASE programs' # programs
    <3>1. PICK idx, off, sz : programs' = [k \in 0 .. nr_programs |->
            IF k = nr_programs THEN NewProgram(idx, off, sz) ELSE programs[k]]
      BY <1>2, <2>2
    <3>2. \A a \in DOMAIN programs' :
            \/ programs'[a].reloc_desc = <<>>
            \/ a \in DOMAIN programs /\ programs'[a] = programs[a]
      BY <3>1, <1>3 DEF Counts
    <3>. QED  BY <1>4, <3>2 DEF NoDescs
  <2>. QED  BY <2>1, <2>2
<1>6. ShndxInv'
  BY <1>1, FrameShndx DEF RInv
<1>7. SectsInv'
  BY <1>1, FrameSectsUpTo DEF RInv, SectsInv, BeforeExterns, Scanned
<1>8. TypedMaps'
  BY <1>1, FrameTyped DEF RInv, BeforeMaps, BeforeExterns
<1>9. RecInv'
  BY <1>1, <1>5 DEF RecInv
<1>. QED  BY <1>6, <1>7, <1>8, <1>9 DEF RInv

LEMMA AddProgramsDoneSects ==
    ASSUME CodeInv, RInv, AddProgramsDone
    PROVE  RInv'
<1>1. /\ UNCHANGED <<file, shndx, efile, maps, maps_cap, nr_maps, programs>>
      /\ pc = "add_programs" /\ pc' = "elf_collect" /\ i' = i + 1
  BY DEF AddProgramsDone, objvars
<1>2. NrSecs \in Nat /\ i \in 0 .. NrSecs /\ Role(Sec(i + 1)) = "exec" /\ SectsUpTo(i)
  BY <1>1, ElfTypes DEF CodeInv, RInv, SectsInv, BeforeExterns
<1>3. \A t \in 1 .. NrSecs : t <= i + 1 /\ Role(Sec(t)) = "rel" <=> t <= i /\ Role(Sec(t)) = "rel"
  BY <1>2
<1>4. SectsUpTo(i)'
  BY <1>1, <1>2, <1>3, SameFile DEF SectsUpTo
<1>5. SectsInv'
  BY <1>1, <1>4 DEF SectsInv, Scanned
<1>6. ShndxInv' /\ TypedMaps'
  BY <1>1, FrameShndx, FrameTyped DEF RInv, BeforeMaps, BeforeExterns
<1>7. RecInv'
  BY <1>1 DEF RInv, RecInv, NoDescs, BeforeRelos, BeforeMaps, BeforeExterns
<1>. QED  BY <1>5, <1>6, <1>7 DEF RInv

LEMMA ElfCollectDoneSects ==
    ASSUME Counts, CodeInv, RInv, ElfCollectDone
    PROVE  RInv'
<1>1. /\ UNCHANGED <<file, shndx, efile, maps, maps_cap, nr_maps>>
      /\ pc = "elf_collect" /\ pc' \in {"externs", "close"} /\ i = NrSecs
  BY DEF ElfCollectDone, Fail
<1>2. programs' = programs \/ programs' = QSort(programs, nr_programs, CmpProgs)
  BY DEF ElfCollectDone
<1>3. DOMAIN programs' = DOMAIN programs
  <2>1. DOMAIN QSort(programs, nr_programs, CmpProgs) = 0 .. nr_programs - 1
    BY DEF QSort
  <2>. QED  BY <1>2, <2>1 DEF Counts
<1>4. \A a \in DOMAIN programs : programs'[a] = programs[a]
  BY <1>2, SortedStays DEF CodeInv
<1>5. NoDescs'
  BY <1>1, <1>3, <1>4 DEF RInv, RecInv, NoDescs, BeforeRelos, BeforeMaps, BeforeExterns
<1>6. SectsUpTo(NrSecs)'
  BY <1>1, FrameSectsUpTo DEF RInv, SectsInv, BeforeExterns
<1>7. SectsInv'
  BY <1>1, <1>6 DEF SectsInv, BeforeExterns
<1>8. ShndxInv' /\ TypedMaps'
  BY <1>1, FrameShndx, FrameTyped DEF RInv, BeforeMaps, BeforeExterns
<1>9. RecInv'
  BY <1>1, <1>5 DEF RecInv
<1>. QED  BY <1>7, <1>8, <1>9 DEF RInv

LEMMA FirstPassSects ==
    ASSUME CtlInv, CodeInv, RInv, ElfInit \/ FindSymtab
    PROVE  RInv'
<1>1. /\ UNCHANGED <<file, i, maps, maps_cap, nr_maps, programs>>
      /\ pc \in {"elf_init", "symtab"} /\ pc' \in {"symtab", "elf_collect", "close"}
      /\ efile'.reloc_sects = efile.reloc_sects
  <2>1. CASE ElfInit
    BY <2>1 DEF ElfInit, Fail, objvars
  <2>2. CASE FindSymtab
    <3>1. efile'.reloc_sects = efile.reloc_sects
      BY <2>2 DEF FindSymtab, CtlInv
    <3>. QED  BY <2>2, <3>1 DEF FindSymtab, Fail, objvars
  <2>. QED  BY <2>1, <2>2
<1>2. DOMAIN shndx' = DOMAIN shndx /\ \A n \in {".text"} \cup DataSecs : shndx'[n] = shndx[n]
  <2>1. shndx' = shndx \/ \E t : shndx' = [shndx EXCEPT !["symtab"] = t]
    BY DEF ElfInit, FindSymtab
  <2>. QED  BY <2>1 DEF DataSecs, RInv, ShndxInv, SecNames
<1>3. ShndxInv'
  BY <1>1, <1>2, SameFile DEF RInv, ShndxInv
<1>4. SectsUpTo(i) /\ maps_cap = 0 /\ NoDescs
  BY <1>1 DEF RInv, SectsInv, TypedMaps, RecInv, BeforeRelos, BeforeMaps, BeforeExterns
<1>5. SectsUpTo(i)'
  BY <1>1, <1>4, SameFile DEF SectsUpTo
<1>6. SectsInv' /\ TypedMaps'
  BY <1>1, <1>4, <1>5 DEF SectsInv, TypedMaps, BeforeMaps, BeforeExterns, Scanned
<1>7. RecInv'
  BY <1>1, <1>4 DEF RecInv, NoDescs
<1>. QED  BY <1>3, <1>6, <1>7 DEF RInv

(***************************************************************************)
(* The steps between the scan and collect_relos().                         *)
(***************************************************************************)
LEMMA BetweenSects ==
    ASSUME RInv, UNCHANGED <<file, shndx, efile, programs>>, TypedMaps',
           pc \in BeforeRelos \ BeforeExterns,
           pc' \in (BeforeRelos \ BeforeExterns) \cup {"close"}
    PROVE  RInv'
<1>1. ShndxInv'
  BY FrameShndx DEF RInv
<1>2. SectsInv'
  <2>1. SectsUpTo(NrSecs)
    BY DEF RInv, SectsInv, BeforeRelos, BeforeMaps, BeforeExterns, Scanned
  <2>. QED  BY <2>1, FrameSectsUpTo DEF SectsInv, BeforeRelos, BeforeMaps, BeforeExterns
<1>3. RecInv'
  BY DEF RInv, RecInv, NoDescs, BeforeRelos, BeforeMaps, BeforeExterns
<1>. QED  BY <1>1, <1>2, <1>3 DEF RInv

LEMMA BetweenSteps ==
    ASSUME RInv, CollectExtern \/ ExternsDone \/ UserMapsDone \/ UserBtfMapsDone
    PROVE  RInv'
<1>1. /\ UNCHANGED <<file, shndx, efile, programs, maps, maps_cap, nr_maps>>
      /\ pc \in {"externs", "user_maps", "user_btf_maps"}
      /\ pc' \in {"externs", "user_maps", "user_btf_maps", "internal_maps", "close"}
      /\ pc' = "externs" => pc = "externs"
  BY DEF CollectExtern, ExternsDone, UserMapsDone, UserBtfMapsDone, FinalizeBtf, Fail, objvars
<1>2. TypedMaps'
  BY <1>1, FrameTyped DEF RInv, BeforeMaps, BeforeExterns
<1>. QED  BY <1>1, <1>2, BetweenSects DEF BeforeRelos, BeforeMaps, BeforeExterns

(***************************************************************************)
(* The slot bpf_object__add_map() returns gets the number of its section.  *)
(***************************************************************************)
SlotSet ==
    \/ maps'[nr_maps].type = Slot(nr_maps).type
    \/ maps'[nr_maps].type = ".kconfig"
    \/ \E n \in DataSecs : /\ maps'[nr_maps].type = n /\ maps'[nr_maps].sec_idx = shndx[n]
                           /\ shndx[n] >= 0

LEMMA UserMapSlot ==
    ASSUME InitUserMap \/ InitUserBtfMap, nr_maps \in 0 .. NewCap - 1
    PROVE  UNCHANGED <<maps, nr_maps, maps_cap>> \/ SlotSet
<1>1. CASE InitUserMap
  <2> DEFINE q == First({m \in MapSyms : m >= i})
             set(m) == [m EXCEPT !.sec_idx = shndx["maps"], !.sec_offset = elf.syms[q].value]
  <2>1. UNCHANGED <<maps, nr_maps, maps_cap>> \/ AddMap(set)
    BY <1>1, ZenonT(80) DEF InitUserMap, AddMapFails
  <2>2. ASSUME AddMap(set) PROVE SlotSet
    <3>1. maps' = [k \in 0 .. NewCap - 1 |-> IF k = nr_maps THEN set(Slot(k)) ELSE Slot(k)]
      BY <2>2 DEF AddMap, Slot
    <3>2. maps'[nr_maps] = set(Slot(nr_maps))
      BY <3>1
    <3>. QED  BY <3>2 DEF SlotSet
  <2>. QED  BY <2>1, <2>2
<1>2. CASE InitUserBtfMap
  <2> DEFINE set(m) == [m EXCEPT !.sec_idx = shndx[".maps"], !.sec_offset = elf.btf_maps[i].off]
  <2>1. UNCHANGED <<maps, nr_maps, maps_cap>> \/ AddMap(set)
    BY <1>2, ZenonT(80) DEF InitUserBtfMap, AddMapFails
  <2>2. ASSUME AddMap(set) PROVE SlotSet
    <3>1. maps' = [k \in 0 .. NewCap - 1 |-> IF k = nr_maps THEN set(Slot(k)) ELSE Slot(k)]
      BY <2>2 DEF AddMap, Slot
    <3>2. maps'[nr_maps] = set(Slot(nr_maps))
      BY <3>1
    <3>. QED  BY <3>2 DEF SlotSet
  <2>. QED  BY <2>1, <2>2
<1>. QED  BY <1>1, <1>2

LEMMA SlotFields ==
    ASSUME SlotInv, ShapeInv, NEW k \in 0 .. NewCap - 1
    PROVE  MapFields \subseteq DOMAIN Slot(k)
<1>1. CASE k < maps_cap
  <2>1. k \in DOMAIN maps
    BY <1>1 DEF ShapeInv, SlotInv
  <2>. QED  BY <1>1, <2>1 DEF ShapeInv, Slot
<1>2. CASE ~(k < maps_cap)
  BY <1>2 DEF Slot, BlankMap, MapFields
<1>. QED  BY <1>1, <1>2

LEMMA InternalMapSlot ==
    ASSUME SlotInv, ShapeInv, InitInternalMap, nr_maps \in 0 .. NewCap - 1
    PROVE  UNCHANGED <<maps, nr_maps, maps_cap>> \/ SlotSet
<1> DEFINE n == InternalMaps[i]
           sec == IF n = ".kconfig" THEN shndx["symtab"] ELSE shndx[n]
           set(m) == [m EXCEPT !.type = n, !.sec_idx = sec, !.value_size = InternalMapSize(n)]
<1>1. \/ UNCHANGED <<maps, nr_maps, maps_cap>>
      \/ HasInternalMap(n) /\ AddMap(set)
  BY DEF InitInternalMap, AddMapFails
<1>2. n = ".kconfig" \/ n \in DataSecs
  <2>1. i \in 1 .. 4
    BY DEF InitInternalMap, InternalMaps
  <2>2. i = 1 \/ i = 2 \/ i = 3 \/ i = 4
    BY <2>1
  <2>. QED  BY <2>2 DEF InternalMaps, DataSecs
<1>3. ASSUME HasInternalMap(n), AddMap(set) PROVE SlotSet
  <2>1. maps' = [k \in 0 .. NewCap - 1 |-> IF k = nr_maps THEN set(Slot(k)) ELSE Slot(k)]
    BY <1>3 DEF AddMap, Slot
  <2>2. MapFields \subseteq DOMAIN Slot(nr_maps)
    BY SlotFields
  <2>. HIDE DEF n, sec
  <2>3. maps'[nr_maps] = set(Slot(nr_maps))
    BY <2>1
  <2>4. maps'[nr_maps].type = n /\ maps'[nr_maps].sec_idx = sec
    BY <2>2, <2>3 DEF MapFields
  <2>5. CASE n = ".kconfig"
    BY <2>4, <2>5 DEF SlotSet
  <2>6. CASE n # ".kconfig"
    <3>1. shndx[n] >= 0 /\ sec = shndx[n]
      BY <1>3, <2>6 DEF HasInternalMap, sec
    <3>. QED  BY <1>2, <2>4, <2>6, <3>1 DEF SlotSet
  <2>. QED  BY <2>5, <2>6
<1>. QED  BY <1>1, <1>3

LEMMA MapStepRInv ==
    ASSUME HeldInv, CtlInv, SlotInv, ShapeInv, RInv, MapStep
    PROVE  RInv'
<1>1. /\ UNCHANGED <<file, shndx, efile, programs>>
      /\ pc \in {"user_maps", "user_btf_maps", "internal_maps"} /\ pc' \in {pc, "close"}
  BY DEF MapStep, InitUserMap, InitUserBtfMap, InitInternalMap, AddMap, AddMapFails, Fail
<1>2. nr_maps \in Nat /\ maps_cap \in Nat /\ nr_maps <= maps_cap /\ NewCap \in Nat
      /\ nr_maps \in 0 .. NewCap - 1
  BY NewCapBounds DEF SlotInv
<1>3. TypedMaps'
  <2>1. CASE UNCHANGED <<maps, nr_maps, maps_cap>>
    <3>1. pc' \notin BeforeMaps
      BY <1>1 DEF BeforeMaps, BeforeExterns
    <3>. QED  BY <1>1, <2>1, <3>1, FrameTyped DEF RInv
  <2>2. CASE ~UNCHANGED <<maps, nr_maps, maps_cap>>
    <3>1. MapAdded /\ SlotSet
      BY <1>2, <2>2, MapStepAdds, UserMapSlot, InternalMapSlot DEF MapStep
    <3>2. ASSUME NEW k \in 0 .. NewCap - 1
          PROVE  /\ k >= nr_maps => Slot(k).type = "UNSPEC"
                 /\ Slot(k).type \in DataSecs =>
                      Slot(k).sec_idx = shndx[Slot(k).type] /\ shndx[Slot(k).type] >= 1
      <4>1. CASE k < maps_cap
        BY <1>2, <4>1 DEF Slot, RInv, TypedMaps
      <4>2. CASE ~(k < maps_cap)
        BY <4>2 DEF Slot, BlankMap, DataSecs
      <4>. QED  BY <4>1, <4>2
    <3>3. Slot(nr_maps).type = "UNSPEC"
      BY <1>2, <3>2
    <3>4. /\ maps'[nr_maps].type \in DataSecs =>
               /\ maps'[nr_maps].sec_idx = shndx[maps'[nr_maps].type]
               /\ shndx[maps'[nr_maps].type] >= 1
      <4>1. SUFFICES ASSUME maps'[nr_maps].type \in DataSecs
                     PROVE  /\ maps'[nr_maps].sec_idx = shndx[maps'[nr_maps].type]
                            /\ shndx[maps'[nr_maps].type] >= 1
        OBVIOUS
      <4>2. PICK n \in DataSecs : /\ maps'[nr_maps].type = n /\ maps'[nr_maps].sec_idx = shndx[n]
                                  /\ shndx[n] >= 0
        BY <3>1, <3>3, <4>1 DEF SlotSet, DataSecs
      <4>3. shndx[n] \in Int /\ shndx[n] # 0
        BY DEF RInv, ShndxInv, DataSecs
      <4>. QED  BY <4>2, <4>3
    <3>5. \A k \in 0 .. NewCap - 1 : k # nr_maps => maps'[k] = Slot(k)
      BY <3>1 DEF MapAdded
    <3>6. maps_cap' = NewCap /\ nr_maps' = nr_maps + 1
      BY <3>1 DEF MapAdded
    <3>7. ASSUME NEW k \in 0 .. NewCap - 1
          PROVE  /\ k >= nr_maps + 1 => maps'[k].type = "UNSPEC"
                 /\ maps'[k].type \in DataSecs =>
                      maps'[k].sec_idx = shndx[maps'[k].type] /\ shndx[maps'[k].type] >= 1
      <4>1. CASE k = nr_maps
        BY <1>2, <3>4, <4>1
      <4>2. CASE k # nr_maps
        <5>1. maps'[k] = Slot(k)
          BY <3>5, <4>2
        <5>2. k >= nr_maps + 1 => k >= nr_maps
          BY <1>2
        <5>. QED  BY <3>2, <5>1, <5>2
      <4>. QED  BY <4>1, <4>2
    <3>8. pc' \notin BeforeMaps
      BY <1>1 DEF BeforeMaps, BeforeExterns
    <3>. QED  BY <1>1, <3>6, <3>7, <3>8 DEF TypedMaps
  <2>. QED  BY <2>1, <2>2
<1>. QED  BY <1>1, <1>3, BetweenSects DEF BeforeRelos, BeforeMaps, BeforeExterns

-----------------------------------------------------------------------------
(***************************************************************************)
(* Describes, with what it reads of the state as arguments.                *)
(***************************************************************************)
DescribesIn(el, mp, ex, d, p, sec_idx, rel) ==
    LET sym == el.syms[rel.sym]
        idx == rel.off \div BPF_INSN_SZ
    IN
    /\ Owns(p, sec_idx, idx)
    /\ p.sec_insn_off + d.insn_idx = idx
    /\ \/ /\ d.type = "CALL"
          /\ el.secs[sec_idx].insns[idx + 1].code = "call"
          /\ el.secs[sym.shndx].name = ".text" /\ d.sym_off = sym.value
       \/ d.type = "EXTERN" /\ ex[d.sym_off].sym_idx = rel.sym
       \/ /\ d.type = "DATA"
          /\ mp[d.map_idx].sec_idx = sym.shndx
          /\ el.secs[sym.shndx].name = mp[d.map_idx].type
          /\ d.sym_off = sym.value
       \/ /\ d.type = "LD64"
          /\ mp[d.map_idx].sec_idx = sym.shndx
          /\ mp[d.map_idx].sec_offset = sym.value

LEMMA DescribedIs ==
    ASSUME NEW e
    PROVE  Described(e) <=>
             \E u \in DescIdxs :
               DescribesIn(elf, maps, externs, programs[u[1]].reloc_desc[u[2]], programs[u[1]],
                           elf.secs[e[1]].info, elf.secs[e[1]].rels[e[2]])
BY DEF Described, Describes, DescribesIn, Sec

LEMMA DescribedNext ==
    ASSUME NEW e
    PROVE  Described(e)' <=>
             \E u \in DescIdxs' :
               DescribesIn(elf', maps', externs', programs'[u[1]].reloc_desc[u[2]],
                           programs'[u[1]], elf'.secs[e[1]].info, elf'.secs[e[1]].rels[e[2]])
BY DEF Described, Describes, DescribesIn, Sec

SamePlace(p, q) ==
    p.sec_idx = q.sec_idx /\ p.sec_insn_off = q.sec_insn_off /\ p.sec_insn_cnt = q.sec_insn_cnt

LEMMA DescribesCode ==
    ASSUME NEW el, NEW mp, NEW ex, NEW d, NEW p, NEW q, NEW s, NEW rel, SamePlace(p, q),
           DescribesIn(el, mp, ex, d, p, s, rel)
    PROVE  DescribesIn(el, mp, ex, d, q, s, rel)
BY DEF DescribesIn, SamePlace, Owns, ContainsInsn

(***************************************************************************)
(* Every descriptor is still there, of the same program.                   *)
(***************************************************************************)
DescsKept ==
    /\ UNCHANGED <<file, maps, externs>>
    /\ \A u \in DescIdxs : \E y \in DescIdxs' :
         /\ programs'[y[1]].reloc_desc[y[2]] = programs[u[1]].reloc_desc[u[2]]
         /\ SamePlace(programs[u[1]], programs'[y[1]])

LEMMA DescribedStays ==
    ASSUME DescsKept, NEW e, Described(e)
    PROVE  Described(e)'
<1>1. UNCHANGED <<elf, maps, externs>>
  BY DEF DescsKept, elf
<1>2. PICK u \in DescIdxs :
        DescribesIn(elf, maps, externs, programs[u[1]].reloc_desc[u[2]], programs[u[1]],
                    elf.secs[e[1]].info, elf.secs[e[1]].rels[e[2]])
  BY DescribedIs
<1>3. PICK y \in DescIdxs' :
         /\ programs'[y[1]].reloc_desc[y[2]] = programs[u[1]].reloc_desc[u[2]]
         /\ SamePlace(programs[u[1]], programs'[y[1]])
  BY DEF DescsKept
<1>4. DescribesIn(elf, maps, externs, programs[u[1]].reloc_desc[u[2]], programs'[y[1]],
                  elf.secs[e[1]].info, elf.secs[e[1]].rels[e[2]])
  BY <1>2, <1>3, DescribesCode
<1>5. DescribesIn(elf', maps', externs', programs'[y[1]].reloc_desc[y[2]], programs'[y[1]],
                  elf'.secs[e[1]].info, elf'.secs[e[1]].rels[e[2]])
  BY <1>1, <1>3, <1>4
<1>. QED  BY <1>5, DescribedNext

(***************************************************************************)
(* What bpf_program__record_reloc() returns describes the entry.           *)
(***************************************************************************)
LEMMA RecordDescribes ==
    ASSUME AllCode, ShndxInv, TypedMaps, SlotInv, nr_extern \in Nat,
           NEW q \in DOMAIN programs, NEW s, NEW rel, rel.off \in Nat,
           Owns(programs[q], s, rel.off \div BPF_INSN_SZ),
           NEW loc, loc = (rel.off \div BPF_INSN_SZ) - programs[q].sec_insn_off,
           NEW d \in RecordReloc(programs[q].insns[loc + 1], loc, rel.sym)
    PROVE  DescribesIn(elf, maps, externs, d, programs[q], s, rel)
<1> DEFINE p == programs[q]
           idx == rel.off \div BPF_INSN_SZ
           sym == elf.syms[rel.sym]
           insn == p.insns[loc + 1]
<1>1. idx \in Nat
  BY DEF BPF_INSN_SZ
<1>2. /\ p.sec_idx = s /\ p.sec_insn_off \in Nat /\ p.sec_insn_cnt \in Nat
      /\ \A n \in 1 .. p.sec_insn_cnt : p.insns[n] = Sec(s).insns[p.sec_insn_off + n]
      /\ idx >= p.sec_insn_off /\ idx < p.sec_insn_off + p.sec_insn_cnt
  BY DEF AllCode, IsCode, Owns, ContainsInsn
<1>. HIDE DEF idx
<1>3. loc = idx - p.sec_insn_off
  BY DEF idx
<1>. HIDE DEF p
<1>4. /\ loc + 1 \in 1 .. p.sec_insn_cnt /\ p.sec_insn_off + (loc + 1) = idx + 1
      /\ p.sec_insn_off + loc = idx
  BY <1>1, <1>2, <1>3
<1>5. insn = elf.secs[s].insns[idx + 1]
  BY <1>2, <1>4 DEF Sec
<1>6. d \in RecordReloc(insn, loc, rel.sym)
  BY DEF p
<1>7. d.insn_idx = loc
  BY <1>6 DEF RecordReloc
<1>. HIDE DEF insn, sym
<1>8. \/ /\ d.type = "CALL" /\ insn.code = "call"
         /\ sym.shndx # 0 /\ sym.shndx = shndx[".text"] /\ d.sym_off = sym.value
      \/ d.type = "EXTERN" /\ ExternIdxs(rel.sym) # {} /\ d.sym_off = First(ExternIdxs(rel.sym))
      \/ /\ d.type = "DATA" /\ DataMapIdxs(sym) # {}
         /\ d.map_idx = First(DataMapIdxs(sym)) /\ d.sym_off = sym.value
      \/ d.type = "LD64" /\ MapAtIdxs(sym) # {} /\ d.map_idx = First(MapAtIdxs(sym))
  BY <1>6 DEF RecordReloc, sym
<1>9. /\ d.type = "CALL" => /\ elf.secs[s].insns[idx + 1].code = "call"
                            /\ elf.secs[sym.shndx].name = ".text" /\ d.sym_off = sym.value
  <2>1. SUFFICES ASSUME d.type = "CALL"
                 PROVE  /\ elf.secs[s].insns[idx + 1].code = "call"
                        /\ elf.secs[sym.shndx].name = ".text" /\ d.sym_off = sym.value
    OBVIOUS
  <2>2. insn.code = "call" /\ sym.shndx # 0 /\ sym.shndx = shndx[".text"] /\ d.sym_off = sym.value
    BY <1>8, <2>1
  <2>3. Sec(sym.shndx).name = ".text"
    BY <2>2 DEF ShndxInv
  <2>. QED  BY <1>5, <2>2, <2>3 DEF Sec
<1>10. d.type = "EXTERN" => externs[d.sym_off].sym_idx = rel.sym
  <2>1. SUFFICES ASSUME d.type = "EXTERN" PROVE externs[d.sym_off].sym_idx = rel.sym
    OBVIOUS
  <2>2. ExternIdxs(rel.sym) # {} /\ d.sym_off = First(ExternIdxs(rel.sym))
    BY <1>8, <2>1
  <2>3. ExternIdxs(rel.sym) \in SUBSET Nat
    BY DEF ExternIdxs
  <2>4. d.sym_off \in ExternIdxs(rel.sym)
    BY <2>2, <2>3, FirstIsIn
  <2>. QED  BY <2>4 DEF ExternIdxs
<1>11. d.type = "DATA" => /\ maps[d.map_idx].sec_idx = sym.shndx
                          /\ elf.secs[sym.shndx].name = maps[d.map_idx].type
                          /\ d.sym_off = sym.value
  <2>1. SUFFICES ASSUME d.type = "DATA"
                 PROVE  /\ maps[d.map_idx].sec_idx = sym.shndx
                        /\ elf.secs[sym.shndx].name = maps[d.map_idx].type
                        /\ d.sym_off = sym.value
    OBVIOUS
  <2>2. DataMapIdxs(sym) # {} /\ d.map_idx = First(DataMapIdxs(sym)) /\ d.sym_off = sym.value
    BY <1>8, <2>1
  <2>3. DataMapIdxs(sym) \in SUBSET Nat
    BY DEF DataMapIdxs
  <2>4. d.map_idx \in DataMapIdxs(sym)
    BY <2>2, <2>3, FirstIsIn
  <2>5. /\ d.map_idx \in 0 .. maps_cap - 1 /\ maps[d.map_idx].type \in DataSecs
        /\ shndx[maps[d.map_idx].type] = sym.shndx
    BY <2>4 DEF DataMapIdxs, SlotInv
  <2>6. maps[d.map_idx].sec_idx = sym.shndx /\ sym.shndx >= 1
    BY <2>5 DEF TypedMaps
  <2>7. Sec(sym.shndx).name = maps[d.map_idx].type
    BY <2>5, <2>6 DEF ShndxInv
  <2>. QED  BY <2>2, <2>6, <2>7 DEF Sec
<1>12. d.type = "LD64" => /\ maps[d.map_idx].sec_idx = sym.shndx
                          /\ maps[d.map_idx].sec_offset = sym.value
  <2>1. SUFFICES ASSUME d.type = "LD64"
                 PROVE  /\ maps[d.map_idx].sec_idx = sym.shndx
                        /\ maps[d.map_idx].sec_offset = sym.value
    OBVIOUS
  <2>2. MapAtIdxs(sym) # {} /\ d.map_idx = First(MapAtIdxs(sym))
    BY <1>8, <2>1
  <2>3. MapAtIdxs(sym) \in SUBSET Nat
    BY DEF MapAtIdxs
  <2>4. d.map_idx \in MapAtIdxs(sym)
    BY <2>2, <2>3, FirstIsIn
  <2>. QED  BY <2>4 DEF MapAtIdxs
<1>13. d.type \in {"CALL", "EXTERN", "DATA", "LD64"}
  BY <1>8
<1>14. Owns(p, s, idx) /\ p.sec_insn_off + d.insn_idx = idx
  BY <1>4, <1>7 DEF p, idx
<1>15. \/ /\ d.type = "CALL" /\ elf.secs[s].insns[idx + 1].code = "call"
          /\ elf.secs[sym.shndx].name = ".text" /\ d.sym_off = sym.value
       \/ d.type = "EXTERN" /\ externs[d.sym_off].sym_idx = rel.sym
       \/ /\ d.type = "DATA" /\ maps[d.map_idx].sec_idx = sym.shndx
          /\ elf.secs[sym.shndx].name = maps[d.map_idx].type /\ d.sym_off = sym.value
       \/ /\ d.type = "LD64" /\ maps[d.map_idx].sec_idx = sym.shndx
          /\ maps[d.map_idx].sec_offset = sym.value
  BY <1>9, <1>10, <1>11, <1>12, <1>13
<1>. QED  BY <1>14, <1>15 DEF DescribesIn, p, idx, sym

(***************************************************************************)
(* An entry is a pair of a relocation section and a place in it.           *)
(***************************************************************************)
LEMMA EntryIs ==
    ASSUME NEW e
    PROVE  e \in RelocEntries <=>
             \E s \in 1 .. NrSecs : \E k \in DOMAIN Sec(s).rels :
               Role(Sec(s)) = "rel" /\ e = <<s, k>>
BY DEF RelocEntries

(***************************************************************************)
(* The section that collect_relos() works on.                              *)
(***************************************************************************)
LEMMA RelocSectIs ==
    ASSUME DescInv, NEW a \in DOMAIN efile.reloc_sects
    PROVE  efile.reloc_sects[a] \in 1 .. NrSecs /\ Relos[a] = Sec(efile.reloc_sects[a])
           /\ DOMAIN Relos = DOMAIN efile.reloc_sects /\ Len(efile.reloc_sects) \in Nat
           /\ DOMAIN efile.reloc_sects = 1 .. Len(efile.reloc_sects)
<1> DEFINE T == 1 .. NrSecs
           r == efile.reloc_sects
<1>1. r \in Seq(T) /\ Relos = [sec \in DOMAIN r |-> Sec(r[sec])] /\ a \in DOMAIN r
  BY DEF DescInv, Relos
<1>. HIDE DEF T, r
<1>2. r[a] \in T /\ Relos[a] = Sec(r[a]) /\ DOMAIN Relos = DOMAIN r
      /\ Len(r) \in Nat /\ DOMAIN r = 1 .. Len(r)
  BY <1>1
<1>. QED  BY <1>2 DEF T, r

LEMMA RelocSectsLen ==
    ASSUME DescInv
    PROVE  /\ DOMAIN Relos = DOMAIN efile.reloc_sects /\ Len(efile.reloc_sects) \in Nat
           /\ DOMAIN efile.reloc_sects = 1 .. Len(efile.reloc_sects)
<1> DEFINE T == 1 .. NrSecs
           r == efile.reloc_sects
<1>1. r \in Seq(T) /\ Relos = [sec \in DOMAIN r |-> Sec(r[sec])]
  BY DEF DescInv, Relos
<1>. HIDE DEF T, r
<1>2. DOMAIN Relos = DOMAIN r /\ Len(r) \in Nat /\ DOMAIN r = 1 .. Len(r)
  BY <1>1
<1>. QED  BY <1>2 DEF r

LEMMA InitMapsDoneRecorded ==
    ASSUME CodeInv, DescInv, RInv, InitMapsDone
    PROVE  RInv'
<1>1. /\ UNCHANGED <<file, shndx, efile, programs, maps, maps_cap, nr_maps>>
      /\ pc = "internal_maps" /\ pc' = "collect_relos" /\ i' = 1 /\ j' = 1
  BY DEF InitMapsDone, objvars
<1>2. ShndxInv' /\ TypedMaps' /\ SectsInv'
  <2>1. SectsUpTo(NrSecs)
    BY <1>1 DEF RInv, SectsInv, Scanned
  <2>. QED  BY <1>1, <2>1, FrameShndx, FrameTyped, FrameSectsUpTo
            DEF RInv, SectsInv, BeforeMaps, BeforeExterns
<1>3. NoDescs
  BY <1>1 DEF RInv, RecInv, BeforeRelos
<1>4. DescIdxs' = {}
  <2>1. \A a \in DOMAIN programs : DOMAIN programs[a].reloc_desc = {}
    BY <1>3 DEF NoDescs
  <2>. QED  BY <1>1, <2>1 DEF DescIdxs
<1>5. NrSecs \in Nat /\ Len(efile.reloc_sects) \in Nat
  BY ElfTypes, RelocSectsLen DEF CodeInv
<1>6. Passed' = {}
  <2>1. SUFFICES ASSUME NEW e \in Passed' PROVE FALSE
    OBVIOUS
  <2>2. PICK a \in DOMAIN efile.reloc_sects : a < 1 \/ e[2] < 1
    BY <1>1, <2>1 DEF Passed
  <2>3. a \in Nat /\ a >= 1
    BY <1>5, RelocSectsLen
  <2>4. e \in RelocEntries
    BY <1>1, <2>1, SameFile DEF Passed
  <2>5. PICK s \in 1 .. NrSecs : \E k \in DOMAIN Sec(s).rels : e = <<s, k>>
    BY <2>4, EntryIs
  <2>6. e[2] \in Nat /\ e[2] >= 1
    BY <2>5, RelsAreSeq DEF CodeInv
  <2>. QED  BY <2>2, <2>3, <2>6
<1>7. AllRecorded(Passed)'
  BY <1>4, <1>6, FS_EmptySet DEF AllRecorded
<1>8. Place'
  <2>1. i' \in 1 .. Len(efile'.reloc_sects) + 1 /\ j' \in Nat /\ j' >= 1
    BY <1>1, <1>5
  <2>2. ASSUME i' \in DOMAIN efile'.reloc_sects
        PROVE  j' <= Len(Sec(efile.reloc_sects[i])'.rels) + 1
    <3>1. 1 \in DOMAIN efile.reloc_sects
      BY <1>1, <2>2
    <3>2. efile.reloc_sects[1] \in 1 .. NrSecs
      BY <3>1, RelocSectIs
    <3>3. Len(Sec(efile.reloc_sects[1]).rels) \in Nat
      BY <3>2, RelsAreSeq DEF CodeInv
    <3>4. Sec(efile.reloc_sects[i])' = Sec(efile.reloc_sects[1])
      BY <1>1 DEF Sec, elf
    <3>. QED  BY <1>1, <3>3, <3>4
  <2>. QED  BY <2>1, <2>2 DEF Place
<1>9. RecInv'
  BY <1>1, <1>7, <1>8 DEF RecInv, BeforeRelos, BeforeMaps, BeforeExterns
<1>. QED  BY <1>2, <1>9 DEF RInv

LEMMA NextReloSectRecorded ==
    ASSUME CodeInv, DescInv, RInv, NextReloSect
    PROVE  RInv'
<1> DEFINE r == efile.reloc_sects
<1>1. /\ UNCHANGED <<file, shndx, efile, programs, maps, externs, maps_cap, nr_maps>>
      /\ pc = "collect_relos" /\ pc' = "collect_relos" /\ i' = i + 1 /\ j' = 1
      /\ i \in DOMAIN Relos /\ j \notin DOMAIN Relos[i].rels
  BY DEF NextReloSect, objvars
<1>2. ShndxInv' /\ TypedMaps' /\ SectsInv'
  <2>1. SectsUpTo(NrSecs)
    BY <1>1 DEF RInv, SectsInv, Scanned
  <2>. QED  BY <1>1, <2>1, FrameShndx, FrameTyped, FrameSectsUpTo
            DEF RInv, SectsInv, BeforeMaps, BeforeExterns
<1>3. /\ i \in DOMAIN r /\ r[i] \in 1 .. NrSecs /\ Relos[i] = Sec(r[i])
      /\ Len(r) \in Nat /\ DOMAIN r = 1 .. Len(r)
  BY <1>1, RelocSectsLen, RelocSectIs
<1>4. /\ Len(Sec(r[i]).rels) \in Nat /\ DOMAIN Sec(r[i]).rels = 1 .. Len(Sec(r[i]).rels)
  BY <1>3, RelsAreSeq DEF CodeInv
<1>5. Place /\ AllRecorded(Passed)
  BY <1>1 DEF RInv, RecInv
<1>6. j = Len(Sec(r[i]).rels) + 1
  BY <1>1, <1>3, <1>4, <1>5 DEF Place
<1>7. Passed' = Passed
  <2>1. ASSUME NEW e \in RelocEntries, NEW a \in DOMAIN r, r[a] = e[1]
        PROVE  (a < i + 1 \/ (a = i + 1 /\ e[2] < 1)) <=> (a < i \/ (a = i /\ e[2] < j))
    <3>1. PICK s \in 1 .. NrSecs : \E k \in DOMAIN Sec(s).rels : e = <<s, k>>
      BY EntryIs
    <3>2. /\ e[1] = s /\ e[2] \in DOMAIN Sec(s).rels
      BY <3>1
    <3>3. e[2] \in Nat /\ e[2] >= 1
      BY <3>2, RelsAreSeq DEF CodeInv
    <3>4. a = i => e[2] < j
      <4>1. SUFFICES ASSUME a = i PROVE e[2] < j
        OBVIOUS
      <4>2. s = r[i]
        BY <2>1, <3>2, <4>1
      <4>. QED  BY <1>4, <1>6, <3>2, <4>2
    <3>5. a \in Nat /\ i \in Nat
      BY <1>3
    <3>. QED  BY <3>3, <3>4, <3>5
  <2>2. RelocEntries' = RelocEntries
    BY <1>1, SameFile
  <2>. QED  BY <1>1, <2>1, <2>2 DEF Passed
<1>8. AllRecorded(Passed)'
  <2>1. DescIdxs' = DescIdxs
    BY <1>1 DEF DescIdxs
  <2>2. DescsKept
    BY <1>1, <2>1 DEF DescsKept, SamePlace
  <2>3. \A e \in Passed : Described(e)'
    BY <1>5, <2>2, DescribedStays DEF AllRecorded
  <2>. QED  BY <1>5, <1>7, <2>1, <2>3 DEF AllRecorded
<1>9. Place'
  <2>1. i' \in 1 .. Len(efile'.reloc_sects) + 1 /\ j' \in Nat /\ j' >= 1
    BY <1>1, <1>3
  <2>2. ASSUME i' \in DOMAIN efile'.reloc_sects
        PROVE  j' <= Len(Sec(efile.reloc_sects[i])'.rels) + 1
    <3>1. i + 1 \in DOMAIN r
      BY <1>1, <2>2
    <3>2. r[i + 1] \in 1 .. NrSecs
      BY <3>1, RelocSectIs
    <3>3. Len(Sec(r[i + 1]).rels) \in Nat
      BY <3>2, RelsAreSeq DEF CodeInv
    <3>4. Sec(efile.reloc_sects[i])' = Sec(r[i + 1])
      BY <1>1 DEF Sec, elf
    <3>. QED  BY <1>1, <3>3, <3>4
  <2>. QED  BY <2>1, <2>2 DEF Place
<1>10. RecInv'
  BY <1>1, <1>8, <1>9 DEF RecInv, BeforeRelos, BeforeMaps, BeforeExterns
<1>. QED  BY <1>2, <1>10 DEF RInv

(***************************************************************************)
(* Every descriptor of the object is a place in the list of a program.     *)
(***************************************************************************)
LEMMA DescIdxIs ==
    ASSUME NEW u
    PROVE  u \in DescIdxs <=>
             \E a \in DOMAIN programs : \E k \in DOMAIN programs[a].reloc_desc : u = <<a, k>>
BY DEF DescIdxs

LEMMA DescIdxNext ==
    ASSUME NEW u
    PROVE  u \in DescIdxs' <=>
             \E a \in DOMAIN programs' : \E k \in DOMAIN programs'[a].reloc_desc : u = <<a, k>>
BY DEF DescIdxs

(***************************************************************************)
(* One relocation recorded: one descriptor more, which describes it.       *)
(***************************************************************************)
LEMMA CollectRelocRecorded ==
    ASSUME SlotInv, KcfgInv, CodeInv, DescInv, RInv, CollectReloc
    PROVE  RInv'
<1> DEFINE r == efile.reloc_sects
           rel == Relos[i].rels[j]
           info == Relos[i].info
           idx == rel.off \div BPF_INSN_SZ
           q == OwnerOf(programs, info, idx)
           loc == idx - programs[q].sec_insn_off
           insn == programs[q].insns[loc + 1]
<1>1. /\ UNCHANGED <<file, i, shndx, efile, maps, externs, maps_cap, nr_maps>>
      /\ pc = "collect_relos" /\ pc' \in {"collect_relos", "close"}
      /\ i \in DOMAIN Relos /\ j \in DOMAIN Relos[i].rels
  BY ZenonT(80) DEF CollectReloc, Fail
<1>2. \/ pc' = "close"
      \/ /\ q # NULL /\ j' = j + 1 /\ pc' = pc
         /\ \E d \in RecordReloc(insn, loc, rel.sym) :
              programs' = [programs EXCEPT ![q].reloc_desc = Append(@, d)]
  BY DEF CollectReloc, Fail
<1>3. ShndxInv' /\ TypedMaps' /\ SectsInv'
  <2>1. SectsUpTo(NrSecs)
    BY <1>1 DEF RInv, SectsInv, Scanned
  <2>. QED  BY <1>1, <2>1, FrameShndx, FrameTyped, FrameSectsUpTo
            DEF RInv, SectsInv, BeforeMaps, BeforeExterns
<1>4. CASE pc' = "close"
  BY <1>3, <1>4 DEF RInv, RecInv, BeforeRelos, BeforeMaps, BeforeExterns
<1>5. CASE pc' # "close"
  <2>1. q # NULL /\ j' = j + 1 /\ pc' = pc
    BY <1>2, <1>5
  <2>2. PICK d \in RecordReloc(insn, loc, rel.sym) :
          programs' = [programs EXCEPT ![q].reloc_desc = Append(@, d)]
    BY <1>2, <1>5
  <2>3. /\ i \in DOMAIN r /\ r[i] \in 1 .. NrSecs /\ Relos[i] = Sec(r[i])
        /\ Len(r) \in Nat /\ DOMAIN r = 1 .. Len(r)
    BY <1>1, RelocSectsLen, RelocSectIs
  <2>4. Len(Sec(r[i]).rels) \in Nat /\ DOMAIN Sec(r[i]).rels = 1 .. Len(Sec(r[i]).rels)
    BY <2>3, RelsAreSeq DEF CodeInv
  <2>5. rel.off \in Nat
    BY <1>1, <2>3, ElfTypes DEF CodeInv
  <2>6. Place /\ AllRecorded(Passed)
    BY <1>1 DEF RInv, RecInv
  <2>7. q \in DOMAIN programs /\ Owns(programs[q], info, idx)
    BY <2>1 DEF OwnerOf
  <2>8. IsCode(programs[q]) /\ IsDescs(programs[q].reloc_desc)
    BY <1>1, <2>7 DEF CodeInv, AllCode, DescInv, AllDescs
  <2>9. DescribesIn(elf, maps, externs, d, programs[q], info, rel)
    <3>1. AllCode /\ ShndxInv /\ TypedMaps /\ nr_extern \in Nat
      BY DEF CodeInv, RInv, KcfgInv
    <3>. HIDE DEF rel, info, q
    <3>. QED  BY <2>2, <2>5, <2>7, <3>1, RecordDescribes
  <2> DEFINE n == Len(programs[q].reloc_desc)
             new == <<q, n + 1>>
             e0 == <<r[i], j>>
  <2>10. /\ n \in Nat /\ DOMAIN programs[q].reloc_desc = 1 .. n
         /\ DOMAIN Append(programs[q].reloc_desc, d) = 1 .. n + 1
         /\ Append(programs[q].reloc_desc, d)[n + 1] = d
         /\ \A k \in 1 .. n : Append(programs[q].reloc_desc, d)[k] = programs[q].reloc_desc[k]
    <3>. HIDE DEF q, rel, info, idx, loc, insn
    <3>. QED  BY <2>8, AppendedDesc
  <2>. HIDE DEF q, loc, insn, n, rel, info, idx
  <2>11. /\ DOMAIN programs' = DOMAIN programs
         /\ \A a \in DOMAIN programs : a # q => programs'[a] = programs[a]
         /\ programs'[q].reloc_desc = Append(programs[q].reloc_desc, d)
         /\ SamePlace(programs[q], programs'[q])
    BY <2>2, <2>7, <2>8 DEF IsCode, ProgFields, SamePlace
  <2>12. DescIdxs' = DescIdxs \cup {new}
    <3>1. ASSUME NEW u PROVE u \in DescIdxs' <=> u \in DescIdxs \/ u = new
      <4>1. ASSUME NEW a \in DOMAIN programs, a # q
            PROVE  DOMAIN programs'[a].reloc_desc = DOMAIN programs[a].reloc_desc
        BY <2>11, <4>1
      <4>2. DOMAIN programs'[q].reloc_desc = 1 .. n + 1
        BY <2>10, <2>11
      <4>3. \A k : k \in 1 .. n + 1 <=> k \in 1 .. n \/ k = n + 1
        BY <2>10
      <4>4. u \in DescIdxs' => u \in DescIdxs \/ u = new
        <5>1. SUFFICES ASSUME NEW a \in DOMAIN programs, NEW k \in DOMAIN programs'[a].reloc_desc,
                              u = <<a, k>>
                       PROVE  u \in DescIdxs \/ u = new
          BY <2>11, DescIdxNext
        <5>2. CASE a # q
          BY <4>1, <5>1, <5>2, DescIdxIs
        <5>3. CASE a = q
          <6>1. k \in DOMAIN programs[q].reloc_desc \/ k = n + 1
            BY <2>10, <4>2, <4>3, <5>3
          <6>. QED  BY <2>7, <5>1, <5>3, <6>1, DescIdxIs
        <5>. QED  BY <5>2, <5>3
      <4>5. u \in DescIdxs => u \in DescIdxs'
        <5>1. SUFFICES ASSUME NEW a \in DOMAIN programs, NEW k \in DOMAIN programs[a].reloc_desc,
                              u = <<a, k>>
                       PROVE  u \in DescIdxs'
          BY DescIdxIs
        <5>2. k \in DOMAIN programs'[a].reloc_desc
          BY <2>10, <4>1, <4>2, <4>3
        <5>. QED  BY <2>11, <5>1, <5>2, DescIdxNext
      <4>6. u = new => u \in DescIdxs'
        BY <2>7, <2>11, <4>2, <4>3, DescIdxNext
      <4>. QED  BY <4>4, <4>5, <4>6
    <3>. QED  BY <3>1
  <2>13. new \notin DescIdxs
    <3>1. SUFFICES ASSUME new \in DescIdxs PROVE FALSE
      OBVIOUS
    <3>2. n + 1 \in DOMAIN programs[q].reloc_desc
      BY <3>1, DescIdxIs
    <3>. QED  BY <2>10, <3>2
  <2>14. DescsKept
    <3>1. ASSUME NEW u \in DescIdxs
          PROVE  /\ programs'[u[1]].reloc_desc[u[2]] = programs[u[1]].reloc_desc[u[2]]
                 /\ SamePlace(programs[u[1]], programs'[u[1]])
      <4>1. PICK a \in DOMAIN programs : \E k \in DOMAIN programs[a].reloc_desc : u = <<a, k>>
        BY DescIdxIs
      <4>2. u[1] = a /\ u[2] \in DOMAIN programs[a].reloc_desc
        BY <4>1
      <4>3. CASE a = q
        <5>1. programs'[q].reloc_desc[u[2]] = programs[q].reloc_desc[u[2]]
          BY <2>10, <2>11, <4>2, <4>3
        <5>. QED  BY <2>11, <4>2, <4>3, <5>1
      <4>4. CASE a # q
        BY <2>11, <4>2, <4>4 DEF SamePlace
      <4>. QED  BY <4>3, <4>4
    <3>. QED  BY <1>1, <2>12, <3>1 DEF DescsKept
  <2>15. e0 \in RelocEntries /\ e0 \notin Passed
    <3>1. \A a, b \in DOMAIN r : r[a] = r[b] => a = b
      BY <1>1 DEF RInv, SectsInv, SectsUpTo, Scanned
    <3>2. Role(Sec(r[i])) = "rel"
      BY <1>1, <2>3 DEF RInv, SectsInv, SectsUpTo, Scanned
    <3>3. j \in DOMAIN Sec(r[i]).rels
      BY <1>1, <2>3
    <3>4. e0 \in RelocEntries
      BY <2>3, <3>2, <3>3, EntryIs
    <3>5. ASSUME NEW a \in DOMAIN r, r[a] = e0[1] PROVE ~(a < i \/ (a = i /\ e0[2] < j))
      <4>1. a = i /\ i \in Nat /\ j \in Nat
        BY <2>3, <2>6, <3>1, <3>5 DEF Place
      <4>. QED  BY <4>1
    <3>. QED  BY <3>4, <3>5 DEF Passed
  <2>16. Passed' = Passed \cup {e0}
    <3>1. RelocEntries' = RelocEntries
      BY <1>1, SameFile
    <3>2. ASSUME NEW e \in RelocEntries, NEW a \in DOMAIN r, r[a] = e[1]
          PROVE  (a < i \/ (a = i /\ e[2] < j + 1)) <=> (a < i \/ (a = i /\ e[2] < j)) \/ e = e0
      <4>0. PICK s \in 1 .. NrSecs : \E k \in DOMAIN Sec(s).rels : e = <<s, k>>
        BY EntryIs
      <4>1. PICK k \in DOMAIN Sec(s).rels : e = <<s, k>>
        BY <4>0
      <4>2. k \in Nat /\ j \in Nat /\ a \in Nat /\ i \in Nat
        BY <2>3, <2>6, RelsAreSeq DEF CodeInv, Place
      <4>3. a = i => (e = e0 <=> k = j)
        BY <3>2, <4>1
      <4>4. e = e0 => a = i
        <5>1. e = e0 => r[a] = r[i]
          BY <3>2
        <5>. QED  BY <1>1, <2>3, <5>1 DEF RInv, SectsInv, SectsUpTo, Scanned
      <4>5. k < j + 1 <=> k < j \/ k = j
        BY <4>2
      <4>. QED  BY <4>1, <4>3, <4>4, <4>5
    <3>3. \A e \in RelocEntries :
            (\E a \in DOMAIN r : r[a] = e[1] /\ (a < i \/ (a = i /\ e[2] < j + 1)))
            <=> (\E a \in DOMAIN r : r[a] = e[1] /\ (a < i \/ (a = i /\ e[2] < j))) \/ e = e0
      <4>1. e0[1] = r[i]
        OBVIOUS
      <4>. QED  BY <2>3, <3>2, <4>1
    <3>4. Passed' = {e \in RelocEntries :
            \E a \in DOMAIN r : r[a] = e[1] /\ (a < i \/ (a = i /\ e[2] < j + 1))}
      BY <1>1, <2>1, <3>1 DEF Passed
    <3>5. Passed = {e \in RelocEntries :
            \E a \in DOMAIN r : r[a] = e[1] /\ (a < i \/ (a = i /\ e[2] < j))}
      BY DEF Passed
    <3>. HIDE DEF r, e0
    <3>. QED  BY <2>15, <3>3, <3>4, <3>5
  <2>17. ASSUME NEW e, e = e0 PROVE Described(e)'
    <3>1. UNCHANGED <<elf, maps, externs>> /\ new \in DescIdxs'
      BY <1>1, <2>12 DEF elf
    <3>2. DescribesIn(elf, maps, externs, d, programs'[q], info, rel)
      BY <2>9, <2>11, DescribesCode
    <3>3. programs'[new[1]].reloc_desc[new[2]] = d /\ programs'[new[1]] = programs'[q]
      BY <2>10, <2>11
    <3>4. e[1] = r[i] /\ e[2] = j
      BY <2>17
    <3>5. info = elf'.secs[e[1]].info /\ rel = elf'.secs[e[1]].rels[e[2]]
      BY <2>3, <3>1, <3>4 DEF info, rel, Sec
    <3>6. DescribesIn(elf', maps', externs', programs'[new[1]].reloc_desc[new[2]],
                      programs'[new[1]], elf'.secs[e[1]].info, elf'.secs[e[1]].rels[e[2]])
      BY <3>1, <3>2, <3>3, <3>5
    <3>. QED  BY <3>1, <3>6, DescribedNext
  <2>18. AllRecorded(Passed)'
    <3>1. /\ IsFiniteSet(Passed) /\ IsFiniteSet(DescIdxs)
          /\ Cardinality(DescIdxs) = Cardinality(Passed)
      BY <2>6 DEF AllRecorded
    <3>. HIDE DEF e0, new
    <3>2. IsFiniteSet(Passed') /\ Cardinality(Passed') = Cardinality(Passed) + 1
      BY <2>15, <2>16, <3>1, FS_AddElement
    <3>3. IsFiniteSet(DescIdxs') /\ Cardinality(DescIdxs') = Cardinality(DescIdxs) + 1
      BY <2>12, <2>13, <3>1, FS_AddElement
    <3>4. \A e \in Passed' : Described(e)'
      <4>1. \A e \in Passed : Described(e)'
        BY <2>6, <2>14, DescribedStays DEF AllRecorded
      <4>. QED  BY <2>16, <2>17, <4>1
    <3>. QED  BY <3>1, <3>2, <3>3, <3>4 DEF AllRecorded
  <2>19. Place'
    <3>1. /\ i' \in 1 .. Len(efile'.reloc_sects) + 1 /\ j' \in Nat /\ j' >= 1
      BY <1>1, <2>1, <2>6 DEF Place
    <3>2. Sec(efile.reloc_sects[i])' = Sec(r[i])
      BY <1>1 DEF Sec, elf
    <3>3. j + 1 <= Len(Sec(r[i]).rels) + 1
      BY <1>1, <2>3, <2>4
    <3>. QED  BY <2>1, <3>1, <3>2, <3>3 DEF Place
  <2>20. RecInv'
    BY <1>1, <1>5, <2>18, <2>19 DEF RecInv, BeforeRelos, BeforeMaps, BeforeExterns
  <2>. QED  BY <1>3, <2>20 DEF RInv
<1>. QED  BY <1>2, <1>4, <1>5

LEMMA SortRelosRecorded ==
    ASSUME CodeInv, DescInv, RInv, SortRelos
    PROVE  RInv'
<1>1. /\ UNCHANGED <<file, shndx, efile, maps, externs, maps_cap, nr_maps>>
      /\ pc = "collect_relos" /\ pc' = "relos_done" /\ i \notin DOMAIN Relos
      /\ programs' = [p \in DOMAIN programs |-> [programs[p] EXCEPT !.reloc_desc = SortDescs(@)]]
  BY DEF SortRelos
<1>2. ShndxInv' /\ TypedMaps' /\ SectsInv'
  <2>1. SectsUpTo(NrSecs)
    BY <1>1 DEF RInv, SectsInv, Scanned
  <2>. QED  BY <1>1, <2>1, FrameShndx, FrameTyped, FrameSectsUpTo
            DEF RInv, SectsInv, BeforeMaps, BeforeExterns
<1>3. Place /\ AllRecorded(Passed) /\ SectsUpTo(NrSecs)
  BY <1>1 DEF RInv, RecInv, SectsInv, Scanned
<1>4. Passed = RelocEntries
  <2>1. ASSUME NEW e \in RelocEntries PROVE e \in Passed
    <3>1. PICK s \in 1 .. NrSecs : e[1] = s /\ Role(Sec(s)) = "rel"
      BY EntryIs
    <3>2. NrSecs \in Nat
      BY ElfTypes DEF CodeInv
    <3>3. PICK a \in DOMAIN efile.reloc_sects : efile.reloc_sects[a] = s
      BY <1>3, <3>1, <3>2 DEF SectsUpTo
    <3>4. a < i
      <4>1. /\ i \in 1 .. Len(efile.reloc_sects) + 1 /\ i \notin 1 .. Len(efile.reloc_sects)
            /\ a \in 1 .. Len(efile.reloc_sects) /\ Len(efile.reloc_sects) \in Nat
        BY <1>1, <1>3, <3>3, RelocSectsLen DEF Place
      <4> DEFINE m == Len(efile.reloc_sects)
      <4>. HIDE DEF m
      <4>2. i \in 1 .. m + 1 /\ i \notin 1 .. m /\ a \in 1 .. m /\ m \in Nat
        BY <4>1 DEF m
      <4>. QED  BY <4>2
    <3>. QED  BY <3>1, <3>3, <3>4 DEF Passed
  <2>. QED  BY <2>1 DEF Passed
<1>5. ASSUME NEW a \in DOMAIN programs
      PROVE  /\ programs'[a].reloc_desc = SortDescs(programs[a].reloc_desc)
             /\ SamePlace(programs[a], programs'[a])
  BY <1>1 DEF CodeInv, AllCode, IsCode, ProgFields, SamePlace
<1>6. ASSUME NEW a \in DOMAIN programs
      PROVE  LET s == programs[a].reloc_desc IN
             /\ DOMAIN SortDescs(s) = DOMAIN s
             /\ \A k \in DOMAIN s : \E m \in DOMAIN s : SortDescs(s)[m] = s[k]
  <2> DEFINE s == programs[a].reloc_desc
  <2>1. PICK S : s \in Seq(S) /\ \A d \in S : IsDesc(d)
    BY <1>1 DEF DescInv, AllDescs, IsDescs
  <2>2. Len(s) \in Nat /\ DOMAIN s = 1 .. Len(s) /\ \A k \in DOMAIN s : IsDesc(s[k])
    BY <2>1
  <2>. HIDE DEF s
  <2>3. DOMAIN SortDescs(s) = DOMAIN s /\ \A k \in DOMAIN s : \E m \in DOMAIN s : SortDescs(s)[m] = s[k]
    BY <2>2, SortDescsSorts
  <2>. QED  BY <2>3 DEF s
<1>7. DOMAIN programs' = DOMAIN programs
  BY <1>1
<1>8. DescIdxs' = DescIdxs
  <2>1. ASSUME NEW u PROVE u \in DescIdxs' <=> u \in DescIdxs
    <3>1. \A a \in DOMAIN programs : DOMAIN programs'[a].reloc_desc = DOMAIN programs[a].reloc_desc
      BY <1>5, <1>6
    <3>. QED  BY <1>7, <3>1, DescIdxIs, DescIdxNext
  <2>. QED  BY <2>1
<1>9. DescsKept
  <2>1. ASSUME NEW u \in DescIdxs
        PROVE  \E y \in DescIdxs' :
                 /\ programs'[y[1]].reloc_desc[y[2]] = programs[u[1]].reloc_desc[u[2]]
                 /\ SamePlace(programs[u[1]], programs'[y[1]])
    <3>1. PICK a \in DOMAIN programs : \E k \in DOMAIN programs[a].reloc_desc : u = <<a, k>>
      BY DescIdxIs
    <3>2. u[1] = a /\ u[2] \in DOMAIN programs[a].reloc_desc
      BY <3>1
    <3>3. PICK m \in DOMAIN programs[a].reloc_desc :
            SortDescs(programs[a].reloc_desc)[m] = programs[a].reloc_desc[u[2]]
      BY <1>6, <3>2
    <3>4. <<a, m>> \in DescIdxs'
      BY <1>8, DescIdxIs
    <3>5. /\ programs'[a].reloc_desc[m] = programs[u[1]].reloc_desc[u[2]]
          /\ SamePlace(programs[u[1]], programs'[a])
      BY <1>5, <3>2, <3>3
    <3>. QED  BY <3>4, <3>5
  <2>. QED  BY <1>1, <2>1 DEF DescsKept
<1>10. AllRecorded(RelocEntries)'
  <2>1. RelocEntries' = RelocEntries
    BY <1>1, SameFile
  <2>2. \A e \in RelocEntries : Described(e)'
    BY <1>3, <1>4, <1>9, DescribedStays DEF AllRecorded
  <2>. QED  BY <1>3, <1>4, <1>8, <2>1, <2>2 DEF AllRecorded
<1>11. RecInv'
  BY <1>1, <1>10 DEF RecInv, BeforeRelos, BeforeMaps, BeforeExterns
<1>. QED  BY <1>2, <1>11 DEF RInv

(***************************************************************************)
(* What changes neither the programs nor what descriptors refer to.        *)
(***************************************************************************)
LEMMA QuietRecorded ==
    ASSUME AllRecorded(RelocEntries), UNCHANGED <<file, programs, maps, externs>>
    PROVE  AllRecorded(RelocEntries)'
<1>1. DescIdxs' = DescIdxs /\ RelocEntries' = RelocEntries
  BY SameFile DEF DescIdxs
<1>2. DescsKept
  BY <1>1 DEF DescsKept, SamePlace
<1>3. \A e \in RelocEntries : Described(e)'
  BY <1>2, DescribedStays DEF AllRecorded
<1>. QED  BY <1>1, <1>3 DEF AllRecorded

LEMMA OpenDoneRecorded ==
    ASSUME RInv, OpenDone
    PROVE  RInv'
<1>1. /\ UNCHANGED <<file, shndx, programs, maps, externs, maps_cap, nr_maps>>
      /\ pc = "relos_done" /\ pc' = "opened"
  BY DEF OpenDone, objvars
<1>2. ShndxInv' /\ TypedMaps' /\ SectsInv'
  BY <1>1, FrameShndx, FrameTyped DEF RInv, SectsInv, BeforeMaps, BeforeExterns
<1>3. RecInv'
  BY <1>1, QuietRecorded DEF RInv, RecInv, BeforeRelos, BeforeMaps, BeforeExterns
<1>. QED  BY <1>2, <1>3 DEF RInv

LEMMA CloseRecorded ==
    ASSUME RInv, Close
    PROVE  RInv'
<1>1. UNCHANGED <<file, shndx>> /\ pc' = "closed" /\ maps_cap' = 0
  BY DEF Close
<1>2. ShndxInv'
  BY <1>1, FrameShndx DEF RInv
<1>. QED  BY <1>1, <1>2 DEF RInv, SectsInv, TypedMaps, RecInv, BeforeRelos, BeforeMaps,
                            BeforeExterns, Scanned

(***************************************************************************)
(* An object that has been opened, or whose opening was refused, only      *)
(* stutters until extract() goes on.                                       *)
(***************************************************************************)
LEMMA StutterRecorded ==
    ASSUME RInv, UNCHANGED vars
    PROVE  RInv'
<1>1. UNCHANGED <<file, pc, i, j, shndx, efile, programs, maps, maps_cap, nr_maps, externs>>
  BY DEF vars, objvars
<1>2. ShndxInv' /\ TypedMaps'
  BY <1>1, FrameShndx, FrameTyped DEF RInv
<1>3. SectsInv'
  BY <1>1, FrameSectsUpTo DEF RInv, SectsInv
<1>4. RelocEntries' = RelocEntries /\ DescIdxs' = DescIdxs /\ Passed' = Passed
  <2>1. RelocEntries' = RelocEntries
    BY <1>1, SameFile
  <2>. QED  BY <1>1, <2>1 DEF DescIdxs, Passed
<1>5. DescsKept
  BY <1>1, <1>4 DEF DescsKept, SamePlace
<1>6. \A e : Described(e) => Described(e)'
  BY <1>5, DescribedStays
<1>7. /\ AllRecorded(Passed) => AllRecorded(Passed)'
      /\ AllRecorded(RelocEntries) => AllRecorded(RelocEntries)'
  BY <1>4, <1>6 DEF AllRecorded
<1>8. Place => Place'
  BY <1>1 DEF Place, Sec, elf
<1>9. RecInv'
  BY <1>1, <1>7, <1>8 DEF RInv, RecInv, NoDescs
<1>. QED  BY <1>2, <1>3, <1>9 DEF RInv

LEMMA OpenRecorded ==
    ASSUME OInv, ShapeInv, KcfgInv, RInv, Open
    PROVE  RInv'
<1>0. HeldInv /\ Counts /\ CtlInv /\ SlotInv /\ CodeInv /\ DescInv /\ Next
  BY DEF OInv, XInv, HeldInv, Open
<1>1. CASE ElfInit \/ FindSymtab
  BY <1>0, <1>1, FirstPassSects
<1>2. CASE CollectSection
  BY <1>0, <1>2, CollectSectionSects
<1>3. CASE AddProgram
  BY <1>0, <1>3, AddProgramSects
<1>4. CASE AddProgramsDone
  BY <1>0, <1>4, AddProgramsDoneSects
<1>5. CASE ElfCollectDone
  BY <1>0, <1>5, ElfCollectDoneSects
<1>6. CASE CollectExtern \/ ExternsDone \/ UserMapsDone \/ UserBtfMapsDone
  BY <1>6, BetweenSteps
<1>7. CASE MapStep
  BY <1>0, <1>7, MapStepRInv
<1>8. CASE InitMapsDone
  BY <1>0, <1>8, InitMapsDoneRecorded
<1>9. CASE CollectReloc
  BY <1>0, <1>9, CollectRelocRecorded
<1>10. CASE NextReloSect
  BY <1>0, <1>10, NextReloSectRecorded
<1>11. CASE SortRelos
  BY <1>0, <1>11, SortRelosRecorded
<1>12. CASE OpenDone
  BY <1>12, OpenDoneRecorded
<1>13. CASE OpenFails
  BY <1>13, CloseRecorded DEF OpenFails
<1>14. CASE Finished
  BY <1>14, StutterRecorded DEF Finished
<1>. QED  BY <1>0, <1>1, <1>2, <1>3, <1>4, <1>5, <1>6, <1>7, <1>8, <1>9, <1>10, <1>11, <1>12,
             <1>13, <1>14 DEF Next, MapStep

(***************************************************************************)
(* The whole invariant of opening.                                         *)
(***************************************************************************)
RecordedInv == OInv /\ ShapeInv /\ KcfgInv /\ (xpc = "open" => RInv)

LEMMA NextRecorded ==
    ASSUME RecordedInv, [XNext]_allvars
    PROVE  RecordedInv'
<1>1. OInv' /\ ShapeInv' /\ KcfgInv'
  BY NextOInv, NextKcfg DEF RecordedInv
<1>2. CASE Open
  <2>1. RInv'
    BY <1>2, OpenRecorded DEF RecordedInv, Open
  <2>. QED  BY <1>1, <2>1 DEF RecordedInv
<1>3. CASE OpenRefused \/ NumberMaps \/ CollectRelosAgain \/ ExtractProgram \/ CloseObject
  <2>1. xpc' # "open"
    BY <1>3 DEF OpenRefused, NumberMaps, CollectRelosAgain, ExtractProgram, CloseObject
  <2>. QED  BY <1>1, <2>1 DEF RecordedInv
<1>4. CASE Done \/ UNCHANGED allvars
  <2>1. UNCHANGED vars /\ xpc' = xpc
    BY <1>4 DEF Done, allvars, xvars
  <2>. QED  BY <1>1, <2>1, StutterRecorded DEF RecordedInv
<1>. QED  BY <1>2, <1>3, <1>4 DEF XNext

LEMMA InitRecorded == XInit => RecordedInv
<1> SUFFICES ASSUME XInit PROVE RecordedInv
  OBVIOUS
<1>1. /\ OInv /\ nr_extern = 0 /\ kconfig_map_idx = -1 /\ pc = "elf_init"
      /\ maps = <<>> /\ maps_cap = 0 /\ i = 0 /\ efile.reloc_sects = <<>> /\ DOMAIN programs = {}
      /\ shndx = [n \in SecNames |-> IF n \in {".text", "symtab"} THEN 0 ELSE -1]
      /\ file \in DOMAIN Elfs
  BY InitOInv DEF XInit, Init
<1>2. ShapeInv
  BY <1>1 DEF ShapeInv
<1>3. KcfgInv
  BY <1>1 DEF KcfgInv, AfterExterns, Scanned
<1>4. ShndxInv
  BY <1>1 DEF ShndxInv, SecNames, DataSecs
<1>5. SectsInv
  <2>1. SectsUpTo(0)
    BY <1>1 DEF SectsUpTo
  <2>. QED  BY <1>1, <2>1 DEF SectsInv, Scanned
<1>6. TypedMaps /\ RecInv
  BY <1>1 DEF TypedMaps, RecInv, NoDescs
<1>. QED  BY <1>1, <1>2, <1>3, <1>4, <1>5, <1>6 DEF RecordedInv, RInv

(***************************************************************************)
(* When bpf_object__open() succeeds, of whatever file, every relocation of *)
(* its code has been recorded, once, in the program that contains the      *)
(* instruction, and resolves to the map, variable, extern or function the  *)
(* symbol names.                                                           *)
(***************************************************************************)
THEOREM RelocsAreRecorded == XSpec => []RelocsRecorded
<1>1. RecordedInv => RelocsRecorded
  <2>1. SUFFICES ASSUME RecordedInv, pc = "opened" PROVE RelocsRecorded
    BY DEF RelocsRecorded
  <2>2. AllRecorded(RelocEntries)
    BY <2>1 DEF RecordedInv, OInv, XInv, CtlInv, RInv, RecInv
  <2>. QED  BY <2>2 DEF AllRecorded, Described, RelocsRecorded
<1>. QED  BY <1>1, InitRecorded, NextRecorded, PTL DEF XSpec
=============================================================================
