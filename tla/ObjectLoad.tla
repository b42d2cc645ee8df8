----------------------------- MODULE ObjectLoad -----------------------------
(***************************************************************************)
(* bpf_object__load_xattr(): create or reuse the maps of an object, load   *)
(* its programs, and undo everything on an error.  Several processes load  *)
(* objects at the same time; they meet in the BPF file system, where maps  *)
(* with a pin path are looked up first and pinned after they are created.  *)
(* Each action is what a process does between two points at which another  *)
(* process can see or change the file system.                              *)
(***************************************************************************)
EXTENDS Naturals, Sequences, FiniteSets

CONSTANTS
    Procs,              \* processes, each with an object it has opened
    Setups,             \* the objects they have opened, a function on Procs
    Paths,              \* paths in the BPF file system
    LogNeed,            \* doublings of the log buffer until the log fits
    Faults              \* whether system calls and allocations may fail

(***************************************************************************)
(* An object: maps, a sequence of [pin (the path of the definition or of   *)
(* bpf_map__set_pin_path(), or "none"), file (the path made of a directory *)
(* and the sanitised name), def (what map_is_reuse_compat() compares), kind*)
(* ("plain", "data", "rodata" or "outer"), preset (whether the application *)
(* called bpf_map__reuse_fd()), slots (indices of the maps in init_slots)];*)
(* progs, a sequence of "load", "reject" (the verifier refuses it), "skip" *)
(* (autoload is off) and "subprog"; progFile, a path for each program; and *)
(* calls, how many pinning calls the application makes.                    *)
(***************************************************************************)
ASSUME ObjectsAssumption ==
    \A o \in UNION {{setup[p] : p \in Procs} : setup \in Setups} :
      /\ Len(o.maps) \in Nat /\ DOMAIN o.maps = 1 .. Len(o.maps)
      /\ Len(o.progs) \in Nat /\ DOMAIN o.progs = 1 .. Len(o.progs)
      /\ \A m \in DOMAIN o.maps :
           /\ o.maps[m].pin \in Paths \cup {"none"} /\ o.maps[m].file \in Paths
           /\ o.maps[m].slots \in Seq(DOMAIN o.maps)
           /\ o.maps[m].preset \in BOOLEAN
      /\ \A j \in DOMAIN o.progs : o.progs[j] \in {"load", "reject", "skip", "subprog"}
      /\ o.progFile \in [DOMAIN o.progs -> Paths] /\ o.calls \in Nat

\* The names of the model that are no path and no process.
ASSUME NamesAssumption == "none" \notin Paths /\ "nobody" \notin Procs

VARIABLES
    obj,                \* obj[p]: the object process p has opened
    pc,                 \* pc[p]: where bpf_object__load_xattr() is
    i,                  \* i[p]: loop counter
    maps,               \* maps[p][m]: [fd, pinned, reused] of struct bpf_map
    held,               \* held[p]: other descriptors process p has open
    log,                \* log[p]: 0 without a log buffer, else its doublings + 1
    kernel,             \* kernel maps created: id -> [def, data, frozen, slots]
    bpffs               \* bpffs[path]: id of what is pinned there, or NoMap

pvars == <<i, maps, held, log>>
loadvars == <<obj, pc, pvars, kernel, bpffs>>

NoMap == <<>>
\* Map m of the object of process p, as the kernel map it becomes.
Id(p, m) == <<p, m>>
\* A map the application got from somewhere else.
PresetId(p, m) == <<p, m, "preset">>

Def(p, m) == obj[p].maps[m]

\* map_is_reuse_compat(): a program, or a map made elsewhere, never matches.
ReuseCompat(p, m, id) == id \in DOMAIN kernel /\ kernel[id].def = Def(p, m).def

LoadInit ==
    /\ obj \in Setups
    /\ pc = [p \in Procs |-> "open"] /\ i = [p \in Procs |-> 1]
    /\ maps = [p \in Procs |-> [m \in DOMAIN obj[p].maps |->
         [fd |-> IF Def(p, m).preset THEN PresetId(p, m) ELSE NoMap,
          pinned |-> FALSE, reused |-> Def(p, m).preset]]]
    /\ held = [p \in Procs |-> {}] /\ log = [p \in Procs |-> 0]
    /\ kernel = <<>>
    /\ bpffs = [path \in Paths |-> NoMap]

Goto(p, l) == pc' = [pc EXCEPT ![p] = l]
SetI(p, n) == i' = [i EXCEPT ![p] = n]
SetMap(p, m, r) == maps' = [maps EXCEPT ![p][m] = r]
Map(p) == maps[p][i[p]]
Cur(p) == Def(p, i[p])

\* goto out of bpf_object__load_xattr()
Out(p) == Goto(p, "unpin") /\ SetI(p, 1)

-----------------------------------------------------------------------------
(***************************************************************************)
(* bpf_object__probe_loading() ... bpf_object__init_kern_struct_ops_maps():*)
(* the BTF of the object gets a descriptor; each of them may fail.         *)
(***************************************************************************)
Prepare(p) ==
    /\ pc[p] = "open"
    /\ held' = [held EXCEPT ![p] = @ \cup {<<"btf">>}]
    /\ Goto(p, "maps") /\ SetI(p, 1)
    /\ UNCHANGED <<obj, maps, log, kernel, bpffs>>

PrepareFails(p) ==
    /\ Faults /\ pc[p] = "open" /\ Out(p)
    /\ UNCHANGED <<obj, maps, held, log, kernel, bpffs>>

-----------------------------------------------------------------------------
(***************************************************************************)
(* bpf_object__create_maps().  err_out closes the maps before the one that *)
(* failed; own says what becomes of that one.                              *)
(***************************************************************************)
InMaps(p, l) == pc[p] = l /\ i[p] <= Len(obj[p].maps)

CreateErrOut(p, own) ==
    /\ maps' = [maps EXCEPT ![p] = [m \in DOMAIN @ |->
         IF m < i[p] THEN [@[m] EXCEPT !.fd = NoMap]
         ELSE IF m = i[p] THEN own ELSE @[m]]]
    /\ Out(p)

Closed(r) == [r EXCEPT !.fd = NoMap]

\* bpf_object__reuse_map(): nothing pinned there yet, or no pin path.
NothingToReuse(p) ==
    /\ InMaps(p, "maps")
    /\ Cur(p).pin # "none" => bpffs[Cur(p).pin] = NoMap
    /\ Goto(p, "create")
    /\ UNCHANGED <<obj, pvars, kernel, bpffs>>

\* faulty variant: the parameters are not compared
ReuseAnyMap(p) ==
    /\ InMaps(p, "maps") /\ Cur(p).pin # "none" /\ bpffs[Cur(p).pin] # NoMap
    /\ SetMap(p, i[p], [fd |-> bpffs[Cur(p).pin], pinned |-> TRUE, reused |-> TRUE])
    /\ held' = [held EXCEPT ![p] = @ \cup {<<"pin_fd", i[p]>>}]
    /\ Goto(p, "create")
    /\ UNCHANGED <<obj, i, log, kernel, bpffs>>

\* A compatible map is pinned: bpf_map__reuse_fd() duplicates its descriptor,
\* and pin_fd stays open.
ReuseMap(p) ==
    /\ InMaps(p, "maps") /\ Cur(p).pin # "none" /\ bpffs[Cur(p).pin] # NoMap
    /\ ReuseCompat(p, i[p], bpffs[Cur(p).pin])
    /\ SetMap(p, i[p], [fd |-> bpffs[Cur(p).pin], pinned |-> TRUE, reused |-> TRUE])
    /\ held' = [held EXCEPT ![p] = @ \cup {<<"pin_fd", i[p]>>}]
    /\ Goto(p, "create")
    /\ UNCHANGED <<obj, i, log, kernel, bpffs>>

\* Parameter mismatch, or a call fails.  A dup3() that fails overwrites the
\* only record of the descriptor opened for it.
ReuseFails(p) ==
    /\ InMaps(p, "maps") /\ Cur(p).pin # "none"
    /\ \/ /\ bpffs[Cur(p).pin] # NoMap /\ ~ReuseCompat(p, i[p], bpffs[Cur(p).pin])
          /\ UNCHANGED held
       \/ Faults /\ UNCHANGED held
       \/ /\ Faults /\ bpffs[Cur(p).pin] # NoMap
          /\ held' = [held EXCEPT ![p] = @ \cup {<<"dup_fd", i[p]>>}]
    /\ CreateErrOut(p, Map(p))
    /\ UNCHANGED <<obj, log, kernel, bpffs>>

SkipCreation(p) ==
    /\ InMaps(p, "create") /\ Map(p).fd # NoMap
    /\ Goto(p, "pin")
    /\ UNCHANGED <<obj, pvars, kernel, bpffs>>

\* bpf_object__create_map(): the map, after a retry without BTF if need be;
\* an inner map is created first and destroyed once the outer map exists.
CreateMap(p) ==
    /\ InMaps(p, "create") /\ Map(p).fd = NoMap
    /\ kernel' = [id \in DOMAIN kernel \cup {Id(p, i[p])} |->
         IF id = Id(p, i[p])
         THEN [def |-> Cur(p).def, data |-> FALSE, frozen |-> FALSE, slots |-> <<>>]
         ELSE kernel[id]]
    /\ SetMap(p, i[p], [Map(p) EXCEPT !.fd = Id(p, i[p])])
    /\ Goto(p, "fill")
    /\ UNCHANGED <<obj, i, held, log, bpffs>>

\* The inner map stays open until the object is closed.
CreateFails(p) ==
    /\ Faults /\ InMaps(p, "create") /\ Map(p).fd = NoMap
    /\ held' = IF Cur(p).kind = "outer"
               THEN [held EXCEPT ![p] = @ \cup {<<"inner", i[p]>>}] ELSE held
    /\ CreateErrOut(p, Map(p))
    /\ UNCHANGED <<obj, log, kernel, bpffs>>

\* faulty variant: slots are not filled
FillNoSlots(p) ==
    /\ InMaps(p, "fill")
    /\ \A s \in DOMAIN Cur(p).slots : maps[p][Cur(p).slots[s]].fd # NoMap
    /\ kernel' = [kernel EXCEPT ![Map(p).fd] =
         [@ EXCEPT !.data = Cur(p).kind \in {"data", "rodata"},
                   !.frozen = Cur(p).kind = "rodata"]]
    /\ Goto(p, "pin")
    /\ UNCHANGED <<obj, pvars, bpffs>>

\* bpf_object__populate_internal_map() and init_map_slots(): a slot takes the
\* descriptor its target map has now.
Fill(p) ==
    /\ InMaps(p, "fill")
    /\ \A s \in DOMAIN Cur(p).slots : maps[p][Cur(p).slots[s]].fd # NoMap
    /\ kernel' = [kernel EXCEPT ![Map(p).fd] =
         [@ EXCEPT !.data = Cur(p).kind \in {"data", "rodata"},
                   !.frozen = Cur(p).kind = "rodata",
                   !.slots = [s \in DOMAIN Cur(p).slots |-> maps[p][Cur(p).slots[s]].fd]]]
    /\ Goto(p, "pin")
    /\ UNCHANGED <<obj, pvars, bpffs>>

\* A call fails, or a slot's target has no descriptor yet.
FillFails(p) ==
    /\ InMaps(p, "fill")
    /\ \/ \E s \in DOMAIN Cur(p).slots : maps[p][Cur(p).slots[s]].fd = NoMap
       \/ Faults /\ (Cur(p).kind \in {"data", "rodata"} \/ Cur(p).slots # <<>>)
    /\ CreateErrOut(p, Closed(Map(p)))
    /\ UNCHANGED <<obj, held, log, kernel, bpffs>>

\* bpf_map__pin(map, NULL)
ToPin(p) == Cur(p).pin # "none" /\ ~Map(p).pinned

AutoPin(p) ==
    /\ InMaps(p, "pin") /\ ToPin(p) /\ bpffs[Cur(p).pin] = NoMap
    /\ bpffs' = [bpffs EXCEPT ![Cur(p).pin] = Map(p).fd]
    /\ SetMap(p, i[p], [Map(p) EXCEPT !.pinned = TRUE])
    /\ Goto(p, "maps") /\ SetI(p, i[p] + 1)
    /\ UNCHANGED <<obj, held, log, kernel>>

\* faulty variant: a map that is there already is taken for ours
AutoPinExisting(p) ==
    /\ InMaps(p, "pin") /\ ToPin(p) /\ bpffs[Cur(p).pin] # NoMap
    /\ SetMap(p, i[p], [Map(p) EXCEPT !.pinned = TRUE])
    /\ Goto(p, "maps") /\ SetI(p, i[p] + 1)
    /\ UNCHANGED <<obj, held, log, kernel, bpffs>>

\* Another process was faster (EEXIST), or the call fails.
AutoPinFails(p) ==
    /\ InMaps(p, "pin") /\ ToPin(p)
    /\ Faults \/ bpffs[Cur(p).pin] # NoMap
    /\ CreateErrOut(p, Closed(Map(p)))
    /\ UNCHANGED <<obj, held, log, kernel, bpffs>>

NoPin(p) ==
    /\ InMaps(p, "pin") /\ ~ToPin(p)
    /\ Goto(p, "maps") /\ SetI(p, i[p] + 1)
    /\ UNCHANGED <<obj, maps, held, log, kernel, bpffs>>

\* bpf_object__relocate()
Relocate(p) ==
    /\ pc[p] = "maps" /\ i[p] > Len(obj[p].maps)
    /\ \/ Goto(p, "progs") /\ SetI(p, 1)
       \/ Faults /\ Out(p)
    /\ UNCHANGED <<obj, maps, held, log, kernel, bpffs>>

-----------------------------------------------------------------------------
(***************************************************************************)
(* bpf_object__load_progs(), bpf_program__load(), load_program().          *)
(***************************************************************************)
InProgs(p, kinds) ==
    pc[p] = "progs" /\ i[p] <= Len(obj[p].progs) /\ obj[p].progs[i[p]] \in kinds

SkipProg(p) ==
    /\ InProgs(p, {"skip", "subprog"})
    /\ SetI(p, i[p] + 1)
    /\ UNCHANGED <<obj, pc, maps, held, log, kernel, bpffs>>

LoadProg(p) ==
    /\ InProgs(p, {"load"})
    /\ held' = [held EXCEPT ![p] = @ \cup {<<"prog", i[p]>>}]
    /\ log' = [log EXCEPT ![p] = 0] /\ SetI(p, i[p] + 1)
    /\ UNCHANGED <<obj, pc, maps, kernel, bpffs>>

\* faulty variant: the buffer that was too small is dropped, not doubled
RetryLoadAfresh(p) ==
    /\ InProgs(p, {"load", "reject"})
    /\ log[p] = 0 \/ log[p] < LogNeed
    /\ log' = [log EXCEPT ![p] = IF @ = 0 THEN 1 ELSE 0]
    /\ UNCHANGED <<obj, pc, i, maps, held, kernel, bpffs>>

\* The first attempt has no log buffer; after that ENOSPC doubles it.
RetryLoad(p) ==
    /\ InProgs(p, {"load", "reject"})
    /\ log[p] = 0 \/ log[p] < LogNeed
    /\ log' = [log EXCEPT ![p] = @ + 1]
    /\ UNCHANGED <<obj, pc, i, maps, held, kernel, bpffs>>

\* malloc() of the log fails, or the kernel rejects the program for good.
LoadProgFails(p) ==
    /\ InProgs(p, {"load", "reject"}) /\ log[p] > 0
    /\ Faults \/ (obj[p].progs[i[p]] = "reject" /\ log[p] >= LogNeed)
    /\ log' = [log EXCEPT ![p] = 0]
    /\ Out(p)
    /\ UNCHANGED <<obj, maps, held, kernel, bpffs>>

Loaded(p) ==
    /\ pc[p] = "progs" /\ i[p] > Len(obj[p].progs)
    /\ Goto(p, "loaded")
    /\ UNCHANGED <<obj, pvars, kernel, bpffs>>

-----------------------------------------------------------------------------
(***************************************************************************)
(* The error path: bpf_map__unpin() on each map pinned by this load, then  *)
(* bpf_object__unload().  unlink() of a pin that exists succeeds; one that *)
(* is gone leaves the map marked as pinned.                                *)
(***************************************************************************)
\* faulty variant: maps that were only reused are unpinned too
UnpinReused(p) ==
    /\ InMaps(p, "unpin")
    /\ LET undo == Map(p).pinned /\ bpffs[Cur(p).pin] # NoMap IN
         /\ bpffs' = IF undo THEN [bpffs EXCEPT ![Cur(p).pin] = NoMap] ELSE bpffs
         /\ SetMap(p, i[p], [Map(p) EXCEPT !.pinned = @ /\ ~undo])
    /\ SetI(p, i[p] + 1)
    /\ UNCHANGED <<obj, pc, held, log, kernel>>

Unpin(p) ==
    /\ InMaps(p, "unpin")
    /\ LET undo == /\ Map(p).pinned /\ ~Map(p).reused
                   /\ bpffs[Cur(p).pin] # NoMap IN
         /\ bpffs' = IF undo THEN [bpffs EXCEPT ![Cur(p).pin] = NoMap] ELSE bpffs
         /\ SetMap(p, i[p], [Map(p) EXCEPT !.pinned = @ /\ ~undo])
    /\ SetI(p, i[p] + 1)
    /\ UNCHANGED <<obj, pc, held, log, kernel>>

\* faulty variant: programs loaded before the one that failed stay open
UnloadMapsOnly(p) ==
    /\ maps' = [maps EXCEPT ![p] = [m \in DOMAIN @ |-> Closed(@[m])]]
    /\ UNCHANGED held

\* bpf_object__unload()
Unload(p) ==
    /\ maps' = [maps EXCEPT ![p] = [m \in DOMAIN @ |-> Closed(@[m])]]
    /\ held' = [held EXCEPT ![p] = {d \in @ : d[1] # "prog"}]

Failed(p) ==
    /\ pc[p] = "unpin" /\ i[p] > Len(obj[p].maps)
    /\ Unload(p) /\ Goto(p, "failed")
    /\ UNCHANGED <<obj, i, log, kernel, bpffs>>

\* bpf_object__close(): unload, then the BTF and what inner maps are left.
Close(p) ==
    /\ pc[p] \in {"loaded", "failed"}
    /\ maps' = [maps EXCEPT ![p] = [m \in DOMAIN @ |-> Closed(@[m])]]
    /\ held' = [held EXCEPT ![p] =
         {d \in @ : d[1] \notin {"prog", "btf", "inner"}}]
    /\ Goto(p, IF pc[p] = "loaded" THEN "closed_loaded" ELSE "closed_failed")
    /\ UNCHANGED <<obj, i, log, kernel, bpffs>>

LoadStep(p) ==
    \/ Prepare(p) \/ PrepareFails(p)
    \/ NothingToReuse(p) \/ ReuseMap(p) \/ ReuseFails(p)
    \/ SkipCreation(p) \/ CreateMap(p) \/ CreateFails(p) \/ Fill(p) \/ FillFails(p)
    \/ AutoPin(p) \/ AutoPinFails(p) \/ NoPin(p) \/ Relocate(p)
    \/ SkipProg(p) \/ LoadProg(p) \/ RetryLoad(p) \/ LoadProgFails(p) \/ Loaded(p)
    \/ Unpin(p) \/ Failed(p)

-----------------------------------------------------------------------------
Ended == {"loaded", "failed", "closed_loaded", "closed_failed"}

(***************************************************************************)
(* A map becomes visible to other processes only once it is complete: what *)
(* is pinned has its initial contents, is frozen if it is read-only, and   *)
(* its slots lead to the maps they name.                                   *)
(***************************************************************************)
Complete(p, m, id) ==
    /\ kernel[id].data = (Def(p, m).kind \in {"data", "rodata"})
    /\ kernel[id].frozen = (Def(p, m).kind = "rodata")
    /\ Len(kernel[id].slots) = Len(Def(p, m).slots)

PinnedMapsComplete ==
    \A path \in Paths : bpffs[path] \in DOMAIN kernel =>
      Complete(bpffs[path][1], bpffs[path][2], bpffs[path])

(***************************************************************************)
(* When bpf_object__load() succeeds, every map has a descriptor, of a map  *)
(* with the parameters asked for; every map it created is complete and its *)
(* slots lead to the object's own maps.                                    *)
(***************************************************************************)
LoadedMapsReady ==
    \A p \in Procs : pc[p] = "loaded" =>
      \A m \in DOMAIN maps[p] :
        LET id == maps[p][m].fd IN
        /\ id # NoMap
        /\ id \in DOMAIN kernel => kernel[id].def = Def(p, m).def
        /\ id = Id(p, m) =>
             /\ Complete(p, m, id)
             /\ \A s \in DOMAIN Def(p, m).slots :
                  kernel[id].slots[s] = maps[p][Def(p, m).slots[s]].fd

(***************************************************************************)
(* After a failed load and after bpf_object__close() the only descriptors  *)
(* left open are the two that bpf_object__reuse_map() forgets: pin_fd of a *)
(* map that was reused, and the target of a dup3() that failed.            *)
(***************************************************************************)
OnlyReuseLeaks ==
    \A p \in Procs :
      /\ pc[p] = "failed" => \A m \in DOMAIN maps[p] : maps[p][m].fd = NoMap
      /\ pc[p] = "failed" =>
           \A d \in held[p] : d[1] \in {"pin_fd", "dup_fd", "inner", "btf"}
      /\ pc[p] \in {"closed_loaded", "closed_failed"} =>
           \A d \in held[p] : d[1] \in {"pin_fd", "dup_fd"} /\ Def(p, d[2]).pin # "none"

=============================================================================
