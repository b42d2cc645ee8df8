----------------------------- MODULE PinObject -----------------------------
(***************************************************************************)
(* Pinning, on top of loading: once its load has ended the application     *)
(* calls bpf_object__pin(), pin_maps(), pin_programs() and the unpinning   *)
(* calls, with a directory or (for maps) with NULL.  Each call walks over  *)
(* maps or programs, one system call on the BPF file system per step, and  *)
(* a pinning call that fails walks back.  Other processes load, pin and    *)
(* unpin between the steps.  Programs have one instance.                   *)
(***************************************************************************)
EXTENDS ObjectLoad

VARIABLES
    pinPath,            \* pinPath[p][m]: map->pin_path, or "none"
    call,               \* call[p]: the call process p is in, or NoCall
    ncalls,             \* ncalls[p]: calls begun
    failed,             \* failed[p]: pinning calls that have returned an error
    by,                 \* history: by[path], the process and call that pinned it
    unlinked,           \* history: paths where something has been unlinked
    stolen              \* history: somebody has unlinked a pin that is another's

pinvars == <<pinPath, call, ncalls, failed>>
vars == <<loadvars, pinvars, by, unlinked, stolen>>

NoCall == [phase |-> "none", k |-> 0, dir |-> FALSE, all |-> FALSE]
Nobody == <<"nobody">>

Init ==
    /\ LoadInit
    /\ pinPath = [p \in Procs |-> [m \in DOMAIN obj[p].maps |-> Def(p, m).pin]]
    /\ call = [p \in Procs |-> NoCall]
    /\ ncalls = [p \in Procs |-> 0]
    /\ failed = [p \in Procs |-> {}]
    /\ by = [path \in Paths |-> Nobody]
    /\ unlinked = {} /\ stolen = FALSE

\* The map that process p may be unpinning, 0 if none.
Unpinning(p) ==
    IF pc[p] = "unpin" THEN i[p]
    ELSE IF call[p].phase \in {"undo_maps", "unpin_maps"} THEN call[p].k ELSE 0

\* What is at this path was pinned by another process, or is the pin of a map
\* other than the one process p is unpinning.
Foreign(p, path) ==
    \/ by[path][1] # p
    \/ \E q \in Procs : \E m \in DOMAIN maps[q] :
         <<q, m>> # <<p, Unpinning(p)>> /\ maps[q][m].pinned /\ pinPath[q][m] = path

\* The history of a step of process p.
Witness(p) ==
    /\ by' = [path \in Paths |->
         IF bpffs'[path] = bpffs[path] THEN by[path]
         ELSE IF bpffs'[path] = NoMap THEN Nobody ELSE <<p, ncalls[p]>>]
    /\ LET gone == {path \in Paths : bpffs[path] # NoMap /\ bpffs'[path] = NoMap} IN
         /\ unlinked' = unlinked \cup gone
         /\ stolen' = (stolen \/ \E path \in gone : Foreign(p, path))

Set(p, c) == call' = [call EXCEPT ![p] = c]
Advance(p) == Set(p, [call[p] EXCEPT !.k = @ + 1])
Back(p) == Set(p, [call[p] EXCEPT !.k = @ - 1])
GoTo(p, ph, k) == Set(p, [call[p] EXCEPT !.phase = ph, !.k = k])
Return(p) == Set(p, NoCall)
ReturnError(p) == Return(p) /\ failed' = [failed EXCEPT ![p] = @ \cup {ncalls[p]}]

K(p) == call[p].k
NMaps(p) == Len(obj[p].maps)
NProgs(p) == Len(obj[p].progs)
In(p, ph, last) == call[p].phase = ph /\ K(p) \in 1..last

Free(path) == bpffs[path] = NoMap
Link(path, id) == bpffs' = [bpffs EXCEPT ![path] = id]
Unlink(path) == bpffs' = [bpffs EXCEPT ![path] = NoMap]

-----------------------------------------------------------------------------
(***************************************************************************)
(* The calls.  obj->loaded is set whether or not the load succeeded.       *)
(***************************************************************************)
Begin(p, phase, dir, all) ==
    /\ pc[p] \in {"loaded", "failed"} /\ call[p] = NoCall
    /\ ncalls[p] < obj[p].calls
    /\ ncalls' = [ncalls EXCEPT ![p] = @ + 1]
    /\ Set(p, [phase |-> phase, k |-> 1, dir |-> dir, all |-> all])
    /\ UNCHANGED <<loadvars, pinPath, failed>>

PinMaps(p) == \E dir \in BOOLEAN : Begin(p, "pin_maps", dir, FALSE)
UnpinMaps(p) == \E dir \in BOOLEAN : Begin(p, "unpin_maps", dir, FALSE)
PinPrograms(p) == Begin(p, "pin_progs", TRUE, FALSE)
UnpinPrograms(p) == Begin(p, "unpin_progs", TRUE, FALSE)
Pin(p) == Begin(p, "pin_maps", TRUE, TRUE)

-----------------------------------------------------------------------------
(***************************************************************************)
(* bpf_map__pin() on map k of the object.                                  *)
(***************************************************************************)
\* The path a call names for map m, "none" for NULL.
Named(p, m) == IF call[p].dir THEN Def(p, m).file ELSE "none"
Mismatch(p, m) == Named(p, m) # "none" /\ pinPath[p][m] \notin {"none", Named(p, m)}
Target(p, m) == IF pinPath[p][m] = "none" THEN Named(p, m) ELSE pinPath[p][m]

\* With NULL a map without a pin path is passed over.
PassOver(p) == ~call[p].dir /\ pinPath[p][K(p)] = "none"

MapPinned(p) ==
    /\ In(p, "pin_maps", NMaps(p))
    /\ PassOver(p) \/ (maps[p][K(p)].pinned /\ ~Mismatch(p, K(p)))
    /\ Advance(p)
    /\ UNCHANGED <<loadvars, pinPath, ncalls, failed>>

PinMap(p) ==
    /\ In(p, "pin_maps", NMaps(p)) /\ ~PassOver(p)
    /\ ~Mismatch(p, K(p)) /\ ~maps[p][K(p)].pinned
    /\ maps[p][K(p)].fd # NoMap /\ Free(Target(p, K(p)))
    /\ pinPath' = [pinPath EXCEPT ![p][K(p)] = Target(p, K(p))]
    /\ Link(Target(p, K(p)), maps[p][K(p)].fd)
    /\ SetMap(p, K(p), [maps[p][K(p)] EXCEPT !.pinned = TRUE])
    /\ Advance(p)
    /\ UNCHANGED <<obj, pc, i, held, log, kernel, ncalls, failed>>

\* The path differs; or the call fails, which leaves the path recorded unless
\* it was memory for the path that was missing.
PinMapFails(p) ==
    /\ In(p, "pin_maps", NMaps(p)) /\ ~PassOver(p)
    /\ \/ Mismatch(p, K(p)) /\ UNCHANGED pinPath
       \/ /\ ~Mismatch(p, K(p)) /\ ~maps[p][K(p)].pinned
          /\ Faults \/ maps[p][K(p)].fd = NoMap \/ ~Free(Target(p, K(p)))
          /\ pinPath' = [pinPath EXCEPT ![p][K(p)] = Target(p, K(p))]
       \/ Faults /\ ~maps[p][K(p)].pinned /\ UNCHANGED pinPath
    /\ GoTo(p, "undo_maps", K(p) - 1)
    /\ UNCHANGED <<loadvars, ncalls, failed>>

\* faulty variant: map->pinned is not reset
UnpinMapKeepingFlag(p, m) == Unlink(Target(p, m)) /\ UNCHANGED maps

\* bpf_map__unpin() of a path that exists
UnpinMap(p, m) ==
    /\ Unlink(Target(p, m))
    /\ SetMap(p, m, [maps[p][m] EXCEPT !.pinned = FALSE])

\* faulty variant: the walk back starts at the map before the last one pinned
UndoMapsShort(p) ==
    /\ In(p, "undo_maps", NMaps(p))
    /\ IF pinPath[p][K(p)] # "none" /\ ~Free(pinPath[p][K(p)]) /\ K(p) > 1
       THEN UnpinMap(p, K(p)) ELSE UNCHANGED <<maps, bpffs>>
    /\ Back(p)
    /\ UNCHANGED <<obj, pc, i, held, log, kernel, pinPath, ncalls, failed>>

\* err_unpin_maps: each earlier map that has a pin path, errors ignored
UndoMaps(p) ==
    /\ In(p, "undo_maps", NMaps(p))
    /\ IF pinPath[p][K(p)] # "none" /\ ~Free(pinPath[p][K(p)])
       THEN UnpinMap(p, K(p)) ELSE UNCHANGED <<maps, bpffs>>
    /\ Back(p)
    /\ UNCHANGED <<obj, pc, i, held, log, kernel, pinPath, ncalls, failed>>

MapsUndone(p) ==
    /\ call[p].phase = "undo_maps" /\ K(p) = 0
    /\ ReturnError(p)
    /\ UNCHANGED <<loadvars, pinPath, ncalls>>

MapsPinned(p) ==
    /\ call[p].phase = "pin_maps" /\ K(p) > NMaps(p)
    /\ IF call[p].all THEN GoTo(p, "pin_progs", 1) ELSE Return(p)
    /\ UNCHANGED <<loadvars, pinPath, ncalls, failed>>

-----------------------------------------------------------------------------
(***************************************************************************)
(* bpf_object__unpin_maps(), also after bpf_object__pin() has failed with  *)
(* the programs.  It stops at the first error.                             *)
(***************************************************************************)
UnpinNext(p) ==
    /\ In(p, "unpin_maps", NMaps(p))
    /\ IF PassOver(p) THEN UNCHANGED <<maps, bpffs>>
       ELSE /\ ~Mismatch(p, K(p)) /\ ~Free(Target(p, K(p)))
            /\ UnpinMap(p, K(p))
    /\ Advance(p)
    /\ UNCHANGED <<obj, pc, i, held, log, kernel, pinPath, ncalls, failed>>

UnpinMapsEnds(p) ==
    /\ call[p].phase = "unpin_maps"
    /\ K(p) \in DOMAIN obj[p].maps =>
         /\ ~PassOver(p)
         /\ Mismatch(p, K(p)) \/ Free(Target(p, K(p)))
    /\ IF call[p].all THEN ReturnError(p) ELSE Return(p) /\ UNCHANGED failed
    /\ UNCHANGED <<loadvars, pinPath, ncalls>>

-----------------------------------------------------------------------------
(***************************************************************************)
(* Programs: bpf_program__pin() and bpf_program__unpin(), which want a     *)
(* loaded program.  Sub-programs are passed over.                          *)
(***************************************************************************)
ProgId(p, j) == <<p, j, "prog">>
HasInstance(p, j) == <<"prog", j>> \in held[p]
File(p, j) == obj[p].progFile[j]
SubProg(p, j) == obj[p].progs[j] = "subprog"

PassOverProg(p) ==
    /\ \E ph \in {"pin_progs", "unpin_progs"} : In(p, ph, NProgs(p))
    /\ SubProg(p, K(p)) /\ Advance(p)
    /\ UNCHANGED <<loadvars, pinPath, ncalls, failed>>

PinProg(p) ==
    /\ In(p, "pin_progs", NProgs(p)) /\ ~SubProg(p, K(p))
    /\ HasInstance(p, K(p)) /\ Free(File(p, K(p)))
    /\ Link(File(p, K(p)), ProgId(p, K(p)))
    /\ Advance(p)
    /\ UNCHANGED <<obj, pc, pvars, kernel, pinPath, ncalls, failed>>

PinProgFails(p) ==
    /\ In(p, "pin_progs", NProgs(p)) /\ ~SubProg(p, K(p))
    /\ Faults \/ ~HasInstance(p, K(p)) \/ ~Free(File(p, K(p)))
    /\ GoTo(p, "undo_progs", K(p) - 1)
    /\ UNCHANGED <<loadvars, pinPath, ncalls, failed>>

\* err_unpin_programs
UndoProgs(p) ==
    /\ In(p, "undo_progs", NProgs(p))
    /\ IF ~SubProg(p, K(p)) /\ HasInstance(p, K(p)) /\ ~Free(File(p, K(p)))
       THEN Unlink(File(p, K(p))) ELSE UNCHANGED bpffs
    /\ Back(p)
    /\ UNCHANGED <<obj, pc, pvars, kernel, pinPath, ncalls, failed>>

ProgsUndone(p) ==
    /\ call[p].phase = "undo_progs" /\ K(p) = 0
    /\ IF call[p].all THEN GoTo(p, "unpin_maps", 1) /\ UNCHANGED failed
       ELSE ReturnError(p)
    /\ UNCHANGED <<loadvars, pinPath, ncalls>>

UnpinProg(p) ==
    /\ In(p, "unpin_progs", NProgs(p)) /\ ~SubProg(p, K(p))
    /\ HasInstance(p, K(p)) /\ ~Free(File(p, K(p)))
    /\ Unlink(File(p, K(p)))
    /\ Advance(p)
    /\ UNCHANGED <<obj, pc, pvars, kernel, pinPath, ncalls, failed>>

\* The end of the list, or of unpinning at the first error.
ProgsEnd(p) ==
    /\ \/ call[p].phase \in {"pin_progs", "unpin_progs"} /\ K(p) > NProgs(p)
       \/ /\ In(p, "unpin_progs", NProgs(p)) /\ ~SubProg(p, K(p))
          /\ ~HasInstance(p, K(p)) \/ Free(File(p, K(p)))
    /\ Return(p)
    /\ UNCHANGED <<loadvars, pinPath, ncalls, failed>>

-----------------------------------------------------------------------------
PinStep(p) ==
    \/ MapPinned(p) \/ PinMap(p) \/ PinMapFails(p) \/ UndoMaps(p) \/ MapsUndone(p)
    \/ MapsPinned(p) \/ UnpinNext(p) \/ UnpinMapsEnds(p)
    \/ PassOverProg(p) \/ PinProg(p) \/ PinProgFails(p) \/ UndoProgs(p)
    \/ ProgsUndone(p) \/ UnpinProg(p) \/ ProgsEnd(p)

Calls(p) == PinMaps(p) \/ UnpinMaps(p) \/ PinPrograms(p) \/ UnpinPrograms(p) \/ Pin(p)

\* A process is in one call at a time.
Step(p) ==
    /\ \/ LoadStep(p) /\ UNCHANGED pinvars
       \/ PinStep(p)
    /\ Witness(p)

App(p) ==
    /\ \/ Calls(p)
       \/ call[p] = NoCall /\ Close(p) /\ UNCHANGED pinvars
    /\ Witness(p)

Finished ==
    /\ \A p \in Procs : pc[p] \in {"closed_loaded", "closed_failed"}
    /\ UNCHANGED vars

Next == (\E p \in Procs : Step(p) \/ App(p)) \/ Finished

Spec == Init /\ [][Next]_vars

\* The C library calls are synchronous: a call that has begun goes on.
FairSpec == Spec /\ \A p \in Procs : WF_vars(Step(p))

-----------------------------------------------------------------------------
(***************************************************************************)
(* Objects that are loaded with maps of the same pin path share one map,   *)
(* however their loads interleaved, unless something was unlinked there:   *)
(* by an unpinning call, by a failed one, or by a load that failed.        *)
(***************************************************************************)
MapsShared ==
    \A p, q \in {r \in Procs : pc[r] = "loaded"} :
      \A m \in DOMAIN maps[p], n \in DOMAIN maps[q] :
        /\ Def(p, m).pin # "none" /\ Def(p, m).pin = Def(q, n).pin
        /\ Def(p, m).pin \notin unlinked
        => maps[p][m].fd = maps[q][n].fd

(***************************************************************************)
(* A map with map->pinned set is pinned, at map->pin_path, as long as      *)
(* nobody has unlinked a pin that is another's.                            *)
(***************************************************************************)
PinnedFlagsTrue ==
    ~stolen => \A p \in Procs : \A m \in DOMAIN maps[p] :
      maps[p][m].fd # NoMap /\ maps[p][m].pinned =>
        pinPath[p][m] # "none" /\ bpffs[pinPath[p][m]] = maps[p][m].fd

(***************************************************************************)
(* bpf_object__pin(), pin_maps() and pin_programs() that return an error   *)
(* leave nothing pinned that the call had pinned, wherever it failed, as   *)
(* long as nobody has unlinked a pin that is another's.                    *)
(***************************************************************************)
FailedPinUndone ==
    ~stolen => \A p \in Procs : \A n \in failed[p] :
      \A path \in Paths : by[path] # <<p, n>>

(***************************************************************************)
(* Loads are atomic on the BPF file system: each implements AtomicLoad.    *)
(***************************************************************************)
Atomic == INSTANCE AtomicLoad WITH
    Nobody <- "nobody",
    status <- [p \in Procs |->
      CASE pc[p] \in {"loaded", "closed_loaded"} -> "loaded"
        [] pc[p] \in {"failed", "closed_failed"} -> "failed"
        [] OTHER -> "opened"],
    mine <- [p \in Procs |->
      IF pc[p] \in Ended THEN {}
      ELSE {Def(p, m).pin : m \in {n \in DOMAIN maps[p] :
                                     maps[p][n].pinned /\ ~maps[p][n].reused}}],
    owner <- [path \in Paths |-> by[path][1]]
LoadIsAtomic == Atomic!AtomicSpec

(***************************************************************************)
(* Every call ends: loads with their retries, and walks over the BPF file  *)
(* system whatever the other processes do there meanwhile.                 *)
(***************************************************************************)
CallsEnd ==
    \A p \in Procs :
      /\ <>(pc[p] \in Ended)
      /\ call[p] # NoCall ~> call[p] = NoCall

=============================================================================
