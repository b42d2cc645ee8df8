-------------------------- MODULE PinObjectProofs --------------------------
(***************************************************************************)
(* What loading and pinning keep for any number of processes, any objects  *)
(* and any failing calls, however the processes interleave.                *)
(***************************************************************************)
EXTENDS PinObject, SequenceTheorems, TLAPS

LEMMA ObjectTypes ==
    ASSUME obj \in Setups, NEW p \in Procs
    PROVE  /\ Len(obj[p].maps) \in Nat /\ DOMAIN obj[p].maps = 1 .. Len(obj[p].maps)
           /\ Len(obj[p].progs) \in Nat /\ DOMAIN obj[p].progs = 1 .. Len(obj[p].progs)
           /\ \A m \in DOMAIN obj[p].maps :
                /\ Def(p, m).pin \in Paths \cup {"none"} /\ Def(p, m).file \in Paths
                /\ Def(p, m).slots \in Seq(DOMAIN obj[p].maps)
                /\ Def(p, m).preset \in BOOLEAN
           /\ obj[p].progFile \in [DOMAIN obj[p].progs -> Paths]
           /\ obj[p].calls \in Nat
<1>1. obj[p] \in UNION {{setup[q] : q \in Procs} : setup \in Setups}
  OBVIOUS
<1>. QED  BY <1>1, ObjectsAssumption DEF Def

(***************************************************************************)
(* Identities of kernel maps, of maps from elsewhere and of programs.      *)
(***************************************************************************)
LEMMA Ids ==
    /\ \A p, m, q, n : Id(p, m) = Id(q, n) <=> p = q /\ m = n
    /\ \A p, m, q, n : PresetId(p, m) # Id(q, n) /\ ProgId(p, m) # Id(q, n)
    /\ \A p, m : Id(p, m) # NoMap /\ PresetId(p, m) # NoMap /\ ProgId(p, m) # NoMap
    /\ \A p, m : Id(p, m)[1] = p /\ Id(p, m)[2] = m
<1>1. \A p, m, q, n : Id(p, m) = Id(q, n) <=> p = q /\ m = n
  BY DEF Id
<1>2. \A p, m : Id(p, m)[1] = p /\ Id(p, m)[2] = m
  BY DEF Id
<1>3. \A p, m, q, n : PresetId(p, m) # Id(q, n) /\ ProgId(p, m) # Id(q, n)
  <2>1. \A p, m : Len(Id(p, m)) = 2 /\ Len(PresetId(p, m)) = 3 /\ Len(ProgId(p, m)) = 3
    BY DEF Id, PresetId, ProgId
  <2>. QED  BY <2>1
<1>4. \A p, m : Id(p, m) # NoMap /\ PresetId(p, m) # NoMap /\ ProgId(p, m) # NoMap
  <2>1. \A p, m : Len(Id(p, m)) = 2 /\ Len(PresetId(p, m)) = 3 /\ Len(ProgId(p, m)) = 3
    BY DEF Id, PresetId, ProgId
  <2>2. Len(NoMap) = 0
    BY DEF NoMap
  <2>. QED  BY <2>1, <2>2
<1>. QED  BY <1>1, <1>2, <1>3, <1>4

-----------------------------------------------------------------------------
(***************************************************************************)
(* Types.                                                                  *)
(***************************************************************************)
MapIds == {Id(q, n) : q \in Procs, n \in Nat}
OtherIds == {PresetId(q, n) : q \in Procs, n \in Nat} \cup {ProgId(q, n) : q \in Procs, n \in Nat}
            \cup {NoMap}
AllIds == MapIds \cup OtherIds
MapRec == [fd : AllIds, pinned : BOOLEAN, reused : BOOLEAN]
Loading == {"open", "maps", "create", "fill", "pin", "progs", "unpin"}
Phases == {"none", "pin_maps", "unpin_maps", "pin_progs", "unpin_progs", "undo_maps", "undo_progs"}
CallRec == [phase : Phases, k : Nat, dir : BOOLEAN, all : BOOLEAN]

LoadTypes ==
    /\ obj \in Setups
    /\ pc \in [Procs -> Loading \cup Ended] /\ i \in [Procs -> Nat \ {0}]
    /\ DOMAIN maps = Procs /\ \A p \in Procs : maps[p] \in [1 .. NMaps(p) -> MapRec]
    /\ DOMAIN held = Procs
    /\ bpffs \in [Paths -> AllIds]

PinTypes ==
    /\ DOMAIN pinPath = Procs
    /\ \A p \in Procs : pinPath[p] \in [1 .. NMaps(p) -> Paths \cup {"none"}]
    /\ call \in [Procs -> CallRec] /\ ncalls \in [Procs -> Nat]
    /\ failed \in [Procs -> SUBSET Nat]
    /\ DOMAIN by = Paths

Types == LoadTypes /\ PinTypes

LEMMA IdTypes ==
    /\ \A q \in Procs, n \in Nat : Id(q, n) \in AllIds /\ PresetId(q, n) \in AllIds /\ ProgId(q, n) \in AllIds
    /\ NoMap \in AllIds
BY DEF AllIds, MapIds, OtherIds

LEMMA TypesInit == Init => Types
<1>. SUFFICES ASSUME Init PROVE Types
  OBVIOUS
<1>1. obj \in Setups
  BY DEF Init, LoadInit
<1>2. ASSUME NEW p \in Procs PROVE maps[p] \in [1 .. NMaps(p) -> MapRec]
  <2>1. DOMAIN obj[p].maps = 1 .. NMaps(p)
    BY <1>1, ObjectTypes DEF NMaps
  <2>2. ASSUME NEW m \in 1 .. NMaps(p)
        PROVE  [fd |-> IF Def(p, m).preset THEN PresetId(p, m) ELSE NoMap,
                pinned |-> FALSE, reused |-> Def(p, m).preset] \in MapRec
    <3>1. m \in Nat /\ Def(p, m).preset \in BOOLEAN
      BY <1>1, <2>1, ObjectTypes DEF NMaps
    <3>. QED  BY <3>1, IdTypes DEF MapRec
  <2>. QED  BY <2>1, <2>2 DEF Init, LoadInit
<1>3. ASSUME NEW p \in Procs PROVE pinPath[p] \in [1 .. NMaps(p) -> Paths \cup {"none"}]
  BY <1>1, ObjectTypes DEF Init, NMaps
<1>4. LoadTypes
  BY <1>1, <1>2, IdTypes DEF LoadTypes, Init, LoadInit, Loading
<1>5. PinTypes
  BY <1>3 DEF PinTypes, Init, CallRec, NoCall, Phases
<1>. QED  BY <1>4, <1>5 DEF Types

(***************************************************************************)
(* What the ways in which a load writes the maps of its object amount to.  *)
(***************************************************************************)
MapsTyped == DOMAIN maps = Procs /\ \A q \in Procs : maps[q] \in [1 .. NMaps(q) -> MapRec]
OthersKeepMaps(p) == \A q \in Procs \ {p} : maps'[q] = maps[q]

LEMMA SetMapEffect ==
    ASSUME LoadTypes, NEW p \in Procs, NEW m \in 1 .. NMaps(p), NEW r \in MapRec,
           SetMap(p, m, r), obj' = obj
    PROVE  /\ MapsTyped' /\ OthersKeepMaps(p)
           /\ maps'[p][m] = r
           /\ \A n \in 1 .. NMaps(p) : n # m => maps'[p][n] = maps[p][n]
<1>1. DOMAIN maps = Procs /\ \A q \in Procs : maps[q] \in [1 .. NMaps(q) -> MapRec]
  BY DEF LoadTypes
<1>2. /\ DOMAIN maps' = Procs /\ OthersKeepMaps(p)
      /\ maps'[p] = [maps[p] EXCEPT ![m] = r]
  BY <1>1 DEF SetMap, OthersKeepMaps
<1>3. \A q \in Procs : NMaps(q)' = NMaps(q)
  BY DEF NMaps
<1>4. ASSUME NEW q \in Procs PROVE maps'[q] \in [1 .. NMaps(q) -> MapRec]
  BY <1>1, <1>2 DEF OthersKeepMaps
<1>5. MapsTyped'
  BY <1>2, <1>3, <1>4 DEF MapsTyped
<1>. QED  BY <1>1, <1>2, <1>5

LEMMA ErrOutEffect ==
    ASSUME LoadTypes, NEW p \in Procs, NEW own \in MapRec, CreateErrOut(p, own), obj' = obj
    PROVE  /\ MapsTyped' /\ OthersKeepMaps(p)
           /\ \A m \in 1 .. NMaps(p) :
                maps'[p][m] = IF m < i[p] THEN [maps[p][m] EXCEPT !.fd = NoMap]
                              ELSE IF m = i[p] THEN own ELSE maps[p][m]
<1>1. DOMAIN maps = Procs /\ \A q \in Procs : maps[q] \in [1 .. NMaps(q) -> MapRec]
  BY DEF LoadTypes
<1>. DEFINE new(m) == IF m < i[p] THEN [maps[p][m] EXCEPT !.fd = NoMap]
                      ELSE IF m = i[p] THEN own ELSE maps[p][m]
<1>2. /\ DOMAIN maps' = Procs /\ OthersKeepMaps(p)
      /\ maps'[p] = [m \in DOMAIN maps[p] |-> new(m)]
  BY <1>1 DEF CreateErrOut, OthersKeepMaps
<1>3. \A q \in Procs : NMaps(q)' = NMaps(q)
  BY DEF NMaps
<1>4. \A m \in 1 .. NMaps(p) : new(m) \in MapRec
  <2>1. \A r \in MapRec : [r EXCEPT !.fd = NoMap] \in MapRec
    BY IdTypes DEF MapRec
  <2>. QED  BY <1>1, <2>1
<1>5. maps'[p] \in [1 .. NMaps(p) -> MapRec]
  <2>. HIDE DEF new
  <2>. QED  BY <1>1, <1>2, <1>4
<1>6. ASSUME NEW q \in Procs PROVE maps'[q] \in [1 .. NMaps(q) -> MapRec]
  BY <1>1, <1>2, <1>5 DEF OthersKeepMaps
<1>7. MapsTyped'
  BY <1>2, <1>3, <1>6 DEF MapsTyped
<1>8. \A m \in 1 .. NMaps(p) : maps'[p][m] = new(m)
  <2>. HIDE DEF new
  <2>. QED  BY <1>1, <1>2
<1>. QED  BY <1>2, <1>7, <1>8

LEMMA CloseEffect ==
    ASSUME LoadTypes, NEW p \in Procs, obj' = obj,
           maps' = [maps EXCEPT ![p] = [m \in DOMAIN @ |-> Closed(@[m])]]
    PROVE  /\ MapsTyped' /\ OthersKeepMaps(p)
           /\ \A m \in 1 .. NMaps(p) : maps'[p][m] = Closed(maps[p][m])
<1>1. DOMAIN maps = Procs /\ \A q \in Procs : maps[q] \in [1 .. NMaps(q) -> MapRec]
  BY DEF LoadTypes
<1>2. /\ DOMAIN maps' = Procs /\ OthersKeepMaps(p)
      /\ maps'[p] = [m \in DOMAIN maps[p] |-> Closed(maps[p][m])]
  BY <1>1 DEF OthersKeepMaps
<1>3. \A q \in Procs : NMaps(q)' = NMaps(q)
  BY DEF NMaps
<1>4. \A r \in MapRec : Closed(r) \in MapRec
  BY IdTypes DEF MapRec, Closed
<1>5. maps'[p] \in [1 .. NMaps(p) -> MapRec]
  BY <1>1, <1>2, <1>4
<1>6. ASSUME NEW q \in Procs PROVE maps'[q] \in [1 .. NMaps(q) -> MapRec]
  BY <1>1, <1>2, <1>5 DEF OthersKeepMaps
<1>7. MapsTyped'
  BY <1>2, <1>3, <1>6 DEF MapsTyped
<1>. QED  BY <1>1, <1>2, <1>7

LEMMA RecEffect ==
    ASSUME NEW r \in MapRec, NEW id \in AllIds, NEW b \in BOOLEAN
    PROVE  /\ [r EXCEPT !.fd = id] \in MapRec /\ [r EXCEPT !.pinned = b] \in MapRec
           /\ [r EXCEPT !.fd = id].fd = id /\ [r EXCEPT !.fd = id].pinned = r.pinned
           /\ [r EXCEPT !.fd = id].reused = r.reused
           /\ [r EXCEPT !.pinned = b].fd = r.fd /\ [r EXCEPT !.pinned = b].pinned = b
           /\ [r EXCEPT !.pinned = b].reused = r.reused
           /\ [fd |-> id, pinned |-> b, reused |-> b] \in MapRec
BY DEF MapRec

(***************************************************************************)
(* Steps of a load keep the types.                                         *)
(***************************************************************************)
LEMMA MapOfLoad ==
    ASSUME LoadTypes, NEW p \in Procs, NEW m \in 1 .. NMaps(p)
    PROVE  /\ maps[p][m] \in MapRec /\ maps[p][m].fd \in AllIds
           /\ maps[p][m].pinned \in BOOLEAN /\ maps[p][m].reused \in BOOLEAN
           /\ Def(p, m).pin \in Paths \cup {"none"} /\ Def(p, m).file \in Paths
           /\ Def(p, m).preset \in BOOLEAN /\ Def(p, m).slots \in Seq(1 .. NMaps(p))
           /\ m \in Nat /\ m \in DOMAIN obj[p].maps
<1>1. obj \in Setups /\ maps[p] \in [1 .. NMaps(p) -> MapRec]
  BY DEF LoadTypes
<1>2. maps[p][m] \in MapRec
  BY <1>1
<1>3. DOMAIN obj[p].maps = 1 .. NMaps(p) /\ NMaps(p) \in Nat
  BY <1>1, ObjectTypes DEF NMaps
<1>. QED  BY <1>1, <1>2, <1>3, ObjectTypes DEF MapRec

LEMMA InMapsIndex ==
    ASSUME LoadTypes, NEW p \in Procs, NEW l, InMaps(p, l)
    PROVE  i[p] \in 1 .. NMaps(p) /\ pc[p] = l /\ Map(p) \in MapRec /\ Map(p).fd \in AllIds
           /\ Map(p).pinned \in BOOLEAN /\ Map(p).reused \in BOOLEAN /\ i[p] \in Nat
           /\ Cur(p).pin \in Paths \cup {"none"}
<1>1. i[p] \in Nat \ {0} /\ obj \in Setups
  BY DEF LoadTypes
<1>2. i[p] \in 1 .. NMaps(p)
  <2>1. NMaps(p) \in Nat
    BY <1>1, ObjectTypes DEF NMaps
  <2>. QED  BY <1>1, <2>1 DEF InMaps, NMaps
<1>. QED  BY <1>1, <1>2, MapOfLoad DEF InMaps, Map, Cur

LEMMA LoadStepTypes ==
    ASSUME LoadTypes, NEW p \in Procs, LoadStep(p) \/ Close(p)
    PROVE  LoadTypes' /\ obj' = obj
<1>. USE DEF Goto, SetI, Out, pvars
<1>1. /\ obj \in Setups /\ pc \in [Procs -> Loading \cup Ended] /\ i \in [Procs -> Nat \ {0}]
      /\ MapsTyped /\ DOMAIN held = Procs /\ bpffs \in [Paths -> AllIds]
  BY DEF LoadTypes, MapsTyped
<1>2. ASSUME UNCHANGED <<obj, maps>> PROVE MapsTyped'
  BY <1>1, <1>2 DEF MapsTyped, NMaps
<1>3. ASSUME obj' = obj, pc' \in [Procs -> Loading \cup Ended], i' \in [Procs -> Nat \ {0}],
             MapsTyped', DOMAIN held' = Procs, bpffs' \in [Paths -> AllIds]
      PROVE  LoadTypes' /\ obj' = obj
  BY <1>1, <1>3 DEF LoadTypes, MapsTyped
<1>4. Loading \cup Ended = {"open", "maps", "create", "fill", "pin", "progs", "unpin", "loaded",
                           "failed", "closed_loaded", "closed_failed"}
  BY DEF Loading, Ended
<1>5. CASE Prepare(p)
  BY <1>1, <1>2, <1>3, <1>4, <1>5 DEF Prepare, InMaps, InProgs
<1>6. CASE PrepareFails(p)
  BY <1>1, <1>2, <1>3, <1>4, <1>6 DEF PrepareFails, InMaps, InProgs
<1>7. CASE NothingToReuse(p)
  BY <1>1, <1>2, <1>3, <1>4, <1>7 DEF NothingToReuse, InMaps, InProgs
<1>8. CASE SkipCreation(p)
  BY <1>1, <1>2, <1>3, <1>4, <1>8 DEF SkipCreation, InMaps, InProgs
<1>9. CASE NoPin(p)
  BY <1>1, <1>2, <1>3, <1>4, <1>9 DEF NoPin, InMaps, InProgs
<1>10. CASE Relocate(p)
  <2>1. UNCHANGED <<obj, maps, held, bpffs>>
    BY <1>10 DEF Relocate
  <2>2. pc' \in [Procs -> Loading \cup Ended] /\ i' \in [Procs -> Nat \ {0}]
    BY <1>1, <1>4, <1>10, SMTT(40) DEF Relocate
  <2>. QED  BY <1>1, <1>2, <1>3, <2>1, <2>2
<1>11. CASE SkipProg(p)
  BY <1>1, <1>2, <1>3, <1>4, <1>11 DEF SkipProg, InMaps, InProgs
<1>12. CASE LoadProg(p)
  BY <1>1, <1>2, <1>3, <1>4, <1>12 DEF LoadProg, InMaps, InProgs
<1>13. CASE RetryLoad(p)
  BY <1>1, <1>2, <1>3, <1>4, <1>13 DEF RetryLoad, InMaps, InProgs
<1>14. CASE LoadProgFails(p)
  BY <1>1, <1>2, <1>3, <1>4, <1>14 DEF LoadProgFails, InMaps, InProgs
<1>15. CASE Loaded(p)
  BY <1>1, <1>2, <1>3, <1>4, <1>15 DEF Loaded, InMaps, InProgs
<1>16. CASE Fill(p)
  BY <1>1, <1>2, <1>3, <1>4, <1>16 DEF Fill, InMaps, InProgs
<1>17. CASE ReuseMap(p)
  <2>1. InMaps(p, "maps") /\ Cur(p).pin \in Paths /\ obj' = obj
    BY <1>17, InMapsIndex DEF ReuseMap
  <2>2. [fd |-> bpffs[Cur(p).pin], pinned |-> TRUE, reused |-> TRUE] \in MapRec
    <3>1. bpffs[Cur(p).pin] \in AllIds
      BY <1>1, <2>1
    <3>. QED  BY <3>1 DEF MapRec
  <2>3. MapsTyped'
    BY <2>1, <2>2, InMapsIndex, SetMapEffect, <1>17 DEF ReuseMap
  <2>. QED  BY <1>1, <1>3, <1>4, <2>1, <2>3, <1>17 DEF ReuseMap
<1>18. CASE ReuseFails(p)
  <2>1. InMaps(p, "maps") /\ obj' = obj
    BY <1>18 DEF ReuseFails
  <2>2. Map(p) \in MapRec
    BY <2>1, InMapsIndex, RecEffect, IdTypes DEF Closed
  <2>3. MapsTyped'
    BY <2>1, <2>2, ErrOutEffect, <1>18 DEF ReuseFails
  <2>. QED  BY <1>1, <1>3, <1>4, <2>1, <2>3, <1>18 DEF ReuseFails, CreateErrOut
<1>19. CASE CreateFails(p)
  <2>1. InMaps(p, "create") /\ obj' = obj
    BY <1>19 DEF CreateFails
  <2>2. Map(p) \in MapRec
    BY <2>1, InMapsIndex, RecEffect, IdTypes DEF Closed
  <2>3. MapsTyped'
    BY <2>1, <2>2, ErrOutEffect, <1>19 DEF CreateFails
  <2>. QED  BY <1>1, <1>3, <1>4, <2>1, <2>3, <1>19 DEF CreateFails, CreateErrOut
<1>20. CASE FillFails(p)
  <2>1. InMaps(p, "fill") /\ obj' = obj
    BY <1>20 DEF FillFails
  <2>2. Closed(Map(p)) \in MapRec
    BY <2>1, InMapsIndex, RecEffect, IdTypes DEF Closed
  <2>3. MapsTyped'
    BY <2>1, <2>2, ErrOutEffect, <1>20 DEF FillFails
  <2>. QED  BY <1>1, <1>3, <1>4, <2>1, <2>3, <1>20 DEF FillFails, CreateErrOut
<1>21. CASE AutoPinFails(p)
  <2>1. InMaps(p, "pin") /\ obj' = obj
    BY <1>21 DEF AutoPinFails
  <2>2. Closed(Map(p)) \in MapRec
    BY <2>1, InMapsIndex, RecEffect, IdTypes DEF Closed
  <2>3. MapsTyped'
    BY <2>1, <2>2, ErrOutEffect, <1>21 DEF AutoPinFails
  <2>. QED  BY <1>1, <1>3, <1>4, <2>1, <2>3, <1>21 DEF AutoPinFails, CreateErrOut
<1>22. CASE CreateMap(p)
  <2>1. InMaps(p, "create") /\ obj' = obj
    BY <1>22 DEF CreateMap
  <2>2. [Map(p) EXCEPT !.fd = Id(p, i[p])] \in MapRec
    BY <2>1, InMapsIndex, RecEffect, IdTypes
  <2>3. MapsTyped'
    BY <2>1, <2>2, InMapsIndex, SetMapEffect, <1>22 DEF CreateMap
  <2>. QED  BY <1>1, <1>3, <1>4, <2>1, <2>3, <1>22 DEF CreateMap
<1>23. CASE AutoPin(p)
  <2>1. InMaps(p, "pin") /\ obj' = obj /\ i[p] \in Nat
    BY <1>23, InMapsIndex DEF AutoPin
  <2>2. [Map(p) EXCEPT !.pinned = TRUE] \in MapRec
    BY <2>1, InMapsIndex, RecEffect
  <2>3. MapsTyped'
    BY <2>1, <2>2, InMapsIndex, SetMapEffect, <1>23 DEF AutoPin
  <2>4. bpffs' \in [Paths -> AllIds]
    BY <1>1, <2>1, InMapsIndex, <1>23 DEF AutoPin
  <2>. QED  BY <1>1, <1>3, <1>4, <2>1, <2>3, <2>4, <1>23 DEF AutoPin
<1>24. CASE Unpin(p)
  <2>1. InMaps(p, "unpin") /\ obj' = obj /\ i[p] \in Nat
    BY <1>24, InMapsIndex DEF Unpin
  <2>. DEFINE undo == /\ Map(p).pinned /\ ~Map(p).reused
                      /\ bpffs[Cur(p).pin] # NoMap
  <2>. DEFINE r == [Map(p) EXCEPT !.pinned = Map(p).pinned /\ ~undo]
  <2>2. r \in MapRec
    BY <2>1, InMapsIndex DEF MapRec
  <2>3. MapsTyped'
    <3>1. SetMap(p, i[p], r)
      BY <1>24 DEF Unpin
    <3>2. i[p] \in 1 .. NMaps(p)
      BY <2>1, InMapsIndex
    <3>. HIDE DEF r
    <3>. QED  BY <2>1, <2>2, <3>1, <3>2, SetMapEffect
  <2>4. bpffs' \in [Paths -> AllIds]
    BY <1>1, <2>1, IdTypes, <1>24 DEF Unpin
  <2>. QED  BY <1>1, <1>3, <1>4, <2>1, <2>3, <2>4, <1>24 DEF Unpin
<1>25. CASE Failed(p)
  <2>1. MapsTyped' /\ obj' = obj
    BY CloseEffect, <1>25 DEF Failed, Unload
  <2>. QED  BY <1>1, <1>3, <1>4, <2>1, <1>25 DEF Failed, Unload
<1>26. CASE Close(p)
  <2>1. MapsTyped' /\ obj' = obj
    BY CloseEffect, <1>26 DEF Close
  <2>. QED  BY <1>1, <1>3, <1>4, <2>1, <1>26 DEF Close
<1>. QED  BY <1>5, <1>6, <1>7, <1>8, <1>9, <1>10, <1>11, <1>12, <1>13, <1>14, <1>15, <1>16, <1>17, <1>18, <1>19, <1>20, <1>21, <1>22, <1>23, <1>24, <1>25, <1>26 DEF LoadStep

-----------------------------------------------------------------------------
(***************************************************************************)
(* A step of a pinning call changes the file system at most at one path:   *)
(* it links a map or a program at a free one, or unlinks one in use.       *)
(***************************************************************************)
PinsMap(p, m, path) ==
    /\ m \in 1 .. NMaps(p) /\ path \in Paths /\ Free(path) /\ maps[p][m].fd # NoMap
    /\ Link(path, maps[p][m].fd) /\ SetMap(p, m, [maps[p][m] EXCEPT !.pinned = TRUE])
    /\ pinPath' = [pinPath EXCEPT ![p][m] = path] /\ pinPath[p][m] \in {"none", path}
    /\ call[p].phase = "pin_maps" /\ K(p) = m
UnpinsMap(p, m, path) ==
    /\ m \in 1 .. NMaps(p) /\ path \in Paths /\ ~Free(path)
    /\ Unlink(path) /\ SetMap(p, m, [maps[p][m] EXCEPT !.pinned = FALSE])
    /\ call[p].phase \in {"undo_maps", "unpin_maps"} /\ K(p) = m
    /\ pinPath[p][m] \in {"none", path} /\ pinPath' = pinPath
PinsProg(p, j) ==
    /\ j \in 1 .. NProgs(p) /\ File(p, j) \in Paths /\ Free(File(p, j)) /\ HasInstance(p, j)
    /\ ~SubProg(p, j) /\ call[p].phase = "pin_progs" /\ K(p) = j
    /\ Link(File(p, j), ProgId(p, j)) /\ UNCHANGED <<maps, pinPath>>
UnpinsProg(p, j) ==
    /\ j \in 1 .. NProgs(p) /\ File(p, j) \in Paths /\ ~Free(File(p, j)) /\ HasInstance(p, j)
    /\ ~SubProg(p, j) /\ call[p].phase \in {"undo_progs", "unpin_progs"} /\ K(p) = j
    /\ Unlink(File(p, j)) /\ UNCHANGED <<maps, pinPath>>
RecordsPath(p) ==
    \E m \in 1 .. NMaps(p) : \E path \in Paths :
      /\ pinPath[p][m] \in {"none", path}
      /\ pinPath' = [pinPath EXCEPT ![p][m] = path]
PinEffect(p) ==
    \/ UNCHANGED <<maps, bpffs>> /\ (pinPath' = pinPath \/ RecordsPath(p))
    \/ \E m \in 1 .. NMaps(p) : \E path \in Paths : PinsMap(p, m, path) \/ UnpinsMap(p, m, path)
    \/ \E j \in 1 .. NProgs(p) : PinsProg(p, j) \/ UnpinsProg(p, j)

LEMMA TargetType ==
    ASSUME Types, NEW p \in Procs, NEW m \in 1 .. NMaps(p)
    PROVE  /\ Target(p, m) \in Paths \cup {"none"} /\ pinPath[p][m] \in {"none", Target(p, m)}
           /\ call[p].dir \/ pinPath[p][m] # "none" => Target(p, m) \in Paths
           /\ call[p].dir /\ ~Mismatch(p, m) => Target(p, m) = Def(p, m).file
           /\ pinPath[p][m] \in Paths \cup {"none"} /\ Target(p, m) \in {pinPath[p][m], Def(p, m).file, "none"}
<1>1. pinPath[p][m] \in Paths \cup {"none"} /\ Def(p, m).file \in Paths
  BY MapOfLoad DEF Types, PinTypes
<1>2. call[p] \in CallRec
  BY DEF Types, PinTypes
<1>. QED  BY <1>1, <1>2, NamesAssumption DEF Target, Named, Mismatch

LEMMA CallType ==
    ASSUME Types, NEW p \in Procs
    PROVE  /\ call[p] \in CallRec /\ K(p) \in Nat /\ call[p].phase \in Phases
           /\ call[p].dir \in BOOLEAN /\ call[p].all \in BOOLEAN
           /\ NMaps(p) \in Nat /\ NProgs(p) \in Nat /\ ncalls[p] \in Nat
           /\ \A j \in 1 .. NProgs(p) : File(p, j) \in Paths
<1>1. call[p] \in CallRec /\ ncalls[p] \in Nat /\ obj \in Setups
  BY DEF Types, PinTypes, LoadTypes
<1>2. NMaps(p) \in Nat /\ NProgs(p) \in Nat /\ \A j \in 1 .. NProgs(p) : File(p, j) \in Paths
  BY <1>1, ObjectTypes DEF NMaps, NProgs, File
<1>. QED  BY <1>1, <1>2 DEF CallRec, K

LEMMA PinStepEffect ==
    ASSUME Types, NEW p \in Procs, PinStep(p) \/ Calls(p)
    PROVE  UNCHANGED <<obj, pc, i, held, log, kernel>> /\ PinEffect(p)
<1>1. K(p) \in Nat /\ NMaps(p) \in Nat /\ NProgs(p) \in Nat /\ call[p] \in CallRec
  BY CallType
<1>2. \A j \in 1 .. NProgs(p) : File(p, j) \in Paths
  BY CallType
<1>3. CASE MapPinned(p)
  BY <1>3 DEF MapPinned, PinEffect, loadvars, pvars
<1>4. CASE MapsUndone(p)
  BY <1>4 DEF MapsUndone, PinEffect, loadvars, pvars
<1>5. CASE MapsPinned(p)
  BY <1>5 DEF MapsPinned, PinEffect, loadvars, pvars
<1>6. CASE UnpinMapsEnds(p)
  BY <1>6 DEF UnpinMapsEnds, PinEffect, loadvars, pvars
<1>7. CASE PassOverProg(p)
  BY <1>7 DEF PassOverProg, PinEffect, loadvars, pvars
<1>8. CASE PinProgFails(p)
  BY <1>8 DEF PinProgFails, PinEffect, loadvars, pvars
<1>9. CASE ProgsUndone(p)
  BY <1>9 DEF ProgsUndone, PinEffect, loadvars, pvars
<1>10. CASE ProgsEnd(p)
  BY <1>10 DEF ProgsEnd, PinEffect, loadvars, pvars
<1>11. CASE Calls(p)
  BY <1>11 DEF Calls, PinMaps, UnpinMaps, PinPrograms, UnpinPrograms, Pin, Begin, PinEffect, loadvars, pvars
<1>12. CASE PinMap(p)
  <2>1. K(p) \in 1 .. NMaps(p) /\ call[p].phase = "pin_maps" /\ ~PassOver(p)
    BY <1>12 DEF PinMap, In
  <2>2. Target(p, K(p)) \in Paths /\ pinPath[p][K(p)] \in {"none", Target(p, K(p))}
        /\ (Target(p, K(p)) \in {pinPath[p][K(p)], Def(p, K(p)).file})
    BY <2>1, TargetType, NamesAssumption DEF PassOver
  <2>3. PinsMap(p, K(p), Target(p, K(p)))
    BY <2>1, <2>2, <1>12 DEF PinMap, PinsMap
  <2>. QED  BY <2>1, <2>2, <2>3, <1>12 DEF PinMap, PinEffect
<1>13. CASE PinMapFails(p)
  <2>1. K(p) \in 1 .. NMaps(p) /\ ~PassOver(p)
    BY <1>13 DEF PinMapFails, In
  <2>2. Target(p, K(p)) \in Paths /\ pinPath[p][K(p)] \in {"none", Target(p, K(p))}
    BY <2>1, TargetType DEF PassOver
  <2>3. pinPath' = pinPath \/ RecordsPath(p)
    BY <2>1, <2>2, <1>13 DEF PinMapFails, RecordsPath
  <2>. QED  BY <2>3, <1>13 DEF PinMapFails, PinEffect, loadvars, pvars
<1>14. CASE UndoMaps(p)
  <2>1. K(p) \in 1 .. NMaps(p) /\ call[p].phase = "undo_maps"
        /\ UNCHANGED <<obj, pc, i, held, log, kernel, pinPath>>
    BY <1>14 DEF UndoMaps, In
  <2>2. pinPath[p][K(p)] \in Paths \cup {"none"}
    BY <2>1, TargetType
  <2>3. CASE UNCHANGED <<maps, bpffs>>
    BY <2>1, <2>3 DEF PinEffect
  <2>4. CASE pinPath[p][K(p)] # "none" /\ ~Free(pinPath[p][K(p)]) /\ UnpinMap(p, K(p))
    <3>1. UnpinsMap(p, K(p), pinPath[p][K(p)])
      BY <2>1, <2>2, <2>4 DEF UnpinsMap, UnpinMap, Target
    <3>. QED  BY <2>1, <2>2, <2>4, <3>1 DEF PinEffect
  <2>. QED  BY <2>3, <2>4, <1>14 DEF UndoMaps
<1>15. CASE UnpinNext(p)
  <2>1. K(p) \in 1 .. NMaps(p) /\ call[p].phase = "unpin_maps"
        /\ UNCHANGED <<obj, pc, i, held, log, kernel, pinPath>>
    BY <1>15 DEF UnpinNext, In
  <2>2. CASE UNCHANGED <<maps, bpffs>>
    BY <2>1, <2>2 DEF PinEffect
  <2>3. CASE ~PassOver(p) /\ ~Free(Target(p, K(p))) /\ UnpinMap(p, K(p))
    <3>1. Target(p, K(p)) \in Paths /\ pinPath[p][K(p)] \in {"none", Target(p, K(p))}
      BY <2>1, <2>3, TargetType DEF PassOver
    <3>2. UnpinsMap(p, K(p), Target(p, K(p)))
      BY <2>1, <2>3, <3>1 DEF UnpinsMap, UnpinMap
    <3>. QED  BY <2>1, <3>1, <3>2 DEF PinEffect
  <2>. QED  BY <2>2, <2>3, <1>15 DEF UnpinNext
<1>16. CASE PinProg(p)
  <2>1. K(p) \in 1 .. NProgs(p)
    BY <1>16 DEF PinProg, In
  <2>2. PinsProg(p, K(p))
    BY <1>2, <2>1, <1>16 DEF PinProg, PinsProg, In, pvars
  <2>. QED  BY <2>1, <2>2, <1>16 DEF PinProg, PinEffect, pvars
<1>17. CASE UndoProgs(p)
  <2>1. K(p) \in 1 .. NProgs(p) /\ call[p].phase = "undo_progs"
        /\ UNCHANGED <<obj, pc, i, maps, held, log, kernel, pinPath>>
    BY <1>17 DEF UndoProgs, In, pvars
  <2>2. CASE UNCHANGED bpffs
    BY <2>1, <2>2 DEF PinEffect
  <2>3. CASE bpffs' # bpffs
    <3>1. UnpinsProg(p, K(p))
      BY <1>2, <2>1, <2>3, <1>17 DEF UndoProgs, UnpinsProg
    <3>. QED  BY <2>1, <3>1 DEF PinEffect
  <2>. QED  BY <2>2, <2>3
<1>18. CASE UnpinProg(p)
  <2>1. K(p) \in 1 .. NProgs(p)
    BY <1>18 DEF UnpinProg, In
  <2>2. UnpinsProg(p, K(p))
    BY <1>2, <2>1, <1>18 DEF UnpinProg, UnpinsProg, In, pvars
  <2>. QED  BY <2>1, <2>2, <1>18 DEF UnpinProg, PinEffect, pvars
<1>. QED  BY <1>3, <1>4, <1>5, <1>6, <1>7, <1>8, <1>9, <1>10, <1>11, <1>12, <1>13, <1>14, <1>15, <1>16, <1>17, <1>18 DEF PinStep

LEMMA SetPathEffect ==
    ASSUME Types, NEW p \in Procs, NEW m \in 1 .. NMaps(p), NEW path \in Paths, obj' = obj,
           pinPath' = [pinPath EXCEPT ![p][m] = path]
    PROVE  /\ DOMAIN pinPath' = Procs
           /\ \A q \in Procs : pinPath'[q] \in [1 .. NMaps(q)' -> Paths \cup {"none"}]
           /\ \A q \in Procs \ {p} : pinPath'[q] = pinPath[q]
           /\ pinPath'[p][m] = path
           /\ \A n \in 1 .. NMaps(p) : n # m => pinPath'[p][n] = pinPath[p][n]
<1>1. DOMAIN pinPath = Procs /\ \A q \in Procs : pinPath[q] \in [1 .. NMaps(q) -> Paths \cup {"none"}]
  BY DEF Types, PinTypes
<1>2. /\ DOMAIN pinPath' = Procs /\ pinPath'[p] = [pinPath[p] EXCEPT ![m] = path]
      /\ \A q \in Procs \ {p} : pinPath'[q] = pinPath[q]
  BY <1>1
<1>3. \A q \in Procs : NMaps(q)' = NMaps(q)
  BY DEF NMaps
<1>4. ASSUME NEW q \in Procs PROVE pinPath'[q] \in [1 .. NMaps(q) -> Paths \cup {"none"}]
  BY <1>1, <1>2
<1>. QED  BY <1>1, <1>2, <1>3, <1>4

LEMMA PinStepTypes ==
    ASSUME Types, NEW p \in Procs, PinStep(p) \/ Calls(p), Witness(p)
    PROVE  Types'
<1>1. UNCHANGED <<obj, pc, i, held, log, kernel>> /\ PinEffect(p)
  BY PinStepEffect
<1>2. LoadTypes'
  <2>1. ASSUME MapsTyped', bpffs' \in [Paths -> AllIds] PROVE LoadTypes'
    BY <1>1, <2>1 DEF Types, LoadTypes, MapsTyped
  <2>2. bpffs \in [Paths -> AllIds] /\ MapsTyped /\ LoadTypes
    BY DEF Types, LoadTypes, MapsTyped
  <2>3. CASE UNCHANGED <<maps, bpffs>>
    BY <1>1, <2>1, <2>2, <2>3 DEF MapsTyped, NMaps
  <2>4. ASSUME NEW m \in 1 .. NMaps(p), NEW path \in Paths, PinsMap(p, m, path)
        PROVE  LoadTypes'
    <3>1. maps[p][m] \in MapRec /\ maps[p][m].fd \in AllIds
      BY <2>2, MapOfLoad
    <3>2. [maps[p][m] EXCEPT !.pinned = TRUE] \in MapRec
      BY <3>1, RecEffect
    <3>3. MapsTyped'
      BY <1>1, <2>2, <2>4, <3>2, SetMapEffect DEF PinsMap
    <3>4. bpffs' \in [Paths -> AllIds]
      BY <2>2, <2>4, <3>1 DEF PinsMap, Link
    <3>. QED  BY <2>1, <3>3, <3>4
  <2>5. ASSUME NEW m \in 1 .. NMaps(p), NEW path \in Paths, UnpinsMap(p, m, path)
        PROVE  LoadTypes'
    <3>1. maps[p][m] \in MapRec
      BY <2>2, MapOfLoad
    <3>2. [maps[p][m] EXCEPT !.pinned = FALSE] \in MapRec
      BY <3>1 DEF MapRec
    <3>3. MapsTyped'
      BY <1>1, <2>2, <2>5, <3>2, SetMapEffect DEF UnpinsMap
    <3>4. bpffs' \in [Paths -> AllIds]
      BY <2>2, <2>5, <3>1, IdTypes DEF UnpinsMap, Unlink
    <3>. QED  BY <2>1, <3>3, <3>4
  <2>6. ASSUME NEW j \in 1 .. NProgs(p), PinsProg(p, j) \/ UnpinsProg(p, j)
        PROVE  LoadTypes'
    <3>1. j \in Nat
      BY CallType
    <3>2. MapsTyped'
      BY <1>1, <2>2, <2>6 DEF PinsProg, UnpinsProg, MapsTyped, NMaps
    <3>3. bpffs' \in [Paths -> AllIds]
      BY <2>2, <2>6, <3>1, IdTypes DEF PinsProg, UnpinsProg, Link, Unlink
    <3>. QED  BY <2>1, <3>2, <3>3
  <2>. QED  BY <1>1, <2>3, <2>4, <2>5, <2>6 DEF PinEffect
<1>3. /\ DOMAIN pinPath' = Procs
      /\ \A q \in Procs : pinPath'[q] \in [1 .. NMaps(q)' -> Paths \cup {"none"}]
  <2>1. CASE pinPath' = pinPath
    BY <1>1, <2>1 DEF Types, PinTypes, NMaps
  <2>2. CASE RecordsPath(p)
    BY <1>1, <2>2, SetPathEffect DEF RecordsPath
  <2>3. CASE \E m \in 1 .. NMaps(p) : \E path \in Paths : PinsMap(p, m, path)
    BY <1>1, <2>3, SetPathEffect DEF PinsMap
  <2>. QED  BY <1>1, <2>1, <2>2, <2>3 DEF PinEffect, UnpinsMap, PinsProg, UnpinsProg
<1>4. /\ call' \in [Procs -> CallRec] /\ ncalls' \in [Procs -> Nat]
      /\ failed' \in [Procs -> SUBSET Nat]
  <2>1. call \in [Procs -> CallRec] /\ ncalls \in [Procs -> Nat] /\ failed \in [Procs -> SUBSET Nat]
    BY DEF Types, PinTypes
  <2>2. call[p] \in CallRec /\ K(p) \in Nat
    BY CallType
  <2>3. /\ NoCall \in CallRec
        /\ \A ph \in Phases, d, a \in BOOLEAN :
             [phase |-> ph, k |-> 1, dir |-> d, all |-> a] \in CallRec
        /\ \A ph \in Phases, k \in Nat : [call[p] EXCEPT !.phase = ph, !.k = k] \in CallRec
        /\ [call[p] EXCEPT !.k = @ + 1] \in CallRec
        /\ K(p) # 0 => [call[p] EXCEPT !.k = @ - 1] \in CallRec
    <3>1. NoCall \in CallRec
      BY DEF CallRec, NoCall, Phases
    <3>2. \A ph \in Phases, d, a \in BOOLEAN :
             [phase |-> ph, k |-> 1, dir |-> d, all |-> a] \in CallRec
      BY DEF CallRec
    <3>3. \A ph \in Phases, k \in Nat : [call[p] EXCEPT !.phase = ph, !.k = k] \in CallRec
      BY <2>2 DEF CallRec
    <3>4. [call[p] EXCEPT !.k = @ + 1] \in CallRec
      BY <2>2 DEF CallRec, K
    <3>5. K(p) # 0 => [call[p] EXCEPT !.k = @ - 1] \in CallRec
      BY <2>2 DEF CallRec, K
    <3>. QED  BY <3>1, <3>2, <3>3, <3>4, <3>5
  <2>4. /\ \A c \in CallRec : Set(p, c) => call' \in [Procs -> CallRec]
        /\ \A ph \in Phases, k \in Nat : GoTo(p, ph, k) => call' \in [Procs -> CallRec]
        /\ Advance(p) \/ Return(p) => call' \in [Procs -> CallRec]
        /\ K(p) # 0 /\ Back(p) => call' \in [Procs -> CallRec]
    BY <2>1, <2>3 DEF Set, GoTo, Advance, Return, Back
  <2>5. \A ph, last : In(p, ph, last) => K(p) # 0
    BY <2>2 DEF In
  <2>6. CASE Calls(p)
    <3>1. PICK ph \in Phases, d, a \in BOOLEAN : Begin(p, ph, d, a)
      BY <2>6 DEF Calls, PinMaps, UnpinMaps, PinPrograms, UnpinPrograms, Pin, Phases
    <3>2. call' \in [Procs -> CallRec]
      <4>1. [phase |-> ph, k |-> 1, dir |-> d, all |-> a] \in CallRec
        BY <2>3
      <4>. QED  BY <2>4, <3>1, <4>1 DEF Begin
    <3>3. ncalls' = [ncalls EXCEPT ![p] = @ + 1] /\ failed' = failed
      BY <3>1 DEF Begin
    <3>4. ncalls' \in [Procs -> Nat] /\ failed' \in [Procs -> SUBSET Nat]
      BY <2>1, <3>3
    <3>. QED  BY <3>2, <3>4
  <2>7. CASE PinStep(p)
    <3>1. failed' = failed \/ failed' = [failed EXCEPT ![p] = @ \cup {ncalls[p]}]
      BY <2>7 DEF PinStep, MapPinned, PinMap, PinMapFails, UndoMaps, MapsUndone, MapsPinned, UnpinNext,
                  UnpinMapsEnds, PassOverProg, PinProg, PinProgFails, UndoProgs, ProgsUndone, UnpinProg,
                  ProgsEnd, ReturnError
    <3>2. ncalls' = ncalls
      BY <2>7 DEF PinStep, MapPinned, PinMap, PinMapFails, UndoMaps, MapsUndone, MapsPinned, UnpinNext,
                  UnpinMapsEnds, PassOverProg, PinProg, PinProgFails, UndoProgs, ProgsUndone, UnpinProg,
                  ProgsEnd
    <3>3. call' \in [Procs -> CallRec]
      <4>1. \/ Advance(p) \/ Return(p) \/ (K(p) # 0 /\ Back(p))
            \/ \E ph \in Phases, k \in Nat : GoTo(p, ph, k)
        <5>1. K(p) # 0 => K(p) - 1 \in Nat
          BY <2>2
        <5>2. CASE MapPinned(p) \/ PinMap(p) \/ UndoMaps(p) \/ MapsUndone(p) \/ UnpinNext(p)
                   \/ UnpinMapsEnds(p) \/ PassOverProg(p) \/ PinProg(p) \/ UndoProgs(p)
                   \/ UnpinProg(p) \/ ProgsEnd(p)
          BY <2>5, <5>2 DEF MapPinned, PinMap, UndoMaps, MapsUndone, UnpinNext,
                  UnpinMapsEnds, PassOverProg, PinProg, UndoProgs, UnpinProg, ProgsEnd, ReturnError
        <5>3. CASE PinMapFails(p)
          BY <2>5, <5>1, <5>3 DEF PinMapFails, Phases
        <5>4. CASE PinProgFails(p)
          BY <2>5, <5>1, <5>4 DEF PinProgFails, Phases
        <5>5. CASE MapsPinned(p) \/ ProgsUndone(p)
          BY <5>5 DEF MapsPinned, ProgsUndone, Phases, ReturnError
        <5>. QED  BY <2>7, <5>2, <5>3, <5>4, <5>5 DEF PinStep
      <4>. QED  BY <2>4, <4>1
    <3>. QED  BY <2>1, <3>1, <3>2, <3>3
  <2>. QED  BY <2>6, <2>7
<1>5. DOMAIN by' = Paths
  BY DEF Witness
<1>. QED  BY <1>2, <1>3, <1>4, <1>5 DEF Types, PinTypes

LEMMA TypesStep == Types /\ [Next]_vars => Types'
<1>. SUFFICES ASSUME Types, [Next]_vars PROVE Types'
  OBVIOUS
<1>1. CASE UNCHANGED vars
  BY <1>1 DEF Types, LoadTypes, PinTypes, vars, loadvars, pvars, pinvars, NMaps
<1>2. ASSUME NEW p \in Procs, PinStep(p) \/ Calls(p), Witness(p) PROVE Types'
  BY <1>2, PinStepTypes
<1>3. ASSUME NEW p \in Procs, LoadStep(p) \/ Close(p), UNCHANGED pinvars, Witness(p) PROVE Types'
  <2>1. LoadTypes' /\ obj' = obj
    BY <1>3, LoadStepTypes DEF Types
  <2>2. PinTypes'
    BY <1>3, <2>1 DEF Types, PinTypes, pinvars, Witness, NMaps
  <2>. QED  BY <2>1, <2>2 DEF Types
<1>. QED  BY <1>1, <1>2, <1>3 DEF Next, Step, App, Finished

-----------------------------------------------------------------------------
(***************************************************************************)
(* What a step of process p leaves alone: all that belongs to the others.  *)
(***************************************************************************)
OthersKeep(p) ==
    \A q \in Procs \ {p} :
      /\ pc'[q] = pc[q] /\ i'[q] = i[q] /\ maps'[q] = maps[q] /\ held'[q] = held[q]
      /\ pinPath'[q] = pinPath[q] /\ call'[q] = call[q] /\ ncalls'[q] = ncalls[q]
      /\ failed'[q] = failed[q]

LEMMA LoadKeepsOthers ==
    ASSUME Types, NEW p \in Procs, LoadStep(p) \/ Close(p), UNCHANGED pinvars
    PROVE  OthersKeep(p)
<1>. USE DEF Goto, SetI, Out, pvars
<1>1. LoadTypes /\ DOMAIN pc = Procs /\ DOMAIN i = Procs /\ DOMAIN held = Procs
  BY DEF Types, LoadTypes
<1>2. obj' = obj
  BY <1>1, LoadStepTypes
<1>3. ASSUME OthersKeepMaps(p),
             \A q \in Procs \ {p} : pc'[q] = pc[q] /\ i'[q] = i[q] /\ held'[q] = held[q]
      PROVE  OthersKeep(p)
  BY <1>3 DEF OthersKeep, OthersKeepMaps, pinvars
<1>4. ASSUME maps' = maps PROVE OthersKeepMaps(p)
  BY <1>4 DEF OthersKeepMaps
<1>5. ASSUME NEW m \in 1 .. NMaps(p), NEW r, SetMap(p, m, r) PROVE OthersKeepMaps(p)
  BY <1>1, <1>5 DEF SetMap, OthersKeepMaps, LoadTypes
<1>6. ASSUME NEW own, CreateErrOut(p, own) PROVE OthersKeepMaps(p)
  BY <1>1, <1>6 DEF CreateErrOut, OthersKeepMaps, LoadTypes
<1>7. ASSUME maps' = [maps EXCEPT ![p] = [m \in DOMAIN @ |-> Closed(@[m])]] PROVE OthersKeepMaps(p)
  BY <1>1, <1>7, <1>2, CloseEffect
<1>8. CASE Prepare(p)
  <2>1. OthersKeepMaps(p)
    BY <1>1, <1>4, <1>8 DEF Prepare
  <2>2. \A q \in Procs \ {p} : pc'[q] = pc[q] /\ i'[q] = i[q] /\ held'[q] = held[q]
    BY <1>1, <1>8 DEF Prepare
  <2>. QED  BY <1>3, <2>1, <2>2
<1>9. CASE PrepareFails(p)
  <2>1. OthersKeepMaps(p)
    BY <1>1, <1>4, <1>9 DEF PrepareFails
  <2>2. \A q \in Procs \ {p} : pc'[q] = pc[q] /\ i'[q] = i[q] /\ held'[q] = held[q]
    BY <1>1, <1>9 DEF PrepareFails
  <2>. QED  BY <1>3, <2>1, <2>2
<1>10. CASE NothingToReuse(p)
  <2>1. OthersKeepMaps(p)
    BY <1>1, <1>4, <1>10 DEF NothingToReuse
  <2>2. \A q \in Procs \ {p} : pc'[q] = pc[q] /\ i'[q] = i[q] /\ held'[q] = held[q]
    BY <1>1, <1>10 DEF NothingToReuse
  <2>. QED  BY <1>3, <2>1, <2>2
<1>11. CASE SkipCreation(p)
  <2>1. OthersKeepMaps(p)
    BY <1>1, <1>4, <1>11 DEF SkipCreation
  <2>2. \A q \in Procs \ {p} : pc'[q] = pc[q] /\ i'[q] = i[q] /\ held'[q] = held[q]
    BY <1>1, <1>11 DEF SkipCreation
  <2>. QED  BY <1>3, <2>1, <2>2
<1>12. CASE NoPin(p)
  <2>1. OthersKeepMaps(p)
    BY <1>1, <1>4, <1>12 DEF NoPin
  <2>2. \A q \in Procs \ {p} : pc'[q] = pc[q] /\ i'[q] = i[q] /\ held'[q] = held[q]
    BY <1>1, <1>12 DEF NoPin
  <2>. QED  BY <1>3, <2>1, <2>2
<1>13. CASE Relocate(p)
  <2>1. OthersKeepMaps(p)
    BY <1>1, <1>4, <1>13 DEF Relocate
  <2>2. \A q \in Procs \ {p} : pc'[q] = pc[q] /\ i'[q] = i[q] /\ held'[q] = held[q]
    BY <1>1, <1>13 DEF Relocate
  <2>. QED  BY <1>3, <2>1, <2>2
<1>14. CASE SkipProg(p)
  <2>1. OthersKeepMaps(p)
    BY <1>1, <1>4, <1>14 DEF SkipProg
  <2>2. \A q \in Procs \ {p} : pc'[q] = pc[q] /\ i'[q] = i[q] /\ held'[q] = held[q]
    BY <1>1, <1>14 DEF SkipProg
  <2>. QED  BY <1>3, <2>1, <2>2
<1>15. CASE LoadProg(p)
  <2>1. OthersKeepMaps(p)
    BY <1>1, <1>4, <1>15 DEF LoadProg
  <2>2. \A q \in Procs \ {p} : pc'[q] = pc[q] /\ i'[q] = i[q] /\ held'[q] = held[q]
    BY <1>1, <1>15 DEF LoadProg
  <2>. QED  BY <1>3, <2>1, <2>2
<1>16. CASE RetryLoad(p)
  <2>1. OthersKeepMaps(p)
    BY <1>1, <1>4, <1>16 DEF RetryLoad
  <2>2. \A q \in Procs \ {p} : pc'[q] = pc[q] /\ i'[q] = i[q] /\ held'[q] = held[q]
    BY <1>1, <1>16 DEF RetryLoad
  <2>. QED  BY <1>3, <2>1, <2>2
<1>17. CASE LoadProgFails(p)
  <2>1. OthersKeepMaps(p)
    BY <1>1, <1>4, <1>17 DEF LoadProgFails
  <2>2. \A q \in Procs \ {p} : pc'[q] = pc[q] /\ i'[q] = i[q] /\ held'[q] = held[q]
    BY <1>1, <1>17 DEF LoadProgFails
  <2>. QED  BY <1>3, <2>1, <2>2
<1>18. CASE Loaded(p)
  <2>1. OthersKeepMaps(p)
    BY <1>1, <1>4, <1>18 DEF Loaded
  <2>2. \A q \in Procs \ {p} : pc'[q] = pc[q] /\ i'[q] = i[q] /\ held'[q] = held[q]
    BY <1>1, <1>18 DEF Loaded
  <2>. QED  BY <1>3, <2>1, <2>2
<1>19. CASE Fill(p)
  <2>1. OthersKeepMaps(p)
    BY <1>1, <1>4, <1>19 DEF Fill
  <2>2. \A q \in Procs \ {p} : pc'[q] = pc[q] /\ i'[q] = i[q] /\ held'[q] = held[q]
    BY <1>1, <1>19 DEF Fill
  <2>. QED  BY <1>3, <2>1, <2>2
<1>20. CASE ReuseMap(p)
  <2>1. OthersKeepMaps(p)
    BY <1>1, <1>5, <1>20, InMapsIndex DEF ReuseMap
  <2>2. \A q \in Procs \ {p} : pc'[q] = pc[q] /\ i'[q] = i[q] /\ held'[q] = held[q]
    BY <1>1, <1>20 DEF ReuseMap
  <2>. QED  BY <1>3, <2>1, <2>2
<1>21. CASE CreateMap(p)
  <2>1. OthersKeepMaps(p)
    BY <1>1, <1>5, <1>21, InMapsIndex DEF CreateMap
  <2>2. \A q \in Procs \ {p} : pc'[q] = pc[q] /\ i'[q] = i[q] /\ held'[q] = held[q]
    BY <1>1, <1>21 DEF CreateMap
  <2>. QED  BY <1>3, <2>1, <2>2
<1>22. CASE AutoPin(p)
  <2>1. OthersKeepMaps(p)
    BY <1>1, <1>5, <1>22, InMapsIndex DEF AutoPin
  <2>2. \A q \in Procs \ {p} : pc'[q] = pc[q] /\ i'[q] = i[q] /\ held'[q] = held[q]
    BY <1>1, <1>22 DEF AutoPin
  <2>. QED  BY <1>3, <2>1, <2>2
<1>23. CASE Unpin(p)
  <2>1. OthersKeepMaps(p)
    BY <1>1, <1>5, <1>23, InMapsIndex DEF Unpin
  <2>2. \A q \in Procs \ {p} : pc'[q] = pc[q] /\ i'[q] = i[q] /\ held'[q] = held[q]
    BY <1>1, <1>23 DEF Unpin
  <2>. QED  BY <1>3, <2>1, <2>2
<1>24. CASE ReuseFails(p)
  <2>1. OthersKeepMaps(p)
    BY <1>1, <1>6, <1>24 DEF ReuseFails
  <2>2. \A q \in Procs \ {p} : pc'[q] = pc[q] /\ i'[q] = i[q] /\ held'[q] = held[q]
    BY <1>1, <1>24 DEF ReuseFails, CreateErrOut
  <2>. QED  BY <1>3, <2>1, <2>2
<1>25. CASE CreateFails(p)
  <2>1. OthersKeepMaps(p)
    BY <1>1, <1>6, <1>25 DEF CreateFails
  <2>2. \A q \in Procs \ {p} : pc'[q] = pc[q] /\ i'[q] = i[q] /\ held'[q] = held[q]
    BY <1>1, <1>25 DEF CreateFails, CreateErrOut
  <2>. QED  BY <1>3, <2>1, <2>2
<1>26. CASE FillFails(p)
  <2>1. OthersKeepMaps(p)
    BY <1>1, <1>6, <1>26 DEF FillFails
  <2>2. \A q \in Procs \ {p} : pc'[q] = pc[q] /\ i'[q] = i[q] /\ held'[q] = held[q]
    BY <1>1, <1>26 DEF FillFails, CreateErrOut
  <2>. QED  BY <1>3, <2>1, <2>2
<1>27. CASE AutoPinFails(p)
  <2>1. OthersKeepMaps(p)
    BY <1>1, <1>6, <1>27 DEF AutoPinFails
  <2>2. \A q \in Procs \ {p} : pc'[q] = pc[q] /\ i'[q] = i[q] /\ held'[q] = held[q]
    BY <1>1, <1>27 DEF AutoPinFails, CreateErrOut
  <2>. QED  BY <1>3, <2>1, <2>2
<1>28. CASE Failed(p)
  <2>1. OthersKeepMaps(p)
    BY <1>1, <1>7, <1>28 DEF Failed, Unload
  <2>2. \A q \in Procs \ {p} : pc'[q] = pc[q] /\ i'[q] = i[q] /\ held'[q] = held[q]
    BY <1>1, <1>28 DEF Failed, Unload
  <2>. QED  BY <1>3, <2>1, <2>2
<1>29. CASE Close(p)
  <2>1. OthersKeepMaps(p)
    BY <1>1, <1>7, <1>29 DEF Close, Unload
  <2>2. \A q \in Procs \ {p} : pc'[q] = pc[q] /\ i'[q] = i[q] /\ held'[q] = held[q]
    BY <1>1, <1>29 DEF Close, Unload
  <2>. QED  BY <1>3, <2>1, <2>2
<1>. QED  BY <1>8, <1>9, <1>10, <1>11, <1>12, <1>13, <1>14, <1>15, <1>16, <1>17, <1>18, <1>19, <1>20, <1>21, <1>22, <1>23, <1>24, <1>25, <1>26, <1>27, <1>28, <1>29 DEF LoadStep

LEMMA PinKeepsOthers ==
    ASSUME Types, NEW p \in Procs, PinStep(p) \/ Calls(p)
    PROVE  OthersKeep(p)
<1>1. UNCHANGED <<obj, pc, i, held, log, kernel>> /\ PinEffect(p)
  BY PinStepEffect
<1>2. DOMAIN maps = Procs /\ DOMAIN pinPath = Procs /\ DOMAIN call = Procs /\ DOMAIN ncalls = Procs
      /\ DOMAIN failed = Procs
  BY DEF Types, LoadTypes, PinTypes
<1>3. \A q \in Procs \ {p} : maps'[q] = maps[q] /\ pinPath'[q] = pinPath[q]
  BY <1>1, <1>2 DEF PinEffect, PinsMap, UnpinsMap, PinsProg, UnpinsProg, RecordsPath, SetMap
<1>4. \A q \in Procs \ {p} : call'[q] = call[q]
  <2>1. \E c : Set(p, c)
    BY DEF PinStep, Calls, MapPinned, PinMap, PinMapFails, UndoMaps, MapsUndone, MapsPinned, UnpinNext,
           UnpinMapsEnds, PassOverProg, PinProg, PinProgFails, UndoProgs, ProgsUndone, UnpinProg,
           ProgsEnd, ReturnError, Return, GoTo, Advance, Back, PinMaps, UnpinMaps, PinPrograms,
           UnpinPrograms, Pin, Begin
  <2>. QED  BY <1>2, <2>1 DEF Set
<1>5. \A q \in Procs \ {p} : ncalls'[q] = ncalls[q] /\ failed'[q] = failed[q]
  <2>1. failed' = failed \/ failed' = [failed EXCEPT ![p] = @ \cup {ncalls[p]}]
    BY DEF PinStep, Calls, MapPinned, PinMap, PinMapFails, UndoMaps, MapsUndone, MapsPinned, UnpinNext,
           UnpinMapsEnds, PassOverProg, PinProg, PinProgFails, UndoProgs, ProgsUndone, UnpinProg,
           ProgsEnd, ReturnError, PinMaps, UnpinMaps, PinPrograms, UnpinPrograms, Pin, Begin
  <2>2. ncalls' = ncalls \/ ncalls' = [ncalls EXCEPT ![p] = @ + 1]
    BY DEF PinStep, Calls, MapPinned, PinMap, PinMapFails, UndoMaps, MapsUndone, MapsPinned, UnpinNext,
           UnpinMapsEnds, PassOverProg, PinProg, PinProgFails, UndoProgs, ProgsUndone, UnpinProg,
           ProgsEnd, PinMaps, UnpinMaps, PinPrograms, UnpinPrograms, Pin, Begin
  <2>. QED  BY <1>2, <2>1, <2>2
<1>. QED  BY <1>1, <1>3, <1>4, <1>5 DEF OthersKeep

-----------------------------------------------------------------------------
(***************************************************************************)
(* The loading part of the inductive invariant, process by process.        *)
(* Fresh maps are as bpf_object__open() left them; settled ones have a     *)
(* descriptor; a map that is being created is fresh or was just reused.    *)
(***************************************************************************)
Untouched(p, m) ==
    [fd |-> IF Def(p, m).preset THEN PresetId(p, m) ELSE NoMap,
     pinned |-> FALSE, reused |-> Def(p, m).preset]
Fresh(p, m) ==
    \/ pc[p] = "open"
    \/ pc[p] = "maps" /\ m >= i[p]
    \/ pc[p] \in {"create", "fill", "pin"} /\ m > i[p]
Settled(p, m) ==
    \/ pc[p] \in {"progs", "loaded"}
    \/ pc[p] \in {"maps", "create", "fill", "pin"} /\ m < i[p]
    \/ pc[p] = "pin" /\ m = i[p]
JustReused(p, m) ==
    /\ maps[p][m].fd # NoMap /\ maps[p][m].pinned /\ maps[p][m].reused
    /\ Def(p, m).pin # "none"

CallOk(p) ==
    /\ pc[p] \notin {"loaded", "failed"} => call[p] = NoCall
    /\ pc[p] \in Loading => /\ ncalls[p] = 0 /\ failed[p] = {}
                            /\ \A m \in 1 .. NMaps(p) : pinPath[p][m] = Def(p, m).pin

MapsOk(p) ==
    /\ pc[p] \in {"create", "fill", "pin"} => i[p] \in 1 .. NMaps(p)
    /\ pc[p] = "create" => maps[p][i[p]] = Untouched(p, i[p]) \/ JustReused(p, i[p])
    /\ pc[p] = "fill" => maps[p][i[p]] = [Untouched(p, i[p]) EXCEPT !.fd = Id(p, i[p])]
    /\ \A m \in 1 .. NMaps(p) :
         /\ Fresh(p, m) => maps[p][m] = Untouched(p, m)
         /\ Settled(p, m) => maps[p][m].fd # NoMap
         /\ pc[p] \in {"failed", "closed_loaded", "closed_failed"} => maps[p][m].fd = NoMap

HeldOk(p) ==
    \A d \in held[p] :
      /\ d[1] \in {"btf", "pin_fd", "dup_fd", "inner", "prog"}
      /\ d[1] \in {"pin_fd", "dup_fd"} => Def(p, d[2]).pin # "none"
      /\ pc[p] = "failed" => d[1] # "prog"
      /\ pc[p] \in {"closed_loaded", "closed_failed"} => d[1] \in {"pin_fd", "dup_fd"}

(***************************************************************************)
(* Kernel maps: process p has created those of the maps it has come to; a  *)
(* descriptor, and what is pinned, is of a map that exists; and every one  *)
(* but the one that its creator is filling is complete.                    *)
(***************************************************************************)
Done(id) == Complete(id[1], id[2], id)

KernelRec(id, def) ==
    DOMAIN kernel[id] = {"def", "data", "frozen", "slots"} /\ kernel[id].def = def
CreatedOk(p) ==
    \A n \in Nat : Id(p, n) \in DOMAIN kernel =>
      /\ n \in 1 .. NMaps(p) /\ pc[p] # "open"
      /\ pc[p] \in {"maps", "create"} => n < i[p]
      /\ pc[p] \in {"fill", "pin"} => n <= i[p]
      /\ KernelRec(Id(p, n), Def(p, n).def)

FdsOk(p) ==
    \A m \in 1 .. NMaps(p) :
      /\ maps[p][m].fd \in MapIds => maps[p][m].fd \in DOMAIN kernel
      /\ maps[p][m].fd \in DOMAIN kernel /\ ~(pc[p] = "fill" /\ m = i[p]) => Done(maps[p][m].fd)

PathsOk ==
    \A path \in Paths : bpffs[path] \in MapIds => bpffs[path] \in DOMAIN kernel /\ Done(bpffs[path])

ProcOk(p) == CallOk(p) /\ MapsOk(p) /\ HeldOk(p) /\ CreatedOk(p) /\ FdsOk(p)
LoadInv == /\ DOMAIN kernel \subseteq MapIds
           /\ \A p \in Procs : ProcOk(p)
           /\ PathsOk

LEMMA LoadInvInit == Init => LoadInv
<1>. SUFFICES ASSUME Init PROVE LoadInv
  OBVIOUS
<1>1. Types
  BY TypesInit
<1>2. DOMAIN kernel = {}
  BY DEF Init, LoadInit
<1>3. ASSUME NEW p \in Procs PROVE ProcOk(p)
  <2>1. pc[p] = "open" /\ held[p] = {} /\ call[p] = NoCall /\ ncalls[p] = 0 /\ failed[p] = {}
    BY DEF Init, LoadInit
  <2>2. DOMAIN obj[p].maps = 1 .. NMaps(p)
    BY <1>1, ObjectTypes DEF NMaps, Types, LoadTypes
  <2>3. \A m \in 1 .. NMaps(p) : maps[p][m] = Untouched(p, m) /\ pinPath[p][m] = Def(p, m).pin
    BY <2>2 DEF Init, LoadInit, Untouched
  <2>4. CallOk(p)
    BY <2>1, <2>3 DEF CallOk
  <2>5. MapsOk(p)
    BY <2>1, <2>3 DEF MapsOk, Settled
  <2>6. HeldOk(p) /\ CreatedOk(p)
    BY <1>2, <2>1 DEF HeldOk, CreatedOk
  <2>7. FdsOk(p)
    <3>1. ASSUME NEW m \in 1 .. NMaps(p) PROVE maps[p][m].fd \notin MapIds
      <4>1. maps[p][m].fd = PresetId(p, m) \/ maps[p][m].fd = NoMap
        <5>1. maps[p][m] = Untouched(p, m)
          BY <2>3
        <5>2. CASE Def(p, m).preset
          BY <5>1, <5>2 DEF Untouched
        <5>3. CASE ~Def(p, m).preset
          BY <5>1, <5>3 DEF Untouched
        <5>. QED  BY <5>2, <5>3
      <4>. QED  BY <4>1, Ids DEF MapIds
    <3>. QED  BY <1>2, <3>1 DEF FdsOk
  <2>. QED  BY <2>4, <2>5, <2>6, <2>7 DEF ProcOk
<1>4. PathsOk
  <2>1. \A path \in Paths : bpffs[path] = NoMap
    BY DEF Init, LoadInit
  <2>. QED  BY <2>1, Ids DEF PathsOk, MapIds
<1>. QED  BY <1>2, <1>3, <1>4 DEF LoadInv

(***************************************************************************)
(* A step of process p changes only kernel maps of its own: it adds the    *)
(* one it has come to, or completes it.                                    *)
(***************************************************************************)
KernelKeeps(p) ==
    /\ DOMAIN kernel \subseteq DOMAIN kernel'
    /\ \A id \in DOMAIN kernel' : id \notin DOMAIN kernel => id = Id(p, i[p])
    /\ \A id \in DOMAIN kernel : id # Id(p, i[p]) => kernel'[id] = kernel[id]
    /\ \A id \in DOMAIN kernel : Done(id) => Done(id)'

LEMMA KernelSame ==
    ASSUME obj' = obj, kernel' = kernel, NEW p PROVE KernelKeeps(p)
BY DEF KernelKeeps, Done, Complete, Def

LEMMA KernelRecType ==
    ASSUME Types, LoadInv, NEW id \in DOMAIN kernel
    PROVE  /\ id[1] \in Procs /\ id[2] \in 1 .. NMaps(id[1]) /\ id = Id(id[1], id[2])
           /\ KernelRec(id, Def(id[1], id[2]).def)
<1>1. PICK q \in Procs, n \in Nat : id = Id(q, n)
  BY DEF LoadInv, MapIds
<1>2. n \in 1 .. NMaps(q) /\ KernelRec(id, Def(q, n).def)
  BY <1>1 DEF LoadInv, ProcOk, CreatedOk
<1>3. id[1] = q /\ id[2] = n
  BY <1>1, Ids
<1>. QED  BY <1>1, <1>2, <1>3

LEMMA FilledFunction ==
    ASSUME NEW f, NEW d \in DOMAIN f, NEW a, NEW b, NEW c, NEW g,
           g = [f EXCEPT ![d] = [@ EXCEPT !.data = a, !.frozen = b, !.slots = c]]
    PROVE  g[d] = [f[d] EXCEPT !.data = a, !.frozen = b, !.slots = c]
OBVIOUS

LEMMA FillKernel ==
    ASSUME Types, LoadInv, NEW p \in Procs, Fill(p)
    PROVE  /\ pc[p] = "fill" /\ i[p] \in 1 .. NMaps(p) /\ maps[p][i[p]].fd = Id(p, i[p])
           /\ Id(p, i[p]) \in DOMAIN kernel /\ DOMAIN kernel' = DOMAIN kernel
           /\ \A id \in DOMAIN kernel : id # Id(p, i[p]) => kernel'[id] = kernel[id]
           /\ KernelRec(Id(p, i[p]), Def(p, i[p]).def)'
           /\ Done(Id(p, i[p]))'
           /\ kernel'[Id(p, i[p])].slots = [s \in DOMAIN Cur(p).slots |-> maps[p][Cur(p).slots[s]].fd]
<1>1. pc[p] = "fill" /\ i[p] \in 1 .. NMaps(p) /\ i[p] \in Nat /\ obj' = obj /\ i' = i
  BY InMapsIndex DEF Fill, Types, pvars
<1>2. maps[p][i[p]].fd = Id(p, i[p])
  <2>1. maps[p][i[p]] = [Untouched(p, i[p]) EXCEPT !.fd = Id(p, i[p])]
    BY <1>1 DEF LoadInv, ProcOk, MapsOk
  <2>. QED  BY <2>1 DEF Untouched
<1>3. Id(p, i[p]) \in DOMAIN kernel
  BY <1>1, <1>2 DEF LoadInv, ProcOk, FdsOk, MapIds
<1>. DEFINE id == Id(p, i[p])
            slots == [s \in DOMAIN Cur(p).slots |-> maps[p][Cur(p).slots[s]].fd]
            data == Cur(p).kind \in {"data", "rodata"}
            frozen == Cur(p).kind = "rodata"
<1>4. DOMAIN kernel[id] = {"def", "data", "frozen", "slots"} /\ kernel[id].def = Def(p, i[p]).def
  BY <1>1, <1>3 DEF LoadInv, ProcOk, CreatedOk, KernelRec
<1>5. kernel' = [kernel EXCEPT ![id] =
         [@ EXCEPT !.data = data, !.frozen = frozen, !.slots = slots]]
  BY <1>2 DEF Fill, Map
<1>6. /\ DOMAIN kernel'[id] = {"def", "data", "frozen", "slots"} /\ kernel'[id].def = Def(p, i[p]).def
      /\ kernel'[id].data = data /\ kernel'[id].frozen = frozen /\ kernel'[id].slots = slots
  <2>1. id \in DOMAIN kernel
    BY <1>3
  <2>. HIDE DEF slots, id, data, frozen
  <2>2. kernel'[id] = [kernel[id] EXCEPT !.data = data, !.frozen = frozen, !.slots = slots]
    BY <1>5, <2>1, FilledFunction, Zenon
  <2>. QED  BY <1>4, <2>2
<1>7. DOMAIN kernel' = DOMAIN kernel /\ \A x \in DOMAIN kernel : x # id => kernel'[x] = kernel[x]
  <2>. HIDE DEF slots, id
  <2>. QED  BY <1>3, <1>5
<1>8. Len(slots) = Len(Def(p, i[p]).slots)
  <2>1. Def(p, i[p]).slots \in Seq(1 .. NMaps(p))
    BY <1>1, MapOfLoad DEF Types
  <2>2. slots \in [1 .. Len(Def(p, i[p]).slots) -> {maps[p][m].fd : m \in 1 .. NMaps(p)}]
        /\ Len(Def(p, i[p]).slots) \in Nat
    BY <2>1, LenProperties DEF Cur
  <2>3. slots \in Seq({maps[p][m].fd : m \in 1 .. NMaps(p)})
    BY <2>2, SeqDef, ZenonT(80)
  <2>. HIDE DEF slots
  <2>4. DOMAIN slots = 1 .. Len(slots) /\ Len(slots) \in Nat
    BY <2>3, LenProperties
  <2>. QED  BY <2>2, <2>4
<1>9. Done(id)'
  <2>1. Id(p, i[p])[1] = p /\ Id(p, i[p])[2] = i[p]
    BY Ids
  <2>2. Cur(p) = Def(p, i[p]) /\ \A m : Def(p, m)' = Def(p, m)
    BY <1>1 DEF Cur, Def
  <2>3. Done(id)' <=> Complete(p, i[p], id)'
    BY <1>1, <2>1 DEF Done
  <2>4. Complete(p, i[p], id)'
    BY <1>1, <1>6, <1>8, <2>2 DEF Complete
  <2>. QED  BY <2>3, <2>4
<1>10. KernelRec(id, Def(p, i[p]).def)'
  <2>1. id' = id /\ Def(p, i[p])' = Def(p, i[p])
    BY <1>1 DEF Def
  <2>. HIDE DEF id, slots
  <2>. QED  BY <1>6, <2>1 DEF KernelRec
<1>. QED  BY <1>1, <1>2, <1>3, <1>6, <1>7, <1>9, <1>10

LEMMA CreateKernel ==
    ASSUME Types, LoadInv, NEW p \in Procs, CreateMap(p)
    PROVE  /\ pc[p] = "create" /\ i[p] \in 1 .. NMaps(p) /\ Id(p, i[p]) \notin DOMAIN kernel
           /\ DOMAIN kernel' = DOMAIN kernel \cup {Id(p, i[p])}
           /\ \A id \in DOMAIN kernel : kernel'[id] = kernel[id]
           /\ KernelRec(Id(p, i[p]), Def(p, i[p]).def)'
<1>1. pc[p] = "create" /\ i[p] \in 1 .. NMaps(p) /\ i[p] \in Nat /\ obj' = obj /\ i' = i
  BY InMapsIndex DEF CreateMap, Types
<1>2. Id(p, i[p]) \notin DOMAIN kernel
  BY <1>1 DEF LoadInv, ProcOk, CreatedOk
<1>. DEFINE new == [def |-> Cur(p).def, data |-> FALSE, frozen |-> FALSE, slots |-> <<>>]
<1>3. kernel' = [id \in DOMAIN kernel \cup {Id(p, i[p])} |-> IF id = Id(p, i[p]) THEN new ELSE kernel[id]]
  BY DEF CreateMap
<1>4. DOMAIN new = {"def", "data", "frozen", "slots"} /\ new.def = Def(p, i[p]).def
  BY DEF Cur
<1>. HIDE DEF new
<1>5. DOMAIN kernel' = DOMAIN kernel \cup {Id(p, i[p])} /\ kernel'[Id(p, i[p])] = new
      /\ \A id \in DOMAIN kernel : kernel'[id] = kernel[id]
  BY <1>2, <1>3
<1>6. KernelRec(Id(p, i[p]), Def(p, i[p]).def)'
  BY <1>1, <1>4, <1>5 DEF KernelRec, Def
<1>. QED  BY <1>1, <1>2, <1>5, <1>6

LEMMA KernelStep ==
    ASSUME Types, LoadInv, NEW p \in Procs, LoadStep(p) \/ Close(p) \/ PinStep(p) \/ Calls(p)
    PROVE  KernelKeeps(p) /\ obj' = obj
<1>1. CASE PinStep(p) \/ Calls(p)
  BY <1>1, PinStepEffect, KernelSame
<1>2. CASE LoadStep(p) \/ Close(p)
  <2>1. obj' = obj
    BY <1>2, LoadStepTypes DEF Types
  <2>2. CASE CreateMap(p)
    <3>1. ASSUME NEW id \in DOMAIN kernel, Done(id) PROVE Done(id)'
      BY <2>1, <2>2, <3>1, CreateKernel DEF Done, Complete, Def
    <3>2. \A id \in DOMAIN kernel : Done(id) => Done(id)'
      BY <3>1
    <3>3. /\ DOMAIN kernel' = DOMAIN kernel \cup {Id(p, i[p])}
          /\ \A id \in DOMAIN kernel : kernel'[id] = kernel[id]
      BY <2>2, CreateKernel
    <3>4. KernelKeeps(p)
      BY <3>2, <3>3 DEF KernelKeeps
    <3>. QED  BY <2>1, <3>4
  <2>3. CASE Fill(p)
    <3>1. ASSUME NEW id \in DOMAIN kernel, Done(id) PROVE Done(id)'
      <4>1. CASE id = Id(p, i[p])
        <5>1. i' = i
          BY <2>3 DEF Fill, pvars
        <5>2. Done(Id(p, i[p]))'
          BY <2>3, FillKernel
        <5>. QED  BY <4>1, <5>1, <5>2
      <4>2. CASE id # Id(p, i[p])
        <5>1. kernel'[id] = kernel[id]
          BY <2>3, <4>2, FillKernel
        <5>. QED  BY <2>1, <3>1, <5>1 DEF Done, Complete, Def
      <4>. QED  BY <4>1, <4>2
    <3>. QED  BY <2>1, <2>3, <3>1, FillKernel DEF KernelKeeps
  <2>4. CASE kernel' = kernel
    BY <2>1, <2>4, KernelSame
  <2>5. CreateMap(p) \/ Fill(p) \/ kernel' = kernel
    BY <1>2 DEF LoadStep, Close, Prepare, PrepareFails, NothingToReuse, ReuseMap, ReuseFails, SkipCreation,
             CreateFails, FillFails, AutoPin, AutoPinFails, NoPin, Relocate, SkipProg, LoadProg, RetryLoad,
             LoadProgFails, Loaded, Unpin, Failed
  <2>. QED  BY <2>1, <2>2, <2>3, <2>4, <2>5
<1>. QED  BY <1>1, <1>2

(***************************************************************************)
(* The invariant of the processes that do not take the step.               *)
(***************************************************************************)
LEMMA UntouchedKept ==
    ASSUME obj' = obj, NEW p PROVE \A m : Untouched(p, m)' = Untouched(p, m)
<1>. SUFFICES ASSUME NEW m PROVE Untouched(p, m)' = Untouched(p, m)
  OBVIOUS
<1>1. Def(p, m)' = Def(p, m)
  BY DEF Def
<1>. QED  BY <1>1, Zenon DEF Untouched

LEMMA OthersOk ==
    ASSUME Types, LoadInv, NEW p \in Procs, NEW q \in Procs, q # p,
           OthersKeep(p), KernelKeeps(p), obj' = obj
    PROVE  ProcOk(q)'
<1>1. /\ pc'[q] = pc[q] /\ i'[q] = i[q] /\ maps'[q] = maps[q] /\ held'[q] = held[q]
      /\ pinPath'[q] = pinPath[q] /\ call'[q] = call[q] /\ ncalls'[q] = ncalls[q]
      /\ failed'[q] = failed[q]
  BY DEF OthersKeep
<1>2. \A m : Def(q, m)' = Def(q, m)
  BY DEF Def
<1>3. NMaps(q)' = NMaps(q)
  BY DEF NMaps
<1>4. ProcOk(q)
  BY DEF LoadInv
<1>5. CallOk(q)'
  BY <1>1, <1>2, <1>3, <1>4 DEF ProcOk, CallOk
<1>6. MapsOk(q)'
  <2>1. \A m : Fresh(q, m)' <=> Fresh(q, m)
    BY <1>1 DEF Fresh
  <2>5. \A m : Settled(q, m)' <=> Settled(q, m)
    BY <1>1 DEF Settled
  <2>6. \A m : Untouched(q, m)' = Untouched(q, m)
    BY UntouchedKept
  <2>2. JustReused(q, i[q])' <=> JustReused(q, i[q])
    BY <1>1, <1>2 DEF JustReused
  <2>3. Untouched(q, i[q])' = Untouched(q, i[q]) /\ Id(q, i[q])' = Id(q, i[q])
    BY <1>1, <2>6
  <2>4. MapsOk(q)
    BY <1>4 DEF ProcOk
  <2>. QED  BY <1>1, <1>3, <2>1, <2>2, <2>3, <2>4, <2>5, <2>6 DEF MapsOk
<1>7. HeldOk(q)'
  BY <1>1, <1>2, <1>4 DEF ProcOk, HeldOk
<1>8. CreatedOk(q)'
  <2>1. ASSUME NEW n \in Nat, Id(q, n) \in DOMAIN kernel'
        PROVE  Id(q, n) \in DOMAIN kernel /\ kernel'[Id(q, n)] = kernel[Id(q, n)]
    BY <2>1, Ids DEF KernelKeeps
  <2>. QED  BY <1>1, <1>2, <1>3, <1>4, <2>1 DEF ProcOk, CreatedOk, KernelRec
<1>9. FdsOk(q)'
  <2>1. ASSUME NEW m \in 1 .. NMaps(q)
        PROVE  /\ maps'[q][m].fd \in MapIds => maps'[q][m].fd \in DOMAIN kernel'
               /\ maps'[q][m].fd \in DOMAIN kernel' /\ ~(pc'[q] = "fill" /\ m = i'[q])
                    => Done(maps[q][m].fd)'
    <3>1. maps[q][m].fd \in AllIds
      BY MapOfLoad DEF Types
    <3>2. CASE maps[q][m].fd \in MapIds
      <4>1. maps[q][m].fd \in DOMAIN kernel
        BY <1>4, <3>2 DEF ProcOk, FdsOk
      <4>2. ~(pc[q] = "fill" /\ m = i[q]) => Done(maps[q][m].fd)
        BY <1>4, <4>1 DEF ProcOk, FdsOk
      <4>. DEFINE x == maps[q][m].fd
      <4>3. x' = x
        BY <1>1
      <4>4. ~(pc[q] = "fill" /\ m = i[q]) => Done(x)'
        <5>1. \A id \in DOMAIN kernel : Done(id) => Done(id)'
          BY DEF KernelKeeps
        <5>2. PICK y : y = x
          OBVIOUS
        <5>3. ~(pc[q] = "fill" /\ m = i[q]) => Done(y)'
          BY <4>1, <4>2, <5>1, <5>2
        <5>. QED  BY <4>3, <5>2, <5>3
      <4>. QED  BY <1>1, <4>1, <4>4 DEF KernelKeeps
    <3>3. CASE maps[q][m].fd \notin MapIds
      <4>1. maps[q][m].fd \notin DOMAIN kernel'
        <5>1. Id(p, i[p]) \in MapIds
          BY DEF Types, LoadTypes, MapIds
        <5>. QED  BY <3>3, <5>1, SMTT(40) DEF LoadInv, KernelKeeps
      <4>. QED  BY <1>1, <3>3, <4>1
    <3>. QED  BY <3>2, <3>3
  <2>. QED  BY <1>3, <2>1 DEF FdsOk
<1>. QED  BY <1>5, <1>6, <1>7, <1>8, <1>9 DEF ProcOk

-----------------------------------------------------------------------------
(***************************************************************************)
(* The invariant of the process that takes a step of its load.             *)
(***************************************************************************)
LEMMA LoadStepAt ==
    ASSUME NEW p \in Procs, LoadStep(p) PROVE pc[p] \in Loading
BY DEF LoadStep, Prepare, PrepareFails, NothingToReuse, ReuseMap, ReuseFails, SkipCreation, CreateMap,
       CreateFails, Fill, FillFails, AutoPin, AutoPinFails, NoPin, Relocate, SkipProg, LoadProg, RetryLoad,
       LoadProgFails, Loaded, Unpin, Failed, InMaps, InProgs, Loading

LEMMA OwnCallOk ==
    ASSUME Types, LoadInv, NEW p \in Procs, UNCHANGED pinvars,
           LoadStep(p) \/ (call[p] = NoCall /\ Close(p))
    PROVE  CallOk(p)'
<1>1. CallOk(p) /\ LoadTypes
  BY DEF LoadInv, ProcOk, Types
<1>2. obj' = obj
  BY <1>1, LoadStepTypes
<1>3. NMaps(p)' = NMaps(p) /\ \A m : Def(p, m)' = Def(p, m)
  BY <1>2 DEF NMaps, Def
<1>4. CASE LoadStep(p)
  <2>1. pc[p] \in Loading /\ "loaded" \notin Loading /\ "failed" \notin Loading
    BY <1>4, LoadStepAt DEF Loading
  <2>. QED  BY <1>1, <1>3, <2>1 DEF CallOk, pinvars
<1>5. CASE call[p] = NoCall /\ Close(p)
  <2>1. pc'[p] \notin Loading
    BY <1>1, <1>5 DEF Close, Goto, LoadTypes, Loading
  <2>. QED  BY <1>5, <2>1 DEF CallOk, pinvars
<1>. QED  BY <1>4, <1>5

LEMMA OwnHeldOk ==
    ASSUME Types, LoadInv, NEW p \in Procs, LoadStep(p) \/ Close(p)
    PROVE  HeldOk(p)'
<1>. USE DEF Goto, SetI, Out, pvars
<1>1. LoadTypes /\ HeldOk(p) /\ DOMAIN pc = Procs /\ DOMAIN i = Procs /\ DOMAIN held = Procs
  BY DEF LoadInv, ProcOk, Types, LoadTypes
<1>2. obj' = obj
  BY <1>1, LoadStepTypes
<1>3. \A m : Def(p, m)' = Def(p, m)
  BY <1>2 DEF Def
<1>4. ASSUME held'[p] = held[p], pc'[p] \notin {"failed", "closed_loaded", "closed_failed"}
      PROVE  HeldOk(p)'
  BY <1>1, <1>3, <1>4 DEF HeldOk
<1>5. ASSUME NEW d, held'[p] = held[p] \cup {d}, d[1] \in {"btf", "pin_fd", "dup_fd", "inner", "prog"},
             d[1] \in {"pin_fd", "dup_fd"} => Def(p, d[2]).pin # "none",
             pc'[p] \notin {"failed", "closed_loaded", "closed_failed"}
      PROVE  HeldOk(p)'
  BY <1>1, <1>3, <1>5 DEF HeldOk
<1>6. CASE PrepareFails(p)
  BY <1>1, <1>4, <1>6 DEF PrepareFails, InMaps, InProgs, CreateErrOut
<1>7. CASE NothingToReuse(p)
  BY <1>1, <1>4, <1>7 DEF NothingToReuse, InMaps, InProgs, CreateErrOut
<1>8. CASE SkipCreation(p)
  BY <1>1, <1>4, <1>8 DEF SkipCreation, InMaps, InProgs, CreateErrOut
<1>9. CASE CreateMap(p)
  BY <1>1, <1>4, <1>9 DEF CreateMap, InMaps, InProgs, CreateErrOut
<1>10. CASE Fill(p)
  BY <1>1, <1>4, <1>10 DEF Fill, InMaps, InProgs, CreateErrOut
<1>11. CASE FillFails(p)
  BY <1>1, <1>4, <1>11 DEF FillFails, InMaps, InProgs, CreateErrOut
<1>12. CASE AutoPin(p)
  BY <1>1, <1>4, <1>12 DEF AutoPin, InMaps, InProgs, CreateErrOut
<1>13. CASE AutoPinFails(p)
  BY <1>1, <1>4, <1>13 DEF AutoPinFails, InMaps, InProgs, CreateErrOut
<1>14. CASE NoPin(p)
  BY <1>1, <1>4, <1>14 DEF NoPin, InMaps, InProgs, CreateErrOut
<1>15. CASE Relocate(p)
  BY <1>1, <1>4, <1>15 DEF Relocate, InMaps, InProgs, CreateErrOut
<1>16. CASE SkipProg(p)
  BY <1>1, <1>4, <1>16 DEF SkipProg, InMaps, InProgs, CreateErrOut
<1>17. CASE RetryLoad(p)
  BY <1>1, <1>4, <1>17 DEF RetryLoad, InMaps, InProgs, CreateErrOut
<1>18. CASE LoadProgFails(p)
  BY <1>1, <1>4, <1>18 DEF LoadProgFails, InMaps, InProgs, CreateErrOut
<1>19. CASE Loaded(p)
  BY <1>1, <1>4, <1>19 DEF Loaded, InMaps, InProgs, CreateErrOut
<1>20. CASE Unpin(p)
  BY <1>1, <1>4, <1>20 DEF Unpin, InMaps, InProgs, CreateErrOut
<1>21. CASE Prepare(p)
  <2>1. held'[p] = held[p] \cup {<<"btf">>} /\ pc'[p] \notin {"failed", "closed_loaded", "closed_failed"}
    BY <1>1, <1>21 DEF Prepare, InProgs
  <2>. QED  BY <1>5, <1>21, <2>1 DEF Prepare, Cur
<1>22. CASE ReuseMap(p)
  <2>1. held'[p] = held[p] \cup {<<"pin_fd", i[p]>>} /\ pc'[p] \notin {"failed", "closed_loaded", "closed_failed"}
    BY <1>1, <1>22 DEF ReuseMap, InProgs
  <2>. QED  BY <1>5, <1>22, <2>1 DEF ReuseMap, Cur
<1>23. CASE LoadProg(p)
  <2>1. held'[p] = held[p] \cup {<<"prog", i[p]>>} /\ pc'[p] \notin {"failed", "closed_loaded", "closed_failed"}
    BY <1>1, <1>23 DEF LoadProg, InProgs
  <2>. QED  BY <1>5, <1>23, <2>1 DEF LoadProg, Cur
<1>24. CASE ReuseFails(p)
  <2>1. pc'[p] = "unpin" /\ Def(p, i[p]).pin # "none"
    BY <1>1, <1>24 DEF ReuseFails, CreateErrOut, Cur
  <2>2. held'[p] = held[p] \/ held'[p] = held[p] \cup {<<"dup_fd", i[p]>>}
    BY <1>1, <1>24 DEF ReuseFails
  <2>. QED  BY <1>4, <1>5, <2>1, <2>2
<1>25. CASE CreateFails(p)
  <2>1. pc'[p] = "unpin"
    BY <1>1, <1>25 DEF CreateFails, CreateErrOut
  <2>2. held'[p] = held[p] \/ held'[p] = held[p] \cup {<<"inner", i[p]>>}
    BY <1>1, <1>25 DEF CreateFails
  <2>. QED  BY <1>4, <1>5, <2>1, <2>2
<1>26. CASE Failed(p)
  BY <1>1, <1>3, <1>26 DEF Failed, Unload, HeldOk
<1>27. CASE Close(p)
  BY <1>1, <1>3, <1>27 DEF Close, HeldOk
<1>. QED  BY <1>6, <1>7, <1>8, <1>9, <1>10, <1>11, <1>12, <1>13, <1>14, <1>15, <1>16, <1>17, <1>18, <1>19, <1>20, <1>21, <1>22, <1>23, <1>24, <1>25, <1>26, <1>27 DEF LoadStep

LEMMA OwnCreatedOk ==
    ASSUME Types, LoadInv, NEW p \in Procs, LoadStep(p) \/ Close(p)
    PROVE  CreatedOk(p)'
<1>. USE DEF Goto, SetI, Out, pvars
<1>1. LoadTypes /\ CreatedOk(p) /\ DOMAIN pc = Procs /\ i \in [Procs -> Nat \ {0}]
  BY DEF LoadInv, ProcOk, Types, LoadTypes
<1>2. obj' = obj
  BY <1>1, LoadStepTypes
<1>3. NMaps(p)' = NMaps(p) /\ \A m : Def(p, m)' = Def(p, m)
  BY <1>2 DEF NMaps, Def
<1>4. ASSUME kernel' = kernel, pc'[p] # "open",
             \A n \in Nat : Id(p, n) \in DOMAIN kernel =>
               /\ pc'[p] \in {"maps", "create"} => n < i'[p]
               /\ pc'[p] \in {"fill", "pin"} => n <= i'[p]
      PROVE  CreatedOk(p)'
  BY <1>1, <1>3, <1>4 DEF CreatedOk, KernelRec
<1>5. i[p] \in Nat /\ i[p] + 1 \in Nat /\ \A n \in Nat : n < i[p] => n <= i[p] /\ n < i[p] + 1
  BY <1>1
<1>6. CASE Prepare(p)
  BY <1>1, <1>4, <1>5, <1>6 DEF Prepare, InMaps, InProgs, CreateErrOut, CreatedOk
<1>7. CASE PrepareFails(p)
  BY <1>1, <1>4, <1>5, <1>7 DEF PrepareFails, InMaps, InProgs, CreateErrOut, CreatedOk
<1>8. CASE NothingToReuse(p)
  BY <1>1, <1>4, <1>5, <1>8 DEF NothingToReuse, InMaps, InProgs, CreateErrOut, CreatedOk
<1>9. CASE ReuseMap(p)
  BY <1>1, <1>4, <1>5, <1>9 DEF ReuseMap, InMaps, InProgs, CreateErrOut, CreatedOk
<1>10. CASE ReuseFails(p)
  BY <1>1, <1>4, <1>5, <1>10 DEF ReuseFails, InMaps, InProgs, CreateErrOut, CreatedOk
<1>11. CASE SkipCreation(p)
  BY <1>1, <1>4, <1>5, <1>11 DEF SkipCreation, InMaps, InProgs, CreateErrOut, CreatedOk
<1>12. CASE CreateFails(p)
  BY <1>1, <1>4, <1>5, <1>12 DEF CreateFails, InMaps, InProgs, CreateErrOut, CreatedOk
<1>13. CASE FillFails(p)
  BY <1>1, <1>4, <1>5, <1>13 DEF FillFails, InMaps, InProgs, CreateErrOut, CreatedOk
<1>14. CASE AutoPin(p)
  BY <1>1, <1>4, <1>5, <1>14 DEF AutoPin, InMaps, InProgs, CreateErrOut, CreatedOk
<1>15. CASE AutoPinFails(p)
  BY <1>1, <1>4, <1>5, <1>15 DEF AutoPinFails, InMaps, InProgs, CreateErrOut, CreatedOk
<1>16. CASE NoPin(p)
  BY <1>1, <1>4, <1>5, <1>16 DEF NoPin, InMaps, InProgs, CreateErrOut, CreatedOk
<1>17. CASE Relocate(p)
  BY <1>1, <1>4, <1>5, <1>17 DEF Relocate, InMaps, InProgs, CreateErrOut, CreatedOk
<1>18. CASE SkipProg(p)
  BY <1>1, <1>4, <1>5, <1>18 DEF SkipProg, InMaps, InProgs, CreateErrOut, CreatedOk
<1>19. CASE LoadProg(p)
  BY <1>1, <1>4, <1>5, <1>19 DEF LoadProg, InMaps, InProgs, CreateErrOut, CreatedOk
<1>20. CASE RetryLoad(p)
  BY <1>1, <1>4, <1>5, <1>20 DEF RetryLoad, InMaps, InProgs, CreateErrOut, CreatedOk
<1>21. CASE LoadProgFails(p)
  BY <1>1, <1>4, <1>5, <1>21 DEF LoadProgFails, InMaps, InProgs, CreateErrOut, CreatedOk
<1>22. CASE Loaded(p)
  BY <1>1, <1>4, <1>5, <1>22 DEF Loaded, InMaps, InProgs, CreateErrOut, CreatedOk
<1>23. CASE Unpin(p)
  BY <1>1, <1>4, <1>5, <1>23 DEF Unpin, InMaps, InProgs, CreateErrOut, CreatedOk
<1>24. CASE Failed(p)
  BY <1>1, <1>4, <1>5, <1>24 DEF Failed, InMaps, InProgs, CreateErrOut, CreatedOk
<1>25. CASE Close(p)
  BY <1>1, <1>4, <1>5, <1>25 DEF Close, InMaps, InProgs, CreateErrOut, CreatedOk
<1>26. CASE CreateMap(p)
  <2>1. pc'[p] = "fill" /\ i'[p] = i[p] /\ pc[p] = "create" /\ i' = i
    BY <1>1, <1>26 DEF CreateMap, InMaps
  <2>2. /\ i[p] \in 1 .. NMaps(p) /\ DOMAIN kernel' = DOMAIN kernel \cup {Id(p, i[p])}
        /\ KernelRec(Id(p, i[p]), Def(p, i[p]).def)'
        /\ \A id \in DOMAIN kernel : kernel'[id] = kernel[id]
    BY <1>26, CreateKernel
  <2>3. ASSUME NEW n \in Nat, Id(p, n) \in DOMAIN kernel'
        PROVE  n \in 1 .. NMaps(p) /\ n <= i[p] /\ KernelRec(Id(p, n), Def(p, n).def)'
    <3>1. CASE n = i[p]
      BY <1>5, <2>1, <2>2, <3>1
    <3>2. CASE n # i[p]
      <4>1. Id(p, n) \in DOMAIN kernel
        BY <2>2, <2>3, <3>2, Ids
      <4>2. n \in 1 .. NMaps(p) /\ n < i[p] /\ KernelRec(Id(p, n), Def(p, n).def)
        BY <1>1, <2>1, <4>1 DEF CreatedOk
      <4>. QED  BY <1>3, <1>5, <2>2, <4>1, <4>2 DEF KernelRec
    <3>. QED  BY <3>1, <3>2
  <2>. QED  BY <1>3, <2>1, <2>3 DEF CreatedOk
<1>27. CASE Fill(p)
  <2>1. pc'[p] = "pin" /\ i'[p] = i[p] /\ pc[p] = "fill" /\ i' = i
    BY <1>1, <1>27 DEF Fill, InMaps
  <2>2. /\ DOMAIN kernel' = DOMAIN kernel
        /\ KernelRec(Id(p, i[p]), Def(p, i[p]).def)'
        /\ \A id \in DOMAIN kernel : id # Id(p, i[p]) => kernel'[id] = kernel[id]
    BY <1>27, FillKernel
  <2>3. ASSUME NEW n \in Nat, Id(p, n) \in DOMAIN kernel'
        PROVE  n \in 1 .. NMaps(p) /\ n <= i[p] /\ KernelRec(Id(p, n), Def(p, n).def)'
    <3>1. n \in 1 .. NMaps(p) /\ n <= i[p] /\ KernelRec(Id(p, n), Def(p, n).def)
      BY <1>1, <2>1, <2>2, <2>3 DEF CreatedOk
    <3>2. CASE n = i[p]
      BY <2>1, <2>2, <3>1, <3>2
    <3>3. CASE n # i[p]
      BY <1>3, <2>2, <2>3, <3>1, <3>3, Ids DEF KernelRec
    <3>. QED  BY <3>2, <3>3
  <2>. QED  BY <1>3, <2>1, <2>3 DEF CreatedOk
<1>. QED  BY <1>6, <1>7, <1>8, <1>9, <1>10, <1>11, <1>12, <1>13, <1>14, <1>15, <1>16, <1>17, <1>18, <1>19, <1>20, <1>21, <1>22, <1>23, <1>24, <1>25, <1>26, <1>27 DEF LoadStep

(***************************************************************************)
(* Descriptors stay those of existing, complete maps.                      *)
(***************************************************************************)
FdGood(x) == (x \in MapIds => x \in DOMAIN kernel) /\ (x \in DOMAIN kernel => Done(x))

LEMMA GoodStays ==
    ASSUME Types, LoadInv, NEW p \in Procs, KernelKeeps(p), NEW x, FdGood(x)
    PROVE  FdGood(x)'
<1>1. Id(p, i[p]) \in MapIds
  BY DEF Types, LoadTypes, MapIds
<1>2. x \in DOMAIN kernel' => x \in DOMAIN kernel
  BY <1>1 DEF KernelKeeps, LoadInv, FdGood
<1>. QED  BY <1>2 DEF KernelKeeps, FdGood

LEMMA OldGood ==
    ASSUME Types, LoadInv, NEW p \in Procs, NEW m \in 1 .. NMaps(p), ~(pc[p] = "fill" /\ m = i[p])
    PROVE  FdGood(maps[p][m].fd)
BY DEF LoadInv, ProcOk, FdsOk, FdGood

LEMMA NoMapGood == ASSUME Types, LoadInv PROVE FdGood(NoMap)
BY Ids DEF FdGood, LoadInv, MapIds

LEMMA PathGood == ASSUME Types, LoadInv, NEW path \in Paths PROVE FdGood(bpffs[path])
BY DEF FdGood, LoadInv, PathsOk

LEMMA UnpinEffect ==
    ASSUME LoadTypes, NEW p \in Procs, Unpin(p)
    PROVE  /\ i[p] \in 1 .. NMaps(p) /\ i[p] \in Nat /\ pc[p] = "unpin" /\ InMaps(p, "unpin")
           /\ Map(p) = maps[p][i[p]] /\ Cur(p) = Def(p, i[p])
           /\ \E r \in MapRec :
                /\ r.fd = Map(p).fd /\ r.reused = Map(p).reused /\ SetMap(p, i[p], r)
                /\ \/ /\ Map(p).pinned /\ ~Map(p).reused /\ bpffs[Cur(p).pin] # NoMap /\ r.pinned = FALSE
                      /\ bpffs' = [bpffs EXCEPT ![Cur(p).pin] = NoMap]
                   \/ /\ ~Map(p).pinned \/ Map(p).reused \/ bpffs[Cur(p).pin] = NoMap
                      /\ r = Map(p) /\ bpffs' = bpffs
<1>1. i[p] \in 1 .. NMaps(p) /\ i[p] \in Nat /\ pc[p] = "unpin" /\ Map(p) \in MapRec /\ InMaps(p, "unpin")
      /\ Map(p).pinned \in BOOLEAN /\ Map(p).reused \in BOOLEAN
  BY InMapsIndex DEF Unpin
<1>. DEFINE undo == /\ Map(p).pinned /\ ~Map(p).reused
                    /\ bpffs[Cur(p).pin] # NoMap
            r == [Map(p) EXCEPT !.pinned = Map(p).pinned /\ ~undo]
<1>2. SetMap(p, i[p], r) /\ bpffs' = IF undo THEN [bpffs EXCEPT ![Cur(p).pin] = NoMap] ELSE bpffs
  BY DEF Unpin
<1>3. r \in MapRec /\ r.fd = Map(p).fd /\ r.reused = Map(p).reused
  BY <1>1 DEF MapRec
<1>4. CASE undo
  <2>1. r.pinned = FALSE
    BY <1>1, <1>4 DEF MapRec
  <2>. QED  BY <1>1, <1>2, <1>3, <1>4, <2>1 DEF Map, Cur
<1>5. CASE ~undo
  <2>1. r = [Map(p) EXCEPT !.pinned = Map(p).pinned]
    BY <1>1, <1>5
  <2>2. r = Map(p)
    BY <1>1, <2>1 DEF MapRec
  <2>. QED  BY <1>1, <1>2, <1>3, <1>5, <2>2 DEF Map, Cur
<1>. QED  BY <1>4, <1>5

LEMMA OwnFdsOk ==
    ASSUME Types, Types', LoadInv, NEW p \in Procs, LoadStep(p) \/ Close(p)
    PROVE  FdsOk(p)'
<1>. USE DEF Goto, SetI, Out, pvars
<1>1. LoadTypes /\ DOMAIN pc = Procs /\ i \in [Procs -> Nat \ {0}]
  BY DEF Types, LoadTypes
<1>2. obj' = obj /\ KernelKeeps(p)
  BY <1>1, LoadStepTypes, KernelStep
<1>3. NMaps(p)' = NMaps(p)
  BY <1>2 DEF NMaps
<1>4. ASSUME NEW m \in 1 .. NMaps(p), NEW x, FdGood(x), maps'[p][m].fd = x
      PROVE  FdGood(maps[p][m].fd)'
  <2>1. FdGood(x)'
    BY <1>2, <1>4, GoodStays
  <2>. QED  BY <1>4, <2>1
<1>5. ASSUME \A m \in 1 .. NMaps(p) : FdGood(maps[p][m].fd)'
      PROVE  FdsOk(p)'
  BY <1>3, <1>5 DEF FdGood, FdsOk
<1>6. ASSUME \A m \in 1 .. NMaps(p) : \E x : FdGood(x) /\ maps'[p][m].fd = x
      PROVE  FdsOk(p)'
  BY <1>4, <1>5, <1>6
<1>7. FdGood(NoMap)
  BY NoMapGood
<1>8. \A m \in 1 .. NMaps(p) : ~(pc[p] = "fill" /\ m = i[p]) => FdGood(maps[p][m].fd)
  BY OldGood
<1>9. \A m \in 1 .. NMaps(p) : maps[p][m] \in MapRec
  BY <1>1, MapOfLoad
<1>10. \A r \in MapRec : [r EXCEPT !.fd = NoMap].fd = NoMap /\ [r EXCEPT !.pinned = TRUE].fd = r.fd
  BY DEF MapRec
<1>11. CASE Prepare(p)
  BY <1>6, <1>8, <1>11 DEF Prepare, InMaps, InProgs
<1>12. CASE PrepareFails(p)
  BY <1>6, <1>8, <1>12 DEF PrepareFails, InMaps, InProgs
<1>13. CASE NothingToReuse(p)
  BY <1>6, <1>8, <1>13 DEF NothingToReuse, InMaps, InProgs
<1>14. CASE SkipCreation(p)
  BY <1>6, <1>8, <1>14 DEF SkipCreation, InMaps, InProgs
<1>15. CASE NoPin(p)
  BY <1>6, <1>8, <1>15 DEF NoPin, InMaps, InProgs
<1>16. CASE Relocate(p)
  BY <1>6, <1>8, <1>16 DEF Relocate, InMaps, InProgs
<1>17. CASE SkipProg(p)
  BY <1>6, <1>8, <1>17 DEF SkipProg, InMaps, InProgs
<1>18. CASE LoadProg(p)
  BY <1>6, <1>8, <1>18 DEF LoadProg, InMaps, InProgs
<1>19. CASE RetryLoad(p)
  BY <1>6, <1>8, <1>19 DEF RetryLoad, InMaps, InProgs
<1>20. CASE LoadProgFails(p)
  BY <1>6, <1>8, <1>20 DEF LoadProgFails, InMaps, InProgs
<1>21. CASE Loaded(p)
  BY <1>6, <1>8, <1>21 DEF Loaded, InMaps, InProgs
<1>22. CASE ReuseFails(p)
  <2>1. InMaps(p, "maps") /\ CreateErrOut(p, Map(p))
    BY <1>22 DEF ReuseFails
  <2>2. \A m \in 1 .. NMaps(p) : maps'[p][m] = IF m < i[p] THEN [maps[p][m] EXCEPT !.fd = NoMap]
                                              ELSE maps[p][m]
    BY <1>1, <1>2, <2>1, InMapsIndex, ErrOutEffect DEF Map
  <2>3. \A m \in 1 .. NMaps(p) : maps'[p][m].fd = NoMap \/ maps'[p][m].fd = maps[p][m].fd
    BY <1>9, <1>10, <2>2
  <2>. QED  BY <1>6, <1>7, <1>8, <2>1, <2>3 DEF InMaps
<1>23. CASE CreateFails(p)
  <2>1. InMaps(p, "create") /\ CreateErrOut(p, Map(p))
    BY <1>23 DEF CreateFails
  <2>2. \A m \in 1 .. NMaps(p) : maps'[p][m] = IF m < i[p] THEN [maps[p][m] EXCEPT !.fd = NoMap]
                                              ELSE maps[p][m]
    BY <1>1, <1>2, <2>1, InMapsIndex, ErrOutEffect DEF Map
  <2>3. \A m \in 1 .. NMaps(p) : maps'[p][m].fd = NoMap \/ maps'[p][m].fd = maps[p][m].fd
    BY <1>9, <1>10, <2>2
  <2>. QED  BY <1>6, <1>7, <1>8, <2>1, <2>3 DEF InMaps
<1>24. CASE FillFails(p)
  <2>1. InMaps(p, "fill") /\ CreateErrOut(p, Closed(Map(p))) /\ Closed(Map(p)) \in MapRec
    BY <1>1, <1>24, InMapsIndex, IdTypes DEF FillFails, Closed, MapRec
  <2>2. \A m \in 1 .. NMaps(p) : maps'[p][m] = IF m < i[p] THEN [maps[p][m] EXCEPT !.fd = NoMap]
                                              ELSE IF m = i[p] THEN Closed(maps[p][m]) ELSE maps[p][m]
    BY <1>1, <1>2, <2>1, ErrOutEffect DEF Map
  <2>3. \A m \in 1 .. NMaps(p) : maps'[p][m].fd = NoMap
                                \/ (m # i[p] /\ maps'[p][m].fd = maps[p][m].fd)
    BY <1>9, <1>10, <2>2, ZenonT(80) DEF Closed
  <2>. QED  BY <1>6, <1>7, <1>8, <2>1, <2>3 DEF InMaps
<1>25. CASE AutoPinFails(p)
  <2>1. InMaps(p, "pin") /\ CreateErrOut(p, Closed(Map(p))) /\ Closed(Map(p)) \in MapRec
    BY <1>1, <1>25, InMapsIndex, IdTypes DEF AutoPinFails, Closed, MapRec
  <2>2. \A m \in 1 .. NMaps(p) : maps'[p][m] = IF m < i[p] THEN [maps[p][m] EXCEPT !.fd = NoMap]
                                              ELSE IF m = i[p] THEN Closed(maps[p][m]) ELSE maps[p][m]
    BY <1>1, <1>2, <2>1, ErrOutEffect DEF Map
  <2>3. \A m \in 1 .. NMaps(p) : maps'[p][m].fd = NoMap
                                \/ (m # i[p] /\ maps'[p][m].fd = maps[p][m].fd)
    BY <1>9, <1>10, <2>2, ZenonT(80) DEF Closed
  <2>. QED  BY <1>6, <1>7, <1>8, <2>1, <2>3 DEF InMaps
<1>26. CASE ReuseMap(p)
  <2>1. InMaps(p, "maps") /\ Cur(p).pin \in Paths /\ i[p] \in 1 .. NMaps(p) /\ pc[p] = "maps"
    BY <1>1, <1>26, InMapsIndex DEF ReuseMap
  <2>2. FdGood(bpffs[Cur(p).pin]) /\ bpffs[Cur(p).pin] \in AllIds
    BY <1>1, <2>1, PathGood DEF LoadTypes
  <2>. DEFINE r == [fd |-> bpffs[Cur(p).pin], pinned |-> TRUE, reused |-> TRUE]
  <2>3. r \in MapRec /\ r.fd = bpffs[Cur(p).pin] /\ SetMap(p, i[p], r)
    BY <2>2, <1>26 DEF MapRec, ReuseMap
  <2>. HIDE DEF r
  <2>4. maps'[p][i[p]] = r /\ \A m \in 1 .. NMaps(p) : m # i[p] => maps'[p][m] = maps[p][m]
    BY <1>1, <1>2, <2>1, <2>3, SetMapEffect
  <2>. QED  BY <1>6, <1>8, <2>1, <2>2, <2>3, <2>4
<1>27. CASE AutoPin(p)
  <2>1. InMaps(p, "pin") /\ i[p] \in 1 .. NMaps(p) /\ pc[p] = "pin" /\ Map(p) \in MapRec
    BY <1>1, <1>27, InMapsIndex DEF AutoPin
  <2>. DEFINE r == [Map(p) EXCEPT !.pinned = TRUE]
  <2>2. r \in MapRec /\ r.fd = maps[p][i[p]].fd /\ SetMap(p, i[p], r)
    BY <2>1, <1>27 DEF MapRec, AutoPin, Map
  <2>. HIDE DEF r
  <2>3. maps'[p][i[p]] = r /\ \A m \in 1 .. NMaps(p) : m # i[p] => maps'[p][m] = maps[p][m]
    BY <1>1, <1>2, <2>1, <2>2, SetMapEffect
  <2>. QED  BY <1>6, <1>8, <2>1, <2>2, <2>3
<1>28. CASE Unpin(p)
  <2>1. /\ i[p] \in 1 .. NMaps(p) /\ pc[p] = "unpin"
        /\ \E r \in MapRec : r.fd = Map(p).fd /\ SetMap(p, i[p], r)
    BY <1>1, <1>28, UnpinEffect
  <2>2. maps'[p][i[p]].fd = maps[p][i[p]].fd /\ \A m \in 1 .. NMaps(p) : m # i[p] => maps'[p][m] = maps[p][m]
    BY <1>1, <1>2, <2>1, SetMapEffect DEF Map
  <2>. QED  BY <1>6, <1>8, <2>1, <2>2
<1>29. CASE Failed(p)
  <2>1. \A m \in 1 .. NMaps(p) : maps'[p][m] = Closed(maps[p][m])
    BY <1>1, <1>2, <1>29, CloseEffect DEF Failed, Unload
  <2>2. \A m \in 1 .. NMaps(p) : maps'[p][m].fd = NoMap
    <3>1. \A r \in MapRec : Closed(r).fd = NoMap
      BY DEF MapRec, Closed
    <3>. QED  BY <1>9, <2>1, <3>1
  <2>. QED  BY <1>6, <1>7, <2>2
<1>30. CASE Close(p)
  <2>1. \A m \in 1 .. NMaps(p) : maps'[p][m] = Closed(maps[p][m])
    BY <1>1, <1>2, <1>30, CloseEffect DEF Close, Unload
  <2>2. \A m \in 1 .. NMaps(p) : maps'[p][m].fd = NoMap
    <3>1. \A r \in MapRec : Closed(r).fd = NoMap
      BY DEF MapRec, Closed
    <3>. QED  BY <1>9, <2>1, <3>1
  <2>. QED  BY <1>6, <1>7, <2>2
<1>31. CASE Fill(p)
  <2>1. pc[p] = "fill" /\ i[p] \in 1 .. NMaps(p) /\ maps[p][i[p]].fd = Id(p, i[p])
        /\ Id(p, i[p]) \in DOMAIN kernel' /\ Done(Id(p, i[p]))' /\ maps' = maps /\ i' = i
    BY <1>31, FillKernel DEF Fill
  <2>2. FdGood(Id(p, i[p]))'
    BY <2>1 DEF FdGood
  <2>3. ASSUME NEW m \in 1 .. NMaps(p) PROVE FdGood(maps[p][m].fd)'
    <3>1. CASE m = i[p]
      <4>1. maps'[p][m].fd = Id(p, i'[p])
        BY <2>1, <3>1
      <4>. QED  BY <2>2, <4>1
    <3>2. CASE m # i[p]
      BY <1>4, <1>8, <2>1, <3>2
    <3>. QED  BY <3>1, <3>2
  <2>. QED  BY <1>5, <2>3
<1>32. CASE CreateMap(p)
  <2>1. /\ pc[p] = "create" /\ i[p] \in 1 .. NMaps(p) /\ Id(p, i[p]) \in DOMAIN kernel' /\ pc'[p] = "fill"
        /\ i'[p] = i[p] /\ Map(p) \in MapRec /\ InMaps(p, "create")
    BY <1>1, <1>32, CreateKernel, InMapsIndex DEF CreateMap
  <2>. DEFINE r == [Map(p) EXCEPT !.fd = Id(p, i[p])]
  <2>2. r \in MapRec /\ r.fd = Id(p, i[p]) /\ SetMap(p, i[p], r)
    BY <2>1, <1>32, IdTypes DEF MapRec, CreateMap
  <2>. HIDE DEF r
  <2>3. maps'[p][i[p]].fd = Id(p, i[p]) /\ \A m \in 1 .. NMaps(p) : m # i[p] => maps'[p][m] = maps[p][m]
    BY <1>1, <1>2, <2>1, <2>2, SetMapEffect
  <2>4. ASSUME NEW m \in 1 .. NMaps(p), m # i[p] PROVE FdGood(maps[p][m].fd)'
    BY <1>4, <1>8, <2>1, <2>3, <2>4
  <2>. QED  BY <1>3, <2>1, <2>3, <2>4 DEF FdsOk, FdGood
<1>. QED  BY <1>11, <1>12, <1>13, <1>14, <1>15, <1>16, <1>17, <1>18, <1>19, <1>20, <1>21, <1>22, <1>23, <1>24, <1>25, <1>26, <1>27, <1>28, <1>29, <1>30, <1>31, <1>32 DEF LoadStep

(***************************************************************************)
(* Maps settle one by one.                                                 *)
(***************************************************************************)
LEMMA OwnMapsOk ==
    ASSUME Types, Types', LoadInv, NEW p \in Procs, LoadStep(p) \/ Close(p)
    PROVE  MapsOk(p)'
<1>. USE DEF Goto, SetI, Out, pvars
<1>1. LoadTypes /\ DOMAIN pc = Procs /\ i \in [Procs -> Nat \ {0}] /\ MapsOk(p) /\ i[p] \in Nat
      /\ NMaps(p) \in Nat
  BY CallType DEF Types, LoadTypes, LoadInv, ProcOk
<1>2. obj' = obj
  BY <1>1, LoadStepTypes
<1>3. NMaps(p)' = NMaps(p) /\ \A m : Untouched(p, m)' = Untouched(p, m)
  BY <1>2, UntouchedKept DEF NMaps
<1>. HIDE DEF Untouched
<1>4. ASSUME pc'[p] \in {"unpin"} PROVE MapsOk(p)'
  BY <1>4 DEF MapsOk, Fresh, Settled
<1>5. ASSUME pc'[p] = pc[p], pc[p] \in {"progs", "unpin"},
             \A m \in 1 .. NMaps(p) : maps'[p][m].fd = maps[p][m].fd
      PROVE  MapsOk(p)'
  BY <1>1, <1>3, <1>5 DEF MapsOk, Fresh, Settled
<1>6. \A m \in 1 .. NMaps(p) : maps[p][m] \in MapRec
  BY <1>1, MapOfLoad
<1>7. CASE PrepareFails(p)
  BY <1>1, <1>4, <1>7 DEF PrepareFails, CreateErrOut
<1>8. CASE ReuseFails(p)
  BY <1>1, <1>4, <1>8 DEF ReuseFails, CreateErrOut
<1>9. CASE CreateFails(p)
  BY <1>1, <1>4, <1>9 DEF CreateFails, CreateErrOut
<1>10. CASE FillFails(p)
  BY <1>1, <1>4, <1>10 DEF FillFails, CreateErrOut
<1>11. CASE AutoPinFails(p)
  BY <1>1, <1>4, <1>11 DEF AutoPinFails, CreateErrOut
<1>12. CASE LoadProgFails(p)
  BY <1>1, <1>4, <1>12 DEF LoadProgFails, CreateErrOut
<1>13. CASE SkipProg(p)
  BY <1>1, <1>5, <1>13 DEF SkipProg, InProgs
<1>14. CASE LoadProg(p)
  BY <1>1, <1>5, <1>14 DEF LoadProg, InProgs
<1>15. CASE RetryLoad(p)
  BY <1>1, <1>5, <1>15 DEF RetryLoad, InProgs
<1>16. CASE Prepare(p)
  <2>1. pc[p] = "open" /\ pc'[p] = "maps" /\ i'[p] = 1 /\ maps' = maps
    BY <1>1, <1>16 DEF Prepare
  <2>2. \A m \in 1 .. NMaps(p) : maps[p][m] = Untouched(p, m)
    BY <1>1, <2>1 DEF MapsOk, Fresh
  <2>. QED  BY <1>1, <1>3, <2>1, <2>2 DEF MapsOk, Fresh, Settled
<1>17. CASE NothingToReuse(p)
  <2>1. pc[p] = "maps" /\ pc'[p] = "create" /\ i'[p] = i[p] /\ maps' = maps /\ i[p] \in 1 .. NMaps(p)
    BY <1>1, <1>17, InMapsIndex DEF NothingToReuse
  <2>2. /\ \A m \in 1 .. NMaps(p) : m >= i[p] => maps[p][m] = Untouched(p, m)
        /\ \A m \in 1 .. NMaps(p) : m < i[p] => maps[p][m].fd # NoMap
    BY <1>1, <2>1 DEF MapsOk, Fresh, Settled
  <2>. QED  BY <1>1, <1>3, <2>1, <2>2 DEF MapsOk, Fresh, Settled
<1>18. CASE SkipCreation(p)
  <2>1. pc[p] = "create" /\ pc'[p] = "pin" /\ i'[p] = i[p] /\ maps' = maps /\ i[p] \in 1 .. NMaps(p)
        /\ maps[p][i[p]].fd # NoMap
    BY <1>1, <1>18, InMapsIndex DEF SkipCreation, Map
  <2>2. /\ \A m \in 1 .. NMaps(p) : m > i[p] => maps[p][m] = Untouched(p, m)
        /\ \A m \in 1 .. NMaps(p) : m < i[p] => maps[p][m].fd # NoMap
    BY <1>1, <2>1 DEF MapsOk, Fresh, Settled
  <2>. QED  BY <1>1, <1>3, <2>1, <2>2 DEF MapsOk, Fresh, Settled
<1>19. CASE Fill(p)
  <2>1. pc[p] = "fill" /\ pc'[p] = "pin" /\ i'[p] = i[p] /\ maps' = maps /\ i[p] \in 1 .. NMaps(p)
        /\ maps[p][i[p]].fd # NoMap
    <3>1. pc[p] = "fill" /\ i[p] \in 1 .. NMaps(p) /\ maps[p][i[p]].fd = Id(p, i[p])
      BY <1>19, FillKernel
    <3>2. Id(p, i[p]) # NoMap
      BY Ids
    <3>3. pc'[p] = "pin" /\ i' = i /\ maps' = maps
      BY <1>1, <1>19 DEF Fill
    <3>. QED  BY <3>1, <3>2, <3>3
  <2>2. /\ \A m \in 1 .. NMaps(p) : m > i[p] => maps[p][m] = Untouched(p, m)
        /\ \A m \in 1 .. NMaps(p) : m < i[p] => maps[p][m].fd # NoMap
    BY <1>1, <2>1 DEF MapsOk, Fresh, Settled
  <2>. QED  BY <1>1, <1>3, <2>1, <2>2 DEF MapsOk, Fresh, Settled
<1>20. CASE NoPin(p)
  <2>1. pc[p] = "pin" /\ pc'[p] = "maps" /\ i'[p] = i[p] + 1 /\ i[p] \in 1 .. NMaps(p) /\ InMaps(p, "pin")
    BY <1>1, <1>20, InMapsIndex DEF NoPin
  <2>2. /\ \A m \in 1 .. NMaps(p) : m > i[p] => maps[p][m] = Untouched(p, m)
        /\ \A m \in 1 .. NMaps(p) : m <= i[p] => maps[p][m].fd # NoMap
    BY <1>1, <2>1 DEF MapsOk, Fresh, Settled
  <2>3. maps' = maps
    BY <1>20 DEF NoPin
  <2>. QED  BY <1>1, <1>3, <2>1, <2>2, <2>3 DEF MapsOk, Fresh, Settled
<1>21. CASE AutoPin(p)
  <2>1. pc[p] = "pin" /\ pc'[p] = "maps" /\ i'[p] = i[p] + 1 /\ i[p] \in 1 .. NMaps(p) /\ InMaps(p, "pin")
    BY <1>1, <1>21, InMapsIndex DEF AutoPin
  <2>2. /\ \A m \in 1 .. NMaps(p) : m > i[p] => maps[p][m] = Untouched(p, m)
        /\ \A m \in 1 .. NMaps(p) : m <= i[p] => maps[p][m].fd # NoMap
    BY <1>1, <2>1 DEF MapsOk, Fresh, Settled
  <2>. DEFINE r == [Map(p) EXCEPT !.pinned = TRUE]
  <2>3. r \in MapRec /\ r.fd = maps[p][i[p]].fd /\ SetMap(p, i[p], r)
    BY <1>6, <2>1, <1>21 DEF MapRec, AutoPin, Map
  <2>. HIDE DEF r
  <2>4. maps'[p][i[p]] = r /\ \A m \in 1 .. NMaps(p) : m # i[p] => maps'[p][m] = maps[p][m]
    BY <1>1, <1>2, <2>1, <2>3, SetMapEffect
  <2>5. /\ \A m \in 1 .. NMaps(p) : m >= i'[p] => maps'[p][m] = Untouched(p, m)'
        /\ \A m \in 1 .. NMaps(p) : m < i'[p] => maps'[p][m].fd # NoMap
    BY <1>1, <1>3, <2>1, <2>2, <2>3, <2>4
  <2>. QED  BY <1>1, <1>3, <2>1, <2>5 DEF MapsOk, Fresh, Settled
<1>22. CASE Relocate(p)
  <2>1. maps' = maps /\ pc[p] = "maps" /\ i[p] > NMaps(p) /\ pc'[p] \in {"progs", "unpin"}
    BY <1>1, <1>22 DEF Relocate, NMaps
  <2>2. \A m \in 1 .. NMaps(p) : maps[p][m].fd # NoMap
    BY <1>1, <2>1 DEF MapsOk, Settled
  <2>. QED  BY <1>1, <1>3, <1>4, <2>1, <2>2 DEF MapsOk, Fresh, Settled
<1>23. CASE Loaded(p)
  <2>1. maps' = maps /\ pc[p] = "progs" /\ pc'[p] = "loaded"
    BY <1>1, <1>23 DEF Loaded
  <2>2. \A m \in 1 .. NMaps(p) : maps[p][m].fd # NoMap
    BY <1>1, <2>1 DEF MapsOk, Settled
  <2>. QED  BY <1>1, <1>3, <2>1, <2>2 DEF MapsOk, Fresh, Settled
<1>24. CASE Unpin(p)
  BY <1>1, <1>4, <1>24, UnpinEffect DEF Unpin
<1>25. CASE Failed(p)
  <2>1. pc'[p] \in {"failed", "closed_loaded", "closed_failed"}
    BY <1>1, <1>25 DEF Failed
  <2>2. \A m \in 1 .. NMaps(p) : maps'[p][m] = Closed(maps[p][m])
    BY <1>1, <1>2, <1>25, CloseEffect DEF Failed, Unload
  <2>3. \A r \in MapRec : Closed(r).fd = NoMap
    BY DEF MapRec, Closed
  <2>. QED  BY <1>3, <1>6, <2>1, <2>2, <2>3 DEF MapsOk, Fresh, Settled
<1>26. CASE Close(p)
  <2>1. pc'[p] \in {"failed", "closed_loaded", "closed_failed"}
    BY <1>1, <1>26 DEF Close
  <2>2. \A m \in 1 .. NMaps(p) : maps'[p][m] = Closed(maps[p][m])
    BY <1>1, <1>2, <1>26, CloseEffect DEF Close, Unload
  <2>3. \A r \in MapRec : Closed(r).fd = NoMap
    BY DEF MapRec, Closed
  <2>. QED  BY <1>3, <1>6, <2>1, <2>2, <2>3 DEF MapsOk, Fresh, Settled
<1>27. CASE ReuseMap(p)
  <2>1. pc[p] = "maps" /\ pc'[p] = "create" /\ i'[p] = i[p] /\ i[p] \in 1 .. NMaps(p)
        /\ Cur(p).pin \in Paths /\ Def(p, i[p]).pin # "none" /\ bpffs[Cur(p).pin] # NoMap
        /\ bpffs[Cur(p).pin] \in AllIds
    BY <1>1, <1>27, InMapsIndex DEF ReuseMap, LoadTypes, Cur
  <2>. DEFINE r == [fd |-> bpffs[Cur(p).pin], pinned |-> TRUE, reused |-> TRUE]
  <2>2. /\ r \in MapRec /\ r.fd = bpffs[Cur(p).pin] /\ r.pinned = TRUE /\ r.reused = TRUE
        /\ SetMap(p, i[p], r)
    BY <2>1, <1>27 DEF MapRec, ReuseMap
  <2>. HIDE DEF r
  <2>3. maps'[p][i[p]] = r /\ \A m \in 1 .. NMaps(p) : m # i[p] => maps'[p][m] = maps[p][m]
    BY <1>1, <1>2, <2>1, <2>2, SetMapEffect
  <2>4. /\ \A m \in 1 .. NMaps(p) : m > i[p] => maps'[p][m] = Untouched(p, m)'
        /\ \A m \in 1 .. NMaps(p) : m < i[p] => maps'[p][m].fd # NoMap
    BY <1>1, <1>3, <2>1, <2>3 DEF MapsOk, Fresh, Settled
  <2>5. JustReused(p, i[p])'
    BY <1>2, <2>1, <2>2, <2>3 DEF JustReused, Def
  <2>. QED  BY <1>1, <1>3, <2>1, <2>4, <2>5 DEF MapsOk, Fresh, Settled
<1>28. CASE CreateMap(p)
  <2>1. pc[p] = "create" /\ pc'[p] = "fill" /\ i'[p] = i[p] /\ i[p] \in 1 .. NMaps(p)
        /\ Map(p).fd = NoMap /\ Map(p) = maps[p][i[p]]
    BY <1>1, <1>28, InMapsIndex DEF CreateMap, Map
  <2>. DEFINE r == [Map(p) EXCEPT !.fd = Id(p, i[p])]
  <2>2. /\ r \in MapRec /\ SetMap(p, i[p], r)
    BY <1>6, <2>1, <1>28, IdTypes DEF MapRec, CreateMap
  <2>3. Map(p) = Untouched(p, i[p])
    BY <1>1, <2>1 DEF MapsOk, JustReused
  <2>4. r = [Untouched(p, i[p]) EXCEPT !.fd = Id(p, i[p])]
    BY <2>3
  <2>. HIDE DEF r
  <2>5. maps'[p][i[p]] = r /\ \A m \in 1 .. NMaps(p) : m # i[p] => maps'[p][m] = maps[p][m]
    BY <1>1, <1>2, <2>1, <2>2, SetMapEffect
  <2>6. /\ \A m \in 1 .. NMaps(p) : m > i[p] => maps'[p][m] = Untouched(p, m)'
        /\ \A m \in 1 .. NMaps(p) : m < i[p] => maps'[p][m].fd # NoMap
    BY <1>1, <1>3, <2>1, <2>5 DEF MapsOk, Fresh, Settled
  <2>7. maps'[p][i'[p]] = [Untouched(p, i[p]) EXCEPT !.fd = Id(p, i[p])]'
    <3>1. Untouched(p, i[p])' = Untouched(p, i[p]) /\ Id(p, i[p])' = Id(p, i[p])
      <4>1. PICK k : k = i[p]
        OBVIOUS
      <4>2. Untouched(p, k)' = Untouched(p, k)
        BY <1>3
      <4>3. Untouched(p, i[p])' = Untouched(p, k)'
        BY <2>1, <4>1
      <4>. QED  BY <2>1, <4>1, <4>2, <4>3
    <3>. QED  BY <2>1, <2>4, <2>5, <3>1
  <2>. QED  BY <1>1, <1>3, <2>1, <2>6, <2>7 DEF MapsOk, Fresh, Settled
<1>. QED  BY <1>7, <1>8, <1>9, <1>10, <1>11, <1>12, <1>13, <1>14, <1>15, <1>16, <1>17, <1>18, <1>19, <1>20, <1>21, <1>22, <1>23, <1>24, <1>25, <1>26, <1>27, <1>28 DEF LoadStep

(***************************************************************************)
(* A step of a pinning call, made only once the load has ended, changes no *)
(* descriptor and no kernel map.                                           *)
(***************************************************************************)
PinnedOnly(p) ==
    \A m \in 1 .. NMaps(p) :
      maps'[p][m].fd = maps[p][m].fd /\ maps'[p][m].reused = maps[p][m].reused

LEMMA PinChangesFlags ==
    ASSUME Types, NEW p \in Procs, PinEffect(p), obj' = obj
    PROVE  PinnedOnly(p)
<1>1. LoadTypes
  BY DEF Types
<1>2. ASSUME NEW m \in 1 .. NMaps(p), NEW b \in BOOLEAN, SetMap(p, m, [maps[p][m] EXCEPT !.pinned = b])
      PROVE  PinnedOnly(p)
  <2>. DEFINE r == [maps[p][m] EXCEPT !.pinned = b]
  <2>1. maps[p][m] \in MapRec
    BY <1>1, MapOfLoad
  <2>2. r \in MapRec /\ r.fd = maps[p][m].fd /\ r.reused = maps[p][m].reused /\ SetMap(p, m, r)
    BY <1>2, <2>1 DEF MapRec
  <2>. HIDE DEF r
  <2>3. maps'[p][m] = r /\ \A n \in 1 .. NMaps(p) : n # m => maps'[p][n] = maps[p][n]
    BY <1>1, <2>2, SetMapEffect
  <2>. QED  BY <2>2, <2>3 DEF PinnedOnly
<1>3. CASE maps' = maps
  BY <1>3 DEF PinnedOnly
<1>4. CASE \E m \in 1 .. NMaps(p) : \E path \in Paths : PinsMap(p, m, path) \/ UnpinsMap(p, m, path)
  BY <1>2, <1>4 DEF PinsMap, UnpinsMap
<1>. QED  BY <1>3, <1>4 DEF PinEffect, PinsProg, UnpinsProg

LEMMA PinStepAt ==
    ASSUME Types, LoadInv, NEW p \in Procs, PinStep(p) \/ Calls(p)
    PROVE  pc[p] \in {"loaded", "failed"} /\ pc[p] \notin Loading
<1>1. CASE Calls(p)
  BY <1>1 DEF Calls, PinMaps, UnpinMaps, PinPrograms, UnpinPrograms, Pin, Begin, Loading
<1>2. CASE PinStep(p)
  <2>1. call[p].phase # "none"
    BY <1>2 DEF PinStep, MapPinned, PinMap, PinMapFails, UndoMaps, MapsUndone, MapsPinned, UnpinNext,
                UnpinMapsEnds, PassOverProg, PinProg, PinProgFails, UndoProgs, ProgsUndone, UnpinProg,
                ProgsEnd, In
  <2>2. call[p] # NoCall
    BY <2>1 DEF NoCall
  <2>3. pc[p] \in {"loaded", "failed"}
    BY <2>2 DEF LoadInv, ProcOk, CallOk
  <2>. QED  BY <2>3 DEF Loading
<1>. QED  BY <1>1, <1>2

LEMMA OwnPinOk ==
    ASSUME Types, LoadInv, NEW p \in Procs, PinStep(p) \/ Calls(p)
    PROVE  ProcOk(p)'
<1>1. UNCHANGED <<obj, pc, i, held, log, kernel>> /\ PinEffect(p)
  BY PinStepEffect
<1>2. pc[p] \in {"loaded", "failed"} /\ pc[p] \notin Loading
  BY PinStepAt
<1>3. PinnedOnly(p) /\ ProcOk(p)
  BY <1>1, PinChangesFlags DEF LoadInv
<1>4. NMaps(p)' = NMaps(p) /\ \A m : Def(p, m)' = Def(p, m)
  BY <1>1 DEF NMaps, Def
<1>5. CallOk(p)'
  BY <1>1, <1>2 DEF CallOk
<1>6. MapsOk(p)'
  BY <1>1, <1>2, <1>3, <1>4 DEF MapsOk, ProcOk, Fresh, Settled, PinnedOnly
<1>7. HeldOk(p)' /\ CreatedOk(p)'
  BY <1>1, <1>3, <1>4 DEF HeldOk, CreatedOk, ProcOk, KernelRec
<1>8. FdsOk(p)'
  <2>1. KernelKeeps(p)
    BY <1>1, KernelSame
  <2>2. ASSUME NEW m \in 1 .. NMaps(p) PROVE FdGood(maps[p][m].fd)'
    <3>1. PICK x : x = maps[p][m].fd
      OBVIOUS
    <3>2. FdGood(x)
      BY <1>2, <3>1, OldGood
    <3>3. FdGood(x)' /\ maps'[p][m].fd = x
      BY <1>3, <2>1, <3>1, <3>2, GoodStays DEF PinnedOnly
    <3>. QED  BY <3>3
  <2>. QED  BY <1>4, <2>2 DEF FdsOk, FdGood
<1>. QED  BY <1>5, <1>6, <1>7, <1>8 DEF ProcOk

(***************************************************************************)
(* How any step changes the file system.                                   *)
(***************************************************************************)
Links(p, path, x) == path \in Paths /\ bpffs[path] = NoMap /\ x # NoMap /\ Link(path, x)
Unlinks(p, path) == path \in Paths /\ bpffs[path] # NoMap /\ Unlink(path)

LEMMA FsStep ==
    ASSUME Types, LoadInv, NEW p \in Procs, LoadStep(p) \/ Close(p) \/ PinStep(p) \/ Calls(p)
    PROVE  \/ bpffs' = bpffs
           \/ \E path \in Paths : \E x : Links(p, path, x) /\ FdGood(x)
           \/ \E path \in Paths : Unlinks(p, path)
<1>1. CASE PinStep(p) \/ Calls(p)
  <2>1. PinEffect(p) /\ pc[p] \in {"loaded", "failed"}
    BY <1>1, PinStepEffect, PinStepAt
  <2>2. CASE bpffs' = bpffs
    BY <2>2
  <2>3. ASSUME NEW m \in 1 .. NMaps(p), NEW path \in Paths, PinsMap(p, m, path)
        PROVE  \E x : Links(p, path, x) /\ FdGood(x)
    <3>1. FdGood(maps[p][m].fd)
      BY <2>1, OldGood
    <3>. QED  BY <2>3, <3>1 DEF Links, PinsMap, Free
  <2>4. ASSUME NEW m \in 1 .. NMaps(p), NEW path \in Paths, UnpinsMap(p, m, path)
        PROVE  Unlinks(p, path)
    BY <2>4 DEF Unlinks, UnpinsMap, Free
  <2>5. ASSUME NEW j \in 1 .. NProgs(p), PinsProg(p, j)
        PROVE  \E path \in Paths : \E x : Links(p, path, x) /\ FdGood(x)
    <3>1. ProgId(p, j) # NoMap /\ ProgId(p, j) \notin MapIds
      BY Ids DEF MapIds
    <3>2. FdGood(ProgId(p, j))
      BY <3>1 DEF FdGood, LoadInv
    <3>3. Links(p, File(p, j), ProgId(p, j)) /\ File(p, j) \in Paths
      BY <2>5, <3>1 DEF Links, PinsProg, Free
    <3>. QED  BY <3>2, <3>3
  <2>6. ASSUME NEW j \in 1 .. NProgs(p), UnpinsProg(p, j)
        PROVE  \E path \in Paths : Unlinks(p, path)
    BY <2>6 DEF Unlinks, UnpinsProg, Free
  <2>. QED  BY <2>1, <2>2, <2>3, <2>4, <2>5, <2>6 DEF PinEffect
<1>2. CASE AutoPin(p)
  <2>1. i[p] \in 1 .. NMaps(p) /\ pc[p] = "pin" /\ Cur(p).pin \in Paths /\ Map(p) = maps[p][i[p]]
    BY <1>2, InMapsIndex DEF AutoPin, ToPin, Types, Map
  <2>2. FdGood(Map(p).fd) /\ Map(p).fd # NoMap
    BY <2>1, OldGood DEF LoadInv, ProcOk, MapsOk, Settled
  <2>3. Links(p, Cur(p).pin, Map(p).fd)
    BY <1>2, <2>1, <2>2 DEF AutoPin, Links, Link
  <2>. QED  BY <2>1, <2>2, <2>3
<1>3. CASE Unpin(p)
  <2>1. CASE bpffs' = bpffs
    BY <2>1
  <2>2. CASE bpffs' # bpffs
    <3>1. bpffs[Cur(p).pin] # NoMap /\ Unlink(Cur(p).pin) /\ Map(p).pinned /\ ~Map(p).reused
      BY <1>3, <2>2, UnpinEffect DEF Unlink, Types
    <3>2. Cur(p).pin \in Paths
      BY <2>2, <3>1 DEF Unlink, Types, LoadTypes
    <3>. QED  BY <3>1, <3>2 DEF Unlinks
  <2>. QED  BY <2>1, <2>2
<1>4. CASE (LoadStep(p) \/ Close(p)) /\ ~AutoPin(p) /\ ~Unpin(p)
  BY <1>4 DEF LoadStep, Close, Prepare, PrepareFails, NothingToReuse, ReuseMap, ReuseFails, SkipCreation,
           CreateMap, CreateFails, Fill, FillFails, AutoPinFails, NoPin, Relocate, SkipProg, LoadProg,
           RetryLoad, LoadProgFails, Loaded, Failed, Unload
<1>. QED  BY <1>1, <1>2, <1>3, <1>4

LEMMA PathsStep ==
    ASSUME Types, LoadInv, NEW p \in Procs, LoadStep(p) \/ Close(p) \/ PinStep(p) \/ Calls(p)
    PROVE  PathsOk'
<1>1. KernelKeeps(p) /\ DOMAIN bpffs = Paths
  BY KernelStep DEF Types, LoadTypes
<1>2. ASSUME NEW path \in Paths, NEW x, FdGood(x), bpffs'[path] = x
      PROVE  bpffs'[path] \in MapIds => bpffs'[path] \in DOMAIN kernel' /\ Done(bpffs[path])'
  <2>1. FdGood(x)'
    BY <1>1, <1>2, GoodStays
  <2>. QED  BY <1>2, <2>1 DEF FdGood
<1>3. ASSUME \A path \in Paths : \E x : FdGood(x) /\ bpffs'[path] = x
      PROVE  PathsOk'
  BY <1>2, <1>3 DEF PathsOk
<1>4. \A path \in Paths : FdGood(bpffs[path])
  BY PathGood
<1>5. CASE bpffs' = bpffs
  BY <1>3, <1>4, <1>5
<1>6. ASSUME NEW path \in Paths, NEW x, Links(p, path, x), FdGood(x)
      PROVE  PathsOk'
  BY <1>1, <1>3, <1>4, <1>6 DEF Links, Link
<1>7. ASSUME NEW path \in Paths, Unlinks(p, path)
      PROVE  PathsOk'
  BY <1>1, <1>3, <1>4, <1>7, NoMapGood DEF Unlinks, Unlink
<1>. QED  BY <1>5, <1>6, <1>7, FsStep

LEMMA LoadInvStep == Types /\ Types' /\ LoadInv /\ [Next]_vars => LoadInv'
<1>. SUFFICES ASSUME Types, Types', LoadInv, [Next]_vars PROVE LoadInv'
  OBVIOUS
<1>1. CASE UNCHANGED vars
  <2>1. /\ obj' = obj /\ pc' = pc /\ i' = i /\ maps' = maps /\ held' = held /\ kernel' = kernel
        /\ bpffs' = bpffs /\ pinPath' = pinPath /\ call' = call /\ ncalls' = ncalls /\ failed' = failed
    BY <1>1 DEF vars, loadvars, pvars, pinvars
  <2>2. ASSUME NEW p \in Procs PROVE ProcOk(p)'
    <3>1. ProcOk(p) /\ NMaps(p)' = NMaps(p) /\ \A m : Def(p, m)' = Def(p, m)
      BY <2>1 DEF LoadInv, NMaps, Def
    <3>2. CallOk(p)' /\ HeldOk(p)'
      BY <2>1, <3>1 DEF ProcOk, CallOk, HeldOk
    <3>3. MapsOk(p)'
      <4>1. \A m : (Fresh(p, m)' <=> Fresh(p, m)) /\ (Settled(p, m)' <=> Settled(p, m))
                   /\ (JustReused(p, m)' <=> JustReused(p, m))
        BY <2>1, <3>1 DEF Fresh, Settled, JustReused
      <4>2. \A m : Untouched(p, m)' = Untouched(p, m)
        BY <2>1, UntouchedKept
      <4>3. /\ JustReused(p, i[p])' <=> JustReused(p, i[p])
            /\ Untouched(p, i[p])' = Untouched(p, i[p]) /\ Id(p, i[p])' = Id(p, i[p])
        BY <2>1, <4>1, <4>2
      <4>. QED  BY <2>1, <3>1, <4>1, <4>2, <4>3 DEF ProcOk, MapsOk
    <3>4. CreatedOk(p)'
      BY <2>1, <3>1 DEF ProcOk, CreatedOk, KernelRec
    <3>5. FdsOk(p)'
      BY <2>1, <3>1 DEF ProcOk, FdsOk, Done, Complete, Def
    <3>. QED  BY <3>2, <3>3, <3>4, <3>5 DEF ProcOk
  <2>3. PathsOk'
    BY <2>1 DEF LoadInv, PathsOk, Done, Complete, Def
  <2>. QED  BY <2>1, <2>2, <2>3 DEF LoadInv
<1>2. ASSUME NEW p \in Procs,
             PinStep(p) \/ Calls(p) \/ (UNCHANGED pinvars /\ (LoadStep(p) \/ (call[p] = NoCall /\ Close(p))))
      PROVE  LoadInv'
  <2>1. LoadStep(p) \/ Close(p) \/ PinStep(p) \/ Calls(p)
    BY <1>2
  <2>2. KernelKeeps(p) /\ obj' = obj
    BY <2>1, KernelStep
  <2>3. OthersKeep(p)
    BY <1>2, LoadKeepsOthers, PinKeepsOthers
  <2>4. \A q \in Procs : q # p => ProcOk(q)'
    BY <2>2, <2>3, OthersOk
  <2>5. ProcOk(p)'
    <3>1. CASE PinStep(p) \/ Calls(p)
      BY <3>1, OwnPinOk
    <3>2. CASE UNCHANGED pinvars /\ (LoadStep(p) \/ (call[p] = NoCall /\ Close(p)))
      BY <3>2, OwnCallOk, OwnMapsOk, OwnHeldOk, OwnCreatedOk, OwnFdsOk DEF ProcOk
    <3>. QED  BY <1>2, <3>1, <3>2
  <2>6. PathsOk'
    BY <2>1, PathsStep
  <2>7. DOMAIN kernel' \subseteq MapIds
    <3>1. Id(p, i[p]) \in MapIds
      BY DEF Types, LoadTypes, MapIds
    <3>. QED  BY <2>2, <3>1 DEF KernelKeeps, LoadInv
  <2>. QED  BY <2>4, <2>5, <2>6, <2>7 DEF LoadInv
<1>. QED  BY <1>1, <1>2 DEF Next, Step, App, Finished

LEMMA LoadInvariant == Spec => [](Types /\ LoadInv)
<1>1. Init => Types /\ LoadInv
  BY TypesInit, LoadInvInit
<1>2. Types /\ LoadInv /\ [Next]_vars => (Types /\ LoadInv)'
  BY TypesStep, LoadInvStep
<1>. QED  BY <1>1, <1>2, PTL DEF Spec

(***************************************************************************)
(* Whatever several loads, pinning and unpinning calls do meanwhile, and   *)
(* wherever they fail, only complete maps are pinned.                      *)
(***************************************************************************)
THEOREM OnlyCompletePinned == Spec => []PinnedMapsComplete
<1>1. Types /\ LoadInv => PinnedMapsComplete
  <2>. SUFFICES ASSUME Types, LoadInv, NEW path \in Paths, bpffs[path] \in DOMAIN kernel
                PROVE  Complete(bpffs[path][1], bpffs[path][2], bpffs[path])
    BY DEF PinnedMapsComplete
  <2>1. bpffs[path] \in MapIds
    BY DEF LoadInv
  <2>. QED  BY <2>1 DEF LoadInv, PathsOk, Done
<1>. QED  BY <1>1, LoadInvariant, PTL

(***************************************************************************)
(* After a failed load and after bpf_object__close() the only descriptors  *)
(* left open are the two that bpf_object__reuse_map() forgets.             *)
(***************************************************************************)
THEOREM LeaksOnlyReuse == Spec => []OnlyReuseLeaks
<1>1. Types /\ LoadInv => OnlyReuseLeaks
  <2>. SUFFICES ASSUME Types, LoadInv, NEW p \in Procs
       PROVE  /\ pc[p] = "failed" => \A m \in DOMAIN maps[p] : maps[p][m].fd = NoMap
              /\ pc[p] = "failed" =>
                   \A d \in held[p] : d[1] \in {"pin_fd", "dup_fd", "inner", "btf"}
              /\ pc[p] \in {"closed_loaded", "closed_failed"} =>
                   \A d \in held[p] : d[1] \in {"pin_fd", "dup_fd"} /\ Def(p, d[2]).pin # "none"
    BY DEF OnlyReuseLeaks
  <2>1. DOMAIN maps[p] = 1 .. NMaps(p) /\ MapsOk(p) /\ HeldOk(p)
    BY DEF Types, LoadTypes, LoadInv, ProcOk
  <2>. QED  BY <2>1 DEF MapsOk, HeldOk
<1>. QED  BY <1>1, LoadInvariant, PTL

-----------------------------------------------------------------------------
(***************************************************************************)
(* Pins and their history.  A path in use has been pinned by a process in  *)
(* a call it has begun (0 for its load), and a pinned map has a path.      *)
(***************************************************************************)
PathKnown(p) == \A m \in 1 .. NMaps(p) : maps[p][m].pinned => pinPath[p][m] \in Paths
ByOk ==
    /\ unlinked \subseteq Paths /\ stolen \in BOOLEAN
    /\ \A path \in Paths :
         \/ bpffs[path] = NoMap /\ by[path] = Nobody
         \/ /\ bpffs[path] # NoMap
            /\ \E q \in Procs : \E n \in 0 .. ncalls[q] : by[path] = <<q, n>>
PinInv ==
    /\ \A p \in Procs : PathKnown(p)
    /\ ByOk
    /\ PinnedFlagsTrue

\* How a step of process p leaves the flag of map m.
Keeps(p, m) ==
    \/ maps'[p][m].fd = NoMap \/ ~maps'[p][m].pinned
    \/ /\ maps'[p][m].fd = maps[p][m].fd /\ maps[p][m].pinned
       /\ pinPath'[p][m] = pinPath[p][m]
FlagStep(p) ==
    \/ /\ bpffs' = bpffs
       /\ \A m \in 1 .. NMaps(p) :
            Keeps(p, m) \/ (pinPath'[p][m] \in Paths /\ maps'[p][m].fd = bpffs[pinPath'[p][m]])
    \/ \E path \in Paths : \E x :
         /\ Links(p, path, x)
         /\ \A m \in 1 .. NMaps(p) : Keeps(p, m) \/ (pinPath'[p][m] = path /\ maps'[p][m].fd = x)
    \/ \E path \in Paths :
         /\ Unlinks(p, path)
         /\ \A m \in 1 .. NMaps(p) :
              Keeps(p, m) /\ (m = Unpinning(p) => maps'[p][m].fd = NoMap \/ ~maps'[p][m].pinned)

LEMMA PinFlagStep ==
    ASSUME Types, LoadInv, NEW p \in Procs, PathKnown(p), PinStep(p) \/ Calls(p)
    PROVE  FlagStep(p) /\ PathKnown(p)'
<1>1. UNCHANGED <<obj, pc, i, held, log, kernel>> /\ PinEffect(p) /\ pc[p] \in {"loaded", "failed"}
  BY PinStepEffect, PinStepAt
<1>2. LoadTypes /\ NMaps(p) \in Nat /\ NMaps(p)' = NMaps(p)
  BY <1>1, CallType DEF Types, NMaps
<1>3. \A m \in 1 .. NMaps(p) : pinPath[p][m] \in Paths \cup {"none"} /\ maps[p][m] \in MapRec
                               /\ maps[p][m].pinned \in BOOLEAN /\ maps[p][m].fd \in AllIds
  BY <1>2, MapOfLoad DEF Types, PinTypes
<1>4. CASE UNCHANGED <<maps, bpffs>> /\ (pinPath' = pinPath \/ RecordsPath(p))
  <2>1. \A m \in 1 .. NMaps(p) : pinPath'[p][m] = pinPath[p][m] \/ (pinPath[p][m] = "none" /\ pinPath'[p][m] \in Paths)
    <3>1. CASE pinPath' = pinPath
      BY <3>1
    <3>2. CASE RecordsPath(p)
      BY <1>1, <3>2, SetPathEffect DEF RecordsPath
    <3>. QED  BY <1>4, <3>1, <3>2
  <2>2. \A m \in 1 .. NMaps(p) : maps[p][m].pinned => pinPath'[p][m] = pinPath[p][m] /\ pinPath[p][m] \in Paths
    BY <2>1, NamesAssumption DEF PathKnown
  <2>. QED  BY <1>2, <1>3, <1>4, <2>2 DEF FlagStep, Keeps, PathKnown
<1>5. ASSUME NEW m \in 1 .. NMaps(p), NEW path \in Paths, PinsMap(p, m, path)
      PROVE  FlagStep(p) /\ PathKnown(p)'
  <2>. DEFINE r == [maps[p][m] EXCEPT !.pinned = TRUE]
  <2>1. r \in MapRec /\ r.fd = maps[p][m].fd /\ r.pinned = TRUE /\ SetMap(p, m, r)
    BY <1>3, <1>5 DEF MapRec, PinsMap
  <2>. HIDE DEF r
  <2>2. maps'[p][m] = r /\ \A n \in 1 .. NMaps(p) : n # m => maps'[p][n] = maps[p][n]
    BY <1>1, <1>2, <2>1, SetMapEffect
  <2>3. pinPath'[p][m] = path /\ \A n \in 1 .. NMaps(p) : n # m => pinPath'[p][n] = pinPath[p][n]
    <3>1. pinPath' = [pinPath EXCEPT ![p][m] = path] /\ obj' = obj
      BY <1>1, <1>5 DEF PinsMap
    <3>2. DOMAIN pinPath = Procs /\ pinPath[p] \in [1 .. NMaps(p) -> Paths \cup {"none"}]
      BY DEF Types, PinTypes
    <3>. QED  BY <3>1, <3>2
  <2>4. Links(p, path, maps[p][m].fd)
    BY <1>5 DEF PinsMap, Links, Free
  <2>5. \A n \in 1 .. NMaps(p) : n # m => Keeps(p, n)
    BY <1>3, <2>2, <2>3 DEF Keeps
  <2>6. FlagStep(p)
    BY <2>1, <2>2, <2>3, <2>4, <2>5 DEF FlagStep
  <2>. QED  BY <1>2, <2>2, <2>3, <2>6 DEF PathKnown
<1>6. ASSUME NEW m \in 1 .. NMaps(p), NEW path \in Paths, UnpinsMap(p, m, path)
      PROVE  FlagStep(p) /\ PathKnown(p)'
  <2>. DEFINE r == [maps[p][m] EXCEPT !.pinned = FALSE]
  <2>1. r \in MapRec /\ r.fd = maps[p][m].fd /\ r.pinned = FALSE /\ SetMap(p, m, r)
    BY <1>3, <1>6 DEF MapRec, UnpinsMap
  <2>. HIDE DEF r
  <2>2. maps'[p][m] = r /\ \A n \in 1 .. NMaps(p) : n # m => maps'[p][n] = maps[p][n]
    BY <1>1, <1>2, <2>1, SetMapEffect
  <2>3. Unlinks(p, path) /\ pinPath' = pinPath /\ Unpinning(p) = m
    BY <1>1, <1>6 DEF UnpinsMap, Unlinks, Free, Unpinning, K
  <2>4. \A n \in 1 .. NMaps(p) : Keeps(p, n)
    BY <1>3, <2>1, <2>2, <2>3 DEF Keeps
  <2>5. FlagStep(p)
    BY <2>1, <2>2, <2>3, <2>4 DEF FlagStep
  <2>. QED  BY <1>2, <2>1, <2>2, <2>3, <2>5 DEF PathKnown
<1>7. ASSUME NEW j \in 1 .. NProgs(p), PinsProg(p, j) \/ UnpinsProg(p, j)
      PROVE  FlagStep(p) /\ PathKnown(p)'
  <2>1. maps' = maps /\ pinPath' = pinPath /\ File(p, j) \in Paths
    BY <1>7 DEF PinsProg, UnpinsProg
  <2>2. \A n \in 1 .. NMaps(p) : Keeps(p, n)
    BY <1>3, <2>1 DEF Keeps
  <2>3. Links(p, File(p, j), ProgId(p, j)) \/ Unlinks(p, File(p, j))
    BY <1>7, Ids DEF PinsProg, UnpinsProg, Links, Unlinks, Free
  <2>4. PathKnown(p)'
    BY <1>2, <2>1 DEF PathKnown
  <2>5. CASE Links(p, File(p, j), ProgId(p, j))
    BY <2>1, <2>2, <2>4, <2>5 DEF FlagStep
  <2>6. CASE Unlinks(p, File(p, j)) /\ UnpinsProg(p, j)
    <3>1. Unpinning(p) \notin 1 .. NMaps(p)
      BY <1>1, <2>6 DEF Unpinning, UnpinsProg
    <3>. QED  BY <2>1, <2>2, <2>4, <2>6, <3>1 DEF FlagStep
  <2>7. PinsProg(p, j) => ~Unlinks(p, File(p, j))
    BY DEF PinsProg, Unlinks, Free
  <2>. QED  BY <1>7, <2>3, <2>5, <2>6, <2>7
<1>. QED  BY <1>1, <1>4, <1>5, <1>6, <1>7 DEF PinEffect

LEMMA LoadFlagStep ==
    ASSUME Types, Types', LoadInv, NEW p \in Procs, PathKnown(p), UNCHANGED pinvars, LoadStep(p) \/ Close(p)
    PROVE  FlagStep(p) /\ PathKnown(p)'
<1>. USE DEF Goto, SetI, Out, pvars
<1>1. LoadTypes /\ NMaps(p) \in Nat /\ ProcOk(p)
  BY CallType DEF Types, LoadInv
<1>2. obj' = obj
  BY <1>1, LoadStepTypes
<1>3. NMaps(p)' = NMaps(p) /\ pinPath' = pinPath
  BY <1>2 DEF NMaps, pinvars
<1>4. \A m \in 1 .. NMaps(p) : /\ maps[p][m] \in MapRec /\ maps[p][m].pinned \in BOOLEAN
                               /\ maps[p][m].fd \in AllIds
  BY <1>1, MapOfLoad
<1>5. ASSUME bpffs' = bpffs,
             \A m \in 1 .. NMaps(p) : \/ maps'[p][m] = maps[p][m]
                                      \/ maps'[p][m] = Closed(maps[p][m])
                                      \/ ~maps'[p][m].pinned
                                      \/ /\ maps'[p][m].fd = bpffs[Def(p, m).pin]
                                         /\ Def(p, m).pin \in Paths /\ pinPath[p][m] = Def(p, m).pin
      PROVE  FlagStep(p) /\ PathKnown(p)'
  <2>1. \A r \in MapRec : Closed(r).fd = NoMap /\ Closed(r).pinned = r.pinned
    BY DEF Closed, MapRec
  <2>2. ASSUME NEW m \in 1 .. NMaps(p)
        PROVE  /\ Keeps(p, m) \/ (pinPath'[p][m] \in Paths /\ maps'[p][m].fd = bpffs[pinPath'[p][m]])
               /\ maps'[p][m].pinned => pinPath'[p][m] \in Paths
    <3>1. CASE maps'[p][m] = maps[p][m]
      BY <1>3, <1>4, <3>1 DEF Keeps, PathKnown
    <3>2. CASE maps'[p][m] = Closed(maps[p][m])
      BY <1>3, <1>4, <2>1, <3>2 DEF Keeps, PathKnown
    <3>3. CASE ~maps'[p][m].pinned
      BY <3>3 DEF Keeps
    <3>4. CASE /\ maps'[p][m].fd = bpffs[Def(p, m).pin]
               /\ Def(p, m).pin \in Paths /\ pinPath[p][m] = Def(p, m).pin
      BY <1>3, <3>4
    <3>. QED  BY <1>5, <3>1, <3>2, <3>3, <3>4
  <2>. QED  BY <1>3, <1>5, <2>2 DEF FlagStep, PathKnown
<1>6. \A m \in 1 .. NMaps(p) : pc[p] \in Loading => pinPath[p][m] = Def(p, m).pin
  BY <1>1 DEF ProcOk, CallOk
<1>7. CASE Prepare(p)
  BY <1>5, <1>7 DEF Prepare
<1>8. CASE PrepareFails(p)
  BY <1>5, <1>8 DEF PrepareFails
<1>9. CASE NothingToReuse(p)
  BY <1>5, <1>9 DEF NothingToReuse
<1>10. CASE SkipCreation(p)
  BY <1>5, <1>10 DEF SkipCreation
<1>11. CASE NoPin(p)
  BY <1>5, <1>11 DEF NoPin
<1>12. CASE Relocate(p)
  BY <1>5, <1>12 DEF Relocate
<1>13. CASE SkipProg(p)
  BY <1>5, <1>13 DEF SkipProg
<1>14. CASE LoadProg(p)
  BY <1>5, <1>14 DEF LoadProg
<1>15. CASE RetryLoad(p)
  BY <1>5, <1>15 DEF RetryLoad
<1>16. CASE LoadProgFails(p)
  BY <1>5, <1>16 DEF LoadProgFails
<1>17. CASE Loaded(p)
  BY <1>5, <1>17 DEF Loaded
<1>18. CASE Fill(p)
  BY <1>5, <1>18 DEF Fill
<1>19. CASE Failed(p)
  BY <1>1, <1>2, <1>5, <1>19, CloseEffect DEF Failed, Unload
<1>20. CASE Close(p)
  BY <1>1, <1>2, <1>5, <1>20, CloseEffect DEF Close, Unload
<1>21. CASE ReuseFails(p)
  <2>1. InMaps(p, "maps") /\ CreateErrOut(p, Map(p)) /\ Map(p) \in MapRec /\ bpffs' = bpffs
        /\ Map(p) = maps[p][i[p]]
    BY <1>1, <1>21, InMapsIndex, RecEffect, IdTypes DEF ReuseFails, Closed, Map
  <2>2. \A m \in 1 .. NMaps(p) : maps'[p][m] = IF m < i[p] THEN [maps[p][m] EXCEPT !.fd = NoMap]
                                              ELSE IF m = i[p] THEN Map(p) ELSE maps[p][m]
    BY <1>1, <1>2, <2>1, ErrOutEffect
  <2>. QED  BY <1>5, <2>1, <2>2 DEF Closed
<1>22. CASE CreateFails(p)
  <2>1. InMaps(p, "create") /\ CreateErrOut(p, Map(p)) /\ Map(p) \in MapRec /\ bpffs' = bpffs
        /\ Map(p) = maps[p][i[p]]
    BY <1>1, <1>22, InMapsIndex, RecEffect, IdTypes DEF CreateFails, Closed, Map
  <2>2. \A m \in 1 .. NMaps(p) : maps'[p][m] = IF m < i[p] THEN [maps[p][m] EXCEPT !.fd = NoMap]
                                              ELSE IF m = i[p] THEN Map(p) ELSE maps[p][m]
    BY <1>1, <1>2, <2>1, ErrOutEffect
  <2>. QED  BY <1>5, <2>1, <2>2 DEF Closed
<1>23. CASE FillFails(p)
  <2>1. InMaps(p, "fill") /\ CreateErrOut(p, Closed(Map(p))) /\ Closed(Map(p)) \in MapRec /\ bpffs' = bpffs
        /\ Map(p) = maps[p][i[p]]
    BY <1>1, <1>23, InMapsIndex, RecEffect, IdTypes DEF FillFails, Closed, Map
  <2>2. \A m \in 1 .. NMaps(p) : maps'[p][m] = IF m < i[p] THEN [maps[p][m] EXCEPT !.fd = NoMap]
                                              ELSE IF m = i[p] THEN Closed(Map(p)) ELSE maps[p][m]
    BY <1>1, <1>2, <2>1, ErrOutEffect
  <2>. QED  BY <1>5, <2>1, <2>2 DEF Closed
<1>24. CASE AutoPinFails(p)
  <2>1. InMaps(p, "pin") /\ CreateErrOut(p, Closed(Map(p))) /\ Closed(Map(p)) \in MapRec /\ bpffs' = bpffs
        /\ Map(p) = maps[p][i[p]]
    BY <1>1, <1>24, InMapsIndex, RecEffect, IdTypes DEF AutoPinFails, Closed, Map
  <2>2. \A m \in 1 .. NMaps(p) : maps'[p][m] = IF m < i[p] THEN [maps[p][m] EXCEPT !.fd = NoMap]
                                              ELSE IF m = i[p] THEN Closed(Map(p)) ELSE maps[p][m]
    BY <1>1, <1>2, <2>1, ErrOutEffect
  <2>. QED  BY <1>5, <2>1, <2>2 DEF Closed
<1>25. CASE ReuseMap(p)
  <2>1. pc[p] = "maps" /\ i[p] \in 1 .. NMaps(p) /\ Cur(p) = Def(p, i[p]) /\ bpffs' = bpffs
        /\ Cur(p).pin \in Paths /\ bpffs[Cur(p).pin] \in AllIds
    BY <1>1, <1>25, InMapsIndex DEF ReuseMap, LoadTypes, Cur
  <2>. DEFINE r == [fd |-> bpffs[Cur(p).pin], pinned |-> TRUE, reused |-> TRUE]
  <2>2. r \in MapRec /\ r.fd = bpffs[Cur(p).pin] /\ SetMap(p, i[p], r)
    BY <2>1, <1>25 DEF MapRec, ReuseMap
  <2>. HIDE DEF r
  <2>3. maps'[p][i[p]] = r /\ \A m \in 1 .. NMaps(p) : m # i[p] => maps'[p][m] = maps[p][m]
    BY <1>1, <1>2, <2>1, <2>2, SetMapEffect
  <2>4. pinPath[p][i[p]] = Def(p, i[p]).pin
    BY <1>6, <2>1 DEF Loading
  <2>. QED  BY <1>5, <2>1, <2>2, <2>3, <2>4
<1>26. CASE CreateMap(p)
  <2>1. pc[p] = "create" /\ i[p] \in 1 .. NMaps(p) /\ Map(p) = maps[p][i[p]] /\ bpffs' = bpffs
        /\ Map(p).fd = NoMap
    BY <1>1, <1>26, InMapsIndex DEF CreateMap, Map
  <2>2. Map(p) = Untouched(p, i[p])
    BY <1>1, <2>1 DEF ProcOk, MapsOk, JustReused
  <2>. DEFINE r == [Map(p) EXCEPT !.fd = Id(p, i[p])]
  <2>3. r \in MapRec /\ ~r.pinned /\ SetMap(p, i[p], r)
    <3>1. ~Map(p).pinned
      BY <2>2 DEF Untouched
    <3>. QED  BY <1>4, <2>1, <3>1, <1>26, IdTypes, InMapsIndex, <1>1 DEF MapRec, CreateMap
  <2>. HIDE DEF r
  <2>4. maps'[p][i[p]] = r /\ \A m \in 1 .. NMaps(p) : m # i[p] => maps'[p][m] = maps[p][m]
    BY <1>1, <1>2, <2>1, <2>3, SetMapEffect
  <2>. QED  BY <1>5, <2>1, <2>3, <2>4
<1>27. CASE AutoPin(p)
  <2>1. pc[p] = "pin" /\ i[p] \in 1 .. NMaps(p) /\ Map(p) = maps[p][i[p]] /\ Cur(p) = Def(p, i[p])
        /\ Cur(p).pin \in Paths
    BY <1>1, <1>27, InMapsIndex DEF AutoPin, Map, Cur, ToPin
  <2>. DEFINE r == [Map(p) EXCEPT !.pinned = TRUE]
  <2>2. r \in MapRec /\ r.fd = maps[p][i[p]].fd /\ SetMap(p, i[p], r)
    BY <1>4, <2>1, <1>27 DEF MapRec, AutoPin
  <2>. HIDE DEF r
  <2>3. maps'[p][i[p]] = r /\ \A m \in 1 .. NMaps(p) : m # i[p] => maps'[p][m] = maps[p][m]
    BY <1>1, <1>2, <2>1, <2>2, SetMapEffect
  <2>4. pinPath[p][i[p]] = Cur(p).pin
    BY <1>6, <2>1 DEF Loading
  <2>5. Links(p, Cur(p).pin, maps[p][i[p]].fd)
    <3>1. maps[p][i[p]].fd # NoMap
      BY <1>1, <2>1 DEF ProcOk, MapsOk, Settled
    <3>. QED  BY <2>1, <3>1, <1>27 DEF AutoPin, Links, Link
  <2>6. \A m \in 1 .. NMaps(p) : m # i[p] => Keeps(p, m)
    BY <1>3, <1>4, <2>3 DEF Keeps
  <2>7. FlagStep(p)
    BY <1>3, <2>1, <2>2, <2>3, <2>4, <2>5, <2>6 DEF FlagStep
  <2>. QED  BY <1>3, <2>1, <2>3, <2>4, <2>7 DEF PathKnown
<1>28. CASE Unpin(p)
  <2>1. i[p] \in 1 .. NMaps(p) /\ i[p] \in Nat /\ pc[p] = "unpin" /\ Map(p) = maps[p][i[p]] /\ Cur(p) = Def(p, i[p])
    BY <1>1, <1>28, UnpinEffect
  <2>2. PICK r \in MapRec :
                /\ r.fd = Map(p).fd /\ SetMap(p, i[p], r)
                /\ \/ /\ Map(p).pinned /\ ~Map(p).reused /\ bpffs[Cur(p).pin] # NoMap /\ r.pinned = FALSE
                      /\ bpffs' = [bpffs EXCEPT ![Cur(p).pin] = NoMap]
                   \/ r = Map(p) /\ bpffs' = bpffs
    BY <1>1, <1>28, UnpinEffect
  <2>3. maps'[p][i[p]] = r /\ \A m \in 1 .. NMaps(p) : m # i[p] => maps'[p][m] = maps[p][m]
    BY <1>1, <1>2, <2>1, <2>2, SetMapEffect
  <2>4. CASE r = Map(p) /\ bpffs' = bpffs
    BY <1>5, <2>1, <2>3, <2>4
  <2>5. CASE /\ Map(p).pinned /\ bpffs[Cur(p).pin] # NoMap /\ r.pinned = FALSE
             /\ bpffs' = [bpffs EXCEPT ![Cur(p).pin] = NoMap]
    <3>1. pinPath[p][i[p]] = Cur(p).pin /\ Unpinning(p) = i[p]
      BY <1>6, <2>1 DEF Loading, Unpinning
    <3>2. Cur(p).pin \in Paths
      BY <2>1, <2>5, <3>1 DEF PathKnown
    <3>3. Unlinks(p, Cur(p).pin)
      BY <2>5, <3>2 DEF Unlinks, Unlink
    <3>4. \A m \in 1 .. NMaps(p) : Keeps(p, m)
      BY <1>3, <1>4, <2>3, <2>5 DEF Keeps
    <3>5. FlagStep(p)
      BY <2>3, <2>5, <3>1, <3>2, <3>3, <3>4 DEF FlagStep
    <3>. QED  BY <1>3, <2>3, <2>5, <3>5 DEF PathKnown
  <2>. QED  BY <2>2, <2>4, <2>5
<1>. QED  BY <1>7, <1>8, <1>9, <1>10, <1>11, <1>12, <1>13, <1>14, <1>15, <1>16, <1>17, <1>18, <1>19, <1>20, <1>21, <1>22, <1>23, <1>24, <1>25, <1>26, <1>27, <1>28 DEF LoadStep

(***************************************************************************)
(* What Witness(p) records of a step.                                      *)
(***************************************************************************)
HistorySame ==
    /\ \A path \in Paths : by'[path] = by[path]
    /\ unlinked' = unlinked /\ stolen' = stolen
HistoryLinks(p, path) ==
    /\ by'[path] = <<p, ncalls[p]>> /\ \A other \in Paths : other # path => by'[other] = by[other]
    /\ unlinked' = unlinked /\ stolen' = stolen
HistoryUnlinks(p, path) ==
    /\ by'[path] = Nobody /\ \A other \in Paths : other # path => by'[other] = by[other]
    /\ unlinked' = unlinked \cup {path} /\ stolen' = (stolen \/ Foreign(p, path))

LEMMA WitnessEffect ==
    ASSUME Types, NEW p \in Procs, stolen \in BOOLEAN, Witness(p)
    PROVE  /\ bpffs' = bpffs => HistorySame
           /\ \A path \in Paths : \A x : Links(p, path, x) => HistoryLinks(p, path)
           /\ \A path \in Paths : Unlinks(p, path) => HistoryUnlinks(p, path)
<1>1. DOMAIN bpffs = Paths
  BY DEF Types, LoadTypes
<1>. DEFINE gone == {path \in Paths : bpffs[path] # NoMap /\ bpffs'[path] = NoMap}
<1>2. /\ \A path \in Paths : by'[path] = IF bpffs'[path] = bpffs[path] THEN by[path]
                                         ELSE IF bpffs'[path] = NoMap THEN Nobody ELSE <<p, ncalls[p]>>
      /\ unlinked' = unlinked \cup gone
      /\ stolen' = (stolen \/ \E path \in gone : Foreign(p, path))
  BY DEF Witness
<1>3. ASSUME bpffs' = bpffs PROVE HistorySame
  <2>1. gone = {}
    BY <1>3
  <2>. HIDE DEF gone
  <2>. QED  BY <1>2, <1>3, <2>1 DEF HistorySame
<1>4. ASSUME NEW path \in Paths, NEW x, Links(p, path, x) PROVE HistoryLinks(p, path)
  <2>1. bpffs'[path] = x /\ x # NoMap /\ bpffs[path] = NoMap
        /\ \A other \in Paths : other # path => bpffs'[other] = bpffs[other]
    BY <1>1, <1>4 DEF Links, Link
  <2>2. gone = {}
    BY <2>1
  <2>. HIDE DEF gone
  <2>. QED  BY <1>2, <2>1, <2>2 DEF HistoryLinks
<1>5. ASSUME NEW path \in Paths, Unlinks(p, path) PROVE HistoryUnlinks(p, path)
  <2>1. bpffs'[path] = NoMap /\ bpffs[path] # NoMap
        /\ \A other \in Paths : other # path => bpffs'[other] = bpffs[other]
    BY <1>1, <1>5 DEF Unlinks, Unlink
  <2>2. gone = {path}
    BY <2>1
  <2>. HIDE DEF gone
  <2>. QED  BY <1>2, <2>1, <2>2 DEF HistoryUnlinks
<1>. QED  BY <1>3, <1>4, <1>5

LEMMA ByStep ==
    ASSUME Types, Types', LoadInv, ByOk, NEW p \in Procs, Witness(p),
           LoadStep(p) \/ Close(p) \/ PinStep(p) \/ Calls(p),
           \A q \in Procs : ncalls'[q] \in Nat /\ ncalls[q] <= ncalls'[q]
    PROVE  ByOk'
<1>1. DOMAIN bpffs = Paths /\ \A q \in Procs : ncalls[q] \in Nat
  BY CallType DEF Types, LoadTypes
<1>2. \A q \in Procs : \A n \in 0 .. ncalls[q] : n \in 0 .. ncalls'[q]
  BY <1>1
<1>. DEFINE Ok(path) == \/ bpffs[path] = NoMap /\ by[path] = Nobody
                        \/ /\ bpffs[path] # NoMap
                           /\ \E q \in Procs : \E n \in 0 .. ncalls[q] : by[path] = <<q, n>>
<1>3. ASSUME NEW path \in Paths, bpffs'[path] = bpffs[path], by'[path] = by[path] PROVE Ok(path)'
  BY <1>2, <1>3 DEF ByOk
<1>4. stolen \in BOOLEAN /\ unlinked \subseteq Paths
  BY DEF ByOk
<1>5. ASSUME unlinked' \subseteq Paths, stolen' \in BOOLEAN, \A path \in Paths : Ok(path)' PROVE ByOk'
  BY <1>5 DEF ByOk
<1>6. CASE bpffs' = bpffs
  <2>1. HistorySame
    BY <1>4, <1>6, WitnessEffect
  <2>. HIDE DEF Ok
  <2>. QED  BY <1>3, <1>4, <1>5, <1>6, <2>1 DEF HistorySame
<1>7. ASSUME NEW path \in Paths, NEW x, Links(p, path, x) PROVE ByOk'
  <2>1. HistoryLinks(p, path)
    BY <1>4, <1>7, WitnessEffect
  <2>2. bpffs'[path] = x /\ x # NoMap /\ \A other \in Paths : other # path => bpffs'[other] = bpffs[other]
    BY <1>1, <1>7 DEF Links, Link
  <2>3. Ok(path)'
    <3>1. ncalls[p] \in 0 .. ncalls'[p]
      BY <1>1, <1>2
    <3>. QED  BY <2>1, <2>2, <3>1 DEF HistoryLinks
  <2>. HIDE DEF Ok
  <2>. QED  BY <1>3, <1>4, <1>5, <2>1, <2>2, <2>3 DEF HistoryLinks
<1>8. ASSUME NEW path \in Paths, Unlinks(p, path) PROVE ByOk'
  <2>1. HistoryUnlinks(p, path)
    BY <1>4, <1>8, WitnessEffect
  <2>2. bpffs'[path] = NoMap /\ \A other \in Paths : other # path => bpffs'[other] = bpffs[other]
    BY <1>1, <1>8 DEF Unlinks, Unlink
  <2>3. Ok(path)'
    BY <2>1, <2>2 DEF HistoryUnlinks
  <2>4. Foreign(p, path) \in BOOLEAN
    BY DEF Foreign
  <2>. HIDE DEF Ok
  <2>. QED  BY <1>3, <1>4, <1>5, <2>1, <2>2, <2>3, <2>4 DEF HistoryUnlinks
<1>. QED  BY <1>6, <1>7, <1>8, FsStep

LEMMA CallsCounted ==
    ASSUME Types, Types', NEW p \in Procs, PinStep(p) \/ Calls(p) \/ UNCHANGED pinvars
    PROVE  \A q \in Procs : ncalls'[q] \in Nat /\ ncalls[q] <= ncalls'[q]
<1>1. ncalls \in [Procs -> Nat] /\ ncalls' \in [Procs -> Nat]
  BY DEF Types, PinTypes
<1>2. ncalls' = ncalls \/ ncalls' = [ncalls EXCEPT ![p] = @ + 1]
  BY DEF PinStep, Calls, MapPinned, PinMap, PinMapFails, UndoMaps, MapsUndone, MapsPinned, UnpinNext,
         UnpinMapsEnds, PassOverProg, PinProg, PinProgFails, UndoProgs, ProgsUndone, UnpinProg,
         ProgsEnd, PinMaps, UnpinMaps, PinPrograms, UnpinPrograms, Pin, Begin, pinvars
<1>. QED  BY <1>1, <1>2

(***************************************************************************)
(* A flag goes wrong only by an unlink() of a pin that is another's.       *)
(***************************************************************************)
FlagOk(q, m) ==
    maps[q][m].fd # NoMap /\ maps[q][m].pinned =>
      pinPath[q][m] \in Paths /\ bpffs[pinPath[q][m]] = maps[q][m].fd

LEMMA FlagsMean ==
    ASSUME Types, \A p \in Procs : PathKnown(p)
    PROVE  PinnedFlagsTrue <=> (~stolen => \A p \in Procs : \A m \in 1 .. NMaps(p) : FlagOk(p, m))
<1>1. \A p \in Procs : DOMAIN maps[p] = 1 .. NMaps(p)
  BY DEF Types, LoadTypes
<1>2. "none" \notin Paths
  BY NamesAssumption
<1>. QED  BY <1>1, <1>2 DEF PinnedFlagsTrue, FlagOk, PathKnown

LEMMA FlagsStep ==
    ASSUME Types, Types', PinInv, NEW p \in Procs, Witness(p), OthersKeep(p), FlagStep(p), obj' = obj,
           \A q \in Procs : PathKnown(q)'
    PROVE  PinnedFlagsTrue'
<1>1. /\ stolen \in BOOLEAN /\ DOMAIN bpffs = Paths
      /\ ~stolen => \A q \in Procs : \A m \in 1 .. NMaps(q) : FlagOk(q, m)
      /\ \A q \in Procs : DOMAIN maps[q] = 1 .. NMaps(q)
  BY FlagsMean DEF PinInv, ByOk, Types, LoadTypes
<1>2. \A q \in Procs : NMaps(q)' = NMaps(q)
  BY DEF NMaps
<1>3. SUFFICES ASSUME ~stolen', NEW q \in Procs, NEW m \in 1 .. NMaps(q),
                      maps'[q][m].fd # NoMap, maps'[q][m].pinned
               PROVE  pinPath'[q][m] \in Paths /\ bpffs'[pinPath'[q][m]] = maps'[q][m].fd
  <2>1. \A q \in Procs : DOMAIN maps'[q] = 1 .. NMaps(q)
    BY <1>2 DEF Types, LoadTypes
  <2>. QED  BY <2>1, NamesAssumption DEF PinnedFlagsTrue
<1>4. stolen => stolen'
  BY DEF Witness
<1>5. \/ /\ maps'[q][m].fd = maps[q][m].fd /\ maps[q][m].pinned /\ pinPath'[q][m] = pinPath[q][m]
         /\ pinPath[q][m] \in Paths /\ bpffs[pinPath[q][m]] = maps[q][m].fd
      \/ q = p /\ ~Keeps(p, m)
  <2>1. CASE q # p
    <3>1. maps'[q] = maps[q] /\ pinPath'[q] = pinPath[q]
      BY <2>1 DEF OthersKeep
    <3>. QED  BY <1>1, <1>3, <1>4, <3>1 DEF FlagOk
  <2>2. CASE q = p /\ Keeps(p, m)
    BY <1>1, <1>3, <1>4, <2>2 DEF FlagOk, Keeps
  <2>. QED  BY <2>1, <2>2
<1>6. CASE /\ bpffs' = bpffs
           /\ \A n \in 1 .. NMaps(p) :
                Keeps(p, n) \/ (pinPath'[p][n] \in Paths /\ maps'[p][n].fd = bpffs[pinPath'[p][n]])
  BY <1>3, <1>5, <1>6
<1>7. ASSUME NEW path \in Paths, NEW x, Links(p, path, x),
             \A n \in 1 .. NMaps(p) : Keeps(p, n) \/ (pinPath'[p][n] = path /\ maps'[p][n].fd = x)
      PROVE  pinPath'[q][m] \in Paths /\ bpffs'[pinPath'[q][m]] = maps'[q][m].fd
  <2>1. bpffs[path] = NoMap /\ bpffs'[path] = x /\ \A other \in Paths : other # path => bpffs'[other] = bpffs[other]
    BY <1>1, <1>7 DEF Links, Link
  <2>. QED  BY <1>3, <1>5, <1>7, <2>1
<1>8. ASSUME NEW path \in Paths, Unlinks(p, path),
             \A n \in 1 .. NMaps(p) :
               Keeps(p, n) /\ (n = Unpinning(p) => maps'[p][n].fd = NoMap \/ ~maps'[p][n].pinned)
      PROVE  pinPath'[q][m] \in Paths /\ bpffs'[pinPath'[q][m]] = maps'[q][m].fd
  <2>1. \A other \in Paths : other # path => bpffs'[other] = bpffs[other]
    BY <1>1, <1>8 DEF Unlinks, Unlink
  <2>2. maps'[q][m].fd = maps[q][m].fd /\ maps[q][m].pinned /\ pinPath'[q][m] = pinPath[q][m]
        /\ pinPath[q][m] \in Paths /\ bpffs[pinPath[q][m]] = maps[q][m].fd
    BY <1>5, <1>8
  <2>3. ~Foreign(p, path)
    <3>1. HistoryUnlinks(p, path)
      BY <1>1, <1>8, WitnessEffect
    <3>. QED  BY <1>3, <3>1 DEF HistoryUnlinks
  <2>4. q = p => m # Unpinning(p)
    BY <1>3, <1>8
  <2>5. <<q, m>> # <<p, Unpinning(p)>>
    BY <2>4
  <2>6. pinPath[q][m] # path
    BY <1>1, <2>2, <2>3, <2>5 DEF Foreign
  <2>. QED  BY <2>1, <2>2, <2>6
<1>. QED  BY <1>6, <1>7, <1>8 DEF FlagStep

LEMMA PinInvInit == Init => PinInv
<1>. SUFFICES ASSUME Init PROVE PinInv
  OBVIOUS
<1>1. Types
  BY TypesInit
<1>2. ASSUME NEW p \in Procs, NEW m \in 1 .. NMaps(p) PROVE ~maps[p][m].pinned
  <2>1. DOMAIN obj[p].maps = 1 .. NMaps(p)
    BY <1>1, ObjectTypes DEF NMaps, Types, LoadTypes
  <2>. QED  BY <2>1 DEF Init, LoadInit
<1>3. \A p \in Procs : PathKnown(p)
  BY <1>2 DEF PathKnown
<1>4. ByOk
  BY DEF ByOk, Init, LoadInit
<1>5. PinnedFlagsTrue
  BY <1>1, <1>2, <1>3, FlagsMean DEF FlagOk
<1>. QED  BY <1>3, <1>4, <1>5 DEF PinInv

\* A step of process p, whatever it is part of.
Moves(p) == /\ PinStep(p) \/ Calls(p)
               \/ (UNCHANGED pinvars /\ (LoadStep(p) \/ (call[p] = NoCall /\ Close(p))))
            /\ Witness(p)

LEMMA StepsAreMoves ==
    ASSUME [Next]_vars PROVE UNCHANGED vars \/ \E p \in Procs : Moves(p)
BY DEF Next, Step, App, Finished, Moves

LEMMA MoveEffect ==
    ASSUME Types, LoadInv, NEW p \in Procs, Moves(p)
    PROVE  /\ LoadStep(p) \/ Close(p) \/ PinStep(p) \/ Calls(p)
           /\ obj' = obj /\ KernelKeeps(p) /\ OthersKeep(p) /\ Witness(p)
<1>1. LoadStep(p) \/ Close(p) \/ PinStep(p) \/ Calls(p)
  BY DEF Moves
<1>2. OthersKeep(p)
  BY LoadKeepsOthers, PinKeepsOthers DEF Moves
<1>. QED  BY <1>1, <1>2, KernelStep DEF Moves

LEMMA PinInvStep == Types /\ Types' /\ LoadInv /\ PinInv /\ [Next]_vars => PinInv'
<1>. SUFFICES ASSUME Types, Types', LoadInv, PinInv, [Next]_vars PROVE PinInv'
  OBVIOUS
<1>1. CASE UNCHANGED vars
  BY <1>1 DEF vars, loadvars, pvars, pinvars, PinInv, PathKnown, ByOk, PinnedFlagsTrue, NMaps
<1>2. ASSUME NEW p \in Procs, Moves(p) PROVE PinInv'
  <2>1. /\ LoadStep(p) \/ Close(p) \/ PinStep(p) \/ Calls(p)
        /\ obj' = obj /\ OthersKeep(p) /\ Witness(p)
    BY <1>2, MoveEffect
  <2>2. FlagStep(p) /\ PathKnown(p)'
    BY <1>2, PinFlagStep, LoadFlagStep DEF PinInv, Moves
  <2>3. \A q \in Procs : PathKnown(q)'
    BY <2>1, <2>2 DEF PinInv, PathKnown, OthersKeep, NMaps
  <2>4. PinnedFlagsTrue'
    BY <2>1, <2>2, <2>3, FlagsStep
  <2>5. ByOk'
    <3>1. \A q \in Procs : ncalls'[q] \in Nat /\ ncalls[q] <= ncalls'[q]
      BY <1>2, CallsCounted DEF Moves
    <3>. QED  BY <2>1, <3>1, ByStep DEF PinInv
  <2>. QED  BY <2>3, <2>4, <2>5 DEF PinInv
<1>. QED  BY <1>1, <1>2, StepsAreMoves

LEMMA PinInvariant == Spec => [](Types /\ LoadInv /\ PinInv)
<1>1. Init => PinInv
  BY PinInvInit
<1>2. Types /\ LoadInv /\ PinInv /\ [Next]_vars => (Types /\ LoadInv /\ PinInv)'
  BY TypesStep, LoadInvStep, PinInvStep
<1>. QED  BY <1>1, <1>2, TypesInit, LoadInvInit, PTL DEF Spec

(***************************************************************************)
(* As long as nobody unlinks a pin that is another's, a map marked pinned  *)
(* is pinned, at its pin path.                                             *)
(***************************************************************************)
THEOREM FlagsStayTrue == Spec => []PinnedFlagsTrue
BY PinInvariant, PTL DEF PinInv

-----------------------------------------------------------------------------
(***************************************************************************)
(* Sharing.  A map that a load has settled, or has just taken from the     *)
(* file system, is what is pinned at its path unless somebody has unlinked *)
(* it since.                                                               *)
(***************************************************************************)
Sharing(p, m) ==
    \/ pc[p] \in {"progs", "loaded"}
    \/ pc[p] \in {"maps", "create", "fill", "pin"} /\ m < i[p]
    \/ pc[p] \in {"create", "pin"} /\ m = i[p] /\ maps[p][m].pinned
AtPath(p, m) ==
    Def(p, m).pin \in Paths /\ Def(p, m).pin \notin unlinked =>
      bpffs[Def(p, m).pin] = maps[p][m].fd /\ maps[p][m].fd # NoMap
SharedInv == \A p \in Procs : \A m \in 1 .. NMaps(p) : Sharing(p, m) => AtPath(p, m)

LEMMA PathKept ==
    ASSUME Types, LoadInv, ByOk, NEW p \in Procs, Moves(p),
           NEW path \in Paths, path \notin unlinked'
    PROVE  path \notin unlinked /\ (bpffs[path] # NoMap => bpffs'[path] = bpffs[path])
<1>1. DOMAIN bpffs = Paths /\ stolen \in BOOLEAN /\ Witness(p)
  BY DEF Types, LoadTypes, ByOk, Moves
<1>2. CASE bpffs' = bpffs
  BY <1>1, <1>2, WitnessEffect DEF HistorySame
<1>3. ASSUME NEW other \in Paths, NEW x, Links(p, other, x)
      PROVE  path \notin unlinked /\ (bpffs[path] # NoMap => bpffs'[path] = bpffs[path])
  <2>1. HistoryLinks(p, other)
    BY <1>1, <1>3, WitnessEffect
  <2>. QED  BY <1>1, <1>3, <2>1 DEF HistoryLinks, Links, Link
<1>4. ASSUME NEW other \in Paths, Unlinks(p, other)
      PROVE  path \notin unlinked /\ (bpffs[path] # NoMap => bpffs'[path] = bpffs[path])
  <2>1. HistoryUnlinks(p, other)
    BY <1>1, <1>4, WitnessEffect
  <2>. QED  BY <1>1, <1>4, <2>1 DEF HistoryUnlinks, Unlinks, Unlink
<1>. QED  BY <1>2, <1>3, <1>4, FsStep, MoveEffect

LEMMA SharedInvStep ==
    ASSUME Types, Types', LoadInv, ByOk, SharedInv, NEW p \in Procs, Moves(p)
    PROVE  SharedInv'
<1>. USE DEF Goto, SetI, Out, pvars
<1>1. /\ obj' = obj /\ OthersKeep(p) /\ LoadTypes /\ DOMAIN pc = Procs /\ i \in [Procs -> Nat \ {0}]
      /\ DOMAIN bpffs = Paths /\ NMaps(p) \in Nat /\ MapsOk(p) /\ i[p] \in Nat /\ Witness(p)
  BY MoveEffect, CallType DEF Types, LoadTypes, LoadInv, ProcOk
<1>2. \A q, m : Def(q, m)' = Def(q, m)
  BY <1>1 DEF Def
<1>3. \A q : NMaps(q)' = NMaps(q)
  BY <1>1 DEF NMaps
<1>4. \A path \in Paths : path \notin unlinked' =>
        path \notin unlinked /\ (bpffs[path] # NoMap => bpffs'[path] = bpffs[path])
  BY PathKept DEF ByOk
<1>5. \A q \in Procs : \A m \in 1 .. NMaps(q) : maps'[q][m].fd = maps[q][m].fd /\ AtPath(q, m) => AtPath(q, m)'
  BY <1>2, <1>4 DEF AtPath
<1>6. ASSUME NEW q \in Procs, q # p, NEW m \in 1 .. NMaps(q) PROVE Sharing(q, m)' => AtPath(q, m)'
  <2>1. pc'[q] = pc[q] /\ i'[q] = i[q] /\ maps'[q] = maps[q]
    BY <1>1, <1>6 DEF OthersKeep
  <2>2. Sharing(q, m)' <=> Sharing(q, m)
    BY <2>1 DEF Sharing
  <2>. QED  BY <1>5, <2>1, <2>2 DEF SharedInv
<1>7. ASSUME \A m \in 1 .. NMaps(p) : Sharing(p, m)' => AtPath(p, m)' PROVE SharedInv'
  BY <1>3, <1>6, <1>7 DEF SharedInv
<1>8. ASSUME \A m \in 1 .. NMaps(p) : Sharing(p, m)' => Sharing(p, m) /\ maps'[p][m].fd = maps[p][m].fd
      PROVE  SharedInv'
  BY <1>5, <1>7, <1>8 DEF SharedInv
<1>9. ASSUME pc'[p] \notin {"progs", "loaded", "maps", "create", "fill", "pin"} PROVE SharedInv'
  BY <1>7, <1>9 DEF Sharing
<1>10. CASE PinStep(p) \/ Calls(p)
  <2>1. UNCHANGED <<obj, pc, i, held, log, kernel>> /\ PinEffect(p) /\ pc[p] \in {"loaded", "failed"}
    BY <1>10, PinStepEffect, PinStepAt
  <2>2. PinnedOnly(p)
    BY <2>1, PinChangesFlags
  <2>. QED  BY <1>8, <2>1, <2>2 DEF PinnedOnly, Sharing
<1>11. CASE PrepareFails(p)
  BY <1>1, <1>9, <1>11 DEF PrepareFails, CreateErrOut, Unload
<1>12. CASE ReuseFails(p)
  BY <1>1, <1>9, <1>12 DEF ReuseFails, CreateErrOut, Unload
<1>13. CASE CreateFails(p)
  BY <1>1, <1>9, <1>13 DEF CreateFails, CreateErrOut, Unload
<1>14. CASE FillFails(p)
  BY <1>1, <1>9, <1>14 DEF FillFails, CreateErrOut, Unload
<1>15. CASE AutoPinFails(p)
  BY <1>1, <1>9, <1>15 DEF AutoPinFails, CreateErrOut, Unload
<1>16. CASE LoadProgFails(p)
  BY <1>1, <1>9, <1>16 DEF LoadProgFails, CreateErrOut, Unload
<1>17. CASE Unpin(p)
  BY <1>1, <1>9, <1>17, UnpinEffect DEF Unpin, CreateErrOut, Unload
<1>18. CASE Failed(p)
  BY <1>1, <1>9, <1>18 DEF Failed, CreateErrOut, Unload
<1>19. CASE Close(p)
  BY <1>1, <1>9, <1>19 DEF Close, CreateErrOut, Unload
<1>20. CASE SkipProg(p)
  BY <1>1, <1>8, <1>20 DEF SkipProg, InProgs, Sharing
<1>21. CASE LoadProg(p)
  BY <1>1, <1>8, <1>21 DEF LoadProg, InProgs, Sharing
<1>22. CASE RetryLoad(p)
  BY <1>1, <1>8, <1>22 DEF RetryLoad, InProgs, Sharing
<1>23. CASE Loaded(p)
  BY <1>1, <1>8, <1>23 DEF Loaded, InProgs, Sharing
<1>24. CASE Relocate(p)
  <2>1. pc[p] = "maps" /\ i[p] > NMaps(p) /\ maps' = maps
    BY <1>1, <1>24 DEF Relocate, NMaps
  <2>2. \A m \in 1 .. NMaps(p) : Sharing(p, m)
    BY <1>1, <2>1 DEF Sharing
  <2>. QED  BY <1>8, <2>1, <2>2
<1>25. CASE Prepare(p)
  BY <1>1, <1>8, <1>25 DEF Prepare, Sharing
<1>26. CASE NothingToReuse(p)
  <2>1. pc[p] = "maps" /\ pc'[p] = "create" /\ i'[p] = i[p] /\ maps' = maps /\ i[p] \in 1 .. NMaps(p)
    BY <1>1, <1>26, InMapsIndex DEF NothingToReuse
  <2>2. ~maps[p][i[p]].pinned
    <3>1. maps[p][i[p]] = Untouched(p, i[p])
      BY <1>1, <2>1 DEF MapsOk, Fresh
    <3>. QED  BY <3>1 DEF Untouched
  <2>. QED  BY <1>8, <2>1, <2>2 DEF Sharing
<1>27. CASE SkipCreation(p)
  <2>1. pc[p] = "create" /\ pc'[p] = "pin" /\ i'[p] = i[p] /\ maps' = maps
    BY <1>1, <1>27, InMapsIndex DEF SkipCreation
  <2>. QED  BY <1>8, <2>1 DEF Sharing
<1>28. CASE Fill(p)
  <2>1. pc[p] = "fill" /\ pc'[p] = "pin" /\ i'[p] = i[p] /\ maps' = maps
    BY <1>1, <1>28, InMapsIndex DEF Fill
  <2>2. ~maps[p][i[p]].pinned
    <3>1. maps[p][i[p]] = [Untouched(p, i[p]) EXCEPT !.fd = Id(p, i[p])]
      BY <1>1, <2>1 DEF MapsOk
    <3>. QED  BY <3>1 DEF Untouched
  <2>. QED  BY <1>8, <2>1, <2>2 DEF Sharing
<1>29. CASE NoPin(p)
  <2>1. pc[p] = "pin" /\ pc'[p] = "maps" /\ i'[p] = i[p] + 1 /\ maps' = maps /\ i[p] \in 1 .. NMaps(p)
        /\ (Def(p, i[p]).pin = "none" \/ maps[p][i[p]].pinned)
    BY <1>1, <1>29, InMapsIndex DEF NoPin, ToPin, Cur, Map
  <2>2. ASSUME NEW m \in 1 .. NMaps(p), Sharing(p, m)' PROVE AtPath(p, m)'
    <3>1. m < i[p] \/ m = i[p]
      BY <1>1, <2>1, <2>2 DEF Sharing
    <3>2. CASE Sharing(p, m)
      BY <1>5, <2>1, <3>2 DEF SharedInv
    <3>3. CASE m = i[p] /\ Def(p, m).pin = "none"
      BY <1>2, <3>3, NamesAssumption DEF AtPath
    <3>. QED  BY <2>1, <3>1, <3>2, <3>3 DEF Sharing
  <2>. QED  BY <1>7, <2>2
<1>30. CASE ReuseMap(p)
  <2>1. pc[p] = "maps" /\ pc'[p] = "create" /\ i'[p] = i[p] /\ i[p] \in 1 .. NMaps(p)
        /\ Cur(p) = Def(p, i[p]) /\ Cur(p).pin \in Paths /\ bpffs[Cur(p).pin] # NoMap /\ bpffs' = bpffs
        /\ bpffs[Cur(p).pin] \in AllIds
    BY <1>1, <1>30, InMapsIndex DEF ReuseMap, LoadTypes, Cur
  <2>. DEFINE r == [fd |-> bpffs[Cur(p).pin], pinned |-> TRUE, reused |-> TRUE]
  <2>2. r \in MapRec /\ r.fd = bpffs[Cur(p).pin] /\ SetMap(p, i[p], r)
    BY <2>1, <1>30 DEF MapRec, ReuseMap
  <2>. HIDE DEF r
  <2>3. maps'[p][i[p]] = r /\ \A m \in 1 .. NMaps(p) : m # i[p] => maps'[p][m] = maps[p][m]
    BY <1>1, <2>1, <2>2, SetMapEffect
  <2>4. ASSUME NEW m \in 1 .. NMaps(p), Sharing(p, m)' PROVE AtPath(p, m)'
    <3>1. CASE m = i[p]
      BY <1>2, <2>1, <2>2, <2>3, <3>1 DEF AtPath
    <3>2. CASE m # i[p]
      BY <1>5, <2>1, <2>3, <2>4, <3>2 DEF Sharing, SharedInv
    <3>. QED  BY <3>1, <3>2
  <2>. QED  BY <1>7, <2>4
<1>31. CASE CreateMap(p)
  <2>1. pc[p] = "create" /\ pc'[p] = "fill" /\ i'[p] = i[p] /\ i[p] \in 1 .. NMaps(p)
        /\ Map(p) = maps[p][i[p]] /\ Map(p) \in MapRec
    BY <1>1, <1>31, InMapsIndex DEF CreateMap, Map
  <2>. DEFINE r == [Map(p) EXCEPT !.fd = Id(p, i[p])]
  <2>2. r \in MapRec /\ SetMap(p, i[p], r)
    BY <2>1, <1>1, <1>31, IdTypes DEF MapRec, CreateMap
  <2>. HIDE DEF r
  <2>3. \A m \in 1 .. NMaps(p) : m # i[p] => maps'[p][m] = maps[p][m]
    BY <1>1, <2>1, <2>2, SetMapEffect
  <2>. QED  BY <1>1, <1>8, <2>1, <2>3 DEF Sharing
<1>32. CASE AutoPin(p)
  <2>1. pc[p] = "pin" /\ pc'[p] = "maps" /\ i'[p] = i[p] + 1 /\ i[p] \in 1 .. NMaps(p)
        /\ Map(p) = maps[p][i[p]] /\ Map(p) \in MapRec /\ Cur(p) = Def(p, i[p]) /\ Cur(p).pin \in Paths
        /\ bpffs' = [bpffs EXCEPT ![Cur(p).pin] = Map(p).fd]
    BY <1>1, <1>32, InMapsIndex DEF AutoPin, Map, Cur, ToPin
  <2>. DEFINE r == [Map(p) EXCEPT !.pinned = TRUE]
  <2>2. r \in MapRec /\ r.fd = maps[p][i[p]].fd /\ SetMap(p, i[p], r)
    BY <2>1, <1>32 DEF MapRec, AutoPin
  <2>. HIDE DEF r
  <2>3. maps'[p][i[p]] = r /\ \A m \in 1 .. NMaps(p) : m # i[p] => maps'[p][m] = maps[p][m]
    BY <1>1, <2>1, <2>2, SetMapEffect
  <2>4. maps[p][i[p]].fd # NoMap
    BY <1>1, <2>1 DEF MapsOk, Settled
  <2>5. ASSUME NEW m \in 1 .. NMaps(p), Sharing(p, m)' PROVE AtPath(p, m)'
    <3>1. CASE m = i[p]
      BY <1>1, <1>2, <2>1, <2>2, <2>3, <2>4, <3>1 DEF AtPath
    <3>2. CASE m # i[p]
      <4>1. m < i[p]
        BY <1>1, <2>1, <2>5, <3>2 DEF Sharing
      <4>2. AtPath(p, m)
        BY <2>1, <4>1 DEF Sharing, SharedInv
      <4>. QED  BY <1>5, <2>3, <3>2, <4>2
    <3>. QED  BY <3>1, <3>2
  <2>. QED  BY <1>7, <2>5
<1>. QED  BY <1>10, <1>11, <1>12, <1>13, <1>14, <1>15, <1>16, <1>17, <1>18, <1>19, <1>20, <1>21, <1>22, <1>23, <1>24, <1>25, <1>26, <1>27, <1>28, <1>29, <1>30, <1>31, <1>32 DEF LoadStep, Moves

(***************************************************************************)
(* Objects that are loaded with maps of the same pin path share one map,   *)
(* however their loads interleaved and failed, unless something was        *)
(* unlinked there.                                                         *)
(***************************************************************************)
THEOREM LoadsShareMaps == Spec => []MapsShared
<1>1. Init => SharedInv
  <2>. SUFFICES ASSUME Init, NEW p \in Procs PROVE \A m \in 1 .. NMaps(p) : ~Sharing(p, m)
    BY DEF SharedInv
  <2>1. pc[p] = "open"
    BY DEF Init, LoadInit
  <2>. QED  BY <2>1 DEF Sharing
<1>2. Types /\ Types' /\ LoadInv /\ PinInv /\ SharedInv /\ [Next]_vars => SharedInv'
  <2>. SUFFICES ASSUME Types, Types', LoadInv, PinInv, SharedInv, [Next]_vars PROVE SharedInv'
    OBVIOUS
  <2>1. CASE UNCHANGED vars
    BY <2>1 DEF vars, loadvars, pvars, pinvars, SharedInv, Sharing, AtPath, Def, NMaps
  <2>2. ASSUME NEW p \in Procs, Moves(p) PROVE SharedInv'
    BY <2>2, SharedInvStep DEF PinInv
  <2>. QED  BY <2>1, <2>2, StepsAreMoves
<1>3. Types /\ SharedInv => MapsShared
  <2>. SUFFICES ASSUME Types, SharedInv, NEW p \in Procs, NEW q \in Procs, pc[p] = "loaded", pc[q] = "loaded",
                       NEW m \in DOMAIN maps[p], NEW n \in DOMAIN maps[q],
                       Def(p, m).pin # "none", Def(p, m).pin = Def(q, n).pin, Def(p, m).pin \notin unlinked
                PROVE  maps[p][m].fd = maps[q][n].fd
    BY DEF MapsShared
  <2>1. m \in 1 .. NMaps(p) /\ n \in 1 .. NMaps(q) /\ LoadTypes
    BY DEF Types, LoadTypes
  <2>2. Def(p, m).pin \in Paths
    BY <2>1, MapOfLoad
  <2>. QED  BY <2>1, <2>2 DEF SharedInv, Sharing, AtPath
<1>. QED  BY <1>1, <1>2, <1>3, PinInvariant, PTL DEF Spec

-----------------------------------------------------------------------------
(***************************************************************************)
(* Loaded objects.  A settled map has the parameters asked for, and if the *)
(* load created it its slots lead to the object's own maps.  A slot may    *)
(* lead to a later map only if the application has set its descriptor; if  *)
(* such a map also had a pin path, the load might replace the descriptor   *)
(* the slot already has by that of a pinned map, so the theorem is about   *)
(* objects in which no slot leads to a map that has both.                  *)
(***************************************************************************)
SlotsFixed ==
    \A o \in UNION {{setup[p] : p \in Procs} : setup \in Setups} :
      \A m \in DOMAIN o.maps : \A s \in DOMAIN o.maps[m].slots :
        o.maps[o.maps[m].slots[s]].preset => o.maps[o.maps[m].slots[s]].pin = "none"

DefOk(p, m) ==
    maps[p][m].fd \in MapIds => Def(maps[p][m].fd[1], maps[p][m].fd[2]).def = Def(p, m).def
SlotsOk(p, m) ==
    maps[p][m].fd = Id(p, m) =>
      \A s \in DOMAIN Def(p, m).slots :
        /\ kernel[Id(p, m)].slots[s] = maps[p][Def(p, m).slots[s]].fd
        /\ maps[p][Def(p, m).slots[s]].fd # NoMap
ReadyOk(p, m) ==
    /\ Settled(p, m) => DefOk(p, m) /\ SlotsOk(p, m)
    /\ pc[p] = "create" /\ m = i[p] => DefOk(p, m)
ReadyInv == \A p \in Procs : \A m \in 1 .. NMaps(p) : ReadyOk(p, m)

LEMMA SlotTarget ==
    ASSUME LoadTypes, NEW p \in Procs, NEW m \in 1 .. NMaps(p), NEW s \in DOMAIN Def(p, m).slots
    PROVE  /\ Def(p, m).slots[s] \in 1 .. NMaps(p)
           /\ SlotsFixed /\ Def(p, Def(p, m).slots[s]).preset => Def(p, Def(p, m).slots[s]).pin = "none"
<1>1. Def(p, m).slots \in Seq(1 .. NMaps(p)) /\ m \in DOMAIN obj[p].maps
  BY MapOfLoad
<1>2. Def(p, m).slots[s] \in 1 .. NMaps(p)
  BY <1>1, LenProperties
<1>3. obj[p] \in UNION {{setup[q] : q \in Procs} : setup \in Setups}
  BY DEF LoadTypes
<1>. QED  BY <1>1, <1>2, <1>3 DEF SlotsFixed, Def

LEMMA UntouchedId ==
    ASSUME NEW p, NEW m PROVE Untouched(p, m).fd \notin MapIds
<1>1. CASE Def(p, m).preset
  BY <1>1, Ids DEF Untouched, MapIds
<1>2. CASE ~Def(p, m).preset
  BY <1>2, Ids DEF Untouched, MapIds
<1>. QED  BY <1>1, <1>2

LEMMA ReadyStep ==
    ASSUME Types, Types', LoadInv, ReadyInv, SlotsFixed, NEW p \in Procs, Moves(p)
    PROVE  ReadyInv'
<1>. USE DEF Goto, SetI, Out, pvars
<1>1. /\ obj' = obj /\ OthersKeep(p) /\ LoadTypes /\ DOMAIN pc = Procs /\ i \in [Procs -> Nat \ {0}]
      /\ NMaps(p) \in Nat /\ MapsOk(p) /\ CreatedOk(p) /\ i[p] \in Nat /\ KernelKeeps(p)
  BY MoveEffect, CallType DEF Types, LoadTypes, LoadInv, ProcOk
<1>2. \A q, m : Def(q, m)' = Def(q, m)
  BY <1>1 DEF Def
<1>3. \A q : NMaps(q)' = NMaps(q)
  BY <1>1 DEF NMaps
<1>4. \A q \in Procs : \A m \in 1 .. NMaps(q) : maps'[q][m].fd = maps[q][m].fd /\ DefOk(q, m) => DefOk(q, m)'
  BY <1>2 DEF DefOk
<1>5. ASSUME NEW q \in Procs, NEW m \in 1 .. NMaps(q), SlotsOk(q, m), maps'[q][m].fd = maps[q][m].fd,
             maps[q][m].fd = Id(q, m) => kernel'[Id(q, m)] = kernel[Id(q, m)],
             \A n \in 1 .. NMaps(q) :
               maps[q][n].fd # NoMap
                 /\ (\E s \in DOMAIN Def(q, m).slots : Def(q, m).slots[s] = n)
               => maps'[q][n].fd = maps[q][n].fd
      PROVE  SlotsOk(q, m)'
  <2>1. \A s \in DOMAIN Def(q, m).slots : Def(q, m).slots[s] \in 1 .. NMaps(q)
    BY <1>1, SlotTarget
  <2>2. SUFFICES ASSUME maps[q][m].fd = Id(q, m), NEW s \in DOMAIN Def(q, m).slots
                 PROVE  kernel'[Id(q, m)].slots[s] = maps'[q][Def(q, m).slots[s]].fd
                        /\ maps'[q][Def(q, m).slots[s]].fd # NoMap
    BY <1>2, <1>5 DEF SlotsOk
  <2>. QED  BY <1>5, <2>1, <2>2 DEF SlotsOk
<1>6. ASSUME NEW q \in Procs, q # p, NEW m \in 1 .. NMaps(q) PROVE ReadyOk(q, m)'
  <2>1. pc'[q] = pc[q] /\ i'[q] = i[q] /\ maps'[q] = maps[q] /\ ReadyOk(q, m)
    BY <1>1, <1>6 DEF OthersKeep, ReadyInv
  <2>2. Settled(q, m)' <=> Settled(q, m)
    BY <2>1 DEF Settled
  <2>3. maps[q][m].fd = Id(q, m) => kernel'[Id(q, m)] = kernel[Id(q, m)]
    <3>1. m \in Nat
      BY <1>1, MapOfLoad
    <3>2. Id(q, m) # Id(p, i[p]) /\ Id(q, m) \in MapIds
      BY <1>6, <3>1, Ids DEF MapIds
    <3>3. maps[q][m].fd = Id(q, m) => Id(q, m) \in DOMAIN kernel
      BY <3>2 DEF LoadInv, ProcOk, FdsOk
    <3>. QED  BY <1>1, <3>2, <3>3 DEF KernelKeeps
  <2>. QED  BY <1>4, <1>5, <2>1, <2>2, <2>3 DEF ReadyOk
<1>7. ASSUME \A m \in 1 .. NMaps(p) : ReadyOk(p, m)' PROVE ReadyInv'
  BY <1>3, <1>6, <1>7 DEF ReadyInv
<1>8. ASSUME kernel' = kernel, \A m \in 1 .. NMaps(p) : maps'[p][m].fd = maps[p][m].fd,
             \A m \in 1 .. NMaps(p) : Settled(p, m)' => Settled(p, m) \/ (DefOk(p, m) /\ SlotsOk(p, m)),
             \A m \in 1 .. NMaps(p) : pc'[p] = "create" /\ m = i'[p] => DefOk(p, m)
      PROVE  ReadyInv'
  <2>1. ASSUME NEW m \in 1 .. NMaps(p) PROVE ReadyOk(p, m)'
    BY <1>4, <1>5, <1>8, <2>1 DEF ReadyOk, ReadyInv
  <2>. QED  BY <1>7, <2>1
<1>9. ASSUME pc'[p] \notin {"progs", "loaded", "maps", "create", "fill", "pin"} PROVE ReadyInv'
  BY <1>7, <1>9 DEF ReadyOk, Settled
<1>10. CASE PinStep(p) \/ Calls(p)
  <2>1. UNCHANGED <<obj, pc, i, held, log, kernel>> /\ PinEffect(p) /\ pc[p] \in {"loaded", "failed"}
    BY <1>10, PinStepEffect, PinStepAt
  <2>2. PinnedOnly(p)
    BY <2>1, PinChangesFlags
  <2>. QED  BY <1>8, <2>1, <2>2 DEF PinnedOnly, Settled
<1>11. CASE PrepareFails(p)
  BY <1>1, <1>9, <1>11 DEF PrepareFails, CreateErrOut, Unload
<1>12. CASE ReuseFails(p)
  BY <1>1, <1>9, <1>12 DEF ReuseFails, CreateErrOut, Unload
<1>13. CASE CreateFails(p)
  BY <1>1, <1>9, <1>13 DEF CreateFails, CreateErrOut, Unload
<1>14. CASE FillFails(p)
  BY <1>1, <1>9, <1>14 DEF FillFails, CreateErrOut, Unload
<1>15. CASE AutoPinFails(p)
  BY <1>1, <1>9, <1>15 DEF AutoPinFails, CreateErrOut, Unload
<1>16. CASE LoadProgFails(p)
  BY <1>1, <1>9, <1>16 DEF LoadProgFails, CreateErrOut, Unload
<1>17. CASE Unpin(p)
  BY <1>1, <1>9, <1>17, UnpinEffect DEF Unpin, CreateErrOut, Unload
<1>18. CASE Failed(p)
  BY <1>1, <1>9, <1>18 DEF Failed, CreateErrOut, Unload
<1>19. CASE Close(p)
  BY <1>1, <1>9, <1>19 DEF Close, CreateErrOut, Unload
<1>20. CASE SkipProg(p)
  BY <1>1, <1>8, <1>20 DEF SkipProg, InProgs, Settled
<1>21. CASE LoadProg(p)
  BY <1>1, <1>8, <1>21 DEF LoadProg, InProgs, Settled
<1>22. CASE RetryLoad(p)
  BY <1>1, <1>8, <1>22 DEF RetryLoad, InProgs, Settled
<1>23. CASE Loaded(p)
  BY <1>1, <1>8, <1>23 DEF Loaded, InProgs, Settled
<1>24. CASE Relocate(p)
  <2>1. pc[p] = "maps" /\ i[p] > NMaps(p) /\ maps' = maps /\ kernel' = kernel /\ pc'[p] # "create"
    BY <1>1, <1>24 DEF Relocate, NMaps
  <2>2. \A m \in 1 .. NMaps(p) : Settled(p, m)
    BY <1>1, <2>1 DEF Settled
  <2>. QED  BY <1>8, <2>1, <2>2
<1>25. CASE Prepare(p)
  BY <1>1, <1>8, <1>25 DEF Prepare, Settled
<1>26. CASE NothingToReuse(p)
  <2>1. pc[p] = "maps" /\ pc'[p] = "create" /\ i'[p] = i[p] /\ maps' = maps /\ kernel' = kernel
        /\ i[p] \in 1 .. NMaps(p)
    BY <1>1, <1>26, InMapsIndex DEF NothingToReuse
  <2>2. DefOk(p, i[p])
    <3>1. maps[p][i[p]] = Untouched(p, i[p])
      BY <1>1, <2>1 DEF MapsOk, Fresh
    <3>2. maps[p][i[p]].fd \notin MapIds
      BY <3>1, UntouchedId
    <3>. QED  BY <3>2 DEF DefOk
  <2>. QED  BY <1>8, <2>1, <2>2 DEF Settled
<1>27. CASE SkipCreation(p)
  <2>1. pc[p] = "create" /\ pc'[p] = "pin" /\ i'[p] = i[p] /\ maps' = maps /\ kernel' = kernel
        /\ i[p] \in 1 .. NMaps(p)
    BY <1>1, <1>27, InMapsIndex DEF SkipCreation
  <2>2. DefOk(p, i[p])
    BY <2>1 DEF ReadyInv, ReadyOk
  <2>3. maps[p][i[p]].fd # Id(p, i[p])
    <3>1. Id(p, i[p]) \in MapIds /\ Id(p, i[p]) \notin DOMAIN kernel
      BY <1>1, <2>1 DEF CreatedOk, MapIds
    <3>. QED  BY <2>1, <3>1 DEF LoadInv, ProcOk, FdsOk
  <2>4. SlotsOk(p, i[p])
    BY <2>3 DEF SlotsOk
  <2>. QED  BY <1>8, <2>1, <2>2, <2>4 DEF Settled
<1>28. CASE NoPin(p)
  <2>1. pc[p] = "pin" /\ pc'[p] = "maps" /\ i'[p] = i[p] + 1 /\ maps' = maps /\ kernel' = kernel
    BY <1>1, <1>28, InMapsIndex DEF NoPin
  <2>2. \A m \in 1 .. NMaps(p) : Settled(p, m)' => Settled(p, m)
    BY <1>1, <2>1 DEF Settled
  <2>. QED  BY <1>8, <2>1, <2>2
<1>29. CASE AutoPin(p)
  <2>1. pc[p] = "pin" /\ pc'[p] = "maps" /\ i'[p] = i[p] + 1 /\ kernel' = kernel /\ i[p] \in 1 .. NMaps(p)
        /\ Map(p) = maps[p][i[p]] /\ Map(p) \in MapRec
    BY <1>1, <1>29, InMapsIndex DEF AutoPin, Map
  <2>. DEFINE r == [Map(p) EXCEPT !.pinned = TRUE]
  <2>2. r \in MapRec /\ r.fd = maps[p][i[p]].fd /\ SetMap(p, i[p], r)
    BY <2>1, <1>29 DEF MapRec, AutoPin
  <2>. HIDE DEF r
  <2>3. maps'[p][i[p]] = r /\ \A m \in 1 .. NMaps(p) : m # i[p] => maps'[p][m] = maps[p][m]
    BY <1>1, <2>1, <2>2, SetMapEffect
  <2>4. \A m \in 1 .. NMaps(p) : Settled(p, m)' => Settled(p, m)
    BY <1>1, <2>1 DEF Settled
  <2>. QED  BY <1>8, <2>1, <2>2, <2>3, <2>4
<1>30. CASE Fill(p)
  <2>1. /\ pc[p] = "fill" /\ i[p] \in 1 .. NMaps(p) /\ maps[p][i[p]].fd = Id(p, i[p])
        /\ kernel'[Id(p, i[p])].slots = [s \in DOMAIN Cur(p).slots |-> maps[p][Cur(p).slots[s]].fd]
    BY <1>30, FillKernel
  <2>2. /\ pc'[p] = "pin" /\ i'[p] = i[p] /\ maps' = maps /\ Cur(p) = Def(p, i[p])
        /\ \A s \in DOMAIN Cur(p).slots : maps[p][Cur(p).slots[s]].fd # NoMap
    BY <1>1, <1>30 DEF Fill, Cur
  <2>3. ASSUME NEW m \in 1 .. NMaps(p), m # i[p] PROVE ReadyOk(p, m)'
    <3>1. Settled(p, m)' => Settled(p, m)
      BY <1>1, <2>1, <2>2, <2>3 DEF Settled
    <3>2. maps[p][m].fd = Id(p, m) => kernel'[Id(p, m)] = kernel[Id(p, m)]
      <4>1. m \in Nat
        BY <1>1, MapOfLoad
      <4>2. Id(p, m) # Id(p, i[p]) /\ Id(p, m) \in MapIds
        BY <2>3, <4>1, Ids DEF MapIds
      <4>3. maps[p][m].fd = Id(p, m) => Id(p, m) \in DOMAIN kernel
        BY <4>2 DEF LoadInv, ProcOk, FdsOk
      <4>. QED  BY <1>1, <4>2, <4>3 DEF KernelKeeps
    <3>. QED  BY <1>4, <1>5, <2>2, <2>3, <3>1, <3>2 DEF ReadyOk, ReadyInv
  <2>4. ReadyOk(p, i[p])'
    <3>. DEFINE k == i[p]
    <3>1. Id(p, k)[1] = p /\ Id(p, k)[2] = k
      BY Ids, SMTT(40)
    <3>2. DefOk(p, i[p])'
      BY <1>2, <2>1, <2>2, <3>1, SMTT(40) DEF DefOk
    <3>3. SlotsOk(p, i[p])'
      BY <1>2, <2>1, <2>2 DEF SlotsOk
    <3>. QED  BY <2>2, <3>2, <3>3 DEF ReadyOk
  <2>5. ASSUME NEW m \in 1 .. NMaps(p) PROVE ReadyOk(p, m)'
    <3>1. CASE m = i[p]
      BY <2>2, <2>4, <3>1
    <3>. QED  BY <2>3, <3>1
  <2>. QED  BY <1>7, <2>5
<1>31. CASE ReuseMap(p)
  <2>1. pc[p] = "maps" /\ pc'[p] = "create" /\ i'[p] = i[p] /\ i[p] \in 1 .. NMaps(p) /\ kernel' = kernel
        /\ Cur(p) = Def(p, i[p]) /\ Cur(p).pin \in Paths /\ Cur(p).pin # "none"
        /\ bpffs[Cur(p).pin] \in AllIds /\ ReuseCompat(p, i[p], bpffs[Cur(p).pin])
    BY <1>1, <1>31, InMapsIndex DEF ReuseMap, LoadTypes, Cur
  <2>. DEFINE r == [fd |-> bpffs[Cur(p).pin], pinned |-> TRUE, reused |-> TRUE]
  <2>2. r \in MapRec /\ r.fd = bpffs[Cur(p).pin] /\ SetMap(p, i[p], r)
    BY <2>1, <1>31 DEF MapRec, ReuseMap
  <2>. HIDE DEF r
  <2>3. maps'[p][i[p]] = r /\ \A m \in 1 .. NMaps(p) : m # i[p] => maps'[p][m] = maps[p][m]
    BY <1>1, <2>1, <2>2, SetMapEffect
  <2>4. DefOk(p, i[p])'
    <3>. DEFINE x == bpffs[Cur(p).pin]
    <3>1. x \in DOMAIN kernel /\ kernel[x].def = Def(p, i[p]).def
      BY <2>1 DEF ReuseCompat
    <3>2. kernel[x].def = Def(x[1], x[2]).def
      BY <3>1, KernelRecType DEF KernelRec
    <3>3. maps'[p][i'[p]].fd = x
      BY <2>1, <2>2, <2>3
    <3>. HIDE DEF x
    <3>. QED  BY <1>2, <2>1, <3>1, <3>2, <3>3 DEF DefOk
  <2>5. maps[p][i[p]].fd # NoMap => Def(p, i[p]).preset
    <3>1. maps[p][i[p]] = Untouched(p, i[p])
      BY <1>1, <2>1 DEF MapsOk, Fresh
    <3>. QED  BY <3>1 DEF Untouched
  <2>6. ASSUME NEW m \in 1 .. NMaps(p), m # i[p] PROVE ReadyOk(p, m)'
    <3>1. Settled(p, m)' => Settled(p, m)
      BY <1>1, <2>1, <2>6 DEF Settled
    <3>2. ASSUME NEW s \in DOMAIN Def(p, m).slots, Def(p, m).slots[s] = i[p] PROVE maps[p][i[p]].fd = NoMap
      BY <1>1, <2>1, <2>5, <3>2, SlotTarget
    <3>. QED  BY <1>4, <1>5, <2>1, <2>3, <2>6, <3>1, <3>2 DEF ReadyOk, ReadyInv
  <2>7. ASSUME NEW m \in 1 .. NMaps(p) PROVE ReadyOk(p, m)'
    <3>1. CASE m = i[p]
      <4>1. ~Settled(p, m)'
        BY <1>1, <2>1, <3>1 DEF Settled
      <4>2. DefOk(p, m)'
        BY <2>1, <2>4, <3>1
      <4>. QED  BY <4>1, <4>2 DEF ReadyOk
    <3>. QED  BY <2>6, <3>1
  <2>. QED  BY <1>7, <2>7
<1>32. CASE CreateMap(p)
  <2>1. pc[p] = "create" /\ pc'[p] = "fill" /\ i'[p] = i[p] /\ i[p] \in 1 .. NMaps(p)
        /\ Map(p) = maps[p][i[p]] /\ Map(p) \in MapRec /\ maps[p][i[p]].fd = NoMap
    BY <1>1, <1>32, InMapsIndex DEF CreateMap, Map
  <2>. DEFINE r == [Map(p) EXCEPT !.fd = Id(p, i[p])]
  <2>2. r \in MapRec /\ SetMap(p, i[p], r)
    BY <2>1, <1>1, <1>32, IdTypes DEF MapRec, CreateMap
  <2>. HIDE DEF r
  <2>3. \A m \in 1 .. NMaps(p) : m # i[p] => maps'[p][m] = maps[p][m]
    BY <1>1, <2>1, <2>2, SetMapEffect
  <2>4. \A id \in DOMAIN kernel : kernel'[id] = kernel[id]
    BY <1>32, CreateKernel
  <2>5. ASSUME NEW m \in 1 .. NMaps(p), Settled(p, m)' PROVE ReadyOk(p, m)'
    <3>1. Settled(p, m) /\ m # i[p]
      BY <1>1, <2>1, <2>5 DEF Settled
    <3>2. maps[p][m].fd = Id(p, m) => kernel'[Id(p, m)] = kernel[Id(p, m)]
      <4>1. Id(p, m) \in MapIds
        BY <1>1, MapOfLoad DEF MapIds
      <4>. QED  BY <2>4, <4>1 DEF LoadInv, ProcOk, FdsOk
    <3>. QED  BY <1>4, <1>5, <2>1, <2>3, <3>1, <3>2 DEF ReadyOk, ReadyInv
  <2>6. ASSUME NEW m \in 1 .. NMaps(p), ~Settled(p, m)' PROVE ReadyOk(p, m)'
    BY <2>1, <2>6 DEF ReadyOk
  <2>. QED  BY <1>7, <2>5, <2>6
<1>. QED  BY <1>10, <1>11, <1>12, <1>13, <1>14, <1>15, <1>16, <1>17, <1>18, <1>19, <1>20, <1>21, <1>22, <1>23, <1>24, <1>25, <1>26, <1>27, <1>28, <1>29, <1>30, <1>31, <1>32 DEF LoadStep, Moves

(***************************************************************************)
(* When bpf_object__load() succeeds every map has a descriptor, of a map   *)
(* with the parameters asked for, and what it created is complete with its *)
(* slots leading to the object's own maps, if no slot leads to a map that  *)
(* has both a descriptor from the application and a pin path.              *)
(***************************************************************************)
THEOREM LoadedObjectsReady == ASSUME SlotsFixed PROVE Spec => []LoadedMapsReady
<1>1. Init => ReadyInv
  <2>. SUFFICES ASSUME Init, NEW p \in Procs, NEW m \in 1 .. NMaps(p) PROVE ReadyOk(p, m)
    BY DEF ReadyInv
  <2>1. pc[p] = "open"
    BY DEF Init, LoadInit
  <2>. QED  BY <2>1 DEF ReadyOk, Settled
<1>2. Types /\ Types' /\ LoadInv /\ ReadyInv /\ [Next]_vars => ReadyInv'
  <2>. SUFFICES ASSUME Types, Types', LoadInv, ReadyInv, [Next]_vars PROVE ReadyInv'
    OBVIOUS
  <2>1. CASE UNCHANGED vars
    <3>1. obj' = obj /\ pc' = pc /\ i' = i /\ maps' = maps /\ kernel' = kernel
      BY <2>1 DEF vars, loadvars, pvars
    <3>. SUFFICES ASSUME NEW p \in Procs, NEW m \in 1 .. NMaps(p) PROVE ReadyOk(p, m)'
      BY <3>1 DEF ReadyInv, NMaps
    <3>2. ReadyOk(p, m)
      BY DEF ReadyInv
    <3>3. DefOk(p, m)' = DefOk(p, m)
      BY <3>1 DEF DefOk, Def
    <3>4. SlotsOk(p, m)' = SlotsOk(p, m)
      BY <3>1 DEF SlotsOk, Def
    <3>5. Settled(p, m)' = Settled(p, m)
      BY <3>1 DEF Settled
    <3>. QED  BY <3>1, <3>2, <3>3, <3>4, <3>5 DEF ReadyOk
  <2>2. ASSUME NEW p \in Procs, Moves(p) PROVE ReadyInv'
    BY <2>2, ReadyStep
  <2>. QED  BY <2>1, <2>2, StepsAreMoves
<1>3. Types /\ LoadInv /\ ReadyInv => LoadedMapsReady
  <2>. SUFFICES ASSUME Types, LoadInv, ReadyInv, NEW p \in Procs, pc[p] = "loaded", NEW m \in DOMAIN maps[p]
       PROVE  /\ maps[p][m].fd # NoMap
              /\ maps[p][m].fd \in DOMAIN kernel => kernel[maps[p][m].fd].def = Def(p, m).def
              /\ maps[p][m].fd = Id(p, m) =>
                   /\ Complete(p, m, maps[p][m].fd)
                   /\ \A s \in DOMAIN Def(p, m).slots :
                        kernel[maps[p][m].fd].slots[s] = maps[p][Def(p, m).slots[s]].fd
    BY DEF LoadedMapsReady
  <2>1. m \in 1 .. NMaps(p) /\ LoadTypes
    BY DEF Types, LoadTypes
  <2>2. Settled(p, m) /\ DefOk(p, m) /\ SlotsOk(p, m)
    BY <2>1 DEF ReadyInv, ReadyOk, Settled
  <2>3. maps[p][m].fd # NoMap
    BY <2>1, <2>2 DEF LoadInv, ProcOk, MapsOk
  <2>4. ASSUME maps[p][m].fd \in DOMAIN kernel PROVE kernel[maps[p][m].fd].def = Def(p, m).def
    BY <2>2, <2>4, KernelRecType DEF KernelRec, DefOk, LoadInv
  <2>5. ASSUME maps[p][m].fd = Id(p, m) PROVE Complete(p, m, maps[p][m].fd)
    <3>1. m \in Nat /\ Id(p, m)[1] = p /\ Id(p, m)[2] = m
      BY <2>1, MapOfLoad, Ids
    <3>2. FdGood(maps[p][m].fd) /\ Id(p, m) \in MapIds
      BY <2>1, <3>1, OldGood DEF MapIds
    <3>. QED  BY <2>5, <3>1, <3>2 DEF FdGood, Done
  <2>. QED  BY <2>2, <2>3, <2>4, <2>5 DEF SlotsOk
<1>. QED  BY <1>1, <1>2, <1>3, LoadInvariant, PTL DEF Spec

-----------------------------------------------------------------------------
(***************************************************************************)
(* Pinning calls that fail.  Whatever the call in progress has pinned is   *)
(* at the path of a map or a program that its walk, or its walk back, has  *)
(* passed or still has to come to; calls are numbered, and the one in      *)
(* progress has not failed yet.  bpf_object__pin() has come to its         *)
(* programs with every map pinned under the directory, so that, unless     *)
(* somebody steals a pin, bpf_object__unpin_maps() cannot stop early.  An  *)
(* object whose load failed pins nothing.                                  *)
(***************************************************************************)
MapReached(c, m) ==
    \/ c.phase = "pin_maps" /\ m < c.k
    \/ c.phase = "undo_maps" /\ m <= c.k
    \/ c.phase \in {"pin_progs", "undo_progs"} /\ c.all
    \/ c.phase = "unpin_maps" /\ m >= c.k
ProgReached(c, j) ==
    \/ c.phase = "pin_progs" /\ j < c.k
    \/ c.phase = "undo_progs" /\ j <= c.k
RollsBack(c) ==
    \/ c.phase \in {"pin_maps", "undo_maps", "pin_progs", "undo_progs"}
    \/ c.phase = "unpin_maps" /\ c.all

AtMap(p, path) == \E m \in 1 .. NMaps(p) : pinPath[p][m] = path /\ MapReached(call[p], m)
AtProg(p, path) ==
    \E j \in 1 .. NProgs(p) : File(p, j) = path /\ ~SubProg(p, j) /\ HasInstance(p, j) /\ ProgReached(call[p], j)
TraceOk(p) ==
    RollsBack(call[p]) =>
      \A path \in Paths : by[path] = <<p, ncalls[p]>> => AtMap(p, path) \/ AtProg(p, path)
CountOk(p) ==
    /\ failed[p] \subseteq 1 .. ncalls[p]
    /\ call[p].phase # "none" => ncalls[p] >= 1 /\ ncalls[p] \notin failed[p]
    /\ call[p].phase \in {"pin_maps", "pin_progs", "unpin_maps"} => K(p) >= 1
    /\ call[p].all => call[p].dir
AllOk(p) ==
    call[p].all =>
      \A m \in 1 .. NMaps(p) : MapReached(call[p], m) /\ call[p].phase # "undo_maps" =>
        maps[p][m].pinned /\ pinPath[p][m] = Def(p, m).file
NoneOk(p) ==
    pc[p] = "failed" => \A path \in Paths : \A n \in Nat : by[path] = <<p, n>> => n = 0
UndoneInv == /\ \A p \in Procs : TraceOk(p) /\ CountOk(p) /\ AllOk(p) /\ NoneOk(p)
             /\ FailedPinUndone

LEMMA CallAfter ==
    ASSUME Types, NEW p \in Procs
    PROVE  /\ Advance(p) => /\ call'[p].phase = call[p].phase /\ call'[p].k = K(p) + 1
                            /\ call'[p].all = call[p].all /\ call'[p].dir = call[p].dir
           /\ Back(p) => /\ call'[p].phase = call[p].phase /\ call'[p].k = K(p) - 1
                         /\ call'[p].all = call[p].all /\ call'[p].dir = call[p].dir
           /\ \A ph, k : GoTo(p, ph, k) => /\ call'[p].phase = ph /\ call'[p].k = k
                                           /\ call'[p].all = call[p].all /\ call'[p].dir = call[p].dir
           /\ Return(p) => call'[p].phase = "none" /\ call'[p].all = FALSE
           /\ \A ph, dir, all : Begin(p, ph, dir, all) =>
                /\ call'[p].phase = ph /\ call'[p].k = 1 /\ call'[p].all = all /\ call'[p].dir = dir
<1>1. DOMAIN call = Procs /\ call[p] \in [phase : Phases, k : Nat, dir : BOOLEAN, all : BOOLEAN]
  BY DEF Types, PinTypes, CallRec
<1>2. \A c : Set(p, c) => call'[p] = c
  BY <1>1 DEF Set
<1>3. ASSUME Advance(p) PROVE /\ call'[p].phase = call[p].phase /\ call'[p].k = K(p) + 1
                              /\ call'[p].all = call[p].all /\ call'[p].dir = call[p].dir
  BY <1>1, <1>2, <1>3 DEF Advance, K
<1>4. ASSUME Back(p) PROVE /\ call'[p].phase = call[p].phase /\ call'[p].k = K(p) - 1
                           /\ call'[p].all = call[p].all /\ call'[p].dir = call[p].dir
  BY <1>1, <1>2, <1>4 DEF Back, K
<1>5. ASSUME NEW ph, NEW k, GoTo(p, ph, k)
      PROVE  /\ call'[p].phase = ph /\ call'[p].k = k
             /\ call'[p].all = call[p].all /\ call'[p].dir = call[p].dir
  BY <1>1, <1>2, <1>5 DEF GoTo
<1>6. ASSUME Return(p) PROVE call'[p].phase = "none" /\ call'[p].all = FALSE
  BY <1>2, <1>6 DEF Return, NoCall
<1>7. ASSUME NEW ph, NEW dir, NEW all, Begin(p, ph, dir, all)
      PROVE  /\ call'[p].phase = ph /\ call'[p].k = 1 /\ call'[p].all = all /\ call'[p].dir = dir
  BY <1>2, <1>7 DEF Begin
<1>. QED  BY <1>3, <1>4, <1>5, <1>6, <1>7

LEMMA GoToEffect ==
    ASSUME Types, NEW p \in Procs, NEW ph \in Phases, NEW k \in Nat, GoTo(p, ph, k)
    PROVE  /\ call'[p].phase = ph /\ call'[p].k = k
           /\ call'[p].all = call[p].all /\ call'[p].dir = call[p].dir
BY CallAfter

\* Of the steps of the calls, what happens to the record of the call.
Walks(p) ==
    \/ /\ call'[p].phase = call[p].phase /\ call[p].phase # "none"
       /\ call'[p].k = K(p) + 1 \/ call[p].phase \in {"undo_maps", "undo_progs"}
       /\ call'[p].all = call[p].all /\ call'[p].dir = call[p].dir
    \/ /\ call[p].phase # "none" /\ call'[p].phase \in {"undo_maps", "undo_progs"}
       /\ call'[p].all = call[p].all /\ call'[p].dir = call[p].dir
    \/ /\ call[p].phase # "none" /\ call'[p].phase \in {"pin_progs", "unpin_maps"} /\ call'[p].k = 1
       /\ call'[p].all = call[p].all /\ call'[p].dir = call[p].dir
Returns(p) == call[p].phase # "none" /\ call'[p].phase = "none" /\ ~call'[p].all
Fails(p) ==
    /\ failed' = [failed EXCEPT ![p] = @ \cup {ncalls[p]}]
    /\ MapsUndone(p) \/ (call[p].all /\ UnpinMapsEnds(p)) \/ (~call[p].all /\ ProgsUndone(p))
Begins(p) ==
    /\ call[p].phase = "none" /\ ncalls' = [ncalls EXCEPT ![p] = @ + 1] /\ UNCHANGED <<loadvars, pinPath, failed>>
    /\ call'[p].phase \in Phases \ {"none", "undo_maps", "undo_progs"} /\ call'[p].k = 1
    /\ call'[p].all => call'[p].dir /\ call'[p].phase = "pin_maps"

LEMMA PinStepCall ==
    ASSUME Types, NEW p \in Procs, PinStep(p) \/ Calls(p)
    PROVE  \/ Begins(p)
           \/ ncalls' = ncalls /\ failed' = failed /\ (Walks(p) \/ Returns(p))
           \/ ncalls' = ncalls /\ Fails(p) /\ Returns(p) /\ bpffs' = bpffs
<1>. USE DEF In, Begins, Walks, Returns, Fails
<1>3. CASE MapPinned(p)
  BY <1>3, CallAfter DEF MapPinned
<1>4. CASE MapsUndone(p)
  BY <1>4, CallAfter DEF MapsUndone, ReturnError, loadvars
<1>5. CASE MapsPinned(p)
  <2>1. call[p].phase = "pin_maps" /\ ncalls' = ncalls /\ failed' = failed /\ (GoTo(p, "pin_progs", 1) \/ Return(p))
    BY <1>5 DEF MapsPinned
  <2>2. CASE GoTo(p, "pin_progs", 1)
    <3>1. call'[p].phase = "pin_progs" /\ call'[p].k = 1 /\ call'[p].all = call[p].all /\ call'[p].dir = call[p].dir
      <4>1. "pin_progs" \in Phases /\ 1 \in Nat
        BY DEF Phases
      <4>. QED  BY <2>2, <4>1, GoToEffect
    <3>. QED  BY <2>1, <3>1
  <2>3. CASE Return(p)
    BY <2>1, <2>3, CallAfter
  <2>. QED  BY <2>1, <2>2, <2>3
<1>6. CASE UnpinMapsEnds(p)
  BY <1>6, CallAfter DEF UnpinMapsEnds, ReturnError, loadvars
<1>7. CASE PassOverProg(p)
  BY <1>7, CallAfter DEF PassOverProg
<1>8. CASE PinProgFails(p)
  BY <1>8, CallAfter DEF PinProgFails
<1>9. CASE ProgsUndone(p)
  <2>1. CASE GoTo(p, "unpin_maps", 1) /\ UNCHANGED failed
    <3>1. call'[p].phase = "unpin_maps" /\ call'[p].k = 1 /\ call'[p].all = call[p].all /\ call'[p].dir = call[p].dir
      <4>1. "unpin_maps" \in Phases /\ 1 \in Nat
        BY DEF Phases
      <4>. QED  BY <2>1, <4>1, GoToEffect
    <3>. QED  BY <1>9, <2>1, <3>1 DEF ProgsUndone
  <2>2. CASE ReturnError(p)
    BY <1>9, <2>2, CallAfter DEF ProgsUndone, ReturnError, loadvars
  <2>. QED  BY <1>9, <2>1, <2>2 DEF ProgsUndone
<1>10. CASE ProgsEnd(p)
  BY <1>10, CallAfter DEF ProgsEnd
<1>11. CASE Calls(p)
  <2>1. \E ph \in Phases \ {"none", "undo_maps", "undo_progs"} : \E dir, all \in BOOLEAN :
          Begin(p, ph, dir, all) /\ (all => dir /\ ph = "pin_maps")
    BY <1>11 DEF Calls, PinMaps, UnpinMaps, PinPrograms, UnpinPrograms, Pin, Phases
  <2>2. PICK ph \in Phases \ {"none", "undo_maps", "undo_progs"} : \E dir, all \in BOOLEAN :
          Begin(p, ph, dir, all) /\ (all => dir /\ ph = "pin_maps")
    BY <2>1
  <2>3. PICK dir \in BOOLEAN, all \in BOOLEAN : Begin(p, ph, dir, all) /\ (all => dir /\ ph = "pin_maps")
    BY <2>2
  <2>4. /\ call'[p].phase = ph /\ call'[p].k = 1 /\ call'[p].all = all /\ call'[p].dir = dir
    BY <2>3, CallAfter
  <2>5. call[p].phase = "none" /\ ncalls' = [ncalls EXCEPT ![p] = @ + 1] /\ UNCHANGED <<loadvars, pinPath, failed>>
    BY <2>3 DEF Begin, NoCall
  <2>. QED  BY <2>3, <2>4, <2>5
<1>12. CASE PinMap(p)
  BY <1>12, CallAfter DEF PinMap
<1>13. CASE PinMapFails(p)
  BY <1>13, CallAfter DEF PinMapFails
<1>14. CASE UndoMaps(p)
  BY <1>14, CallAfter DEF UndoMaps
<1>15. CASE UnpinNext(p)
  BY <1>15, CallAfter DEF UnpinNext
<1>16. CASE PinProg(p)
  BY <1>16, CallAfter DEF PinProg
<1>17. CASE UndoProgs(p)
  BY <1>17, CallAfter DEF UndoProgs
<1>18. CASE UnpinProg(p)
  BY <1>18, CallAfter DEF UnpinProg
<1>. QED  BY <1>3, <1>4, <1>5, <1>6, <1>7, <1>8, <1>9, <1>10, <1>11, <1>12, <1>13, <1>14, <1>15, <1>16, <1>17, <1>18 DEF PinStep

LEMMA CountStep ==
    ASSUME Types, Types', NEW p \in Procs, CountOk(p), PinStep(p) \/ Calls(p)
    PROVE  CountOk(p)'
<1>1. /\ ncalls[p] \in Nat /\ DOMAIN ncalls = Procs /\ DOMAIN failed = Procs
      /\ call[p].all \in BOOLEAN /\ call'[p].all \in BOOLEAN /\ K(p) \in Nat
      /\ call[p].phase \in Phases /\ call'[p].phase \in Phases
  BY CallType DEF Types, PinTypes, CallRec, K
<1>2. CASE Begins(p)
  <2>1. ncalls'[p] = ncalls[p] + 1 /\ failed'[p] = failed[p]
    BY <1>1, <1>2 DEF Begins
  <2>. QED  BY <1>1, <1>2, <2>1 DEF CountOk, Begins, K
<1>3. CASE ncalls' = ncalls /\ failed' = failed /\ Walks(p)
  BY <1>1, <1>3 DEF CountOk, Walks, K
<1>4. CASE ncalls' = ncalls /\ failed' = failed /\ Returns(p)
  BY <1>1, <1>4 DEF CountOk, Returns, K
<1>5. CASE ncalls' = ncalls /\ Fails(p) /\ Returns(p)
  <2>1. failed'[p] = failed[p] \cup {ncalls[p]} /\ ncalls[p] \in 1 .. ncalls[p]
    BY <1>1, <1>5 DEF Fails, Returns, CountOk
  <2>. QED  BY <1>1, <1>5, <2>1 DEF CountOk, Returns, K
<1>. QED  BY <1>2, <1>3, <1>4, <1>5, PinStepCall

LEMMA ByChange ==
    ASSUME NEW p \in Procs, Witness(p), NEW path \in Paths
    PROVE  /\ \/ by'[path] = by[path]
              \/ by'[path] = Nobody
              \/ by'[path] = <<p, ncalls[p]>> /\ bpffs'[path] # bpffs[path] /\ bpffs'[path] # NoMap
           /\ bpffs[path] # NoMap /\ bpffs'[path] = NoMap => by'[path] = Nobody
           /\ bpffs'[path] = bpffs[path] => by'[path] = by[path]
BY DEF Witness

LEMMA Owners ==
    /\ \A q, n : <<q, n>> # Nobody
    /\ \A q, n, r, k : <<q, n>> = <<r, k>> => q = r /\ n = k
<1>1. \A q, n : Len(<<q, n>>) = 2 /\ Len(Nobody) = 1
  BY DEF Nobody
<1>. QED  BY <1>1

LEMMA AllStep ==
    ASSUME Types, Types', NEW p \in Procs, PathKnown(p), CountOk(p), AllOk(p), PinStep(p) \/ Calls(p)
    PROVE  AllOk(p)'
<1>1. /\ UNCHANGED <<obj, pc, held>> /\ LoadTypes /\ NMaps(p)' = NMaps(p) /\ NMaps(p) \in Nat /\ K(p) \in Nat
      /\ \A m : Def(p, m)' = Def(p, m)
  BY PinStepEffect, CallType DEF Types, NMaps, Def
<1>2. SUFFICES ASSUME NEW m \in 1 .. NMaps(p), call'[p].all, MapReached(call'[p], m), call'[p].phase # "undo_maps"
               PROVE  maps'[p][m].pinned /\ pinPath'[p][m] = Def(p, m).file
  BY <1>1 DEF AllOk
<1>3. call[p].all => call[p].dir
  BY DEF CountOk
<1>4. ASSUME call[p].all, MapReached(call[p], m), call[p].phase # "undo_maps",
             maps'[p][m] = maps[p][m], pinPath'[p][m] = pinPath[p][m]
      PROVE  maps'[p][m].pinned /\ pinPath'[p][m] = Def(p, m).file
  BY <1>4 DEF AllOk
<1>. USE DEF In, MapReached, loadvars, pvars
<1>5. CASE MapPinned(p)
  <2>1. /\ maps' = maps /\ pinPath' = pinPath /\ call[p].phase = "pin_maps" /\ call'[p].k = K(p) + 1
        /\ call[p].all /\ call[p].dir /\ call'[p].phase = "pin_maps"
    BY <1>2, <1>3, <1>5, CallAfter DEF MapPinned
  <2>2. CASE m = K(p)
    <3>1. maps[p][m].pinned /\ ~Mismatch(p, m)
      BY <1>5, <2>1, <2>2 DEF MapPinned, PassOver
    <3>2. pinPath[p][m] \in Paths /\ Def(p, m).file \in Paths
      BY <1>1, <3>1, MapOfLoad DEF PathKnown
    <3>. QED  BY <2>1, <3>1, <3>2, NamesAssumption DEF Mismatch, Named
  <2>3. CASE m < K(p)
    BY <1>4, <2>1, <2>3 DEF K
  <2>4. m < K(p) + 1
    BY <1>2, <2>1
  <2>. QED  BY <1>1, <2>2, <2>3, <2>4
<1>6. CASE PinMap(p)
  <2>1. /\ call[p].phase = "pin_maps" /\ call'[p].k = K(p) + 1 /\ call'[p].phase = "pin_maps"
        /\ call[p].all /\ call[p].dir /\ K(p) \in 1 .. NMaps(p) /\ ~Mismatch(p, K(p))
    BY <1>2, <1>3, <1>6, CallAfter DEF PinMap
  <2>2. Target(p, K(p)) = Def(p, K(p)).file /\ Target(p, K(p)) \in Paths
    BY <2>1, TargetType
  <2>. DEFINE r == [maps[p][K(p)] EXCEPT !.pinned = TRUE]
  <2>3. r \in MapRec /\ r.pinned /\ SetMap(p, K(p), r)
    BY <1>1, <1>6, <2>1, MapOfLoad DEF MapRec, PinMap
  <2>. HIDE DEF r
  <2>4. maps'[p][K(p)] = r /\ \A n \in 1 .. NMaps(p) : n # K(p) => maps'[p][n] = maps[p][n]
    BY <1>1, <2>1, <2>3, SetMapEffect
  <2>5. pinPath'[p][K(p)] = Def(p, K(p)).file /\ \A n \in 1 .. NMaps(p) : n # K(p) => pinPath'[p][n] = pinPath[p][n]
    <3>1. pinPath' = [pinPath EXCEPT ![p][K(p)] = Target(p, K(p))]
      BY <1>6 DEF PinMap
    <3>. QED  BY <1>1, <2>1, <2>2, <3>1, SetPathEffect, ZenonT(80)
  <2>6. CASE m = K(p)
    BY <2>3, <2>4, <2>5, <2>6
  <2>7. CASE m # K(p)
    <3>1. MapReached(call[p], m)
      BY <1>1, <1>2, <2>1, <2>7 DEF K
    <3>. QED  BY <1>4, <2>1, <2>4, <2>5, <2>7, <3>1
  <2>. QED  BY <2>6, <2>7
<1>7. CASE PinMapFails(p) \/ UndoMaps(p)
  BY <1>2, <1>7, CallAfter, ZenonT(80) DEF PinMapFails, UndoMaps
<1>8. CASE MapsUndone(p) \/ UnpinMapsEnds(p) \/ ProgsEnd(p)
  BY <1>2, <1>8, CallAfter DEF MapsUndone, UnpinMapsEnds, ProgsEnd, ReturnError
<1>9. CASE MapsPinned(p)
  <2>1. call[p].all
    BY <1>2, <1>9, CallAfter DEF MapsPinned
  <2>2. call[p].phase = "pin_maps" /\ m < K(p) /\ maps' = maps /\ pinPath' = pinPath
    BY <1>1, <1>9 DEF MapsPinned
  <2>. QED  BY <1>4, <2>1, <2>2 DEF K
<1>10. CASE UnpinNext(p)
  <2>1. /\ call[p].phase = "unpin_maps" /\ call'[p].k = K(p) + 1 /\ call'[p].phase = "unpin_maps"
        /\ call[p].all /\ K(p) \in 1 .. NMaps(p) /\ pinPath' = pinPath
    BY <1>2, <1>10, CallAfter DEF UnpinNext
  <2>2. m # K(p) /\ MapReached(call[p], m)
    BY <1>1, <1>2, <2>1 DEF K
  <2>3. maps'[p][m] = maps[p][m]
    <3>1. CASE maps' = maps
      BY <3>1
    <3>2. CASE UnpinMap(p, K(p))
      <4>. DEFINE r == [maps[p][K(p)] EXCEPT !.pinned = FALSE]
      <4>1. r \in MapRec /\ SetMap(p, K(p), r)
        BY <1>1, <3>2, <2>1, MapOfLoad, ZenonT(80) DEF MapRec, UnpinMap
      <4>. HIDE DEF r
      <4>. QED  BY <1>1, <2>1, <2>2, <4>1, SetMapEffect
    <3>. QED  BY <1>10, <3>1, <3>2 DEF UnpinNext
  <2>. QED  BY <1>4, <2>1, <2>2, <2>3
<1>11. CASE PassOverProg(p)
  <2>1. call[p].all /\ call'[p].phase = call[p].phase /\ call[p].phase \in {"pin_progs", "unpin_progs"}
        /\ maps' = maps /\ pinPath' = pinPath
    BY <1>2, <1>11, CallAfter DEF PassOverProg
  <2>. QED  BY <1>2, <1>4, <2>1
<1>12. CASE PinProg(p) \/ UndoProgs(p) \/ UnpinProg(p)
  <2>1. call[p].all /\ call'[p].phase = call[p].phase /\ call[p].phase \in {"pin_progs", "undo_progs", "unpin_progs"}
        /\ maps' = maps /\ pinPath' = pinPath
    BY <1>2, <1>12, CallAfter DEF PinProg, UndoProgs, UnpinProg
  <2>. QED  BY <1>2, <1>4, <2>1
<1>13. CASE PinProgFails(p)
  <2>1. call[p].all /\ call[p].phase = "pin_progs" /\ maps' = maps /\ pinPath' = pinPath
    BY <1>2, <1>13, CallAfter DEF PinProgFails
  <2>. QED  BY <1>4, <2>1
<1>14. CASE ProgsUndone(p)
  <2>1. call[p].all
    BY <1>2, <1>14, CallAfter DEF ProgsUndone, ReturnError
  <2>2. call[p].phase = "undo_progs" /\ maps' = maps /\ pinPath' = pinPath
    BY <1>14 DEF ProgsUndone
  <2>. QED  BY <1>4, <2>1, <2>2
<1>15. CASE Calls(p)
  <2>1. Begins(p) \/ call[p].phase # "none"
    BY <1>15, PinStepCall DEF Walks, Returns
  <2>2. call[p] = NoCall
    BY <1>15 DEF Calls, PinMaps, UnpinMaps, PinPrograms, UnpinPrograms, Pin, Begin
  <2>3. call[p].phase = "none"
    BY <2>2 DEF NoCall
  <2>. QED  BY <1>2, <2>1, <2>3 DEF Begins
<1>. QED  BY <1>5, <1>6, <1>7, <1>8, <1>9, <1>10, <1>11, <1>12, <1>13, <1>14, <1>15 DEF PinStep

LEMMA TraceKept ==
    ASSUME NEW p \in Procs, NEW path \in Paths, obj' = obj, held' = held, AtMap(p, path) \/ AtProg(p, path),
           \A m \in 1 .. NMaps(p) : pinPath[p][m] = path /\ MapReached(call[p], m) =>
             pinPath'[p][m] = path /\ MapReached(call'[p], m),
           \A j \in 1 .. NProgs(p) : /\ File(p, j) = path /\ ~SubProg(p, j) /\ HasInstance(p, j)
                                     /\ ProgReached(call[p], j)
                                     => ProgReached(call'[p], j)
    PROVE  AtMap(p, path)' \/ AtProg(p, path)'
<1>1. /\ NMaps(p)' = NMaps(p) /\ NProgs(p)' = NProgs(p)
      /\ \A j : File(p, j)' = File(p, j) /\ SubProg(p, j)' = SubProg(p, j) /\ HasInstance(p, j)' = HasInstance(p, j)
  BY DEF NMaps, NProgs, File, SubProg, HasInstance
<1>2. CASE AtMap(p, path)
  BY <1>1, <1>2 DEF AtMap
<1>3. CASE AtProg(p, path)
  <2>1. PICK j \in 1 .. NProgs(p) : File(p, j) = path /\ ~SubProg(p, j) /\ HasInstance(p, j) /\ ProgReached(call[p], j)
    BY <1>3 DEF AtProg
  <2>2. ProgReached(call'[p], j)
    BY <2>1
  <2>. QED  BY <1>1, <2>1, <2>2 DEF AtProg
<1>. QED  BY <1>2, <1>3

LEMMA TraceStep ==
    ASSUME Types, Types', ByOk, NEW p \in Procs, CountOk(p), TraceOk(p), PinStep(p) \/ Calls(p), Witness(p)
    PROVE  TraceOk(p)'
<1>1. /\ obj' = obj /\ held' = held /\ LoadTypes /\ DOMAIN bpffs = Paths
      /\ NMaps(p) \in Nat /\ NProgs(p) \in Nat /\ K(p) \in Nat /\ ncalls[p] \in Nat
      /\ K(p) = call[p].k /\ call[p].all \in BOOLEAN
  BY PinStepEffect, CallType DEF Types, LoadTypes, K
<1>2. SUFFICES ASSUME RollsBack(call'[p]), NEW path \in Paths, by'[path] = <<p, ncalls'[p]>>
               PROVE  AtMap(p, path)' \/ AtProg(p, path)'
  BY DEF TraceOk
<1>3. ASSUME by[path] = <<p, ncalls[p]>>, RollsBack(call[p]) PROVE AtMap(p, path) \/ AtProg(p, path)
  BY <1>3 DEF TraceOk
<1>4. bpffs[path] # NoMap /\ bpffs'[path] = NoMap => ncalls' # ncalls
  BY <1>2, ByChange, Owners
<1>5. ASSUME bpffs' = bpffs, ncalls' = ncalls PROVE by[path] = <<p, ncalls[p]>>
  BY <1>2, <1>5, ByChange
<1>6. ASSUME bpffs'[path] = bpffs[path], ncalls' = ncalls PROVE by[path] = <<p, ncalls[p]>>
  BY <1>2, <1>6, ByChange
<1>7. by[path] = <<p, ncalls[p]>> => bpffs[path] # NoMap
  BY Owners DEF ByOk
<1>. USE DEF In, MapReached, ProgReached, RollsBack, loadvars, pvars
<1>8. CASE MapPinned(p)
  <2>1. /\ bpffs' = bpffs /\ pinPath' = pinPath /\ ncalls' = ncalls /\ call[p].phase = "pin_maps"
        /\ call'[p].phase = "pin_maps" /\ call'[p].k = K(p) + 1
    BY <1>8, CallAfter DEF MapPinned
  <2>2. \A m \in 1 .. NMaps(p) : pinPath[p][m] = path /\ MapReached(call[p], m) =>
          pinPath'[p][m] = path /\ MapReached(call'[p], m)
    BY <1>1, <2>1
  <2>3. \A j \in 1 .. NProgs(p) : ~ProgReached(call[p], j)
    BY <2>1
  <2>. QED  BY <1>1, <1>3, <1>5, <2>1, <2>2, <2>3, TraceKept
<1>9. CASE PinMap(p)
  <2>1. /\ ncalls' = ncalls /\ call[p].phase = "pin_maps" /\ K(p) \in 1 .. NMaps(p) /\ ~PassOver(p)
        /\ call'[p].phase = "pin_maps" /\ call'[p].k = K(p) + 1 /\ Link(Target(p, K(p)), maps[p][K(p)].fd)
        /\ pinPath' = [pinPath EXCEPT ![p][K(p)] = Target(p, K(p))]
    BY <1>9, CallAfter DEF PinMap
  <2>2. Target(p, K(p)) \in Paths
    BY <2>1, TargetType DEF PassOver
  <2>3. pinPath'[p][K(p)] = Target(p, K(p)) /\ \A n \in 1 .. NMaps(p) : n # K(p) => pinPath'[p][n] = pinPath[p][n]
    <3>1. pinPath' = [pinPath EXCEPT ![p][K(p)] = Target(p, K(p))] /\ K(p) \in 1 .. NMaps(p) /\ obj' = obj
      BY <1>1, <2>1
    <3>2. DOMAIN pinPath = Procs /\ pinPath[p] \in [1 .. NMaps(p) -> Paths \cup {"none"}]
      BY DEF Types, PinTypes
    <3>. QED  BY <3>1, <3>2
  <2>4. CASE path = Target(p, K(p))
    <3>1. K(p) \in 1 .. NMaps(p)' /\ MapReached(call'[p], K(p))
      BY <1>1, <2>1 DEF NMaps
    <3>. QED  BY <2>3, <2>4, <3>1 DEF AtMap
  <2>5. CASE path # Target(p, K(p))
    <3>1. bpffs'[path] = bpffs[path]
      BY <1>1, <2>1, <2>5 DEF Link
    <3>2. \A m \in 1 .. NMaps(p) : pinPath[p][m] = path /\ MapReached(call[p], m) =>
            pinPath'[p][m] = path /\ MapReached(call'[p], m)
      BY <1>1, <2>1, <2>3
    <3>3. \A j \in 1 .. NProgs(p) : ~ProgReached(call[p], j)
      BY <2>1
    <3>. QED  BY <1>1, <1>3, <1>6, <2>1, <3>1, <3>2, <3>3, TraceKept
  <2>. QED  BY <2>4, <2>5
<1>10. CASE PinMapFails(p)
  <2>1. /\ ncalls' = ncalls /\ call[p].phase = "pin_maps" /\ K(p) \in 1 .. NMaps(p) /\ ~PassOver(p)
        /\ call'[p].phase = "undo_maps" /\ call'[p].k = K(p) - 1 /\ bpffs' = bpffs
        /\ pinPath' = pinPath \/ pinPath' = [pinPath EXCEPT ![p][K(p)] = Target(p, K(p))]
    <3>1. GoTo(p, "undo_maps", K(p) - 1) /\ K(p) \in 1 .. NMaps(p)
      BY <1>10 DEF PinMapFails
    <3>2. "undo_maps" \in Phases /\ K(p) - 1 \in Nat
      BY <1>1, <3>1 DEF Phases
    <3>3. call'[p].phase = "undo_maps" /\ call'[p].k = K(p) - 1
      BY <3>1, <3>2, GoToEffect
    <3>. QED  BY <1>10, <3>3 DEF PinMapFails
  <2>2. Target(p, K(p)) \in Paths
    BY <2>1, TargetType DEF PassOver
  <2>3. \A n \in 1 .. NMaps(p) : n # K(p) => pinPath'[p][n] = pinPath[p][n]
    BY <1>1, <2>1, <2>2, SetPathEffect
  <2>4. \A m \in 1 .. NMaps(p) : pinPath[p][m] = path /\ MapReached(call[p], m) =>
          pinPath'[p][m] = path /\ MapReached(call'[p], m)
    BY <1>1, <2>1, <2>3
  <2>5. \A j \in 1 .. NProgs(p) : ~ProgReached(call[p], j)
    BY <2>1
  <2>. QED  BY <1>1, <1>3, <1>5, <2>1, <2>4, <2>5, TraceKept
<1>11. CASE UndoMaps(p)
  <2>1. /\ ncalls' = ncalls /\ call[p].phase = "undo_maps" /\ K(p) \in 1 .. NMaps(p) /\ pinPath' = pinPath
        /\ call'[p].phase = "undo_maps" /\ call'[p].k = K(p) - 1
    BY <1>11, CallAfter DEF UndoMaps
  <2>2. bpffs'[path] = bpffs[path] /\ (pinPath[p][K(p)] = path => bpffs[path] = NoMap)
    <3>1. CASE pinPath[p][K(p)] # "none" /\ ~Free(pinPath[p][K(p)]) /\ UnpinMap(p, K(p))
      BY <1>1, <1>4, <2>1, <3>1 DEF UnpinMap, Target, Unlink, Free
    <3>2. CASE bpffs' = bpffs /\ (pinPath[p][K(p)] = "none" \/ Free(pinPath[p][K(p)]))
      BY <3>2, NamesAssumption DEF Free
    <3>. QED  BY <1>11, <3>1, <3>2 DEF UndoMaps
  <2>3. by[path] = <<p, ncalls[p]>> /\ bpffs[path] # NoMap
    BY <1>6, <1>7, <2>1, <2>2
  <2>4. \A m \in 1 .. NMaps(p) : pinPath[p][m] = path /\ MapReached(call[p], m) =>
          pinPath'[p][m] = path /\ MapReached(call'[p], m)
    BY <1>1, <2>1, <2>2, <2>3
  <2>5. \A j \in 1 .. NProgs(p) : ~ProgReached(call[p], j)
    BY <2>1
  <2>. QED  BY <1>1, <1>3, <2>1, <2>3, <2>4, <2>5, TraceKept
<1>12. CASE MapsUndone(p) \/ UnpinMapsEnds(p) \/ ProgsEnd(p)
  BY <1>2, <1>12, CallAfter DEF MapsUndone, UnpinMapsEnds, ProgsEnd, ReturnError
<1>13. CASE MapsPinned(p)
  <2>1. call[p].phase = "pin_maps" /\ pinPath' = pinPath /\ ncalls' = ncalls /\ bpffs' = bpffs
    BY <1>13 DEF MapsPinned
  <2>2. CASE GoTo(p, "pin_progs", 1) /\ call[p].all
    <3>1. "pin_progs" \in Phases /\ 1 \in Nat
      BY DEF Phases
    <3>2. call'[p].phase = "pin_progs" /\ call'[p].all
      BY <2>2, <3>1, GoToEffect
    <3>3. \A m \in 1 .. NMaps(p) : pinPath[p][m] = path /\ MapReached(call[p], m) =>
            pinPath'[p][m] = path /\ MapReached(call'[p], m)
      BY <2>1, <3>2
    <3>4. \A j \in 1 .. NProgs(p) : ~ProgReached(call[p], j)
      BY <2>1
    <3>. QED  BY <1>1, <1>3, <1>5, <2>1, <3>3, <3>4, TraceKept
  <2>3. CASE Return(p)
    BY <1>2, <2>3, CallAfter
  <2>. QED  BY <1>13, <2>2, <2>3 DEF MapsPinned
<1>14. CASE UnpinNext(p)
  <2>1. /\ ncalls' = ncalls /\ call[p].phase = "unpin_maps" /\ K(p) \in 1 .. NMaps(p) /\ pinPath' = pinPath
        /\ call'[p].phase = "unpin_maps" /\ call'[p].k = K(p) + 1 /\ call[p].all /\ call[p].dir
    BY <1>2, <1>14, CallAfter DEF UnpinNext, CountOk
  <2>2. ~PassOver(p) /\ ~Free(Target(p, K(p))) /\ Unlink(Target(p, K(p)))
    BY <1>14, <2>1 DEF UnpinNext, PassOver, UnpinMap
  <2>3. bpffs'[path] = bpffs[path] /\ pinPath[p][K(p)] # path
    <3>1. Target(p, K(p)) \in Paths /\ (pinPath[p][K(p)] = path => Target(p, K(p)) = path)
      BY <2>1, TargetType, NamesAssumption DEF Target
    <3>2. path # Target(p, K(p))
      BY <1>1, <1>4, <2>1, <2>2, <3>1 DEF Unlink, Free
    <3>. QED  BY <1>1, <2>2, <3>1, <3>2 DEF Unlink
  <2>4. \A m \in 1 .. NMaps(p) : pinPath[p][m] = path /\ MapReached(call[p], m) =>
          pinPath'[p][m] = path /\ MapReached(call'[p], m)
    BY <1>1, <2>1, <2>3
  <2>5. \A j \in 1 .. NProgs(p) : ~ProgReached(call[p], j)
    BY <2>1
  <2>. QED  BY <1>1, <1>3, <1>6, <2>1, <2>3, <2>4, <2>5, TraceKept
<1>15. CASE PassOverProg(p)
  <2>1. /\ ncalls' = ncalls /\ bpffs' = bpffs /\ pinPath' = pinPath /\ call[p].phase = "pin_progs"
        /\ call'[p].phase = "pin_progs" /\ call'[p].k = K(p) + 1 /\ call'[p].all = call[p].all
    BY <1>2, <1>15, CallAfter DEF PassOverProg
  <2>2. \A m \in 1 .. NMaps(p) : pinPath[p][m] = path /\ MapReached(call[p], m) =>
          pinPath'[p][m] = path /\ MapReached(call'[p], m)
    BY <2>1
  <2>3. \A j \in 1 .. NProgs(p) : ProgReached(call[p], j) => ProgReached(call'[p], j)
    BY <1>1, <2>1
  <2>. QED  BY <1>1, <1>3, <1>5, <2>1, <2>2, <2>3, TraceKept
<1>16. CASE PinProg(p)
  <2>1. /\ ncalls' = ncalls /\ pinPath' = pinPath /\ call[p].phase = "pin_progs" /\ K(p) \in 1 .. NProgs(p)
        /\ call'[p].phase = "pin_progs" /\ call'[p].k = K(p) + 1 /\ call'[p].all = call[p].all
        /\ ~SubProg(p, K(p)) /\ HasInstance(p, K(p)) /\ Link(File(p, K(p)), ProgId(p, K(p)))
    BY <1>16, CallAfter DEF PinProg
  <2>2. CASE path = File(p, K(p))
    <3>1. PICK k \in Nat : k = K(p)
      BY <1>1
    <3>2. k \in 1 .. NProgs(p)' /\ ProgReached(call'[p], k)
      BY <1>1, <2>1, <3>1 DEF NProgs
    <3>3. File(p, k) = path /\ ~SubProg(p, k) /\ HasInstance(p, k)
      BY <2>1, <2>2, <3>1
    <3>4. File(p, k)' = path /\ ~SubProg(p, k)' /\ HasInstance(p, k)'
      BY <1>1, <3>3 DEF File, SubProg, HasInstance
    <3>. QED  BY <3>2, <3>4 DEF AtProg
  <2>3. CASE path # File(p, K(p))
    <3>1. bpffs'[path] = bpffs[path]
      BY <1>1, <2>1, <2>3 DEF Link
    <3>2. \A m \in 1 .. NMaps(p) : pinPath[p][m] = path /\ MapReached(call[p], m) =>
            pinPath'[p][m] = path /\ MapReached(call'[p], m)
      BY <2>1
    <3>3. \A j \in 1 .. NProgs(p) : ProgReached(call[p], j) => ProgReached(call'[p], j)
      BY <1>1, <2>1
    <3>. QED  BY <1>1, <1>3, <1>6, <2>1, <3>1, <3>2, <3>3, TraceKept
  <2>. QED  BY <2>2, <2>3
<1>17. CASE PinProgFails(p)
  <2>1. /\ ncalls' = ncalls /\ bpffs' = bpffs /\ pinPath' = pinPath /\ call[p].phase = "pin_progs"
        /\ call'[p].phase = "undo_progs" /\ call'[p].k = K(p) - 1 /\ call'[p].all = call[p].all
    <3>1. GoTo(p, "undo_progs", K(p) - 1) /\ K(p) \in 1 .. NProgs(p)
      BY <1>17 DEF PinProgFails
    <3>2. "undo_progs" \in Phases /\ K(p) - 1 \in Nat
      BY <1>1, <3>1 DEF Phases
    <3>3. call'[p].phase = "undo_progs" /\ call'[p].k = K(p) - 1 /\ call'[p].all = call[p].all
      BY <3>1, <3>2, GoToEffect
    <3>. QED  BY <1>17, <3>3 DEF PinProgFails
  <2>2. \A m \in 1 .. NMaps(p) : pinPath[p][m] = path /\ MapReached(call[p], m) =>
          pinPath'[p][m] = path /\ MapReached(call'[p], m)
    BY <2>1
  <2>3. \A j \in 1 .. NProgs(p) : ProgReached(call[p], j) => ProgReached(call'[p], j)
    BY <1>1, <2>1
  <2>. QED  BY <1>1, <1>3, <1>5, <2>1, <2>2, <2>3, TraceKept
<1>18. CASE UndoProgs(p)
  <2>1. /\ ncalls' = ncalls /\ pinPath' = pinPath /\ call[p].phase = "undo_progs" /\ K(p) \in 1 .. NProgs(p)
        /\ call'[p].phase = "undo_progs" /\ call'[p].k = K(p) - 1 /\ call'[p].all = call[p].all
    BY <1>18, CallAfter DEF UndoProgs
  <2>2. /\ bpffs'[path] = bpffs[path]
        /\ File(p, K(p)) = path /\ ~SubProg(p, K(p)) /\ HasInstance(p, K(p)) => bpffs[path] = NoMap
    <3>1. CASE ~SubProg(p, K(p)) /\ HasInstance(p, K(p)) /\ ~Free(File(p, K(p))) /\ Unlink(File(p, K(p)))
      BY <1>1, <1>4, <2>1, <3>1 DEF Unlink, Free
    <3>2. CASE bpffs' = bpffs /\ ~(~SubProg(p, K(p)) /\ HasInstance(p, K(p)) /\ ~Free(File(p, K(p))))
      BY <3>2 DEF Free
    <3>. QED  BY <1>18, <3>1, <3>2 DEF UndoProgs
  <2>3. by[path] = <<p, ncalls[p]>> /\ bpffs[path] # NoMap
    BY <1>6, <1>7, <2>1, <2>2
  <2>4. \A m \in 1 .. NMaps(p) : pinPath[p][m] = path /\ MapReached(call[p], m) =>
          pinPath'[p][m] = path /\ MapReached(call'[p], m)
    BY <2>1
  <2>5. \A j \in 1 .. NProgs(p) : /\ File(p, j) = path /\ ~SubProg(p, j) /\ HasInstance(p, j)
                                  /\ ProgReached(call[p], j)
                                  => ProgReached(call'[p], j)
    BY <1>1, <2>1, <2>2, <2>3
  <2>. QED  BY <1>1, <1>3, <2>1, <2>3, <2>4, <2>5, TraceKept
<1>19. CASE ProgsUndone(p)
  <2>1. call[p].phase = "undo_progs" /\ K(p) = 0 /\ ncalls' = ncalls /\ bpffs' = bpffs /\ pinPath' = pinPath
    BY <1>19 DEF ProgsUndone
  <2>2. CASE GoTo(p, "unpin_maps", 1) /\ call[p].all
    <3>1. "unpin_maps" \in Phases /\ 1 \in Nat
      BY DEF Phases
    <3>2. call'[p].phase = "unpin_maps" /\ call'[p].k = 1
      BY <2>2, <3>1, GoToEffect
    <3>3. \A m \in 1 .. NMaps(p) : pinPath[p][m] = path /\ MapReached(call[p], m) =>
            pinPath'[p][m] = path /\ MapReached(call'[p], m)
      BY <1>1, <2>1, <3>2
    <3>4. \A j \in 1 .. NProgs(p) : ~ProgReached(call[p], j)
      BY <1>1, <2>1
    <3>. QED  BY <1>1, <1>3, <1>5, <2>1, <3>3, <3>4, TraceKept
  <2>3. CASE ReturnError(p)
    BY <1>2, <2>3, CallAfter DEF ReturnError
  <2>. QED  BY <1>19, <2>2, <2>3 DEF ProgsUndone
<1>20. CASE UnpinProg(p)
  BY <1>2, <1>20, CallAfter DEF UnpinProg
<1>21. CASE Calls(p)
  <2>1. Begins(p) \/ call[p].phase # "none"
    BY <1>21, PinStepCall DEF Walks, Returns
  <2>2. call[p] = NoCall
    BY <1>21 DEF Calls, PinMaps, UnpinMaps, PinPrograms, UnpinPrograms, Pin, Begin
  <2>3. call[p].phase = "none"
    BY <2>2 DEF NoCall
  <2>4. bpffs' = bpffs /\ ncalls'[p] = ncalls[p] + 1
    BY <2>1, <2>3 DEF Begins, Types, PinTypes
  <2>5. by[path] = <<p, ncalls[p] + 1>>
    BY <1>2, <2>4, ByChange
  <2>6. PICK q \in Procs : \E n \in 0 .. ncalls[q] : by[path] = <<q, n>>
    <3>1. by[path] # Nobody
      BY <2>5, Owners
    <3>. QED  BY <3>1 DEF ByOk
  <2>7. PICK n \in 0 .. ncalls[q] : by[path] = <<q, n>>
    BY <2>6
  <2>8. q = p /\ n = ncalls[p] + 1
    BY <2>5, <2>7, Owners
  <2>. QED  BY <1>1, <2>7, <2>8
<1>. QED  BY <1>8, <1>9, <1>10, <1>11, <1>12, <1>13, <1>14, <1>15, <1>16, <1>17, <1>18, <1>19, <1>20, <1>21 DEF PinStep

LEMMA NoneStep ==
    ASSUME Types, Types', LoadInv, ByOk', NEW p \in Procs, NoneOk(p), Moves(p)
    PROVE  NoneOk(p)'
<1>1. SUFFICES ASSUME pc'[p] = "failed", NEW path \in Paths, NEW n \in Nat, by'[path] = <<p, n>> PROVE n = 0
  BY DEF NoneOk
<1>2. MapsOk(p) /\ HeldOk(p) /\ CallOk(p) /\ DOMAIN bpffs = Paths /\ DOMAIN pc = Procs /\ Witness(p)
  BY DEF LoadInv, ProcOk, Types, LoadTypes, Moves
<1>3. CASE PinStep(p) \/ Calls(p)
  <2>1. pc' = pc /\ PinEffect(p)
    BY <1>3, PinStepEffect
  <2>2. bpffs'[path] = bpffs[path] \/ bpffs'[path] = NoMap
    <3>1. ASSUME NEW m \in 1 .. NMaps(p), NEW x \in Paths, PinsMap(p, m, x) PROVE FALSE
      BY <1>1, <1>2, <2>1, <3>1 DEF PinsMap, MapsOk
    <3>2. ASSUME NEW m \in 1 .. NMaps(p), NEW x \in Paths, UnpinsMap(p, m, x)
          PROVE  bpffs'[path] = bpffs[path] \/ bpffs'[path] = NoMap
      BY <1>2, <3>2 DEF UnpinsMap, Unlink
    <3>3. ASSUME NEW j \in 1 .. NProgs(p), PinsProg(p, j) PROVE FALSE
      <4>1. <<"prog", j>> \in held[p] /\ pc[p] = "failed"
        BY <1>1, <2>1, <3>3 DEF PinsProg, HasInstance
      <4>2. <<"prog", j>>[1] # "prog"
        BY <1>2, <4>1 DEF HeldOk
      <4>. QED  BY <4>2
    <3>4. ASSUME NEW j \in 1 .. NProgs(p), UnpinsProg(p, j)
          PROVE  bpffs'[path] = bpffs[path] \/ bpffs'[path] = NoMap
      BY <1>2, <3>4 DEF UnpinsProg, Unlink
    <3>. QED  BY <2>1, <3>1, <3>2, <3>3, <3>4 DEF PinEffect
  <2>3. by'[path] = by[path]
    BY <1>1, <1>2, <2>2, ByChange, Owners
  <2>. QED  BY <1>1, <2>1, <2>3 DEF NoneOk
<1>4. CASE LoadStep(p) /\ UNCHANGED pinvars
  <2>1. ncalls'[p] = 0
    BY <1>2, <1>4, LoadStepAt DEF CallOk, pinvars
  <2>2. PICK q \in Procs : \E k \in 0 .. ncalls'[q] : by'[path] = <<q, k>>
    <3>1. by'[path] # Nobody
      BY <1>1, Owners
    <3>. QED  BY <3>1 DEF ByOk
  <2>3. PICK k \in 0 .. ncalls'[q] : by'[path] = <<q, k>>
    BY <2>2
  <2>4. q = p /\ k = n
    BY <1>1, <2>3, Owners
  <2>. QED  BY <2>1, <2>3, <2>4
<1>5. CASE Close(p)
  BY <1>1, <1>2, <1>5 DEF Close, Goto
<1>. QED  BY <1>3, <1>4, <1>5 DEF Moves

\* A pinning call that returns an error has nothing left to take back.
LEMMA NothingOwed ==
    ASSUME Types, LoadInv, PinInv, ~stolen, NEW p \in Procs, Fails(p), NEW path \in Paths,
           TraceOk(p), CountOk(p), AllOk(p), NoneOk(p)
    PROVE  by[path] # <<p, ncalls[p]>>
<1>1. SUFFICES ASSUME by[path] = <<p, ncalls[p]>> PROVE FALSE
  OBVIOUS
<1>2. /\ NMaps(p) \in Nat /\ K(p) \in Nat /\ K(p) = call[p].k /\ ncalls[p] \in Nat /\ call[p].all \in BOOLEAN
      /\ call[p].dir \in BOOLEAN /\ DOMAIN obj[p].maps = 1 .. NMaps(p) /\ LoadTypes
  BY CallType, ObjectTypes DEF Types, LoadTypes, K, NMaps
<1>3. CASE MapsUndone(p)
  <2>1. call[p].phase = "undo_maps" /\ K(p) = 0
    BY <1>3 DEF MapsUndone
  <2>. QED  BY <1>1, <1>2, <2>1 DEF TraceOk, RollsBack, AtMap, AtProg, MapReached, ProgReached
<1>4. CASE ~call[p].all /\ ProgsUndone(p)
  <2>1. call[p].phase = "undo_progs" /\ K(p) = 0 /\ ~call[p].all
    BY <1>4 DEF ProgsUndone
  <2>. QED  BY <1>1, <1>2, <2>1 DEF TraceOk, RollsBack, AtMap, AtProg, MapReached, ProgReached
<1>5. CASE call[p].all /\ UnpinMapsEnds(p)
  <2>1. call[p].phase = "unpin_maps" /\ call[p].all /\ call[p].dir /\ ncalls[p] >= 1 /\ K(p) >= 1
    BY <1>5 DEF UnpinMapsEnds, CountOk
  <2>2. pc[p] = "loaded"
    <3>1. pc[p] \in {"loaded", "failed"}
      BY <1>5, PinStepAt DEF PinStep
    <3>2. pc[p] # "failed"
      BY <1>1, <1>2, <2>1 DEF NoneOk
    <3>. QED  BY <3>1, <3>2
  <2>3. PICK m \in 1 .. NMaps(p) : m >= K(p)
    BY <1>1, <1>2, <2>1 DEF TraceOk, RollsBack, AtMap, AtProg, MapReached, ProgReached
  <2>4. K(p) \in 1 .. NMaps(p)
    BY <1>2, <2>1, <2>3
  <2>5. Mismatch(p, K(p)) \/ Free(Target(p, K(p)))
    BY <1>2, <1>5, <2>4 DEF UnpinMapsEnds
  <2>6. maps[p][K(p)].pinned /\ pinPath[p][K(p)] = Def(p, K(p)).file /\ Def(p, K(p)).file \in Paths
    BY <1>2, <2>1, <2>4, MapOfLoad, SMTT(40) DEF AllOk, MapReached
  <2>7. ~Mismatch(p, K(p)) /\ Target(p, K(p)) = pinPath[p][K(p)]
    BY <2>1, <2>6, NamesAssumption DEF Mismatch, Named, Target
  <2>8. maps[p][K(p)].fd # NoMap
    BY <2>2, <2>4 DEF LoadInv, ProcOk, MapsOk, Settled
  <2>9. FlagOk(p, K(p))
    BY <2>4, FlagsMean DEF PinInv
  <2>. QED  BY <2>5, <2>6, <2>7, <2>8, <2>9 DEF FlagOk, Free
<1>. QED  BY <1>3, <1>4, <1>5 DEF Fails

LEMMA FailedStep ==
    ASSUME Types, LoadInv, PinInv, UndoneInv, NEW p \in Procs, Moves(p), OthersKeep(p)
    PROVE  FailedPinUndone'
<1>1. SUFFICES ASSUME ~stolen', NEW q \in Procs, NEW n \in failed'[q], NEW path \in Paths, by'[path] = <<q, n>>
               PROVE  FALSE
  BY DEF FailedPinUndone
<1>2. ~stolen /\ Witness(p) /\ DOMAIN failed = Procs
  BY <1>1 DEF Moves, Witness, Types, PinTypes
<1>3. ASSUME n \in failed[q] PROVE by[path] # <<q, n>>
  BY <1>2, <1>3 DEF UndoneInv, FailedPinUndone
<1>4. CASE q # p
  <2>1. failed'[q] = failed[q]
    BY <1>4 DEF OthersKeep
  <2>2. by'[path] = by[path]
    BY <1>1, <1>2, <1>4, ByChange, Owners, SMTT(40)
  <2>. QED  BY <1>1, <1>3, <2>1, <2>2
<1>5. CASE q = p /\ UNCHANGED pinvars /\ LoadStep(p)
  <2>1. failed[p] = {} /\ failed' = failed
    BY <1>5, LoadStepAt DEF LoadInv, ProcOk, CallOk, pinvars
  <2>. QED  BY <1>5, <2>1
<1>6. CASE q = p /\ UNCHANGED pinvars /\ Close(p)
  <2>1. failed' = failed /\ bpffs' = bpffs
    BY <1>6 DEF Close, pinvars
  <2>. QED  BY <1>1, <1>2, <1>3, <1>6, <2>1, ByChange
<1>7. CASE q = p /\ (PinStep(p) \/ Calls(p))
  <2>1. CASE Begins(p)
    <3>1. failed' = failed /\ bpffs' = bpffs
      BY <2>1 DEF Begins, loadvars
    <3>. QED  BY <1>1, <1>2, <1>3, <1>7, <3>1, ByChange
  <2>2. CASE failed' = failed /\ (Walks(p) \/ Returns(p))
    <3>1. ncalls[p] \notin failed[p]
      BY <2>2 DEF Walks, Returns, UndoneInv, CountOk
    <3>2. by'[path] = by[path] \/ n = ncalls[p]
      BY <1>1, <1>2, ByChange, Owners
    <3>. QED  BY <1>1, <1>3, <1>7, <2>2, <3>1, <3>2
  <2>3. CASE Fails(p) /\ bpffs' = bpffs
    <3>1. failed'[p] = failed[p] \cup {ncalls[p]}
      BY <1>2, <2>3 DEF Fails
    <3>2. by'[path] = by[path]
      BY <1>2, <2>3, ByChange
    <3>3. by[path] # <<p, ncalls[p]>>
      BY <1>2, <2>3, NothingOwed DEF UndoneInv
    <3>. QED  BY <1>1, <1>3, <1>7, <3>1, <3>2, <3>3
  <2>. QED  BY <1>7, <2>1, <2>2, <2>3, PinStepCall
<1>. QED  BY <1>4, <1>5, <1>6, <1>7 DEF Moves

LEMMA UndoneInit == Init => UndoneInv
<1>. SUFFICES ASSUME Init PROVE UndoneInv
  OBVIOUS
<1>1. ASSUME NEW p \in Procs
      PROVE  /\ call[p].phase = "none" /\ call[p].all = FALSE /\ failed[p] = {} /\ ncalls[p] = 0 /\ pc[p] = "open"
  BY DEF Init, LoadInit, NoCall
<1>2. ASSUME NEW p \in Procs PROVE TraceOk(p) /\ CountOk(p) /\ AllOk(p) /\ NoneOk(p)
  BY <1>1 DEF TraceOk, CountOk, AllOk, NoneOk, RollsBack
<1>. QED  BY <1>1, <1>2 DEF UndoneInv, FailedPinUndone

LEMMA UndoneStep ==
    ASSUME Types, Types', LoadInv, PinInv, PinInv', UndoneInv, NEW p \in Procs, Moves(p)
    PROVE  UndoneInv'
<1>1. obj' = obj /\ OthersKeep(p) /\ Witness(p)
  BY MoveEffect
<1>2. TraceOk(p) /\ CountOk(p) /\ AllOk(p) /\ NoneOk(p) /\ ByOk /\ ByOk' /\ PathKnown(p)
  BY DEF UndoneInv, PinInv
<1>3. FailedPinUndone' /\ NoneOk(p)'
  BY <1>1, <1>2, FailedStep, NoneStep
<1>4. ASSUME NEW q \in Procs, q # p PROVE (TraceOk(q) /\ CountOk(q) /\ AllOk(q) /\ NoneOk(q))'
  <2>1. /\ pc'[q] = pc[q] /\ maps'[q] = maps[q] /\ held'[q] = held[q] /\ pinPath'[q] = pinPath[q]
        /\ call'[q] = call[q] /\ ncalls'[q] = ncalls[q] /\ failed'[q] = failed[q]
    BY <1>1, <1>4 DEF OthersKeep
  <2>2. \A path \in Paths : \A n : by'[path] = <<q, n>> => by[path] = <<q, n>>
    BY <1>1, <1>4, ByChange, Owners
  <2>3. TraceOk(q) /\ CountOk(q) /\ AllOk(q) /\ NoneOk(q)
    BY DEF UndoneInv
  <2>4. \A path : AtMap(q, path)' = AtMap(q, path) /\ AtProg(q, path)' = AtProg(q, path)
    BY <1>1, <2>1 DEF AtMap, AtProg, NMaps, NProgs, File, SubProg, HasInstance
  <2>5. TraceOk(q)'
    BY <2>1, <2>2, <2>3, <2>4 DEF TraceOk
  <2>6. CountOk(q)' /\ AllOk(q)'
    BY <1>1, <2>1, <2>3 DEF CountOk, AllOk, K, NMaps, Def
  <2>7. NoneOk(q)'
    BY <2>1, <2>2, <2>3 DEF NoneOk
  <2>. QED  BY <2>5, <2>6, <2>7
<1>5. CASE PinStep(p) \/ Calls(p)
  BY <1>1, <1>2, <1>3, <1>4, <1>5, TraceStep, CountStep, AllStep DEF UndoneInv
<1>6. CASE UNCHANGED pinvars /\ (LoadStep(p) \/ (call[p] = NoCall /\ Close(p)))
  <2>1. call[p] = NoCall
    BY <1>6, LoadStepAt DEF LoadInv, ProcOk, CallOk, Loading
  <2>2. call'[p].phase = "none" /\ call'[p].all = FALSE
    BY <1>6, <2>1 DEF NoCall, pinvars
  <2>3. TraceOk(p)' /\ AllOk(p)'
    BY <2>2 DEF TraceOk, RollsBack, AllOk
  <2>4. CountOk(p)'
    BY <1>2, <1>6 DEF CountOk, K, pinvars
  <2>. QED  BY <1>3, <1>4, <2>3, <2>4 DEF UndoneInv
<1>. QED  BY <1>5, <1>6 DEF Moves

(***************************************************************************)
(* A call of bpf_object__pin(), pin_maps() or pin_programs() that returns  *)
(* an error leaves nothing pinned that it had pinned, wherever it failed   *)
(* and whatever the other processes did meanwhile short of unlinking pins  *)
(* that are not theirs.                                                    *)
(***************************************************************************)
THEOREM FailedPinsUndone == Spec => []FailedPinUndone
<1>1. Types /\ LoadInv /\ PinInv /\ UndoneInv /\ Types' /\ PinInv' /\ [Next]_vars => UndoneInv'
  <2>. SUFFICES ASSUME Types, LoadInv, PinInv, UndoneInv, Types', PinInv', [Next]_vars PROVE UndoneInv'
    OBVIOUS
  <2>1. CASE UNCHANGED vars
    <3>1. /\ obj' = obj /\ pc' = pc /\ maps' = maps /\ held' = held /\ bpffs' = bpffs /\ by' = by /\ stolen' = stolen
          /\ pinPath' = pinPath /\ call' = call /\ ncalls' = ncalls /\ failed' = failed
      BY <2>1 DEF vars, loadvars, pvars, pinvars
    <3>2. ASSUME NEW p \in Procs PROVE (TraceOk(p) /\ CountOk(p) /\ AllOk(p) /\ NoneOk(p))'
      <4>1. TraceOk(p) /\ CountOk(p) /\ AllOk(p) /\ NoneOk(p)
        BY DEF UndoneInv
      <4>2. \A path : AtMap(p, path)' = AtMap(p, path) /\ AtProg(p, path)' = AtProg(p, path)
        BY <3>1 DEF AtMap, AtProg, NMaps, NProgs, File, SubProg, HasInstance
      <4>3. TraceOk(p)'
        BY <3>1, <4>1, <4>2 DEF TraceOk
      <4>. QED  BY <3>1, <4>1, <4>3 DEF CountOk, AllOk, NoneOk, K, NMaps, Def
    <3>3. FailedPinUndone'
      BY <3>1 DEF UndoneInv, FailedPinUndone
    <3>. QED  BY <3>2, <3>3 DEF UndoneInv
  <2>2. ASSUME NEW p \in Procs, Moves(p) PROVE UndoneInv'
    BY <2>2, UndoneStep
  <2>. QED  BY <2>1, <2>2, StepsAreMoves
<1>2. UndoneInv => FailedPinUndone
  BY DEF UndoneInv
<1>. QED  BY <1>1, <1>2, UndoneInit, PinInvariant, PTL DEF Spec

-----------------------------------------------------------------------------
(***************************************************************************)
(* Loads are atomic.  The refinement is about objects in which a map whose *)
(* descriptor the application has preset has no pin path (such a map would *)
(* stay pinned when the load fails), and no two maps have the same one.    *)
(* While a load is under way, what it has pinned belongs to a map that is  *)
(* marked pinned and not reused, and that the walk of the error path has   *)
(* not passed.                                                             *)
(***************************************************************************)
PathsApart ==
    \A o \in UNION {{setup[p] : p \in Procs} : setup \in Setups} :
      \A m \in DOMAIN o.maps :
        /\ o.maps[m].preset => o.maps[m].pin = "none"
        /\ \A n \in DOMAIN o.maps : o.maps[n].pin = o.maps[m].pin => n = m \/ o.maps[m].pin = "none"

Ours(p, m, path) ==
    /\ Def(p, m).pin = path /\ maps[p][m].pinned /\ ~maps[p][m].reused
    /\ pc[p] = "unpin" => m >= i[p]
PlainOk(p) ==
    pc[p] \in Loading =>
      \A m \in 1 .. NMaps(p) : maps[p][m].reused => maps[p][m].pinned \/ Def(p, m).preset
OwnOk(p) ==
    pc[p] \in Loading =>
      \A path \in Paths : by[path][1] = p => \E m \in 1 .. NMaps(p) : Ours(p, m, path)
AtomicInv == \A p \in Procs : PlainOk(p) /\ OwnOk(p)

LEMMA Apart ==
    ASSUME LoadTypes, PathsApart, NEW p \in Procs, NEW m \in 1 .. NMaps(p)
    PROVE  /\ Def(p, m).preset => Def(p, m).pin = "none"
           /\ \A n \in 1 .. NMaps(p) : Def(p, n).pin = Def(p, m).pin /\ Def(p, m).pin \in Paths => n = m
<1>1. obj[p] \in UNION {{setup[q] : q \in Procs} : setup \in Setups}
  BY DEF LoadTypes
<1>2. DOMAIN obj[p].maps = 1 .. NMaps(p)
  BY ObjectTypes DEF LoadTypes, NMaps
<1>. QED  BY <1>1, <1>2, NamesAssumption DEF PathsApart, Def

(***************************************************************************)
(* The steps of a load, by what they do to the flags of the object's maps  *)
(* and to the file system.                                                 *)
(***************************************************************************)
SameFlags(p, m) ==
    maps'[p][m].pinned = maps[p][m].pinned /\ maps'[p][m].reused = maps[p][m].reused
OtherFlags(p) == \A m \in 1 .. NMaps(p) : m # i[p] => SameFlags(p, m)

GoesOn(p) ==
    /\ bpffs' = bpffs /\ pc[p] \in Loading /\ pc'[p] \in Loading
    /\ \A m \in 1 .. NMaps(p) : SameFlags(p, m)
    /\ pc'[p] = "unpin" => i'[p] = 1
Reuses(p) ==
    /\ bpffs' = bpffs /\ pc[p] = "maps" /\ pc'[p] = "create"
    /\ i[p] \in 1 .. NMaps(p) /\ ~maps[p][i[p]].pinned
    /\ maps'[p][i[p]].pinned /\ maps'[p][i[p]].reused /\ OtherFlags(p)
PutsOwn(p) ==
    /\ pc[p] = "pin" /\ pc'[p] = "maps" /\ i[p] \in 1 .. NMaps(p)
    /\ Links(p, Def(p, i[p]).pin, maps[p][i[p]].fd)
    /\ ~maps[p][i[p]].pinned /\ ~maps[p][i[p]].reused
    /\ maps'[p][i[p]].pinned /\ ~maps'[p][i[p]].reused /\ OtherFlags(p)
TakesBack(p) ==
    /\ pc[p] = "unpin" /\ pc'[p] = "unpin" /\ i[p] \in 1 .. NMaps(p) /\ i'[p] = i[p] + 1
    /\ Unlinks(p, Def(p, i[p]).pin)
    /\ maps[p][i[p]].pinned /\ ~maps[p][i[p]].reused
    /\ ~maps'[p][i[p]].pinned /\ ~maps'[p][i[p]].reused /\ OtherFlags(p)
LeavesBe(p) ==
    /\ pc[p] = "unpin" /\ pc'[p] = "unpin" /\ i[p] \in 1 .. NMaps(p) /\ i'[p] = i[p] + 1
    /\ bpffs' = bpffs /\ \A m \in 1 .. NMaps(p) : SameFlags(p, m)
    /\ maps[p][i[p]].pinned /\ ~maps[p][i[p]].reused => bpffs[Def(p, i[p]).pin] = NoMap
LoadEnds(p) ==
    /\ bpffs' = bpffs
    /\ \/ pc[p] = "progs" /\ pc'[p] = "loaded"
       \/ pc[p] = "unpin" /\ i[p] > NMaps(p) /\ pc'[p] = "failed"

LEMMA LoadKinds ==
    ASSUME Types, Types', LoadInv, PathsApart, NEW p \in Procs, PlainOk(p), PathKnown(p), LoadStep(p)
    PROVE  GoesOn(p) \/ Reuses(p) \/ PutsOwn(p) \/ TakesBack(p) \/ LeavesBe(p) \/ LoadEnds(p)
<1>. USE DEF Goto, SetI, Out, pvars
<1>1. LoadTypes /\ NMaps(p) \in Nat /\ ProcOk(p) /\ pc[p] \in Loading /\ NMaps(p) = Len(obj[p].maps)
  BY CallType, LoadStepAt DEF Types, LoadInv, NMaps
<1>2. obj' = obj /\ DOMAIN pc = Procs /\ DOMAIN i = Procs /\ i[p] \in Nat
  BY <1>1, LoadStepTypes DEF LoadTypes
<1>3. \A m \in 1 .. NMaps(p) : pinPath[p][m] = Def(p, m).pin
  BY <1>1 DEF ProcOk, CallOk
<1>4. \A m \in 1 .. NMaps(p) : /\ maps[p][m] \in MapRec /\ maps[p][m].pinned \in BOOLEAN
                               /\ maps[p][m].fd \in AllIds /\ maps[p][m].reused \in BOOLEAN
  BY <1>1, MapOfLoad
<1>5. ASSUME maps' = maps, bpffs' = bpffs, pc'[p] \in Loading, pc'[p] = "unpin" => i'[p] = 1
      PROVE  GoesOn(p)
  BY <1>1, <1>5 DEF GoesOn, SameFlags
<1>6. ASSUME NEW own \in MapRec, CreateErrOut(p, own), bpffs' = bpffs, i[p] \in 1 .. NMaps(p),
             own.pinned = maps[p][i[p]].pinned, own.reused = maps[p][i[p]].reused
      PROVE  GoesOn(p)
  <2>1. \A m \in 1 .. NMaps(p) : maps'[p][m] = IF m < i[p] THEN [maps[p][m] EXCEPT !.fd = NoMap]
                                              ELSE IF m = i[p] THEN own ELSE maps[p][m]
    BY <1>1, <1>2, <1>6, ErrOutEffect
  <2>2. \A r \in MapRec : [r EXCEPT !.fd = NoMap].pinned = r.pinned /\ [r EXCEPT !.fd = NoMap].reused = r.reused
    BY DEF MapRec
  <2>3. \A m \in 1 .. NMaps(p) : SameFlags(p, m)
    BY <1>4, <1>6, <2>1, <2>2 DEF SameFlags
  <2>. QED  BY <1>1, <1>2, <1>6, <2>3 DEF GoesOn, CreateErrOut, Loading
<1>7. CASE Prepare(p)
  BY <1>2, <1>5, <1>7 DEF Prepare, Loading
<1>8. CASE PrepareFails(p)
  BY <1>2, <1>5, <1>8 DEF PrepareFails, Loading
<1>9. CASE NothingToReuse(p)
  BY <1>2, <1>5, <1>9 DEF NothingToReuse, Loading
<1>10. CASE SkipCreation(p)
  BY <1>2, <1>5, <1>10 DEF SkipCreation, Loading
<1>11. CASE NoPin(p)
  BY <1>2, <1>5, <1>11 DEF NoPin, Loading
<1>12. CASE Relocate(p)
  BY <1>2, <1>5, <1>12 DEF Relocate, Loading
<1>13. CASE SkipProg(p)
  BY <1>2, <1>5, <1>13 DEF SkipProg, InProgs, Loading
<1>14. CASE LoadProg(p)
  BY <1>2, <1>5, <1>14 DEF LoadProg, InProgs, Loading
<1>15. CASE RetryLoad(p)
  BY <1>2, <1>5, <1>15 DEF RetryLoad, InProgs, Loading
<1>16. CASE LoadProgFails(p)
  BY <1>2, <1>5, <1>16 DEF LoadProgFails, Loading
<1>17. CASE Loaded(p)
  BY <1>2, <1>17 DEF Loaded, LoadEnds
<1>18. CASE Fill(p)
  BY <1>2, <1>5, <1>18 DEF Fill, Loading
<1>19. CASE Failed(p)
  BY <1>1, <1>2, <1>19 DEF Failed, LoadEnds
<1>20. ASSUME NEW l, InMaps(p, l)
       PROVE  /\ i[p] \in 1 .. NMaps(p) /\ pc[p] = l /\ Map(p) = maps[p][i[p]] /\ Cur(p) = Def(p, i[p])
              /\ Map(p) \in MapRec /\ Closed(Map(p)) \in MapRec /\ Cur(p).pin \in Paths \cup {"none"}
              /\ Closed(Map(p)).pinned = Map(p).pinned /\ Closed(Map(p)).reused = Map(p).reused
  <2>1. /\ i[p] \in 1 .. NMaps(p) /\ pc[p] = l /\ Map(p) \in MapRec /\ Cur(p).pin \in Paths \cup {"none"}
    BY <1>1, <1>20, InMapsIndex
  <2>2. \A r \in MapRec : /\ Closed(r) \in MapRec
                          /\ Closed(r).pinned = r.pinned /\ Closed(r).reused = r.reused
    BY IdTypes DEF MapRec, Closed
  <2>. QED  BY <2>1, <2>2 DEF Map, Cur
<1>21. CASE ReuseFails(p)
  BY <1>6, <1>20, <1>21 DEF ReuseFails
<1>22. CASE CreateFails(p)
  BY <1>6, <1>20, <1>22 DEF CreateFails
<1>23. CASE FillFails(p)
  BY <1>6, <1>20, <1>23 DEF FillFails
<1>24. CASE AutoPinFails(p)
  BY <1>6, <1>20, <1>24 DEF AutoPinFails
<1>25. CASE ReuseMap(p)
  <2>1. pc[p] = "maps" /\ i[p] \in 1 .. NMaps(p) /\ bpffs' = bpffs
        /\ Cur(p).pin \in Paths /\ bpffs[Cur(p).pin] \in AllIds /\ pc'[p] = "create"
    BY <1>1, <1>2, <1>25, <1>20 DEF ReuseMap, LoadTypes
  <2>. DEFINE r == [fd |-> bpffs[Cur(p).pin], pinned |-> TRUE, reused |-> TRUE]
  <2>2. r \in MapRec /\ r.pinned /\ r.reused /\ SetMap(p, i[p], r)
    BY <2>1, <1>25 DEF MapRec, ReuseMap
  <2>. HIDE DEF r
  <2>3. maps'[p][i[p]] = r /\ \A m \in 1 .. NMaps(p) : m # i[p] => maps'[p][m] = maps[p][m]
    BY <1>1, <1>2, <2>1, <2>2, SetMapEffect
  <2>4. ~maps[p][i[p]].pinned
    <3>1. maps[p][i[p]] = Untouched(p, i[p])
      BY <1>1, <1>2, <2>1 DEF ProcOk, MapsOk, Fresh
    <3>. QED  BY <3>1 DEF Untouched
  <2>. QED  BY <2>1, <2>2, <2>3, <2>4 DEF Reuses, OtherFlags, SameFlags
<1>26. CASE CreateMap(p)
  <2>1. i[p] \in 1 .. NMaps(p) /\ Map(p) = maps[p][i[p]] /\ bpffs' = bpffs /\ pc'[p] = "fill" /\ i[p] \in Nat
    BY <1>2, <1>26, <1>20 DEF CreateMap
  <2>2. PICK r \in MapRec : /\ r.pinned = Map(p).pinned /\ r.reused = Map(p).reused
                            /\ SetMap(p, i[p], r)
    <3>. DEFINE r == [Map(p) EXCEPT !.fd = Id(p, i[p])]
    <3>1. r \in MapRec /\ r.pinned = Map(p).pinned /\ r.reused = Map(p).reused
      <4>1. Id(p, i[p]) \in AllIds /\ Map(p) \in MapRec
        BY <1>4, <2>1, IdTypes
      <4>. QED  BY <4>1 DEF MapRec
    <3>2. SetMap(p, i[p], r)
      BY <1>26 DEF CreateMap
    <3>. HIDE DEF r
    <3>. QED  BY <3>1, <3>2
  <2>3. maps'[p][i[p]] = r /\ \A m \in 1 .. NMaps(p) : m # i[p] => maps'[p][m] = maps[p][m]
    BY <1>1, <1>2, <2>1, <2>2, SetMapEffect
  <2>4. \A m \in 1 .. NMaps(p) : SameFlags(p, m)
    BY <2>1, <2>2, <2>3 DEF SameFlags
  <2>. QED  BY <1>1, <2>1, <2>4 DEF GoesOn, Loading
<1>27. CASE AutoPin(p)
  <2>1. /\ pc[p] = "pin" /\ i[p] \in 1 .. NMaps(p) /\ Map(p) = maps[p][i[p]] /\ Cur(p) = Def(p, i[p])
        /\ Cur(p).pin \in Paths /\ ~Map(p).pinned /\ pc'[p] = "maps"
    BY <1>2, <1>27, <1>20 DEF AutoPin, ToPin
  <2>2. PICK r \in MapRec : /\ r.pinned = TRUE /\ r.reused = Map(p).reused
                            /\ SetMap(p, i[p], r)
    <3>. DEFINE r == [Map(p) EXCEPT !.pinned = TRUE]
    <3>1. r \in MapRec /\ r.pinned = TRUE /\ r.reused = Map(p).reused
      BY <1>4, <2>1 DEF MapRec
    <3>2. SetMap(p, i[p], r)
      BY <1>27 DEF AutoPin
    <3>. HIDE DEF r
    <3>. QED  BY <3>1, <3>2
  <2>3. maps'[p][i[p]] = r /\ \A m \in 1 .. NMaps(p) : m # i[p] => maps'[p][m] = maps[p][m]
    BY <1>1, <1>2, <2>1, <2>2, SetMapEffect
  <2>4. Links(p, Cur(p).pin, maps[p][i[p]].fd)
    <3>1. maps[p][i[p]].fd # NoMap
      BY <1>1, <2>1 DEF ProcOk, MapsOk, Settled
    <3>. QED  BY <2>1, <3>1, <1>27 DEF AutoPin, Links, Link
  <2>5. ~Map(p).reused
    <3>1. ~Def(p, i[p]).preset
      BY <1>1, <2>1, Apart, NamesAssumption
    <3>. QED  BY <1>1, <2>1, <3>1 DEF PlainOk
  <2>. QED  BY <2>1, <2>2, <2>3, <2>4, <2>5 DEF PutsOwn, OtherFlags, SameFlags
<1>28. CASE Unpin(p)
  <2>1. /\ i[p] \in 1 .. NMaps(p) /\ i[p] \in Nat /\ pc[p] = "unpin" /\ Map(p) = maps[p][i[p]]
        /\ Cur(p) = Def(p, i[p]) /\ pc' = pc /\ i'[p] = i[p] + 1
    BY <1>1, <1>2, <1>28, UnpinEffect DEF Unpin
  <2>2. PICK r \in MapRec :
                /\ r.reused = Map(p).reused /\ SetMap(p, i[p], r)
                /\ \/ /\ Map(p).pinned /\ ~Map(p).reused /\ bpffs[Cur(p).pin] # NoMap /\ r.pinned = FALSE
                      /\ bpffs' = [bpffs EXCEPT ![Cur(p).pin] = NoMap]
                   \/ /\ ~Map(p).pinned \/ Map(p).reused \/ bpffs[Cur(p).pin] = NoMap
                      /\ r = Map(p) /\ bpffs' = bpffs
    BY <1>1, <1>28, UnpinEffect
  <2>3. maps'[p][i[p]] = r /\ \A m \in 1 .. NMaps(p) : m # i[p] => maps'[p][m] = maps[p][m]
    BY <1>1, <1>2, <2>1, <2>2, SetMapEffect
  <2>4. CASE /\ ~Map(p).pinned \/ Map(p).reused \/ bpffs[Cur(p).pin] = NoMap
             /\ r = Map(p) /\ bpffs' = bpffs
    BY <2>1, <2>3, <2>4 DEF LeavesBe, SameFlags
  <2>5. CASE /\ Map(p).pinned /\ ~Map(p).reused /\ bpffs[Cur(p).pin] # NoMap /\ r.pinned = FALSE
             /\ bpffs' = [bpffs EXCEPT ![Cur(p).pin] = NoMap]
    <3>1. Cur(p).pin \in Paths
      BY <1>3, <2>1, <2>5 DEF PathKnown
    <3>2. Unlinks(p, Cur(p).pin)
      BY <2>5, <3>1 DEF Unlinks, Unlink
    <3>. QED  BY <2>1, <2>2, <2>3, <2>5, <3>2 DEF TakesBack, OtherFlags, SameFlags
  <2>. QED  BY <2>2, <2>4, <2>5
<1>. QED  BY <1>7, <1>8, <1>9, <1>10, <1>11, <1>12, <1>13, <1>14, <1>15, <1>16, <1>17, <1>18, <1>19, <1>21, <1>22, <1>23, <1>24, <1>25, <1>26, <1>27, <1>28 DEF LoadStep

\* The owner of a path, and how a step of process p changes it.
LEMMA FreePaths ==
    ASSUME ByOk, NEW path \in Paths
    PROVE  /\ Nobody[1] = "nobody" /\ \A q, n : <<q, n>>[1] = q
           /\ by[path][1] \in Procs \cup {"nobody"}
           /\ bpffs[path] = NoMap <=> by[path][1] = "nobody"
<1>1. Nobody[1] = "nobody" /\ \A q, n : <<q, n>>[1] = q
  BY DEF Nobody
<1>. QED  BY <1>1, NamesAssumption DEF ByOk

LEMMA AtomicOthers ==
    ASSUME Types, LoadInv, ByOk, AtomicInv, NEW p \in Procs, Moves(p), NEW q \in Procs, q # p
    PROVE  PlainOk(q)' /\ OwnOk(q)'
<1>1. /\ obj' = obj /\ Witness(p) /\ pc'[q] = pc[q] /\ i'[q] = i[q] /\ maps'[q] = maps[q]
  BY MoveEffect DEF OthersKeep
<1>2. \A m : Def(q, m)' = Def(q, m)
  BY <1>1 DEF Def
<1>3. NMaps(q)' = NMaps(q)
  BY <1>1 DEF NMaps
<1>4. PlainOk(q)'
  BY <1>1, <1>2, <1>3 DEF AtomicInv, PlainOk
<1>5. ASSUME NEW path \in Paths, by'[path][1] = q PROVE by[path][1] = q
  BY <1>1, <1>5, ByChange, FreePaths, NamesAssumption
<1>6. \A m, path : Ours(q, m, path)' <=> Ours(q, m, path)
  BY <1>1, <1>2 DEF Ours
<1>7. OwnOk(q)'
  BY <1>1, <1>3, <1>5, <1>6 DEF AtomicInv, OwnOk
<1>. QED  BY <1>4, <1>7

LEMMA AtomicOwn ==
    ASSUME Types, Types', LoadInv, PinInv, AtomicInv, PathsApart, NEW p \in Procs, Moves(p)
    PROVE  PlainOk(p)' /\ OwnOk(p)'
<1>1. /\ obj' = obj /\ Witness(p) /\ stolen \in BOOLEAN /\ PathKnown(p) /\ PlainOk(p) /\ OwnOk(p) /\ ByOk
      /\ NMaps(p) \in Nat /\ LoadTypes
  BY MoveEffect, CallType DEF PinInv, ByOk, AtomicInv, Types
<1>2. \A m : Def(p, m)' = Def(p, m)
  BY <1>1 DEF Def
<1>3. NMaps(p)' = NMaps(p)
  BY <1>1 DEF NMaps
<1>4. ASSUME pc'[p] \notin Loading PROVE PlainOk(p)' /\ OwnOk(p)'
  BY <1>4 DEF PlainOk, OwnOk
<1>5. ASSUME pc[p] \in Loading,
             \A m \in 1 .. NMaps(p) : maps'[p][m].reused => maps'[p][m].pinned \/ Def(p, m).preset,
             \A path \in Paths : by'[path][1] = p => \E m \in 1 .. NMaps(p) : Ours(p, m, path)'
      PROVE  PlainOk(p)' /\ OwnOk(p)'
  BY <1>2, <1>3, <1>5 DEF PlainOk, OwnOk
<1>6. ASSUME bpffs' = bpffs PROVE \A path \in Paths : by'[path] = by[path]
  BY <1>1, <1>6, WitnessEffect DEF HistorySame
<1>7. \A m \in 1 .. NMaps(p) : m \in Nat /\ m >= 1
  BY <1>1
<1>8. CASE PinStep(p) \/ Calls(p)
  BY <1>4, <1>8, PinStepEffect, PinStepAt
<1>9. CASE Close(p)
  BY <1>4, <1>9 DEF Close, Goto, Types, LoadTypes, Loading
<1>10. CASE GoesOn(p)
  <2>1. \A m \in 1 .. NMaps(p) : \A path : Ours(p, m, path) => Ours(p, m, path)'
    BY <1>2, <1>7, <1>10 DEF Ours, GoesOn, SameFlags
  <2>. QED  BY <1>1, <1>5, <1>6, <1>10, <2>1 DEF GoesOn, SameFlags, PlainOk, OwnOk
<1>11. CASE Reuses(p)
  <2>1. \A m \in 1 .. NMaps(p) : \A path : Ours(p, m, path) => Ours(p, m, path)'
    BY <1>2, <1>11 DEF Ours, Reuses, OtherFlags, SameFlags
  <2>2. pc[p] \in Loading
    BY <1>11 DEF Reuses, Loading
  <2>. QED  BY <1>1, <1>5, <1>6, <1>11, <2>1, <2>2 DEF Reuses, OtherFlags, SameFlags, PlainOk, OwnOk
<1>12. CASE PutsOwn(p)
  <2>1. PICK own \in Paths : own = Def(p, i[p]).pin
    BY <1>12 DEF PutsOwn, Links
  <2>2. PICK k \in 1 .. NMaps(p) : k = i[p]
    BY <1>12 DEF PutsOwn
  <2>3. pc[p] \in Loading /\ Links(p, own, maps[p][i[p]].fd)
    BY <1>12, <2>1 DEF PutsOwn, Loading
  <2>4. \A path \in Paths : path # own => by'[path] = by[path]
    BY <1>1, <2>3, WitnessEffect DEF HistoryLinks
  <2>5. \A m \in 1 .. NMaps(p) : \A path : Ours(p, m, path) => Ours(p, m, path)'
    BY <1>2, <1>12 DEF Ours, PutsOwn, OtherFlags, SameFlags
  <2>6. Ours(p, k, own)'
    BY <1>2, <1>12, <2>1, <2>2 DEF PutsOwn, Ours
  <2>7. \A path \in Paths : by'[path][1] = p => \E m \in 1 .. NMaps(p) : Ours(p, m, path)'
    BY <1>1, <2>3, <2>4, <2>5, <2>6 DEF OwnOk
  <2>. QED  BY <1>1, <1>5, <1>12, <2>3, <2>7 DEF PutsOwn, OtherFlags, SameFlags, PlainOk
<1>13. CASE TakesBack(p)
  <2>1. pc[p] \in Loading /\ i[p] \in 1 .. NMaps(p) /\ i'[p] = i[p] + 1
        /\ Def(p, i[p]).pin \in Paths /\ Unlinks(p, Def(p, i[p]).pin)
    BY <1>13 DEF TakesBack, Loading, Unlinks
  <2>2. /\ by'[Def(p, i[p]).pin] = Nobody
        /\ \A path \in Paths : path # Def(p, i[p]).pin => by'[path] = by[path]
    BY <1>1, <2>1, WitnessEffect DEF HistoryUnlinks
  <2>3. ASSUME NEW path \in Paths, by'[path][1] = p PROVE \E m \in 1 .. NMaps(p) : Ours(p, m, path)'
    <3>1. path # Def(p, i[p]).pin /\ by[path][1] = p
      BY <1>1, <2>1, <2>2, <2>3, FreePaths, NamesAssumption
    <3>2. PICK m \in 1 .. NMaps(p) : Ours(p, m, path)
      BY <1>1, <2>1, <3>1 DEF OwnOk
    <3>3. m # i[p] /\ m >= i[p] /\ SameFlags(p, m)
      BY <1>13, <3>1, <3>2 DEF Ours, TakesBack, OtherFlags
    <3>4. m >= i'[p]
      BY <1>1, <2>1, <3>3
    <3>. QED  BY <1>2, <3>2, <3>3, <3>4 DEF Ours, SameFlags
  <2>. QED  BY <1>1, <1>5, <1>13, <2>1, <2>3 DEF TakesBack, OtherFlags, SameFlags, PlainOk
<1>14. CASE LeavesBe(p)
  <2>1. pc[p] \in Loading /\ i[p] \in 1 .. NMaps(p) /\ i'[p] = i[p] + 1 /\ bpffs' = bpffs
    BY <1>14 DEF LeavesBe, Loading
  <2>2. ASSUME NEW path \in Paths, by'[path][1] = p PROVE \E m \in 1 .. NMaps(p) : Ours(p, m, path)'
    <3>1. by[path][1] = p
      BY <1>6, <2>1, <2>2
    <3>2. bpffs[path] # NoMap
      BY <1>1, <3>1, FreePaths, NamesAssumption
    <3>3. PICK m \in 1 .. NMaps(p) : Ours(p, m, path)
      BY <1>1, <2>1, <3>1 DEF OwnOk
    <3>4. m # i[p] /\ m >= i[p] /\ SameFlags(p, m)
      BY <1>14, <3>2, <3>3 DEF Ours, LeavesBe
    <3>5. m >= i'[p]
      BY <1>1, <2>1, <3>4
    <3>. QED  BY <1>2, <3>3, <3>4, <3>5 DEF Ours, SameFlags
  <2>. QED  BY <1>1, <1>5, <1>14, <2>1, <2>2 DEF LeavesBe, SameFlags, PlainOk
<1>15. CASE LoadEnds(p)
  BY <1>4, <1>15 DEF LoadEnds, Loading
<1>. QED  BY <1>1, <1>8, <1>9, <1>10, <1>11, <1>12, <1>13, <1>14, <1>15, LoadKinds, MoveEffect

LEMMA AtomicInvInit == Init => AtomicInv
<1>. SUFFICES ASSUME Init, NEW p \in Procs PROVE PlainOk(p) /\ OwnOk(p)
  BY DEF AtomicInv
<1>1. /\ Types /\ LoadInv /\ PinInv
  BY TypesInit, LoadInvInit, PinInvInit
<1>2. pc[p] = "open" /\ \A path \in Paths : by[path] = Nobody
  BY DEF Init, LoadInit
<1>3. \A m \in 1 .. NMaps(p) : maps[p][m] = Untouched(p, m)
  <2>1. MapsOk(p)
    BY <1>1 DEF LoadInv, ProcOk
  <2>2. \A m \in 1 .. NMaps(p) : Fresh(p, m)
    BY <1>2 DEF Fresh
  <2>. QED  BY <2>1, <2>2 DEF MapsOk
<1>4. PlainOk(p)
  <2>1. \A m : Untouched(p, m).reused = Def(p, m).preset
    BY DEF Untouched
  <2>. QED  BY <1>3, <2>1 DEF PlainOk
<1>5. OwnOk(p)
  BY <1>1, <1>2, FreePaths, NamesAssumption DEF OwnOk, PinInv
<1>. QED  BY <1>4, <1>5

-----------------------------------------------------------------------------
(***************************************************************************)
(* The refinement mapping, piece by piece, and what the actions of the     *)
(* abstract specification say under it.                                    *)
(***************************************************************************)
StatusOf(l) ==
    CASE l \in {"loaded", "closed_loaded"} -> "loaded"
      [] l \in {"failed", "closed_failed"} -> "failed"
      [] OTHER -> "opened"
MineFrom(ms, l, mp) ==
    IF l \in Ended THEN {}
    ELSE {ms[m].pin : m \in {n \in DOMAIN mp : mp[n].pinned /\ ~mp[n].reused}}
Status == [p \in Procs |-> StatusOf(pc[p])]
Mine == [p \in Procs |-> MineFrom(obj[p].maps, pc[p], maps[p])]
Owner == [path \in Paths |-> by[path][1]]

LEMMA MapsToPut ==
    ASSUME NEW p \in Procs, NEW path \in Paths, Owner[path] = "nobody", Status[p] # "failed",
           Owner' = [Owner EXCEPT ![path] = p],
           Mine' = IF Status[p] = "opened" THEN [Mine EXCEPT ![p] = @ \cup {path}] ELSE Mine,
           Status' = Status
    PROVE  Atomic!AtomicNext
<1>1. Atomic!Put(p, path)
  BY DEF Atomic!Put, Status, Mine, Owner, StatusOf, MineFrom, Def
<1>. QED  BY <1>1 DEF Atomic!AtomicNext

LEMMA MapsToTakeBack ==
    ASSUME NEW p \in Procs, NEW path \in Paths, Status[p] = "opened", path \in Mine[p],
           Owner' = [Owner EXCEPT ![path] = "nobody"], Mine' = [Mine EXCEPT ![p] = @ \ {path}],
           Status' = Status
    PROVE  Atomic!AtomicNext
<1>1. Atomic!TakeBack(p, path)
  BY DEF Atomic!TakeBack, Status, Mine, Owner, StatusOf, MineFrom, Def
<1>. QED  BY <1>1 DEF Atomic!AtomicNext

LEMMA MapsToRemove ==
    ASSUME NEW p \in Procs, NEW path \in Paths, Status[p] # "opened", Owner[path] # "nobody",
           Owner' = [Owner EXCEPT ![path] = "nobody"], Mine' = Mine, Status' = Status
    PROVE  Atomic!AtomicNext
<1>1. Atomic!Remove(p, path)
  BY DEF Atomic!Remove, Status, Mine, Owner, StatusOf, MineFrom, Def
<1>. QED  BY <1>1 DEF Atomic!AtomicNext

LEMMA MapsToEnd ==
    ASSUME NEW p \in Procs, NEW s \in {"loaded", "failed"}, Status[p] = "opened",
           Status' = [Status EXCEPT ![p] = s], Mine' = [Mine EXCEPT ![p] = {}], Owner' = Owner,
           s = "failed" => \A path \in Paths : Owner[path] # p
    PROVE  Atomic!AtomicNext
<1>1. Atomic!End(p, s)
  BY DEF Atomic!End, Status, Mine, Owner, StatusOf, MineFrom, Def
<1>2. CASE s = "loaded"
  BY <1>1, <1>2 DEF Atomic!AtomicNext, Atomic!Complete
<1>3. CASE s = "failed"
  <2>1. \A path \in Paths : by[path][1] # p
    BY <1>3 DEF Owner
  <2>2. Atomic!Abandon(p)
    BY <1>1, <1>3, <2>1 DEF Atomic!Abandon
  <2>. QED  BY <2>2 DEF Atomic!AtomicNext
<1>. QED  BY <1>2, <1>3

LEMMA MapsToStutter ==
    ASSUME Status' = Status, Mine' = Mine, Owner' = Owner
    PROVE  UNCHANGED Atomic!avars
BY DEF Atomic!avars, Status, Mine, Owner, StatusOf, MineFrom, Def

\* Of a step of process p only the part of p matters.
LEMMA MappedStep ==
    ASSUME Types, Types', NEW p \in Procs, OthersKeep(p), obj' = obj
    PROVE  /\ Status' = [Status EXCEPT ![p] = StatusOf(pc'[p])]
           /\ Mine' = [Mine EXCEPT ![p] = MineFrom(obj[p].maps, pc'[p], maps'[p])]
           /\ Status[p] = StatusOf(pc[p]) /\ Mine[p] = MineFrom(obj[p].maps, pc[p], maps[p])
           /\ [Status EXCEPT ![p] = Status[p]] = Status /\ [Mine EXCEPT ![p] = Mine[p]] = Mine
<1>1. \A q \in Procs \ {p} : pc'[q] = pc[q] /\ maps'[q] = maps[q]
  BY DEF OthersKeep
<1>2. Status' = [Status EXCEPT ![p] = StatusOf(pc'[p])]
  BY <1>1 DEF Status
<1>3. Mine' = [Mine EXCEPT ![p] = MineFrom(obj[p].maps, pc'[p], maps'[p])]
  BY <1>1 DEF Mine
<1>. QED  BY <1>2, <1>3 DEF Status, Mine

LEMMA StatusCases ==
    /\ \A l \in Loading : StatusOf(l) = "opened" /\ l \notin Ended
    /\ StatusOf("loaded") = "loaded" /\ StatusOf("closed_loaded") = "loaded"
    /\ StatusOf("failed") = "failed" /\ StatusOf("closed_failed") = "failed"
    /\ \A l \in Ended : \A ms, mp : MineFrom(ms, l, mp) = {}
BY DEF StatusOf, Loading, Ended, MineFrom

\* What the history says of a step, as the owners of paths.
LEMMA OwnerStep ==
    ASSUME Types, ByOk, NEW p \in Procs, Witness(p)
    PROVE  /\ bpffs' = bpffs => Owner' = Owner
           /\ \A path \in Paths : \A x : Links(p, path, x) =>
                Owner[path] = "nobody" /\ Owner' = [Owner EXCEPT ![path] = p]
           /\ \A path \in Paths : Unlinks(p, path) =>
                Owner[path] # "nobody" /\ Owner' = [Owner EXCEPT ![path] = "nobody"]
<1>1. stolen \in BOOLEAN
  BY DEF ByOk
<1>2. ASSUME bpffs' = bpffs PROVE Owner' = Owner
  BY <1>1, <1>2, WitnessEffect DEF HistorySame, Owner
<1>3. ASSUME NEW path \in Paths, NEW x, Links(p, path, x)
      PROVE  Owner[path] = "nobody" /\ Owner' = [Owner EXCEPT ![path] = p]
  <2>1. HistoryLinks(p, path)
    BY <1>1, <1>3, WitnessEffect
  <2>2. by'[path][1] = p /\ \A other \in Paths : other # path => by'[other] = by[other]
    BY <2>1, FreePaths DEF HistoryLinks
  <2>3. by[path][1] = "nobody"
    BY <1>3, FreePaths DEF Links
  <2>. QED  BY <2>2, <2>3 DEF Owner
<1>4. ASSUME NEW path \in Paths, Unlinks(p, path)
      PROVE  Owner[path] # "nobody" /\ Owner' = [Owner EXCEPT ![path] = "nobody"]
  <2>1. HistoryUnlinks(p, path)
    BY <1>1, <1>4, WitnessEffect
  <2>2. by'[path][1] = "nobody" /\ \A other \in Paths : other # path => by'[other] = by[other]
    BY <2>1, FreePaths DEF HistoryUnlinks
  <2>3. by[path][1] # "nobody"
    BY <1>4, FreePaths DEF Unlinks
  <2>. QED  BY <2>2, <2>3 DEF Owner
<1>. QED  BY <1>2, <1>3, <1>4

\* An object whose load failed has nothing to pin.
LEMMA FailedPinsNothing ==
    ASSUME Types, LoadInv, NEW p \in Procs, pc[p] = "failed", PinStep(p) \/ Calls(p), NEW path \in Paths, NEW x
    PROVE  ~Links(p, path, x)
<1>1. MapsOk(p) /\ HeldOk(p) /\ DOMAIN bpffs = Paths /\ PinEffect(p)
  BY PinStepEffect DEF LoadInv, ProcOk, Types, LoadTypes
<1>2. SUFFICES ASSUME Links(p, path, x) PROVE FALSE
  OBVIOUS
<1>3. bpffs'[path] # NoMap /\ bpffs[path] = NoMap
  BY <1>1, <1>2 DEF Links, Link
<1>4. ASSUME NEW m \in 1 .. NMaps(p), NEW y \in Paths, PinsMap(p, m, y) PROVE FALSE
  BY <1>1, <1>4 DEF PinsMap, MapsOk
<1>5. ASSUME NEW m \in 1 .. NMaps(p), NEW y \in Paths, UnpinsMap(p, m, y) PROVE FALSE
  BY <1>1, <1>3, <1>5 DEF UnpinsMap, Unlink
<1>6. ASSUME NEW j \in 1 .. NProgs(p), PinsProg(p, j) PROVE FALSE
  <2>1. <<"prog", j>> \in held[p]
    BY <1>6 DEF PinsProg, HasInstance
  <2>2. <<"prog", j>>[1] # "prog"
    BY <1>1, <2>1 DEF HeldOk
  <2>. QED  BY <2>2
<1>7. ASSUME NEW j \in 1 .. NProgs(p), UnpinsProg(p, j) PROVE FALSE
  BY <1>1, <1>3, <1>7 DEF UnpinsProg, Unlink
<1>. QED  BY <1>1, <1>3, <1>4, <1>5, <1>6, <1>7 DEF PinEffect

LEMMA AtomicMove ==
    ASSUME Types, Types', LoadInv, PinInv, AtomicInv, PathsApart, NEW p \in Procs, Moves(p)
    PROVE  Atomic!AtomicNext \/ UNCHANGED Atomic!avars
<1>1. /\ obj' = obj /\ Witness(p) /\ OthersKeep(p) /\ ByOk /\ PathKnown(p) /\ PlainOk(p) /\ OwnOk(p)
      /\ NMaps(p) \in Nat /\ LoadTypes
  BY MoveEffect, CallType DEF PinInv, AtomicInv, Types
<1>. DEFINE S(l) == [Status EXCEPT ![p] = StatusOf(l)]
            M(x) == [Mine EXCEPT ![p] = x]
            new == MineFrom(obj[p].maps, pc'[p], maps'[p])
            old == MineFrom(obj[p].maps, pc[p], maps[p])
<1>2. /\ Status' = S(pc'[p]) /\ Mine' = M(new) /\ S(pc[p]) = Status /\ M(old) = Mine
      /\ Status[p] = StatusOf(pc[p]) /\ Mine[p] = old
  BY <1>1, MappedStep
<1>3. /\ DOMAIN maps[p] = 1 .. NMaps(p) /\ DOMAIN maps'[p] = 1 .. NMaps(p)
      /\ \A m : Def(p, m) = obj[p].maps[m]
  BY <1>1 DEF Types, LoadTypes, NMaps, Def
<1>4. ASSUME pc[p] \in Loading
      PROVE  \A x : x \in old <=> \E m \in 1 .. NMaps(p) : Def(p, m).pin = x /\ maps[p][m].pinned /\ ~maps[p][m].reused
  <2>1. pc[p] \notin Ended
    BY <1>4, StatusCases
  <2>. QED  BY <1>3, <2>1 DEF old, MineFrom
<1>5. ASSUME pc'[p] \in Loading
      PROVE  \A x : x \in new <=> \E m \in 1 .. NMaps(p) : Def(p, m).pin = x /\ maps'[p][m].pinned /\ ~maps'[p][m].reused
  <2>1. pc'[p] \notin Ended
    BY <1>5, StatusCases
  <2>. QED  BY <1>3, <2>1 DEF new, MineFrom
<1>. HIDE DEF new, old
<1>6. ASSUME bpffs' = bpffs, StatusOf(pc'[p]) = StatusOf(pc[p]), new = old PROVE UNCHANGED Atomic!avars
  <2>1. Owner' = Owner
    BY <1>1, <1>6, OwnerStep
  <2>2. Status' = Status /\ Mine' = Mine
    BY <1>2, <1>6
  <2>. QED  BY <2>1, <2>2, MapsToStutter
<1>7. CASE PinStep(p) \/ Calls(p)
  <2>1. pc'[p] = pc[p] /\ pc[p] \in {"loaded", "failed"}
    BY <1>7, PinStepEffect, PinStepAt
  <2>2. StatusOf(pc'[p]) = StatusOf(pc[p]) /\ new = old /\ Status[p] # "opened"
    BY <1>2, <2>1, StatusCases DEF new, old, Ended
  <2>3. Status' = Status /\ Mine' = Mine
    BY <1>2, <2>2
  <2>4. CASE bpffs' = bpffs
    BY <1>6, <2>2, <2>4
  <2>5. ASSUME NEW path \in Paths, NEW x, Links(p, path, x) PROVE Atomic!AtomicNext
    <3>1. pc[p] = "loaded" /\ Status[p] = "loaded"
      BY <1>2, <1>7, <2>1, <2>5, FailedPinsNothing, StatusCases
    <3>2. Owner[path] = "nobody" /\ Owner' = [Owner EXCEPT ![path] = p]
      BY <1>1, <2>5, OwnerStep
    <3>. QED  BY <2>3, <3>1, <3>2, MapsToPut
  <2>6. ASSUME NEW path \in Paths, Unlinks(p, path) PROVE Atomic!AtomicNext
    <3>1. Owner[path] # "nobody" /\ Owner' = [Owner EXCEPT ![path] = "nobody"]
      BY <1>1, <2>6, OwnerStep
    <3>. QED  BY <2>2, <2>3, <3>1, MapsToRemove
  <2>. QED  BY <1>7, <2>4, <2>5, <2>6, FsStep
<1>8. CASE Close(p)
  <2>1. bpffs' = bpffs /\ \/ pc[p] = "loaded" /\ pc'[p] = "closed_loaded"
                          \/ pc[p] = "failed" /\ pc'[p] = "closed_failed"
    BY <1>8 DEF Close, Goto, Types, LoadTypes
  <2>2. StatusOf(pc'[p]) = StatusOf(pc[p]) /\ new = old
    BY <2>1, StatusCases DEF new, old, Ended
  <2>. QED  BY <1>6, <2>1, <2>2
<1>9. CASE GoesOn(p)
  <2>1. pc[p] \in Loading /\ pc'[p] \in Loading /\ bpffs' = bpffs
        /\ \A m \in 1 .. NMaps(p) : maps'[p][m].pinned = maps[p][m].pinned /\ maps'[p][m].reused = maps[p][m].reused
    BY <1>9 DEF GoesOn, SameFlags
  <2>2. \A x : x \in new <=> x \in old
    BY <1>4, <1>5, <2>1
  <2>3. new = old
    BY <2>2
  <2>. QED  BY <1>6, <2>1, <2>3, StatusCases
<1>10. CASE Reuses(p)
  <2>1. pc[p] \in Loading /\ pc'[p] \in Loading /\ bpffs' = bpffs
    BY <1>10 DEF Reuses, Loading
  <2>2. \A m \in 1 .. NMaps(p) : (maps'[p][m].pinned /\ ~maps'[p][m].reused) <=> (maps[p][m].pinned /\ ~maps[p][m].reused)
    BY <1>10 DEF Reuses, OtherFlags, SameFlags
  <2>3. \A x : x \in new <=> x \in old
    BY <1>4, <1>5, <2>1, <2>2
  <2>4. new = old
    BY <2>3
  <2>. QED  BY <1>6, <2>1, <2>4, StatusCases
<1>11. CASE LeavesBe(p)
  <2>1. pc[p] \in Loading /\ pc'[p] \in Loading /\ bpffs' = bpffs
        /\ \A m \in 1 .. NMaps(p) : maps'[p][m].pinned = maps[p][m].pinned /\ maps'[p][m].reused = maps[p][m].reused
    BY <1>11 DEF LeavesBe, SameFlags, Loading
  <2>2. \A x : x \in new <=> x \in old
    BY <1>4, <1>5, <2>1
  <2>3. new = old
    BY <2>2
  <2>. QED  BY <1>6, <2>1, <2>3, StatusCases
<1>12. CASE PutsOwn(p)
  <2>1. pc[p] \in Loading /\ pc'[p] \in Loading
    BY <1>12 DEF PutsOwn, Loading
  <2>2. PICK path \in Paths : path = Def(p, i[p]).pin /\ Links(p, path, maps[p][i[p]].fd)
    BY <1>12 DEF PutsOwn, Links
  <2>3. \A m \in 1 .. NMaps(p) : /\ m # i[p] => SameFlags(p, m)
                                 /\ m = i[p] => ~maps[p][m].pinned /\ maps'[p][m].pinned /\ ~maps'[p][m].reused
    BY <1>12 DEF PutsOwn, OtherFlags
  <2>4. i[p] \in 1 .. NMaps(p)
    BY <1>12 DEF PutsOwn
  <2>5. \A x : x \in new <=> x \in old \cup {path}
    BY <1>4, <1>5, <2>1, <2>2, <2>3, <2>4 DEF SameFlags
  <2>6. new = old \cup {path}
    BY <2>5
  <2>7. Status[p] = "opened" /\ Status' = Status
    BY <1>2, <2>1, StatusCases
  <2>8. Mine' = [Mine EXCEPT ![p] = Mine[p] \cup {path}]
    BY <1>2, <2>6
  <2>9. Owner[path] = "nobody" /\ Owner' = [Owner EXCEPT ![path] = p]
    BY <1>1, <2>2, OwnerStep
  <2>. QED  BY <2>7, <2>8, <2>9, MapsToPut
<1>13. CASE TakesBack(p)
  <2>1. pc[p] \in Loading /\ pc'[p] \in Loading
    BY <1>13 DEF TakesBack, Loading
  <2>2. PICK path \in Paths : path = Def(p, i[p]).pin /\ Unlinks(p, path)
    BY <1>13 DEF TakesBack, Unlinks
  <2>3. \A m \in 1 .. NMaps(p) : /\ m # i[p] => SameFlags(p, m)
                                 /\ m = i[p] => maps[p][m].pinned /\ ~maps[p][m].reused /\ ~maps'[p][m].pinned
    BY <1>13 DEF TakesBack, OtherFlags
  <2>4. i[p] \in 1 .. NMaps(p) /\ \A m \in 1 .. NMaps(p) : Def(p, m).pin = path => m = i[p]
    <3>1. i[p] \in 1 .. NMaps(p)
      BY <1>13 DEF TakesBack
    <3>. QED  BY <1>1, <2>2, <3>1, Apart
  <2>5. \A x : x \in new <=> x \in old \ {path}
    BY <1>4, <1>5, <2>1, <2>2, <2>3, <2>4 DEF SameFlags
  <2>6. new = old \ {path}
    BY <2>5
  <2>7. path \in old
    BY <1>4, <2>1, <2>2, <2>3, <2>4
  <2>8. Status[p] = "opened" /\ Status' = Status
    BY <1>2, <2>1, StatusCases
  <2>9. Mine' = [Mine EXCEPT ![p] = Mine[p] \ {path}] /\ path \in Mine[p]
    BY <1>2, <2>6, <2>7
  <2>10. Owner' = [Owner EXCEPT ![path] = "nobody"]
    BY <1>1, <2>2, OwnerStep
  <2>. QED  BY <2>8, <2>9, <2>10, MapsToTakeBack
<1>14. CASE LoadEnds(p)
  <2>1. bpffs' = bpffs /\ pc[p] \in Loading /\ Status[p] = "opened"
    BY <1>2, <1>14, StatusCases DEF LoadEnds, Loading
  <2>2. PICK s \in {"loaded", "failed"} : s = pc'[p]
    BY <1>14 DEF LoadEnds
  <2>3. Status' = [Status EXCEPT ![p] = s] /\ Mine' = [Mine EXCEPT ![p] = {}]
    BY <1>2, <2>2, StatusCases DEF new, Ended
  <2>4. Owner' = Owner
    BY <1>1, <2>1, OwnerStep
  <2>5. ASSUME s = "failed", NEW path \in Paths PROVE Owner[path] # p
    <3>1. pc[p] = "unpin" /\ i[p] > NMaps(p) /\ i[p] \in Nat
      BY <1>1, <1>14, <2>2, <2>5 DEF LoadEnds, LoadTypes
    <3>2. ASSUME NEW m \in 1 .. NMaps(p), Ours(p, m, path) PROVE FALSE
      BY <1>1, <3>1, <3>2 DEF Ours
    <3>3. by[path][1] # p
      BY <1>1, <2>1, <3>2 DEF OwnOk
    <3>. QED  BY <3>3 DEF Owner
  <2>. QED  BY <2>1, <2>3, <2>4, <2>5, MapsToEnd
<1>. QED  BY <1>1, <1>7, <1>8, <1>9, <1>10, <1>11, <1>12, <1>13, <1>14, LoadKinds, MoveEffect

(***************************************************************************)
(* Loads implement AtomicLoad: whatever other processes do, a load puts    *)
(* maps only at free paths, and if it fails it takes back all that it put  *)
(* there and frees no path but those.                                      *)
(***************************************************************************)
THEOREM LoadsAreAtomic == ASSUME PathsApart PROVE Spec => LoadIsAtomic
<1>1. Init => Atomic!AtomicInit
  <2>. SUFFICES ASSUME Init PROVE Atomic!AtomicInit
    OBVIOUS
  <2>1. \A p \in Procs : pc[p] = "open"
    BY DEF Init, LoadInit
  <2>2. \A p \in Procs : \A n \in DOMAIN maps[p] : ~maps[p][n].pinned
    BY DEF Init, LoadInit
  <2>3. \A path \in Paths : by[path][1] = "nobody"
    BY DEF Init, Nobody
  <2>. QED  BY <2>1, <2>2, <2>3 DEF Atomic!AtomicInit, Ended
<1>2. Types /\ LoadInv /\ PinInv /\ AtomicInv /\ Types' /\ [Next]_vars
      => AtomicInv' /\ [Atomic!AtomicNext]_(Atomic!avars)
  <2>. SUFFICES ASSUME Types, LoadInv, PinInv, AtomicInv, Types', [Next]_vars
                PROVE  AtomicInv' /\ (Atomic!AtomicNext \/ UNCHANGED Atomic!avars)
    OBVIOUS
  <2>1. CASE UNCHANGED vars
    <3>1. obj' = obj /\ pc' = pc /\ i' = i /\ maps' = maps /\ by' = by
      BY <2>1 DEF vars, loadvars, pvars
    <3>2. AtomicInv'
      BY <3>1 DEF AtomicInv, PlainOk, OwnOk, Ours, NMaps, Def
    <3>3. UNCHANGED Atomic!avars
      BY <3>1, MapsToStutter DEF Status, Mine, Owner
    <3>. QED  BY <3>2, <3>3
  <2>2. ASSUME NEW p \in Procs, Moves(p)
        PROVE  AtomicInv' /\ (Atomic!AtomicNext \/ UNCHANGED Atomic!avars)
    <3>1. \A q \in Procs : PlainOk(q)' /\ OwnOk(q)'
      BY <2>2, AtomicOwn, AtomicOthers DEF PinInv
    <3>2. AtomicInv'
      BY <3>1 DEF AtomicInv
    <3>. QED  BY <2>2, <3>2, AtomicMove
  <2>. QED  BY <2>1, <2>2, StepsAreMoves
<1>. QED  BY <1>1, <1>2, AtomicInvInit, PinInvariant, PTL DEF Spec, LoadIsAtomic, Atomic!AtomicSpec

=============================================================================
