------------------------------ MODULE BtfDedup ------------------------------
(***************************************************************************)
(* btf__dedup(): the duplicate types that several compilation units bring  *)
(* are replaced by one canonical type each, in the phases of the code:     *)
(* strings, primitive types, structs and unions (by comparing type graphs, *)
(* which also resolves forward declarations), types that refer to others,  *)
(* compaction, and the renumbering of all references.  One step treats one *)
(* type.  Any allocation may fail, which ends the call.                    *)
(***************************************************************************)
EXTENDS BtfWrite, Integers

VARIABLES
    d,                  \* struct btf_dedup
    orig                \* history: the BTF that btf__dedup() was given

dvars == <<d, orig>>

Unprocessed == -1       \* BTF_UNPROCESSED_ID
InProgress == -2        \* BTF_IN_PROGRESS_ID

DedupInit ==
    /\ d = [phase |-> "none", id |-> 0, map |-> <<>>, table |-> HashmapNew,
            new |-> <<>>, ext |-> input.ext]
    /\ orig = btf

Composite == {"STRUCT", "UNION"}
NeverDeduped == {"VAR", "DATASEC"}

WithRefs(t, refs) == [t EXCEPT !.refs = refs]

\* All of a type but the IDs of the types it refers to.
Shape(t) == WithRefs(t, [n \in DOMAIN t.refs |-> [name |-> t.refs[n].name, type |-> 0]])

\* btf_equal_common/int/enum/array/fnproto()
EqualType(t1, t2) == t1 = t2

\* btf_shallow_equal_struct(), btf_compat_array/fnproto()
Compat(t1, t2) == Shape(t1) = Shape(t2)

IsEnumFwd(t) == t.kind = "ENUM" /\ t.refs = <<>>

\* faulty variant: two definitions are compatible whatever their enumerators
CompatEnumAny(t1, t2) == WithRefs(t1, <<>>) = WithRefs(t2, <<>>)

CompatEnum(t1, t2) ==
    IF ~IsEnumFwd(t1) /\ ~IsEnumFwd(t2) THEN EqualType(t1, t2)
    ELSE WithRefs(t1, <<>>) = WithRefs(t2, <<>>)

\* faulty variant: structs are hashed with the types of their members
HashOfRefs(t) ==
    CASE input.opts.collide -> Void
      [] t.kind = "ENUM" -> WithRefs(t, <<>>)
      [] OTHER -> t

\* btf_hash_*(); with collide, all hashes are the same
HashOf(t) ==
    CASE input.opts.collide -> Void
      [] t.kind = "ENUM" -> WithRefs(t, <<>>)
      [] t.kind \in Composite -> Shape(t)
      [] OTHER -> t

TableAdd(table, t, id) == HashmapAppend(table, HashOf(t), id)
Candidates(table, t) == ForEachKey(table, HashOf(t))

IsMapped(map, id) == map[id] >= 0

\* resolve_type_id(), in as many steps as there are types
ResolveTypeId(map, id) ==
    FoldLeft(LAMBDA x, n : IF IsMapped(map, x) THEN map[x] ELSE x, id,
             [n \in 1..NrTypes(orig) |-> n])

ResolveFwdId(map, id) ==
    LET r == ResolveTypeId(map, id)
    IN  IF TypeById(btf, id).kind = "FWD" /\ TypeById(btf, r).kind # "FWD" THEN r ELSE id

In(phase) == d.phase = phase
Own == NBase + 1 .. NrTypes(btf)

\* The phase ends, or goes on with the next type.
Proceed(e, next) ==
    d' = IF d.id < NrTypes(btf) THEN [e EXCEPT !.id = @ + 1]
         ELSE [e EXCEPT !.phase = next, !.id = NBase + 1]

-----------------------------------------------------------------------------
\* The start of btf__dedup(): btf_dedup_new(), the BTF is made modifiable, and
\* btf_dedup_prep() makes all types of the base candidates.
Dedup ==
    /\ In("none") /\ ~Incomplete /\ ~ToAdd
    /\ d' = [d EXCEPT !.phase = "strings", !.id = NBase + 1,
         !.map = [n \in 0..NrTypes(btf) |->
           IF n <= NBase \/ TypeById(btf, n).kind \in NeverDeduped THEN n ELSE Unprocessed],
         !.table = FoldLeft(LAMBDA h, n : TableAdd(h, Base.types[n], n), @,
           SelectSeq([n \in 1..NBase |-> n],
                     LAMBDA n : Base.types[n].kind \notin NeverDeduped))]
    /\ btf' = EnsureModifiable(btf)
    /\ orig' = btf
    /\ UNCHANGED <<input, added, uses>>

-----------------------------------------------------------------------------
(***************************************************************************)
(* Strings: those that are in use, once each, without those of the base.   *)
(***************************************************************************)
OffsetsOf(t) == <<t.name>> \o [n \in DOMAIN t.refs |-> t.refs[n].name]

\* btf_for_each_str_off(): of .BTF.ext, the line information only.
StrOffs == FlattenSeq([n \in DOMAIN btf.types |-> OffsetsOf(btf.types[n])]) \o d.ext.line_info

InMain(o) == o <= Len(Base.strs)

\* strs_dedup_remap_str_off() for all offsets
RemappedStrs ==
    FoldLeft(LAMBDA b, o : IF InMain(o) THEN b ELSE AddStr(b, Str(btf, o)),
             [btf EXCEPT !.strs = <<>>], StrOffs).strs

NewOff(b, o) == IF InMain(o) THEN o ELSE Offset(b, Str(btf, o))

Remapped(b, t) ==
    [t EXCEPT !.name = NewOff(b, @),
              !.refs = [n \in DOMAIN @ |-> [@[n] EXCEPT !.name = NewOff(b, @)]]]

DedupStrings ==
    /\ In("strings")
    /\ IF btf.deduped THEN UNCHANGED btf /\ d' = [d EXCEPT !.phase = "prim"]
       ELSE LET b == [btf EXCEPT !.strs = RemappedStrs, !.deduped = TRUE] IN
              /\ btf' = [b EXCEPT !.types = [n \in DOMAIN @ |-> Remapped(b, @[n])]]
              /\ d' = [d EXCEPT !.phase = "prim",
                         !.ext.line_info = [n \in DOMAIN @ |-> NewOff(b, @[n])]]
    /\ UNCHANGED <<input, added, uses, orig>>

\* Memory runs out: references to strings are rewritten up to some type, or up
\* to some place in the line information, and the strings they are offsets of
\* are thrown away.
DedupStringsFails ==
    /\ In("strings") /\ ~btf.deduped /\ Faults
    /\ LET b == [btf EXCEPT !.strs = RemappedStrs]
           last == Len(btf.types)
       IN  \E k \in 0 .. last + Len(d.ext.line_info) :
             /\ btf' = [btf EXCEPT !.types =
                   [n \in DOMAIN @ |-> IF n <= k THEN Remapped(b, @[n]) ELSE @[n]]]
             /\ d' = [d EXCEPT !.phase = "garbled", !.ext.line_info =
                   [n \in DOMAIN @ |-> IF last + n <= k THEN NewOff(b, @[n]) ELSE @[n]]]
    /\ UNCHANGED <<input, added, uses, orig>>

-----------------------------------------------------------------------------
(***************************************************************************)
(* Primitive types.  A search is [map, new, ended]: the canonical map, the *)
(* canonical ID found so far, and whether to look no further.              *)
(***************************************************************************)
This == TypeById(btf, d.id)
Search(map) == [map |-> map, new |-> d.id, ended |-> FALSE]
Found(s, cand) == [s EXCEPT !.new = cand, !.ended = TRUE]

\* An enum without enumerators is a forward declaration: it is resolved to a
\* full enum, and a canonical one is when a full enum comes later.
PrimCand(s, cand) ==
    LET c == TypeById(btf, cand)
        resolve == This.kind = "ENUM" /\ ~input.opts.dont_resolve_fwds /\ CompatEnum(This, c)
    IN  CASE s.ended -> s
          [] ~s.ended /\ EqualType(This, c) -> Found(s, cand)
          [] ~s.ended /\ ~EqualType(This, c) /\ resolve ->
               IF IsEnumFwd(This) THEN Found(s, cand) ELSE [s EXCEPT !.map[cand] = d.id]
          [] OTHER -> s

\* The end of btf_dedup_prim_type() and btf_dedup_struct_type().
Settle(s, next) ==
    Proceed([d EXCEPT !.map = [s.map EXCEPT ![d.id] = s.new],
                      !.table = IF s.new = d.id THEN TableAdd(@, This, d.id) ELSE @], next)

DedupPrimType ==
    /\ In("prim")
    /\ IF This.kind \in {"INT", "ENUM", "FWD"}
       THEN Settle(FoldLeft(PrimCand, Search(d.map), Candidates(d.table, This)), "struct")
       ELSE Proceed(d, "struct")
    /\ UNCHANGED <<input, added, uses, btf, orig>>

-----------------------------------------------------------------------------
(***************************************************************************)
(* Structs and unions.  A hypothesis is [list, map, adjust, eq]: hypot_list*)
(* and hypot_map, hypot_adjust_canon, and the verdict.                     *)
(***************************************************************************)
NoHypothesis == [list |-> <<>>, map |-> <<>>, adjust |-> FALSE, eq |-> TRUE]

\* The references of a type, in the order in which they are compared.
Visits(t) == IF t.kind = "ARRAY" THEN <<2, 1>> ELSE [n \in DOMAIN t.refs |-> n]

IdenticalArrays(id1, id2) ==
    /\ TypeById(btf, id1).kind = "ARRAY" /\ TypeById(btf, id2).kind = "ARRAY"
    /\ EqualType(TypeById(btf, id1), TypeById(btf, id2))

RECURSIVE IsEquiv(_, _, _, _)
IsEquiv(map, cand, canonId, h) ==
    LET canon == ResolveFwdId(map, canonId)
        known == canon \in DOMAIN h.map
        ct == TypeById(btf, cand)
        nt == TypeById(btf, canon)
        g == [h EXCEPT !.list = Append(@, canon), !.map = (canon :> cand) @@ @]
        fwd == (ct.kind = "FWD") # (nt.kind = "FWD")
        resolves == fwd /\ (IF ct.kind = "FWD" THEN ct.attr = nt.kind ELSE nt.attr = ct.kind)
        prim == CASE ct.kind \in {"INT", "FWD"} -> EqualType(ct, nt)
                  [] ct.kind = "ENUM" -> IF input.opts.dont_resolve_fwds
                                         THEN EqualType(ct, nt) ELSE CompatEnum(ct, nt)
    IN  IF ResolveTypeId(map, cand) = ResolveTypeId(map, canonId) THEN [h EXCEPT !.eq = TRUE]
        ELSE IF known
        THEN [h EXCEPT !.eq = h.map[canon] = cand \/ IdenticalArrays(h.map[canon], cand)]
        ELSE IF ct.name # nt.name THEN [g EXCEPT !.eq = FALSE]
        ELSE IF ~input.opts.dont_resolve_fwds /\ fwd
        THEN [g EXCEPT !.eq = resolves,
                       !.adjust = @ \/ (resolves /\ nt.kind = "FWD" /\ canon <= NBase)]
        ELSE IF ct.kind # nt.kind THEN [g EXCEPT !.eq = FALSE]
        ELSE IF ct.kind \in {"INT", "FWD", "ENUM"} THEN [g EXCEPT !.eq = prim]
        ELSE IF ~Compat(ct, nt) THEN [g EXCEPT !.eq = FALSE]
        ELSE FoldLeft(LAMBDA f, n : IF f.eq THEN IsEquiv(map, ct.refs[n].type, nt.refs[n].type, f)
                                    ELSE f,
                      [g EXCEPT !.eq = TRUE], Visits(ct))

\* btf_dedup_merge_hypot_map(), for one entry
MergeEntry(map, canon, targ, adjust) ==
    LET t == ResolveTypeId(map, targ)
        c == ResolveTypeId(map, canon)
        tk == TypeById(btf, t).kind
        ck == TypeById(btf, c).kind
    IN  CASE tk # "FWD" /\ ck = "FWD" -> [map EXCEPT ![c] = t]
          [] ~adjust /\ tk = "FWD" /\ ck # "FWD" -> [map EXCEPT ![t] = c]
          [] ~adjust /\ tk \in Composite /\ ck # "FWD" /\ IsMapped(map, c) /\ ~IsMapped(map, t) ->
               [map EXCEPT ![t] = c]
          [] OTHER -> map

MergeHypotMap(map, h) ==
    FoldLeft(LAMBDA m, canon : MergeEntry(m, canon, h.map[canon], h.adjust), map, h.list)

\* faulty variant: a candidate may be of another kind
StructCandAnyKind(s, cand) ==
    LET h == IsEquiv(s.map, d.id, cand, NoHypothesis)
        merged == [s EXCEPT !.map = MergeHypotMap(s.map, h)]
    IN  IF s.ended \/ ~h.eq THEN s ELSE IF h.adjust THEN merged ELSE Found(merged, cand)

\* faulty variant: the base is taken to have been adjusted
StructCandAdjusting(s, cand) ==
    LET h == IsEquiv(s.map, d.id, cand, NoHypothesis)
    IN  IF s.ended \/ ~Compat(This, TypeById(btf, cand)) THEN s
        ELSE IF ~h.eq THEN s ELSE Found([s EXCEPT !.map = MergeHypotMap(s.map, h)], cand)

StructCand(s, cand) ==
    LET h == IsEquiv(s.map, d.id, cand, NoHypothesis)
        merged == [s EXCEPT !.map = MergeHypotMap(s.map, h)]
    IN  IF s.ended \/ ~Compat(This, TypeById(btf, cand)) THEN s
        ELSE IF ~h.eq THEN s
        ELSE IF h.adjust THEN merged ELSE Found(merged, cand)

DedupStructType ==
    /\ In("struct")
    /\ IF ~IsMapped(d.map, d.id) /\ This.kind \in Composite
       THEN Settle(FoldLeft(StructCand, Search(d.map), Candidates(d.table, This)), "ref")
       ELSE Proceed(d, "ref")
    /\ UNCHANGED <<input, added, uses, btf, orig>>

-----------------------------------------------------------------------------
(***************************************************************************)
(* Types that refer to others, which are rewritten to refer to canonical   *)
(* types.  s is [map, table, btf] with the result ret and whether it is an *)
(* error (a loop without a struct or union).                               *)
(***************************************************************************)
RECURSIVE RefType(_, _)
RefType(s, id) ==
    LET t == TypeById(s.btf, id)
        step(r, n) == LET q == RefType(r, t.refs[n].type) IN
                      CASE r.error -> r
                        [] ~r.error /\ q.error -> q
                        [] OTHER -> [q EXCEPT !.btf.types[id - NBase].refs[n].type = q.ret]
        f == FoldLeft(step, [s EXCEPT !.map[id] = InProgress], [n \in DOMAIN t.refs |-> n])
        u == TypeById(f.btf, id)
        same == SelectSeq(Candidates(f.table, u),
                          LAMBDA cand : EqualType(u, TypeById(f.btf, cand)))
        new == IF same = <<>> THEN id ELSE same[1]
    IN  IF s.map[id] = InProgress THEN [s EXCEPT !.error = TRUE]
        ELSE IF IsMapped(s.map, id) THEN [s EXCEPT !.ret = ResolveTypeId(s.map, id)]
        ELSE IF f.error THEN f
        ELSE [f EXCEPT !.map[id] = new, !.ret = new,
                       !.table = IF new = id THEN TableAdd(@, u, id) ELSE @]

RefResult == RefType([map |-> d.map, table |-> d.table, btf |-> btf, ret |-> 0, error |-> FALSE], d.id)

DedupRefType ==
    /\ In("ref")
    /\ btf' = RefResult.btf
    /\ IF RefResult.error THEN d' = [d EXCEPT !.phase = "failed", !.map = RefResult.map]
       ELSE Proceed([d EXCEPT !.map = RefResult.map, !.table = RefResult.table], "compact")
    /\ UNCHANGED <<input, added, uses, orig>>

-----------------------------------------------------------------------------
(***************************************************************************)
(* Canonical types are moved together and references renumbered.           *)
(***************************************************************************)
Canonical == SelectSeq([n \in DOMAIN btf.types |-> NBase + n], LAMBDA id : d.map[id] = id)

CompactTypes ==
    /\ In("compact")
    /\ btf' = [btf EXCEPT !.types = [n \in DOMAIN Canonical |-> TypeById(btf, Canonical[n])]]
    /\ d' = [d EXCEPT !.phase = "remap", !.new =
         [id \in DOMAIN d.map |->
            IF id <= NBase THEN id
            ELSE IF d.map[id] = id THEN NBase + SelectInSeq(Canonical, LAMBDA x : x = id)
            ELSE Unprocessed]]
    /\ UNCHANGED <<input, added, uses, orig>>

RemapTypeId(id) == d.new[ResolveTypeId(d.map, id)]

RemapTypes ==
    /\ In("remap")
    /\ btf' = [btf EXCEPT !.types = [n \in DOMAIN @ |->
         WithRefs(@[n], [k \in DOMAIN @[n].refs |-> [@[n].refs[k] EXCEPT !.type = RemapTypeId(@)]])]]
    /\ d' = [d EXCEPT !.phase = "done"]
    /\ UNCHANGED <<input, added, uses, orig>>

\* An allocation of another phase fails; in the last but one, some references
\* are rewritten by then.
DedupFails ==
    /\ Faults
    /\ \/ d.phase \in {"prim", "struct"} /\ UNCHANGED btf
       \/ /\ In("ref")
          /\ \E S \in SUBSET {n \in DOMAIN btf.types : RefResult.btf.types[n] # btf.types[n]} :
               btf' = [btf EXCEPT !.types = [n \in DOMAIN @ |->
                         IF n \in S THEN RefResult.btf.types[n] ELSE @[n]]]
    /\ d' = [d EXCEPT !.phase = "failed"]
    /\ UNCHANGED <<input, added, uses, orig>>

\* The index cannot be shrunk, with the types moved and references not renumbered.
CompactTypesFails ==
    /\ Faults /\ In("compact")
    /\ btf' = [btf EXCEPT !.types = [n \in DOMAIN Canonical |-> TypeById(btf, Canonical[n])]]
    /\ d' = [d EXCEPT !.phase = "garbled"]
    /\ UNCHANGED <<input, added, uses, orig>>

DedupNext ==
    \/ Dedup \/ DedupStrings \/ DedupStringsFails \/ DedupPrimType \/ DedupStructType
    \/ DedupRefType \/ CompactTypes \/ RemapTypes \/ DedupFails \/ CompactTypesFails

-----------------------------------------------------------------------------
\* Type u can stand for type t if the types they refer to are related by rel;
\* if resolve, for a forward declaration also what it declares, and for an enum
\* one that has no enumerators.
StandsFor(t, u, rel, resolve) ==
    \/ /\ t.kind = u.kind /\ t.attr = u.attr /\ Len(t.refs) = Len(u.refs)
       /\ \A n \in DOMAIN t.refs : <<t.refs[n].type, u.refs[n].type>> \in rel
    \/ resolve /\ t.kind = "FWD" /\ u.kind = t.attr
    \/ /\ resolve /\ t.kind = "ENUM" /\ u.kind = "ENUM" /\ t.attr = u.attr
       /\ IsEnumFwd(t) \/ IsEnumFwd(u)

NamesOf(b, t) == [n \in DOMAIN OffsetsOf(t) |-> Str(b, OffsetsOf(t)[n])]
NamedAlike(a, t, b, u) ==
    IF Len(t.refs) = Len(u.refs) THEN NamesOf(a, t) = NamesOf(b, u)
    ELSE Str(a, t.name) = Str(b, u.name)

\* The largest relation of types of a and types of b in which the second can
\* stand for the first.
Alike(a, b, resolve) ==
    LET RECURSIVE Shrink(_)
        Shrink(rel) ==
            LET next == {p \in rel : StandsFor(TypeById(a, p[1]), TypeById(b, p[2]), rel, resolve)}
            IN  IF next = rel THEN rel ELSE Shrink(next)
    IN  Shrink({p \in (0..NrTypes(a)) \X (0..NrTypes(b)) :
                  NamedAlike(a, TypeById(a, p[1]), b, TypeById(b, p[2]))})

\* The strings that a part of .BTF.ext names are what they were.
NamesKept(part) ==
    \A n \in DOMAIN input.ext[part] :
        LET o == d.ext[part][n] IN
        o <= Len(Base.strs) + Len(btf.strs) /\ Str(btf, o) = Str(orig, input.ext[part][n])

\* Every type has become one that can stand for it; line information names the
\* strings it did.
Sound(became(_)) ==
    LET same == Alike(orig, btf, ~input.opts.dont_resolve_fwds)
    IN  /\ \A id \in NBase + 1 .. NrTypes(orig) : <<id, became(id)>> \in same
        /\ NamesKept("line_info")

\* No enum is declared without enumerators and defined in different ways.
EnumFwdsUnambiguous ==
    LET enums == {id \in 1..NrTypes(orig) : TypeById(orig, id).kind = "ENUM"}
        named(id) == Str(orig, TypeById(orig, id).name)
        defs(id) == {NamesOf(orig, TypeById(orig, k)) : k \in
                       {j \in enums : named(j) = named(id) /\ ~IsEnumFwd(TypeById(orig, j))}}
    IN  \A id \in enums : IsEnumFwd(TypeById(orig, id)) => Cardinality(defs(id)) <= 1

(***************************************************************************)
(* The canonical map has no cycle, with which resolve_type_id() would not  *)
(* end, in any phase.                                                      *)
(***************************************************************************)
MapAcyclic ==
    d.phase \in {"prim", "struct", "ref", "compact", "remap"} =>
        \A id \in DOMAIN d.map :
            LET r == ResolveTypeId(d.map, id) IN d.map[r] \in {r, Unprocessed, InProgress}

(***************************************************************************)
(* Whatever duplicates and forward declarations there were, every type has *)
(* become one that means the same: of its kind, names and layout, with     *)
(* references to types of which that is true too; and line information     *)
(* has the strings it had.  A forward declaration may have become the type *)
(* it declares.  (For an enum the converse happens too: hypot_adjust_canon *)
(* is not set for an enum that the immutable base only declares; and when  *)
(* an enum that is declared has different definitions, all of them may     *)
(* become one.)                                                            *)
(***************************************************************************)
DedupSound == In("done") /\ EnumFwdsUnambiguous => Sound(RemapTypeId)

(***************************************************************************)
(* When btf__dedup() fails for want of memory or because of a type loop,   *)
(* after strings and before compaction, each type still means what it did, *)
(* and line information has the strings it had.                            *)
(***************************************************************************)
FailedDedupHarmless == In("failed") => Sound(LAMBDA id : id)

(***************************************************************************)
(* "All the strings referenced from .BTF.ext section are honored and       *)
(* updated to point to the right offsets after deduplication" (the comment *)
(* of btf__dedup()): also those of function information, by whose section  *)
(* names btf_ext__reloc_func_info() finds it, and of CO-RE relocations.    *)
(***************************************************************************)
ExtStringsUpdated == In("done") => NamesKept("line_info") /\ NamesKept("others")

(***************************************************************************)
(* No two types of the result mean the same, unless both are of the base.  *)
(***************************************************************************)
DedupMinimal ==
    In("done") =>
        \A p \in Alike(btf, btf, FALSE) :
            \/ p[1] = p[2]
            \/ p[1] <= NBase /\ p[2] <= NBase
            \/ TypeById(btf, p[1]).kind \in NeverDeduped

=============================================================================
