------------------------------ MODULE BtfDump ------------------------------
(***************************************************************************)
(* btf_dump: types written out as C, each with the types it depends on, in *)
(* calls of btf_dump__dump_type() that share the state of what has been    *)
(* written; and the whole life of a BTF: built up, possibly deduplicated,  *)
(* dumped, serialised.  Of the output, out keeps the top-level items in    *)
(* their order: [what, id, name], with what one of "def" (a struct, union  *)
(* or enum), "fwd" (a declaration), "typedef" and "alias", and name a name *)
(* with the number of its occurrence (name, name___2, ...).                *)
(***************************************************************************)
EXTENDS BtfDedup

VARIABLE dump           \* struct btf_dump

bvars == <<wvars, dvars, dump>>

NameOf(id) == Str(btf, TypeById(btf, id).name)
Anonymous(id) == TypeById(btf, id).name = 0
KindOf(id) == TypeById(btf, id).kind
RefOf(id, n) == TypeById(btf, id).refs[n].type
Refs(id) == [n \in DOMAIN TypeById(btf, id).refs |-> RefOf(id, n)]

DumpInit ==
    dump = [last |-> 0, referenced |-> {}, ordering |-> {}, ordered |-> {0},
            emitting |-> {}, emitted |-> {0}, fwd |-> {}, named |-> <<>>,
            type_names |-> HashmapNew, ident_names |-> HashmapNew,
            queue |-> <<>>, room |-> FALSE, ret |-> 0,
            out |-> <<>>, dumped |-> {}, failed |-> FALSE]

\* btf_dump_mark_referenced() of one type; the type a function returns is not
\* marked.
Marks(id) ==
    CASE KindOf(id) = "FUNC_PROTO" -> Range(Tail(Refs(id)))
      [] KindOf(id) = "ENUM" -> {}
      [] OTHER -> Range(Refs(id))

\* btf_dump_resize(), as the BTF may have grown
Resized ==
    [dump EXCEPT !.last = NrTypes(btf),
                 !.referenced = @ \cup UNION {Marks(id) : id \in dump.last + 1 .. NrTypes(btf)}]

-----------------------------------------------------------------------------
(***************************************************************************)
(* btf_dump_order_type() on dump s: types to emit are queued; ret, the     *)
(* result, is 1 for a strong link, 0 for a weak one, -1 for an error.      *)
(***************************************************************************)
Ret(s, r) == [s EXCEPT !.ret = r]
Ordered(s, id) == [s EXCEPT !.ordering = @ \ {id}, !.ordered = @ \cup {id}]

\* btf_dump_add_emit_queue_id(), an error if there is no room for the queue
Enqueue(s, id) == IF s.room THEN [s EXCEPT !.queue = Append(@, id), !.ret = 1] ELSE Ret(s, -1)

\* The type is emitted, if it is to be, and is part of a strong link.
Define(s, id, emit) ==
    LET q == IF emit THEN Enqueue(s, id) ELSE s
    IN  IF q.ret < 0 THEN q ELSE Ret(Ordered(q, id), 1)

RECURSIVE OrderType(_, _, _)
OrderType(s, id, through_ptr) ==
    LET kind == KindOf(id)
        ref(n) == OrderType(s, RefOf(id, n), through_ptr)
        pointee == OrderType(s, RefOf(id, 1), TRUE)
        next(f, r, ptr) == IF f.ret < 0 THEN f ELSE
                           LET g == OrderType(f, r, ptr)
                           IN  Ret(g, IF g.ret < 0 THEN -1 ELSE IF f.ret > g.ret THEN f.ret ELSE g.ret)
        members == FoldLeft(LAMBDA f, r : next(f, r, FALSE),
                            Ret([s EXCEPT !.ordering = @ \cup {id}], 0), Refs(id))
        params == FoldLeft(LAMBDA f, r : next(f, r, through_ptr), Ret(s, 0), Refs(id))
    IN  CASE id \in s.ordered -> Ret(s, 1)
          [] id \in s.ordering ->
               Ret(s, IF kind \in Composite /\ through_ptr /\ ~Anonymous(id) THEN 0 ELSE -1)
          [] OTHER ->
        CASE kind \in {"INT", "FUNC", "VAR", "DATASEC"} -> Ret(Ordered(s, id), 0)
          [] kind = "PTR" -> Ordered(pointee, id)
          [] kind \in Modifiers \cup {"ARRAY"} -> ref(1)
          [] kind \in Composite ->
               IF through_ptr /\ ~Anonymous(id) THEN Ret(s, 0)
               ELSE IF members.ret < 0 THEN members ELSE Define(members, id, ~Anonymous(id))
          [] kind \in {"ENUM", "FWD"} ->
               Define(Ret(s, 0), id, ~Anonymous(id) \/ id \notin s.referenced)
          [] kind = "TYPEDEF" ->
               IF ref(1).ret < 0 \/ (through_ptr /\ ref(1).ret = 0) THEN ref(1)
               ELSE Define(ref(1), id, TRUE)
          [] kind = "FUNC_PROTO" -> params

-----------------------------------------------------------------------------
(***************************************************************************)
(* Names: the first of a name keeps it, later ones get a number.           *)
(***************************************************************************)
\* faulty variant: occurrences are not counted
NameDupsFirst(h, name) == 1

NameDups(h, name) == (IF HashmapHas(h, name) THEN HashmapFind(h, name) ELSE 0) + 1

\* btf_dump_resolve_name()
ResolveName(s, id) ==
    IF Anonymous(id) \/ id \in DOMAIN s.named THEN s
    ELSE IF KindOf(id) = "TYPEDEF"
    THEN LET n == NameDups(s.ident_names, NameOf(id)) IN
         [s EXCEPT !.ident_names = HashmapSet(@, NameOf(id), n), !.named = (id :> n) @@ @]
    ELSE LET n == NameDups(s.type_names, NameOf(id)) IN
         [s EXCEPT !.type_names = HashmapSet(@, NameOf(id), n), !.named = (id :> n) @@ @]

\* The enumerators share a name space with typedefs.
EmitEnumDef(s, id) ==
    FoldLeft(LAMBDA f, r : [f EXCEPT !.ident_names =
                 HashmapSet(@, Str(btf, r.name), NameDups(@, Str(btf, r.name)))],
             ResolveName(s, id), TypeById(btf, id).refs)

\* The types on the way from a declaration's type to the one it starts with.
RECURSIVE DeclChain(_)
DeclChain(id) ==
    IF KindOf(id) \in Modifiers \cup {"PTR", "ARRAY", "FUNC_PROTO"}
    THEN <<id>> \o DeclChain(RefOf(id, 1)) ELSE <<id>>

\* btf_dump_emit_type_decl(), btf_dump_emit_struct_def(): the names that a
\* declaration uses; an anonymous struct, union or enum is defined in place.
RECURSIVE EmitTypeDecl(_, _)
EmitTypeDecl(s, id) ==
    LET chain == DeclChain(id)
        last == chain[Len(chain)]
        decls(f, rs) == FoldLeft(EmitTypeDecl, f, rs)
        start == CASE KindOf(last) \in Composite ->
                        IF Anonymous(last) THEN decls(s, Refs(last)) ELSE ResolveName(s, last)
                   [] KindOf(last) = "ENUM" ->
                        IF Anonymous(last) THEN EmitEnumDef(s, last) ELSE ResolveName(s, last)
                   [] KindOf(last) \in {"FWD", "TYPEDEF"} -> ResolveName(s, last)
                   [] OTHER -> s
    IN  FoldLeft(LAMBDA f, c : IF KindOf(c) = "FUNC_PROTO" THEN decls(f, Tail(Refs(c))) ELSE f,
                 start, chain)

EmitStructDef(s, id) == FoldLeft(EmitTypeDecl, ResolveName(s, id), Refs(id))

Printed(s, what, id) ==
    [s EXCEPT !.out = Append(@, [what |-> what, id |-> id,
        name |-> IF Anonymous(id) THEN <<"", id>> ELSE <<NameOf(id), s.named[id]>>])]

\* faulty variant: the declaration is only noted
EmitFwdSilent(s, id) == ResolveName([s EXCEPT !.fwd = @ \cup {id}], id)

EmitFwd(s, id) == Printed(ResolveName([s EXCEPT !.fwd = @ \cup {id}], id), "fwd", id)

Blacklisted(id) == NameOf(id) = "__builtin_va_list"
MissingBaseTypes == {"__Poly8_t", "__Poly16_t", "__Poly64_t", "__Poly128_t"}

EmitTypedefDef(s, id) ==
    IF Blacklisted(id) THEN s
    ELSE Printed(EmitTypeDecl(ResolveName(s, id), RefOf(id, 1)), "typedef", id)

-----------------------------------------------------------------------------
(***************************************************************************)
(* btf_dump_emit_type(): cont is the struct, union or typedef that the     *)
(* type is part of, 0 at top level.                                        *)
(***************************************************************************)
Emitted(s, id) == [s EXCEPT !.emitting = @ \ {id}, !.emitted = @ \cup {id}]

RECURSIVE EmitType(_, _, _)
EmitType(s, id, cont) ==
    LET kind == KindOf(id)
        e == [s EXCEPT !.emitting = @ \cup {id}]
        each(f, c) == FoldLeft(LAMBDA g, r : EmitType(g, r, c), f, Refs(id))
        again == CASE id \in s.fwd -> s
                   [] id \notin s.fwd /\ kind \in Composite ->
                        IF id = cont \/ Anonymous(id) THEN s ELSE EmitFwd(s, id)
                   [] id \notin s.fwd /\ kind = "TYPEDEF" ->
                        [EmitTypedefDef(s, id) EXCEPT !.fwd = @ \cup {id}]
        members == IF cont = 0 \/ Anonymous(id) THEN each(e, IF Anonymous(id) THEN cont ELSE id)
                   ELSE IF id \notin s.fwd /\ id # cont THEN EmitFwd(e, id) ELSE e
        aliased == EmitType(e, RefOf(id, 1), id)
    IN  CASE id \in s.emitted -> s
          [] id \in s.emitting -> again
          [] OTHER ->
        CASE kind = "INT" ->
               LET f == Emitted(ResolveName(s, id), id)
               IN  IF NameOf(id) \in MissingBaseTypes THEN Printed(f, "alias", id) ELSE f
          [] kind = "ENUM" ->
               Emitted(IF cont = 0 THEN Printed(EmitEnumDef(s, id), "def", id) ELSE s, id)
          [] kind \in Modifiers \cup {"PTR", "ARRAY"} -> EmitType(s, RefOf(id, 1), cont)
          [] kind = "FWD" -> Emitted(Printed(ResolveName(s, id), "fwd", id), id)
          [] kind = "TYPEDEF" ->
               Emitted(IF id \in aliased.fwd THEN aliased ELSE EmitTypedefDef(aliased, id), id)
          [] kind \in Composite ->
               IF cont = 0 THEN Emitted(Printed(EmitStructDef(members, id), "def", id), id)
               ELSE [members EXCEPT !.emitting = @ \ {id}]
          [] kind = "FUNC_PROTO" -> each(s, cont)
          [] OTHER -> s

-----------------------------------------------------------------------------
\* Types are in, and refer to types that are.
Closed ==
    /\ ~Incomplete
    /\ \A id \in 1..NrTypes(btf) : \A n \in DOMAIN Refs(id) : RefOf(id, n) <= NrTypes(btf)

\* btf_dump__dump_type(), of a BTF that is not deduplicated any more; memory for
\* the queue may be missing the first time.
DumpType(id) ==
    /\ d.phase \in {"none", "done"} /\ Closed
    /\ Cardinality(dump.dumped) < input.dumps
    /\ \E room \in IF dump.room \/ ~Faults THEN {TRUE} ELSE BOOLEAN :
         LET s == OrderType([Resized EXCEPT !.room = room], id, FALSE)
             e == FoldLeft(LAMBDA f, x : EmitType(f, x, 0), s, s.queue)
         IN  dump' = [(IF s.ret < 0 THEN [s EXCEPT !.failed = TRUE] ELSE e) EXCEPT
                        !.dumped = @ \cup {id}, !.queue = <<>>, !.ret = 0,
                        !.room = dump.room \/ s.queue # <<>>]
    /\ UNCHANGED <<wvars, dvars>>

Finished == ~Incomplete /\ ~ToAdd /\ UNCHANGED bvars

Init == WriteInit /\ DedupInit /\ DumpInit

Next ==
    \/ In("none") /\ WriteNext /\ UNCHANGED <<dvars, dump>>
    \/ dump.last = 0 /\ DedupNext /\ UNCHANGED dump
    \/ In("done") /\ (GetRaw \/ Load \/ SetEndianness) /\ UNCHANGED <<dvars, dump>>
    \/ \E id \in 1..NrTypes(btf) : DumpType(id)
    \/ Finished

Spec == Init /\ [][Next]_bvars

-----------------------------------------------------------------------------
\* What has to be written before a declaration with this type: <<"declared",
\* id>>, or <<"defined", id>> where the size of the type has to be known.
\* Through a pointer it need not be, except that C (strict) wants to know the
\* size of the elements of any array.
RECURSIVE Needs(_, _, _)
Needs(id, ptr, strict) ==
    LET kind == KindOf(id) IN
    CASE kind = "PTR" -> Needs(RefOf(id, 1), TRUE, strict)
      [] kind \in Modifiers -> Needs(RefOf(id, 1), ptr, strict)
      [] kind = "ARRAY" -> Needs(RefOf(id, 1), ptr /\ ~strict, strict)
      [] kind = "FUNC_PROTO" -> UNION {Needs(r, TRUE, strict) : r \in Range(Refs(id))}
      [] kind \in Composite ->
           IF Anonymous(id) THEN UNION {Needs(r, FALSE, strict) : r \in Range(Refs(id))}
           ELSE {<<IF ptr THEN "declared" ELSE "defined", id>>}
      [] kind = "ENUM" -> IF Anonymous(id) THEN {} ELSE {<<"declared", id>>}
      [] kind = "FWD" -> {<<"declared", id>>}
      [] kind = "TYPEDEF" ->
           (IF Blacklisted(id) THEN {} ELSE {<<"declared", id>>}) \cup
           (IF ptr THEN {} ELSE Needs(RefOf(id, 1), FALSE, strict))
      [] OTHER -> {}

ItemNeeds(item, strict) ==
    CASE item.what = "typedef" -> Needs(RefOf(item.id, 1), TRUE, strict)
      [] item.what = "def" /\ KindOf(item.id) \in Composite ->
           UNION {Needs(r, FALSE, strict) : r \in Range(Refs(item.id))} \ {<<"declared", item.id>>}
      [] OTHER -> {}

Before(n, what, id) ==
    \E k \in 1..n - 1 :
        /\ dump.out[k].id = id
        /\ what = "defined" => dump.out[k].what = "def"

InOrder(strict) ==
    ~dump.failed => \A n \in DOMAIN dump.out : \A need \in ItemNeeds(dump.out[n], strict) :
        Before(n, need[1], need[2])

(***************************************************************************)
(* Whichever types are dumped in whichever order, each definition comes    *)
(* after the definitions of what it embeds and the declarations of what it *)
(* names, the rule of the comment at btf_dump_order_type().                *)
(***************************************************************************)
DefinedInOrder == InOrder(FALSE)

(***************************************************************************)
(* The output is "compilable C" as btf_dump__dump_type() says: the element *)
(* type of an array is defined before it even behind a pointer.            *)
(***************************************************************************)
Compilable == InOrder(TRUE)

\* Kinds whose named types are items of their own.
Defining == {"STRUCT", "UNION", "ENUM", "FWD", "TYPEDEF"}

\* The name space and name under which an item defines something.
Defines(item) == <<item.what = "typedef", item.name>>
IsDefinition(item) == item.what \in {"def", "typedef"} \/ KindOf(item.id) = "FWD"

(***************************************************************************)
(* Nothing is defined twice, though dump_type() may be called for a type   *)
(* and for others that need it, nor are two types defined by one name,     *)
(* though types of a BTF may share it; and each type that was asked for is *)
(* there.                                                                  *)
(***************************************************************************)
DefinedOnce ==
    /\ \A m, n \in DOMAIN dump.out :
         m # n /\ IsDefinition(dump.out[m]) /\ IsDefinition(dump.out[n]) =>
             Defines(dump.out[m]) # Defines(dump.out[n])
    /\ ~dump.failed => \A id \in dump.dumped :
         KindOf(id) \in Defining /\ ~Anonymous(id) /\ ~Blacklisted(id) =>
             \E n \in DOMAIN dump.out : dump.out[n].id = id /\ IsDefinition(dump.out[n])

=============================================================================
