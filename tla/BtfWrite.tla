------------------------------ MODULE BtfWrite ------------------------------
(***************************************************************************)
(* struct btf: type descriptions and their strings, parsed from a file or  *)
(* built up by calls of btf__add_*(), with an optional base BTF that it    *)
(* extends, and the serialised form btf__get_raw_data() caches.            *)
(*                                                                         *)
(* A type is [kind, name, attr, refs]: name is the offset of a string, 0   *)
(* for none; attr stands for the size, encoding, member offsets, linkage,  *)
(* number of elements; refs are the references to other types, each with   *)
(* the offset of its own name: the element and index type of an array, the *)
(* return type and then the parameters of a function prototype, members,   *)
(* enumerators (with type 0), variables of a section.                      *)
(***************************************************************************)
EXTENDS HashMap, FiniteSets

CONSTANTS
    Inputs,             \* [base, parsed, added]: each [types, strs]; ext, the
                        \* offsets of strings in .BTF.ext, [line_info, others]:
                        \* in the line information, and in the function
                        \* information and CO-RE relocations; opts,
                        \* [dont_resolve_fwds, collide : BOOLEAN]; dumps,
                        \* how many types are dumped; uses, how many calls fail
                        \* or serialise
    Faults              \* whether allocations may fail

ASSUME InputsAssumption ==
    \A in \in Inputs : in.base.strs \in Seq(STRING) /\ in.parsed.strs \in Seq(STRING)

VARIABLES
    input,              \* the input of this behaviour
    btf,                \* struct btf
    added,              \* <<types, members>> of input.added that are in
    uses                \* failed and serialising calls so far

wvars == <<input, btf, added, uses>>

Base == input.base
NBase == Len(Base.types)

Void == [kind |-> "VOID", name |-> 0, attr |-> "", refs |-> <<>>]
NoData == <<>>

\* Kinds to which members are added one by one.
Growing == {"STRUCT", "UNION", "ENUM", "DATASEC", "FUNC_PROTO"}
Modifiers == {"CONST", "VOLATILE", "RESTRICT"}

\* btf__new_split() of a file, or btf__new_empty_split() without types: no
\* string index yet, and the data is as it was read.
WriteInit ==
    /\ input \in Inputs
    /\ btf = [types |-> input.parsed.types, strs |-> input.parsed.strs,
              deduped |-> FALSE, modifiable |-> FALSE, swapped |-> FALSE,
              raw |-> <<input.parsed.types, input.parsed.strs>>, rawSwapped |-> NoData]
    /\ added = <<0, 0>> /\ uses = 0

\* btf__str_by_offset()
Str(b, o) ==
    IF o = 0 THEN ""
    ELSE IF o <= Len(Base.strs) THEN Base.strs[o] ELSE b.strs[o - Len(Base.strs)]

\* btf_type_by_id()
TypeById(b, id) ==
    IF id = 0 THEN Void
    ELSE IF id <= NBase THEN Base.types[id] ELSE b.types[id - NBase]

NrTypes(b) == NBase + Len(b.types)

\* faulty variant: cached data survives
EnsureModifiableKeepingRaw(b) ==
    [b EXCEPT !.modifiable = TRUE,
              !.raw = IF b.modifiable THEN b.raw ELSE NoData,
              !.rawSwapped = IF b.modifiable THEN b.rawSwapped ELSE NoData,
              !.deduped = IF b.modifiable THEN @ ELSE b.strs = <<>>]

\* btf_ensure_modifiable(), which drops cached data; a BTF that starts without
\* strings of its own only ever gets distinct ones.
EnsureModifiable(b) ==
    [b EXCEPT !.modifiable = TRUE, !.raw = NoData, !.rawSwapped = NoData,
              !.deduped = IF b.modifiable THEN @ ELSE b.strs = <<>>]

\* btf__find_str(): the base first, 0 if the string is nowhere
FindStr(b, s) ==
    LET inBase == SelectInSeq(Base.strs, LAMBDA x : x = s)
        own == SelectInSeq(b.strs, LAMBDA x : x = s)
    IN  IF inBase # 0 THEN inBase ELSE IF own # 0 THEN Len(Base.strs) + own ELSE 0

\* faulty variant: the base is not searched
AddStrOwn(b, s) ==
    LET own == SelectInSeq(b.strs, LAMBDA x : x = s)
    IN  IF s = "" \/ own # 0 THEN b ELSE [b EXCEPT !.strs = Append(@, s)]

\* btf__add_str(); the offset is then that of FindStr
AddStr(b, s) == IF s = "" \/ FindStr(b, s) # 0 THEN b ELSE [b EXCEPT !.strs = Append(@, s)]

Offset(b, s) == IF s = "" THEN 0 ELSE FindStr(b, s)

-----------------------------------------------------------------------------
\* A string of the description the application has of its types.
Said(o) == IF o = 0 THEN "" ELSE input.added.strs[o]
Described(k) == input.added.types[k]
ToAdd == added[1] < Len(input.added.types)

\* The current type still lacks members that are added one by one.
Given(t) == IF t.kind = "FUNC_PROTO" THEN 1 ELSE 0
Incomplete ==
    /\ added[1] > 0 /\ Described(added[1]).kind \in Growing
    /\ added[2] < Len(Described(added[1]).refs)

\* btf__add_int() ... btf__add_datasec(): a new last type, without the members
\* that follow.  Id is the type ID it gets.
AddType ==
    /\ ~Incomplete /\ ToAdd
    /\ LET t == Described(added[1] + 1)
           n == IF t.kind \in Growing THEN Given(t) ELSE Len(t.refs)
           b == AddStr(EnsureModifiable(btf), Said(t.name))
       IN  /\ btf' = [b EXCEPT !.types = Append(@,
                [t EXCEPT !.name = Offset(b, Said(t.name)),
                          !.refs = [r \in 1..n |-> [name |-> 0, type |-> @[r].type]]])]
           /\ added' = <<added[1] + 1, n>>
    /\ UNCHANGED <<input, uses>>

\* btf__add_field(), add_enum_value(), add_func_param(), add_datasec_var_info():
\* one more for the last type.
AddMember ==
    /\ Incomplete
    /\ LET m == Described(added[1]).refs[added[2] + 1]
           b == AddStr(EnsureModifiable(btf), Said(m.name))
       IN  btf' = [b EXCEPT !.types[Len(b.types)].refs =
              Append(@, [name |-> Offset(b, Said(m.name)), type |-> m.type])]
    /\ added' = [added EXCEPT ![2] = @ + 1]
    /\ UNCHANGED <<input, uses>>

\* The same call runs out of memory: before or after its string was added.
AddFails ==
    /\ Faults /\ uses < input.uses /\ (ToAdd \/ Incomplete)
    /\ LET name == IF Incomplete THEN Described(added[1]).refs[added[2] + 1].name
                   ELSE Described(added[1] + 1).name
           b == EnsureModifiable(btf)
       IN  btf' \in {btf, b, AddStr(b, Said(name))}
    /\ uses' = uses + 1
    /\ UNCHANGED <<input, added>>

\* btf__get_raw_data(), and btf__load(), which serialises in native order.
GetRawData(swap) ==
    /\ uses < input.uses
    /\ btf' = IF swap
              THEN [btf EXCEPT !.rawSwapped = IF @ # NoData THEN @ ELSE <<btf.types, btf.strs>>]
              ELSE [btf EXCEPT !.raw = IF @ # NoData THEN @ ELSE <<btf.types, btf.strs>>]
    /\ uses' = uses + 1
    /\ UNCHANGED <<input, added>>

GetRaw == GetRawData(btf.swapped)
Load == btf.swapped /\ GetRawData(FALSE)

SetEndianness ==
    /\ uses < input.uses
    /\ \E swap \in BOOLEAN :
         btf' = [btf EXCEPT !.swapped = swap,
                            !.rawSwapped = IF swap THEN @ ELSE NoData]
    /\ uses' = uses + 1
    /\ UNCHANGED <<input, added>>

WriteNext == AddType \/ AddMember \/ AddFails \/ GetRaw \/ Load \/ SetEndianness

-----------------------------------------------------------------------------
(***************************************************************************)
(* Data that btf__get_raw_data() would hand out from its cache is that of  *)
(* the types and strings as they are now, after any of these calls and     *)
(* btf__dedup(), in whatever order.  Of btf__finalize_data(), which sets   *)
(* the sizes and offsets of sections in place, nothing is said.            *)
(***************************************************************************)
RawDataCurrent ==
    \A data \in {btf.raw, btf.rawSwapped} : data # NoData => data = <<btf.types, btf.strs>>

(***************************************************************************)
(* A BTF marked strs_deduped, whose strings btf__dedup() leaves alone, has *)
(* no string twice and none that its base has: equal names have one offset.*)
(***************************************************************************)
DedupedStringsDistinct ==
    btf.deduped => IsInjective(btf.strs) /\ Range(btf.strs) \cap Range(Base.strs) = {}

=============================================================================
