------------------------------- MODULE MCBtf -------------------------------
(***************************************************************************)
(* Inputs for BtfDump: what compilers and linkers produce is modelled by   *)
(* small compilation units, each without duplicates, put one after the     *)
(* other, with or without a base BTF.                                      *)
(***************************************************************************)
EXTENDS BtfDump

\* A unit: types with names in place of offsets and their own type IDs.
T(kind, name, attr, refs) == [kind |-> kind, name |-> name, attr |-> attr, refs |-> refs]
R(name, type) == [name |-> name, type |-> type]
Plain(kind, type) == T(kind, "", "", <<R("", type)>>)

UnitNames(u) ==
    FoldLeft(LAMBDA ss, s : IF s = "" \/ Contains(ss, s) THEN ss ELSE Append(ss, s), <<>>,
             FlattenSeq([n \in DOMAIN u |->
                 <<u[n].name>> \o [k \in DOMAIN u[n].refs |-> u[n].refs[k].name]]))

\* The unit when types and strings come before it.
Placed(u, types, strs) ==
    LET off(s) == IF s = "" THEN 0 ELSE strs + SelectInSeq(UnitNames(u), LAMBDA x : x = s)
        id(t) == IF t = 0 THEN 0 ELSE types + t
    IN  [types |-> [n \in DOMAIN u |-> [u[n] EXCEPT !.name = off(@),
                      !.refs = [k \in DOMAIN @ |-> R(off(@[k].name), id(@[k].type))]]],
         strs |-> UnitNames(u)]

Nothing == [types |-> <<>>, strs |-> <<>>]
Linked(base, units) ==
    FoldLeft(LAMBDA acc, u :
        LET x == Placed(u, Len(base.types) + Len(acc.types), Len(base.strs) + Len(acc.strs))
        IN  [types |-> acc.types \o x.types, strs |-> acc.strs \o x.strs], Nothing, units)

Integer == T("INT", "int", "4", <<>>)

\* struct A with a pointer to a struct B that is declared only; with B defined
\* and pointing back; B with A declared only; another struct B.
Declared == <<Integer, T("FWD", "B", "STRUCT", <<>>), Plain("PTR", 2),
              T("STRUCT", "A", "12", <<R("b", 3), R("i", 1)>>)>>
Cycle == <<T("STRUCT", "A", "12", <<R("b", 3), R("i", 5)>>), T("STRUCT", "B", "8", <<R("a", 4)>>),
           Plain("PTR", 2), Plain("PTR", 1), Integer>>
Back == <<T("FWD", "A", "STRUCT", <<>>), Plain("PTR", 1), T("STRUCT", "B", "8", <<R("a", 2)>>)>>
Clash == <<T("STRUCT", "A", "12", <<R("b", 3), R("i", 4)>>), T("STRUCT", "B", "4", <<R("i", 4)>>),
           Plain("PTR", 2), Integer>>
Structs == {Declared, Cycle, Back, Clash}

\* An enum declared, defined, defined otherwise.
Enum(es) == <<T("ENUM", "E", "4", [n \in DOMAIN es |-> R(es[n], 0)]),
              T("STRUCT", "S", "4", <<R("e", 1)>>), Plain("PTR", 1)>>
Enums == {Enum(<<>>), Enum(<<"X">>), Enum(<<"Y">>)}

\* The other kinds, with two arrays that are the same; a loop of no struct.
Kinds == <<Integer, T("FUNC_PROTO", "", "", <<R("", 0), R("x", 3)>>),
           T("TYPEDEF", "t", "", <<R("", 4)>>), Plain("CONST", 1),
           T("FUNC", "f", "static", <<R("", 2)>>), T("ARRAY", "", "2", <<R("", 3), R("", 1)>>),
           T("ARRAY", "", "2", <<R("", 3), R("", 1)>>),
           T("STRUCT", "Z", "8", <<R("x", 6), R("y", 7)>>), T("VAR", "v", "", <<R("", 8)>>),
           T("DATASEC", ".data", "8", <<R("", 9)>>)>>
Loop == <<Plain("PTR", 2), Plain("CONST", 1)>>

\* For dumping: weak links through typedefs and function types, an anonymous
\* union and an anonymous enum, a compiler's own types; a pointer to an array;
\* a struct that contains itself.
Weak == <<T("STRUCT", "A", "", <<R("x", 2), R("y", 6)>>), Plain("PTR", 3),
          T("TYPEDEF", "B_t", "", <<R("", 4)>>),
          T("STRUCT", "B", "", <<R("a", 5), R("u", 7)>>), Plain("PTR", 1),
          T("ENUM", "", "4", <<R("K", 0)>>), T("UNION", "", "", <<R("b", 2), R("e", 8), R("f", 10)>>),
          T("TYPEDEF", "E_t", "", <<R("", 6)>>),
          T("FUNC_PROTO", "", "", <<R("", 2), R("p", 8), R("q", 5)>>), Plain("PTR", 11),
          T("TYPEDEF", "fn", "", <<R("", 9)>>)>>
Builtin == <<T("INT", "__Poly8_t", "1", <<>>), T("TYPEDEF", "__builtin_va_list", "", <<R("", 1)>>),
             T("STRUCT", "K", "", <<R("l", 2), R("c", 4)>>), T("ENUM", "C", "4", <<R("K", 0)>>),
             T("TYPEDEF", "K", "", <<R("", 3)>>), T("ENUM", "", "4", <<R("K", 0)>>)>>
Array == <<T("STRUCT", "A", "", <<R("p", 2)>>), Plain("PTR", 3),
           T("ARRAY", "", "2", <<R("", 4), R("", 5)>>), T("STRUCT", "B", "", <<R("i", 5)>>), Integer>>
Infinite == <<T("STRUCT", "A", "", <<R("x", 2), R("a", 1)>>), T("STRUCT", "B", "", <<>>),
              T("STRUCT", "C", "", <<R("b", 2)>>)>>

\* What an application adds, to a base or to nothing; the last has names of the
\* base and one that it uses twice.
Adds == <<Integer, T("ENUM", "E", "4", <<R("X", 0), R("Y", 0)>>), T("FWD", "F", "STRUCT", <<>>),
          T("FUNC_PROTO", "", "", <<R("", 1), R("p", 2)>>)>>

Resolve == [dont_resolve_fwds |-> FALSE, collide |-> FALSE]
Options == [dont_resolve_fwds : BOOLEAN, collide : BOOLEAN]

\* The strings for .BTF.ext stand at the end: the accessor of a CO-RE relocation,
\* the section name of all three parts, and a source line.  Line information
\* also names a string that a type has, of the base if there is one.
ExtStrs == <<"0:1", ".text", "return 0;">>

Input(base, units, opts, dumps) ==
    LET b == Linked(Nothing, base)
        p == Linked(b, units)
        end == Len(b.strs) + Len(p.strs)
    IN  [base |-> b, parsed |-> [p EXCEPT !.strs = IF units = <<>> THEN @ ELSE @ \o ExtStrs],
         added |-> Nothing, opts |-> opts, dumps |-> dumps, uses |-> 0,
         ext |-> IF units = <<>> THEN [line_info |-> <<>>, others |-> <<>>]
                 ELSE [line_info |-> <<end + 2, end + 3, 1>>, others |-> <<end + 2, end + 1>>]]

Built(base, unit, dumps, calls) ==
    [Input(base, <<>>, Resolve, dumps) EXCEPT
        !.added = Placed(unit, Len(Linked(Nothing, base).types), 0), !.uses = calls]

MCInputs ==
    {Input(<<>>, <<x, y>>, o, 0) : x, y \in Structs, o \in Options} \cup
    {Input(<<>>, <<x, y, z>>, Resolve, 0) : x, y, z \in Structs} \cup
    {Input(<<x>>, <<y>>, o, 0) : x, y \in Structs, o \in Options} \cup
    {Input(<<x>>, <<y, z>>, Resolve, 0) : x, y, z \in Structs} \cup
    {Input(<<>>, <<x, y, z>>, Resolve, 0) : x, y, z \in Enums} \cup
    {Input(<<x>>, <<y>>, o, 0) : x, y \in Enums \cup {Kinds}, o \in Options} \cup
    {Input(<<>>, <<Loop>>, Resolve, 0), Input(<<>>, <<Kinds, Kinds>>, Resolve, 0)} \cup
    {Input(<<>>, <<u>>, Resolve, 3) : u \in {Cycle, Weak, Array, Infinite, Builtin}} \cup
    {Input(<<>>, us, Resolve, 2) : us \in {<<Declared, Clash>>, <<Enum(<<>>), Enum(<<"X">>)>>, <<Kinds>>}} \cup
    {Built(<<>>, Adds, 1, 2), Built(<<Enum(<<"X">>)>>, Adds, 0, 2)}

\* One compilation unit, with the strings that only .BTF.ext names.
ExtInputs == {Input(<<>>, <<Declared>>, Resolve, 0)}

\* A pointer to an array of structs.
ArrayInputs == {Input(<<>>, <<Array>>, Resolve, 2)}

=============================================================================
