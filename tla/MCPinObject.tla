---------------------------- MODULE MCPinObject ----------------------------
EXTENDS PinObject

MCPaths == {"/a", "/b", "/c"}

M(pin, file, def, kind, slots, preset) ==
    [pin |-> pin, file |-> file, def |-> def, kind |-> kind, slots |-> slots,
     preset |-> preset]
O(ms, ps, file, calls) ==
    [maps |-> ms, progs |-> ps, progFile |-> [j \in DOMAIN ps |-> file], calls |-> calls]

\* A pinned map and data; read-only data that is pinned by the application's
\* wish; a map of maps whose slots lead to a map before and after it; a preset
\* map; another definition for a path; a program not loaded and a sub-program.
Shared(n) == O(<<M("/a", "/a", 1, "plain", <<>>, FALSE), M("none", "/b", 3, "data", <<>>, FALSE)>>,
               <<"subprog", "load">>, "/c", n)
Other == O(<<M("/b", "/b", 3, "rodata", <<>>, FALSE), M("/a", "/a", 1, "plain", <<>>, FALSE)>>,
           <<"load", "skip">>, "/a", 0)
Differs(n) == O(<<M("/a", "/c", 2, "plain", <<>>, FALSE)>>, <<"load">>, "/b", n)
Nested == O(<<M("none", "/a", 1, "plain", <<>>, FALSE), M("/b", "/b", 4, "outer", <<1>>, FALSE)>>,
            <<"load", "reject">>, "/a", 0)
Early == O(<<M("/b", "/b", 4, "outer", <<2>>, FALSE), M("none", "/a", 1, "plain", <<>>, FALSE)>>,
           <<"load">>, "/a", 0)
Preset(n) == O(<<M("none", "/b", 1, "plain", <<>>, TRUE), M("/a", "/a", 1, "plain", <<>>, FALSE)>>,
               <<"load">>, "/c", n)
Two(x, y) == [p \in {"p1", "p2"} |-> IF p = "p1" THEN x ELSE y]

MCProcs == {"p1", "p2"}
MCSetups == {
    Two(Shared(0), Shared(0)), Two(Shared(0), Other), Two(Other, Other),
    Two(Differs(0), Shared(0)), Two(Differs(0), Other), Two(Nested, Other),
    Two(Early, Other), Two(Preset(0), Nested), Two(Nested, Early),
    Two(Shared(1), Differs(1)), Two(Preset(1), Differs(0)), Two(Differs(2), Differs(0)),
    Two(Shared(2), Differs(0)) }

=============================================================================
