----------------------------- MODULE MCKldLink ------------------------------
(* Two directories and the one the kernel's libraries go to.  a.ko is in   *)
(* two of them, B/a.ko is a link to A/b.ko, and n.ko is not ELF.           *)
EXTENDS KldLink

F(s) == <<s, "ko">>
MCTree ==
    [f \in {<<"A", F("a")>>, <<"A", F("b")>>, <<"B", F("a")>>, <<"B", F("n")>>, <<"libk", F("a")>>} |->
        CASE f = <<"B", F("a")>> -> <<"A", F("b")>>
          [] OTHER -> f]

Def(n, v) == [name |-> n, value |-> v, undef |-> FALSE]
Symtab(s) == [type |-> "SYMTAB", syms |-> s]
MCObjects ==
    [f \in {<<"A", F("a")>>, <<"A", F("b")>>, <<"libk", F("a")>>} |->
        CASE f = <<"A", F("a")>> ->
                <<[type |-> "PROGBITS", syms |-> <<>>],
                  Symtab(<<Def("", 0), Def("f", 1), [name |-> "gg", value |-> 7, undef |-> TRUE]>>)>>
          [] f = <<"A", F("b")>> ->
                <<Symtab(<<Def("", 0), Def("", 3), Def("gg", 2), Def("f", 0)>>),
                  [type |-> "DYNSYM", syms |-> <<Def("gg", 2)>>]>>
          [] OTHER -> <<Symtab(<<Def("", 0)>>)>>]

MCSpecs == {<<F("a")>>, <<F("b"), "m">>, <<F("b"), "a", "SHARED">>, <<F("n"), "", "">>,
            <<F("a"), "", "", "">>}
MCNameLen == [n \in {"", "f", "gg"} |-> CASE n = "" -> 0 [] n = "f" -> 1 [] OTHER -> 2]
Line(n, a, t, m) == [name |-> n, addr |-> a, type |-> t, module |-> m]
MCLines == {Line("f", 1, "T", None), Line("gg", 2, "W", None), Line("gg", 2, "D", "a"),
            Line("f", 3, "T", "kern"), Line("f", 1, "?", "a")}
=============================================================================
