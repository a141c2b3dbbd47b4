------------------------------ MODULE MCSymbols ------------------------------
(***************************************************************************)
(* Values for the constants of Symbols: identifiers of which the one is    *)
(* what a member of the other is mangled to, a hash under which strings    *)
(* of the same length collide, and programs of all kinds of declarations,  *)
(* a few at a time.                                                        *)
(***************************************************************************)
EXTENDS Symbols

Words == {<<"a">>, <<"a", "_", "a">>}
LengthHash(string) == Len(string)

Kinds(kinds, size, lists, parameters) ==
    [kinds |-> kinds, size |-> size, lists |-> lists, parameters |-> parameters]
Parts ==
    <<Kinds({"function", "variable", "block"}, 11, 0, {}),
      Kinds({"function", "constant", "struct"}, 10, 1, {}),
      Kinds({"function", "function template"}, 17, 0, {1, 2}),
      Kinds({"function", "struct template"}, 15, 0, {1}),
      Kinds({"struct template", "constant"}, 14, 2, {1}),
      Kinds({"function", "constant", "extend"}, 11, 0, {})>>

\* A constant that instantiates a struct with a constant in it.
Nested == <<Kinds({"function", "struct template", "constant"}, 16, 1, {1})>>
=============================================================================
