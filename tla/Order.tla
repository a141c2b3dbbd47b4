-------------------------------- MODULE Order --------------------------------
(***************************************************************************)
(* The orderer (order.c): a depth-first topological sort of the top-level  *)
(* declarations of one module, so that the resolver meets what a           *)
(* declaration refers to before the declaration.                           *)
(*                                                                         *)
(* Declarations are numbered as the parser saw them, after orderer_new has *)
(* refused or skipped duplicates.  The program is the environment's: what  *)
(* a declaration is (`kind`) and what it refers to (`refs`) is chosen when *)
(* the orderer comes to it, which is when the code looks.  Kind "other"    *)
(* stands for the declarations without a special case.  A struct or union  *)
(* template is a struct or union without references, of which others use   *)
(* the name, a function template an "other" one: the orderer does not look *)
(* into templates, and `refs` is what it looks at.  References out of the  *)
(* module change nothing.                                                  *)
(***************************************************************************)
EXTENDS Naturals, Sequences

CONSTANTS
    N,          \* bound: declarations of the module
    MaxRefs,    \* bound: references of one declaration
    Kinds,      \* the kinds of declarations of the module, besides "extend"
    Uses        \* the ways in which they refer to each other

ASSUME NAssumption == N \in Nat
ASSUME MaxRefsAssumption == MaxRefs \in Nat
ASSUME KindsAssumption == Kinds \subseteq {"struct", "union", "enum", "other"}

\* How a declaration uses what it refers to: its name alone (a pointer to it,
\* a value, a function), its size (an array of it, sizeof), its layout (a
\* member variable of that type, an initializer), or what is declared in it
\* (`S::x`).  After its last member variable a struct or union uses of itself a
\* name only, unless it looks for what is declared further down; a union that
\* looks for what is declared further up uses a name only, wherever it does so.
ASSUME UsesAssumption == Uses \subseteq {"name", "size", "layout", "member"}

Decls == 1..N

VARIABLES
    phase,              \* where the compilation of the module is
    kind, refs,         \* the program, as far as it has been looked at
    extends,            \* the `extend` declarations
    state,              \* tldecl.state
    next,               \* the index of the loop in order()
    dependencies,       \* orderer.dependencies: the activations of order_tldecl
    topological_order   \* orderer.topological_order

program == <<kind, refs, extends>>
ordervars == <<state, next, dependencies, topological_order>>
vars == <<phase, program, ordervars>>

SeqElems(s) == {s[i] : i \in 1..Len(s)}
Top == dependencies[Len(dependencies)]
Targets(d) == {r.to : r \in SeqElems(refs[d])}

-----------------------------------------------------------------------------
Init ==
    /\ phase = "check"
    /\ kind = [d \in Decls |-> "unseen"]
    /\ refs = [d \in Decls |-> <<>>]
    /\ extends \in SUBSET Decls
    /\ state = [d \in Decls |-> "UNORDERED"]
    /\ next = 1
    /\ dependencies = <<>>
    /\ topological_order = <<>>

\* order() looks for a declaration that follows an extend declaration.
Misplaced == \E i \in Decls : i \in extends /\ i + 1 \in Decls \ extends

Check ==
    /\ phase = "check"
    /\ phase' = IF Misplaced THEN "misplaced" ELSE "order"
    /\ UNCHANGED <<program, ordervars>>

\* order_tldecl for an unordered declaration, up to the references in it:
\* structs and unions are marked as ordered before their members.
Enter(d) ==
    /\ \E k \in IF d \in extends THEN {"extend"} ELSE Kinds :
         /\ kind' = [kind EXCEPT ![d] = k]
         /\ state' = [state EXCEPT ![d] = IF k \in {"struct", "union"}
                                            THEN "ORDERED" ELSE "ORDERING"]
    /\ dependencies' = Append(dependencies, d)

\* Mutant of NextDecl: the loop orders what is ordered already again.
NextDeclAgain ==
    /\ phase = "order"
    /\ dependencies = <<>>
    /\ next \in Decls
    /\ next' = next + 1
    /\ Enter(next)
    /\ UNCHANGED <<phase, refs, extends, topological_order>>

\* One iteration of order()'s loop, as far as order_tldecl is entered.
NextDecl ==
    /\ phase = "order"
    /\ dependencies = <<>>
    /\ next \in Decls
    /\ next' = next + 1
    /\ IF state[next] = "ORDERED"
         THEN UNCHANGED <<kind, state, dependencies>>
         ELSE Enter(next)
    /\ UNCHANGED <<phase, refs, extends, topological_order>>

\* order_name: a declaration that is open and not marked is a circle, and the
\* compiler exits.
Reference(to, use) ==
    /\ phase = "order"
    /\ dependencies # <<>>
    /\ kind[Top] # "extend"
    /\ Len(refs[Top]) < MaxRefs
    /\ refs' = [refs EXCEPT ![Top] = Append(@, [to |-> to, use |-> use])]
    /\ CASE state[to] = "ORDERED" -> UNCHANGED <<phase, kind, state, dependencies>>
         [] state[to] = "ORDERING" ->
              /\ phase' = "circular"
              /\ UNCHANGED <<kind, state, dependencies>>
         [] state[to] = "UNORDERED" ->
              /\ Enter(to)
              /\ UNCHANGED phase
    /\ UNCHANGED <<extends, next, topological_order>>

\* The values of an enum are ordered: it is marked before its functions.
EnumValues ==
    /\ phase = "order"
    /\ dependencies # <<>>
    /\ kind[Top] = "enum"
    /\ state[Top] = "ORDERING"
    /\ state' = [state EXCEPT ![Top] = "ORDERED"]
    /\ UNCHANGED <<phase, program, next, dependencies, topological_order>>

\* Mutant of Finish: the declaration is put in front of the order.
FinishInFront ==
    /\ phase = "order"
    /\ dependencies # <<>>
    /\ kind[Top] = "enum" => state[Top] = "ORDERED"
    /\ state' = [state EXCEPT ![Top] = "ORDERED"]
    /\ dependencies' = SubSeq(dependencies, 1, Len(dependencies) - 1)
    /\ topological_order' = <<Top>> \o topological_order
    /\ UNCHANGED <<phase, program, next>>

\* Mutant of Finish: the declaration is not marked as ordered.
FinishUnmarked ==
    /\ phase = "order"
    /\ dependencies # <<>>
    /\ kind[Top] = "enum" => state[Top] = "ORDERED"
    /\ dependencies' = SubSeq(dependencies, 1, Len(dependencies) - 1)
    /\ topological_order' = Append(topological_order, Top)
    /\ UNCHANGED <<phase, program, state, next>>

\* order_decl returns: the rest of order_tldecl.
Finish ==
    /\ phase = "order"
    /\ dependencies # <<>>
    /\ kind[Top] = "enum" => state[Top] = "ORDERED"
    /\ state' = [state EXCEPT ![Top] = "ORDERED"]
    /\ dependencies' = SubSeq(dependencies, 1, Len(dependencies) - 1)
    /\ topological_order' = Append(topological_order, Top)
    /\ UNCHANGED <<phase, program, next>>

\* The loop in order() ends.
Ordered ==
    /\ phase = "order"
    /\ dependencies = <<>>
    /\ next \notin Decls
    /\ phase' = "ordered"
    /\ UNCHANGED <<program, ordervars>>

\* order_decl, order_expr, order_type and order_symbol walk the innermost open
\* declaration: any references, in any order.  Names of extend declarations
\* are not looked up.
Walk == \E to \in Decls \ extends, use \in Uses : Reference(to, use)

Order == Check \/ NextDecl \/ Walk \/ EnumValues \/ Finish \/ Ordered

Spec == Init /\ [][Order]_vars

-----------------------------------------------------------------------------
\* The types of the variables; a declaration is unordered until it is looked
\* at, and being ordered only while it is open.
OrderTypeOK ==
    /\ phase \in {"check", "misplaced", "order", "circular", "ordered",
                  "resolve", "rejected", "resolved"}
    /\ kind \in [Decls -> {"unseen", "extend", "struct", "union", "enum", "other"}]
    /\ refs \in [Decls -> Seq([to : Decls, use : {"name", "size", "layout", "member"}])]
    /\ extends \subseteq Decls
    /\ state \in [Decls -> {"UNORDERED", "ORDERING", "ORDERED"}]
    /\ next \in 1..N + 1
    /\ dependencies \in Seq(Decls)
    /\ topological_order \in Seq(Decls)
    /\ \A d \in Decls :
         /\ state[d] = "UNORDERED" <=> kind[d] = "unseen"
         /\ state[d] = "ORDERING" => d \in SeqElems(dependencies)

Before(i) == {topological_order[j] : j \in 1..i - 1}

\* No declaration is ordered twice, or ordered while it is still open, and
\* when order() ends none is left out: the assertion on the counts in order().
EachOnce ==
    /\ \A i \in 1..Len(topological_order) :
         topological_order[i] \notin Before(i) \cup SeqElems(dependencies)
    /\ phase \in {"ordered", "resolve", "resolved", "rejected"} =>
         /\ dependencies = <<>>
         /\ SeqElems(topological_order) = Decls

\* What the orderer has seen a declaration refer to comes before it.  Structs,
\* unions and enums may come later: these are marked before their members are
\* ordered, to allow them to refer to themselves.
NamesFirst ==
    \A i \in 1..Len(topological_order) :
        \A to \in Targets(topological_order[i]) :
            to \in Before(i) \/ kind[to] \in {"struct", "union", "enum"}

\* a refers to b in what has been looked at.
RefersTo(a, b) == b \in Targets(a)

\* A program is refused as circular only for a circle: the last reference of
\* the innermost open declaration is to an open one, from which each open
\* declaration refers to the next.
CircularIsReal ==
    phase = "circular" =>
        \E i \in 1..Len(dependencies) :
            /\ RefersTo(Top, dependencies[i])
            /\ state[dependencies[i]] = "ORDERING"
            /\ \A j \in i..Len(dependencies) - 1 :
                 RefersTo(dependencies[j], dependencies[j + 1])

\* What order_tldecl reports of a circle: each open declaration with the next,
\* and the last with the first.
Reported ==
    LET n == Len(dependencies)
    IN  {<<dependencies[i], dependencies[IF i # n THEN i + 1 ELSE 1]>> : i \in 1..n}

\* tests/error-circular-dependency-basic: "declaration of `bar` (line 2) depends
\* on `baz` (line 1)".  What is reported of a circle is so.
\* The code breaks it: see "Findings" in README.md.
ReportIsTrue ==
    phase = "circular" => \A pair \in Reported : RefersTo(pair[1], pair[2])

\* "Extend declarations are resolved in declaration order after all
\* module-level declarations" (order_decl): what it needs of the order.
ExtendsLast ==
    \A i \in 1..Len(topological_order) :
        topological_order[i] \in extends =>
            \A j \in i + 1..Len(topological_order) :
                /\ topological_order[j] \in extends
                /\ topological_order[i] < topological_order[j]
=============================================================================
