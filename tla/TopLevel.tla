------------------------------- MODULE TopLevel -------------------------------
(***************************************************************************)
(* The resolver's two passes over the ordered declarations of a module     *)
(* (resolve(), complete_struct, complete_union, complete_enum).            *)
(*                                                                         *)
(* The first pass creates the symbols of all structs and unions.  The      *)
(* second resolves the declarations in order; a struct or union is         *)
(* completed there.  A name is found when its symbol exists; the size of a *)
(* struct or union that is not complete is zero so far.                    *)
(*                                                                         *)
(* The resolver looks up more than the orderer has looked at (`skipped`):  *)
(* what templates that a declaration instantiates, directly or not, name   *)
(* in what is resolved at once; the template arguments of                  *)
(* `typeof(x)::f[[T]]`; the types of what it names; what is declared in a  *)
(* type by `extend`; what an `extend` declares; `b::x` in the namespace    *)
(* a::b.  The environment chooses these when the resolver comes to the     *)
(* declaration.  Left out is what is found or may be missing: an enum's    *)
(* name in what its own member functions lead to, and a name tested with   *)
(* defined().                                                              *)
(***************************************************************************)
EXTENDS Order, FiniteSets

VARIABLES
    skipped,    \* what a declaration refers to beside refs
    symbols,    \* the declarations whose symbol has been created
    complete,   \* the declarations resolved or completed
    at,         \* the index of the loops in resolve()
    stale,      \* history: <<user, type>> where the size of an incomplete type was read
    missing     \* history: what a rejected declaration could not use

resolvevars == <<skipped, symbols, complete, at, stale, missing>>
allvars == <<vars, resolvevars>>

RInit ==
    /\ Init
    /\ skipped = [d \in Decls |-> {}]
    /\ symbols = {} /\ complete = {} /\ at = 1 /\ stale = {} /\ missing = {}

OrderStep == Order /\ UNCHANGED resolvevars

\* The first pass: symbols for structs and unions, incomplete as yet.
Predeclare ==
    /\ phase = "ordered"
    /\ phase' = "resolve"
    /\ symbols' = {d \in Decls : kind[d] \in {"struct", "union"}}
    /\ UNCHANGED <<program, ordervars, skipped, complete, at, stale, missing>>

\* The declaration that the second pass has come to leads to a name that the
\* orderer has not looked at.  Bound: MaxRefs is for both kinds of references.
LookUp(to, use) ==
    /\ phase = "resolve"
    /\ at <= Len(topological_order)
    /\ LET d == topological_order[at] IN
         /\ Len(refs[d]) + Cardinality(skipped[d]) < MaxRefs
         /\ skipped' = [skipped EXCEPT ![d] = @ \cup {[to |-> to, use |-> use]}]
    /\ UNCHANGED <<phase, program, ordervars, symbols, complete, at, stale, missing>>

\* All that d refers to, and what of it the orderer skipped.
AllRefs(d) == SeqElems(refs[d]) \cup skipped[d]
SkippedTargets(d) == {r.to : r \in skipped[d]}

\* Mutant of Undeclared: an enum's symbol exists only when it is complete.
UndeclaredEnumLate(d) == (Targets(d) \cup SkippedTargets(d)) \ symbols

\* The names in d that get_symbol does not find.  The symbol of an enum is
\* inserted before its member functions are resolved.
Undeclared(d) ==
    (Targets(d) \ (symbols \cup IF kind[d] = "enum" THEN {d} ELSE {}))
        \cup (SkippedTargets(d) \ symbols)

\* The types of these kinds that d uses in this way before they are complete.
UsesEarly(d, use, kinds) ==
    {r.to : r \in {q \in AllRefs(d) :
        q.use = use /\ kind[q.to] \in kinds /\ q.to \notin complete}}

\* Mutant of Incomplete: nothing checks that a type is complete.
IncompleteUnchecked(d) == {}

\* What get_symbol refuses, a structure of which it would look into, and what
\* complete_struct, complete_union and the initializers refuse.
Incomplete(d) ==
    UsesEarly(d, "member", {"struct"})
        \cup UsesEarly(d, "layout", {"struct", "union"})

\* get_symbol looks into an incomplete union, and does not find the name (nor
\* in an incomplete struct, to which typeof(x)::y leads).
Unfilled(d) == UsesEarly(d, "member", {"union"})

\* What d needs and does not find, find in, or find complete.
Lacking(d) == Undeclared(d) \cup Incomplete(d) \cup Unfilled(d)

\* The sizes that d reads too early, and that nothing checks.
EarlySizes(d) == UsesEarly(d, "size", {"struct", "union"})

\* A name or a layout is missing, and the compiler exits.
Reject(d) ==
    /\ phase' = "rejected"
    /\ missing' = Lacking(d)
    /\ UNCHANGED <<symbols, complete, at, stale>>

\* Mutant of Accept: the symbol is not inserted.
AcceptUnnamed(d) ==
    /\ complete' = complete \cup {d}
    /\ stale' = stale \cup {<<d, s>> : s \in EarlySizes(d)}
    /\ at' = at + 1
    /\ UNCHANGED <<phase, symbols, missing>>

\* Mutant of Accept: the loop does not advance.
AcceptStays(d) ==
    /\ symbols' = symbols \cup {d}
    /\ complete' = complete \cup {d}
    /\ stale' = stale \cup {<<d, s>> : s \in EarlySizes(d)}
    /\ UNCHANGED <<phase, at, missing>>

\* d is completed, if it is a struct or union, or else resolved and its symbol inserted.
Accept(d) ==
    /\ symbols' = symbols \cup {d}
    /\ complete' = complete \cup {d}
    /\ stale' = stale \cup {<<d, s>> : s \in EarlySizes(d)}
    /\ at' = at + 1
    /\ UNCHANGED <<phase, missing>>

\* One iteration of the second pass.
ResolveDecl ==
    /\ phase = "resolve"
    /\ at <= Len(topological_order)
    /\ LET d == topological_order[at] IN
         IF Lacking(d) # {} THEN Reject(d) ELSE Accept(d)
    /\ UNCHANGED <<program, ordervars, skipped>>

\* Every declaration is resolved; function bodies follow (DeferResolve).
Resolved ==
    /\ phase = "resolve"
    /\ at > Len(topological_order)
    /\ phase' = "resolved"
    /\ UNCHANGED <<program, ordervars, resolvevars>>

Ended ==
    /\ phase \in {"misplaced", "circular", "rejected", "resolved"}
    /\ UNCHANGED allvars

RNext ==
    \/ OrderStep
    \/ Predeclare
    \/ \E to \in Decls, use \in Uses : LookUp(to, use)
    \/ ResolveDecl
    \/ Resolved
    \/ Ended

RSpec == RInit /\ [][RNext]_allvars
RFairSpec == RSpec /\ WF_allvars(RNext)

-----------------------------------------------------------------------------
\* The types of the variables.
TopLevelTypeOK ==
    /\ OrderTypeOK
    /\ skipped \in [Decls -> SUBSET [to : Decls, use : {"name", "size", "layout", "member"}]]
    /\ symbols \subseteq Decls
    /\ complete \subseteq symbols
    /\ at \in 1..N + 1
    /\ stale \subseteq Decls \X Decls
    /\ missing \subseteq Decls

\* a is before b in the order.
Precedes(a, b) ==
    \E i, j \in 1..Len(topological_order) :
        i < j /\ topological_order[i] = a /\ topological_order[j] = b

\* Of a module that the orderer has ordered the resolver refuses a declaration
\* for what is itself or comes later only, and this is a type that is marked
\* before its members are ordered, or a name that the orderer skipped.  No other
\* kind of name is missing, and no enum is in its own declaration.
RejectedForOrder ==
    phase = "rejected" =>
        LET d == topological_order[at] IN
        /\ missing # {}
        /\ \A m \in missing :
             /\ m = d \/ Precedes(d, m)
             /\ \/ m \in SkippedTargets(d)
                \/ kind[m] \in {"struct", "union"}
                \/ kind[m] = "enum" /\ m # d

\* Whatever is laid out or evaluated from the layout of a struct or union, or
\* from what is declared in it, is so when it is complete: it comes earlier in
\* the order.
LayoutsFirst ==
    \A d \in complete : \A r \in AllRefs(d) :
        r.use \in {"layout", "member"} /\ kind[r.to] \in {"struct", "union"}
            => Precedes(r.to, d)

\* A size that is read too early is that of a struct or union that comes later
\* or is being completed: everything else that has a size comes earlier.
StaleIsLater ==
    \A p \in stale :
        /\ kind[p[2]] \in {"struct", "union"}
        /\ p[1] = p[2] \/ Precedes(p[1], p[2])

\* What the resolver's two passes need of the order.
OrderSuffices == ExtendsLast /\ LayoutsFirst /\ StaleIsLater

\* Every module is refused, or ordered and resolved: neither pass gets stuck.
Decided ==
    <>(phase \in {"misplaced", "circular", "rejected", "resolved"})

\* get_symbol refuses an incomplete type for good, "because this is always a
\* bug if it appears in user code": a module of types is refused only when
\* no order suits it, since some of them need each other's layout in a circle.
\* The code breaks it: see "Findings" in README.md.
RefusedIsBug ==
    phase = "rejected" =>
        \E S \in SUBSET Decls \ {{}} : \A d \in S : \E r \in AllRefs(d) :
            /\ r.to \in S
            /\ \/ r.use \in {"layout", "member"}
               \/ kind[r.to] \notin {"struct", "union"}

\* get_symbol, on a struct that is marked before its members: "This is a
\* special case error check that accounts for this scenario".  In a module
\* that is resolved nothing depends on the size of an incomplete struct.
\* The code breaks it: see "Findings" in README.md.
SizesAreFinal == phase = "resolved" => stale = {}
=============================================================================
