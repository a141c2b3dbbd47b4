------------------------------ MODULE Template ------------------------------
(***************************************************************************)
(* Instantiation of templates (resolve.c: xget_template_instance,          *)
(* complete_function, and the loop at the end of resolve()).               *)
(*                                                                         *)
(* Resolving a declaration meets uses of templates and instantiates them,  *)
(* recursively; bodies of functions wait on a list until everything else   *)
(* is resolved.  An instance is kept in the template's table of instances  *)
(* and found there by its arguments.  The chain of the instances that led  *)
(* to the current one is reported with errors, and its length is what      *)
(* stops templates that instantiate themselves with ever larger arguments. *)
(*                                                                         *)
(* The program is the environment's: the kind of each template, the uses   *)
(* in its signature (for a struct or union, in its members) and the uses   *)
(* in its body (in the bodies of its member functions).  An argument is a  *)
(* type over the one before: the n-th pointer to a base type.              *)
(***************************************************************************)
EXTENDS Naturals, Sequences

CONSTANTS
    Templates,  \* the templates of the program
    Main,       \* the function main, which is no template
    Args,       \* how the uses in a template with the parameter T make
                \* their argument: T itself, *T, or a type without T
    MaxUses,    \* bound: uses in one signature or body
    MaxDepth    \* MAX_DEPTH of verify_template_chain_depth (16)

ASSUME MainAssumption == Main \notin Templates
ASSUME ArgsAssumption == Args \subseteq {"same", "pointer", "base"}
ASSUME MaxUsesAssumption == MaxUses \in Nat
ASSUME MaxDepthAssumption == MaxDepth \in Nat

Owners == Templates \cup {Main}

Use == [of : Templates, arg : Args]

Instances == Owners \X Nat

VARIABLES
    kind,       \* the program: "function" or "struct" for each template
    signature,  \* the program: the uses in each signature
    body,       \* the program: the uses in each body
    phase,      \* "resolve", "resolved", or why the compiler stopped
    cache,      \* template.symbols: the instances that can be found
    chain,      \* context()->template_instantiation_chain, oldest link first
    acts,       \* the activations of xget_template_instance, and below them
                \* that of complete_function
    incomplete_functions,   \* resolver->incomplete_functions
    at          \* the index of the loop over incomplete_functions

program == <<kind, signature, body>>
resolver == <<cache, chain, acts, incomplete_functions, at>>
vars == <<program, phase, resolver>>

UpTo(S, n) == UNION {[1..k -> S] : k \in 0..n}
Top == acts[Len(acts)]
Front(s) == SubSeq(s, 1, Len(s) - 1)

Instance(use, n) ==
    <<use.of, CASE use.arg = "same" -> n
                [] use.arg = "pointer" -> n + 1
                [] use.arg = "base" -> 0>>

\* What an activation still has to resolve; `saved` is the chain that it puts
\* back (link->next, or complete_function's save_chain).
Activation(what, inst, uses) ==
    [what |-> what, inst |-> inst, uses |-> uses, saved |-> chain]

-----------------------------------------------------------------------------
\* Everything but main's body has been resolved.
Init ==
    /\ kind \in [Templates -> {"function", "struct"}]
    /\ signature \in [Templates -> UpTo(Use, MaxUses)]
    /\ body \in [Owners -> UpTo(Use, MaxUses)]
    /\ phase = "resolve"
    /\ cache = {}
    /\ chain = <<>>
    /\ acts = <<>>
    /\ incomplete_functions = <<[inst |-> <<Main, 0>>, chain |-> <<>>]>>
    /\ at = 1

Resolving(what) ==
    /\ phase = "resolve"
    /\ acts # <<>>
    /\ Top.what = what
    /\ Top.uses = <<>>

\* The next use in what is being resolved.
NextUse == Instance(Head(Top.uses), Top.inst[2])
Using ==
    /\ phase = "resolve"
    /\ acts # <<>>
    /\ Top.uses # <<>>
Advance == [acts EXCEPT ![Len(acts)].uses = Tail(@)]

\* The instance has been created already and is reused.
Reuse ==
    /\ Using
    /\ NextUse \in cache
    /\ acts' = Advance
    /\ UNCHANGED <<program, phase, cache, chain, incomplete_functions, at>>

\* Mutant of Cached: a struct is added to the cache with its members complete.
CachedLate(inst) == {}

\* What is in the cache before the uses in inst's signature are resolved: the
\* symbol of a struct or union, but not that of a function.
Cached(inst) == IF kind[inst[1]] = "struct" THEN {inst} ELSE {}

\* Mutant of Instantiate: the depth is checked before the link is added.
InstantiateDeeper ==
    /\ Using
    /\ NextUse \notin cache
    /\ chain' = Append(chain, NextUse)
    /\ IF Len(chain) > MaxDepth
         THEN /\ phase' = "too deep"
              /\ UNCHANGED <<cache, acts>>
         ELSE /\ cache' = cache \cup Cached(NextUse)
              /\ acts' = Append(Advance,
                                Activation("instance", NextUse, signature[NextUse[1]]))
              /\ UNCHANGED phase
    /\ UNCHANGED <<program, incomplete_functions, at>>

\* A new instance, up to the uses in its signature or members.
Instantiate ==
    /\ Using
    /\ NextUse \notin cache
    /\ chain' = Append(chain, NextUse)
    /\ IF Len(chain') > MaxDepth
         THEN /\ phase' = "too deep"
              /\ UNCHANGED <<cache, acts>>
         ELSE /\ cache' = cache \cup Cached(NextUse)
              /\ acts' = Append(Advance,
                                Activation("instance", NextUse, signature[NextUse[1]]))
              /\ UNCHANGED phase
    /\ UNCHANGED <<program, incomplete_functions, at>>

\* Mutant of Finish: a link stays on the chain after its instance.
FinishKeepsLink ==
    /\ Resolving("instance")
    /\ incomplete_functions' =
         Append(incomplete_functions, [inst |-> Top.inst, chain |-> chain])
    /\ IF kind[Top.inst[1]] = "function" /\ Top.inst \in cache
         THEN /\ phase' = "redeclared"
              /\ UNCHANGED <<cache, acts>>
         ELSE /\ cache' = cache \cup {Top.inst}
              /\ acts' = Front(acts)
              /\ UNCHANGED phase
    /\ UNCHANGED <<program, chain, at>>

\* The signature is resolved.  The bodies wait with the chain as it is now;
\* the symbol of a function is added to the cache, which fails if the
\* signature has led to the same instance; the link is taken off the chain.
Finish ==
    /\ Resolving("instance")
    /\ incomplete_functions' =
         Append(incomplete_functions, [inst |-> Top.inst, chain |-> chain])
    /\ IF kind[Top.inst[1]] = "function" /\ Top.inst \in cache
         THEN /\ phase' = "redeclared"
              /\ UNCHANGED <<cache, chain, acts>>
         ELSE /\ cache' = cache \cup {Top.inst}
              /\ chain' = Top.saved
              /\ acts' = Front(acts)
              /\ UNCHANGED phase
    /\ UNCHANGED <<program, at>>

\* complete_function up to the uses in the body.
CompleteFunction ==
    /\ phase = "resolve"
    /\ acts = <<>>
    /\ at <= Len(incomplete_functions)
    /\ LET f == incomplete_functions[at] IN
         /\ chain' = f.chain
         /\ acts' = <<Activation("body", f.inst, body[f.inst[1]])>>
    /\ UNCHANGED <<program, phase, cache, incomplete_functions, at>>

\* Mutant of Completed: the loop starts over.
CompletedAgain ==
    /\ Resolving("body")
    /\ chain' = Top.saved
    /\ acts' = <<>>
    /\ at' = 1
    /\ UNCHANGED <<program, phase, cache, incomplete_functions>>

\* complete_function returns.
Completed ==
    /\ Resolving("body")
    /\ chain' = Top.saved
    /\ acts' = <<>>
    /\ at' = at + 1
    /\ UNCHANGED <<program, phase, cache, incomplete_functions>>

\* The loop over the incomplete functions reaches the end of the list.
Resolved ==
    /\ phase = "resolve"
    /\ acts = <<>>
    /\ at > Len(incomplete_functions)
    /\ phase' = "resolved"
    /\ UNCHANGED <<program, resolver>>

Stopped == phase # "resolve" /\ UNCHANGED vars

TNext ==
    \/ Reuse \/ Instantiate \/ Finish
    \/ CompleteFunction \/ Completed \/ Resolved \/ Stopped

TSpec == Init /\ [][TNext]_vars
TFairSpec == TSpec /\ WF_vars(TNext)

-----------------------------------------------------------------------------
\* The types of the variables; the chain is only too long for the compiler to
\* stop there and then.
TemplateTypeOK ==
    /\ phase \in {"resolve", "resolved", "too deep", "redeclared"}
    /\ Len(chain) <= IF phase = "too deep" THEN MaxDepth + 1 ELSE MaxDepth
    /\ cache \subseteq Instances
    /\ chain \in Seq(Instances)
    /\ acts \in Seq([what : {"instance", "body"}, inst : Instances,
                     uses : Seq(Use), saved : Seq(Instances)])
    /\ incomplete_functions \in Seq([inst : Instances, chain : Seq(Instances)])
    /\ at \in 1..Len(incomplete_functions) + 1

\* The symbol of a struct is in the cache before its members are resolved, so
\* members that lead back to it find it: "If we did not add the instance to
\* the cache first then any self referential template instances would cause
\* instance resolution to enter an infinite loop."  No struct is on the chain,
\* or among the activations, twice.
NoStructTwice ==
    \A i, j \in 1..Len(chain) :
        i < j /\ chain[i] = chain[j] => kind[chain[i][1]] = "function"

\* inst contains a use that is an instance of `to`.
Elems(s) == {s[i] : i \in 1..Len(s)}
Leads(inst, to) ==
    \E u \in Elems(body[inst[1]]) \cup
             (IF inst[1] = Main THEN {} ELSE Elems(signature[inst[1]])) :
        Instance(u, inst[2]) = to

\* The chain that is reported with an error is a way through the program: it
\* starts in main, each link contains a use of the next, and it ends with the
\* instance whose signature or body is being resolved.  So do the chains that
\* wait with the incomplete functions.
IsWay(c) ==
    \A i \in 1..Len(c) : Leads(IF i = 1 THEN <<Main, 0>> ELSE c[i - 1], c[i])
ChainIsHonest ==
    /\ IsWay(chain)
    /\ \A f \in Elems(incomplete_functions) : IsWay(f.chain)
    /\ phase = "resolve" =>
         IF acts = <<>> THEN chain = <<>>
         ELSE Top.inst = IF chain = <<>> THEN <<Main, 0>> ELSE chain[Len(chain)]

\* No argument is nested deeper than the chain may be long: though bodies are
\* resolved after the instances that they belong to have been left, a template
\* cannot instantiate itself with larger and larger types.
ArgumentsAreBounded ==
    \A inst \in cache \cup {f.inst : f \in Elems(incomplete_functions)} :
        inst[2] <= MaxDepth

\* The body of an instance is completed once: no two functions of the same
\* name reach the code generator.
BodiesOnce ==
    \A i, j \in 1..Len(incomplete_functions) :
        i < j /\ j <= at => incomplete_functions[i].inst # incomplete_functions[j].inst

\* When the resolver is done, every function that something can refer to has
\* a body, including those that bodies at the end of the list have led to.
NoneIncomplete ==
    phase = "resolved" =>
        \A inst \in cache : \E i \in 1..at - 1 :
            incomplete_functions[i].inst = inst

\* Every instance that something can refer to is there once, structs as well as
\* the bodies of functions, and nested no deeper than the chain.
InstancesOnce == NoStructTwice /\ BodiesOnce /\ NoneIncomplete /\ ArgumentsAreBounded

\* The resolver comes to an end although the list of incomplete functions
\* grows while it is worked off.
InstantiationEnds == <>(phase # "resolve")

\* xget_template_instance: "Check if a symbol corresponding to these template
\* arguments has already been created. If so then we reuse the cached symbol."
\* No instance of a function is created a second time.
\* The code breaks it: see "Findings" in README.md.
InstanceOnce ==
    \A i, j \in 1..Len(incomplete_functions) :
        i < j => incomplete_functions[i].inst # incomplete_functions[j].inst
=============================================================================
