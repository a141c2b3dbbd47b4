---------------------------- MODULE DeferCodegen ----------------------------
(***************************************************************************)
(* The code generator's lowering of `defer` (codegen.c) and the execution  *)
(* of the C function that comes out of it.                                 *)
(*                                                                         *)
(* The tree that DeferResolve leaves is walked by codegen_block, and every *)
(* way out of a block is preceded by the bodies that codegen_defers finds  *)
(* between its two pointers, generated in place.  The C text is the        *)
(* sequence `out`.  It then runs under C's rules: conditions go either     *)
(* way, break and continue mean the innermost loop *of the text*.          *)
(***************************************************************************)
EXTENDS DeferResolve, FiniteSets

CONSTANT MaxOut     \* bound: tokens of generated C

ASSUME MaxOutAssumption == MaxOut \in Nat

VARIABLES
    acts,       \* the activations of codegen_block: the body and, nested, defers
    out,        \* the generated C
    opens,      \* the C blocks of out that are not closed yet
    pc,         \* the next token of out to execute
    pending     \* history: the defers reached and not yet run, newest last

codegen == <<acts, out, opens>>
runtime == <<pc, pending>>
allvars == <<vars, codegen, runtime>>

Act == acts[Len(acts)]
AstTok == ast[Act.pc]

\* Where codegen_block stands: at ast[p], and, when that is a way out, with
\* codegen_defers' `current` at the defer it begins with.
Activation(p, hi) ==
    [pc |-> p, hi |-> hi,
     current |-> IF p <= hi /\ ast[p].op \in Exits THEN ast[p].begin ELSE Null]
Advance(p) == [acts EXCEPT ![Len(acts)] = Activation(p, Act.hi)]

\* A token of C.  `defer` is the defer that a "reach" or "run" is about and
\* `open` the token that opens the block that an "end" ends; `src` is the
\* token of the tree that it was generated from.
CTok(op, defer, open, src) == [op |-> op, defer |-> defer, open |-> open, src |-> src]

\* Mutant of OpenC: the block is noted after its opening token, not before.
OpenCLate(op, defer, src) ==
    /\ Len(out) < MaxOut
    /\ out' = Append(out, CTok(op, defer, 0, src))
    /\ opens' = Append(opens, Len(out) + 2)

OpenC(op, defer, src) ==
    /\ Len(out) < MaxOut
    /\ out' = Append(out, CTok(op, defer, 0, src))
    /\ opens' = Append(opens, Len(out) + 1)

-----------------------------------------------------------------------------
CInit ==
    /\ Init
    /\ acts = <<>> /\ out = <<>> /\ opens = <<>>
    /\ pc = 0 /\ pending = <<>>

ResolveStep == Resolve /\ UNCHANGED <<codegen, runtime>>

\* codegen_block is called for the body of the function.
GenFunction ==
    /\ phase = "resolved"
    /\ phase' = "codegen"
    /\ acts' = <<Activation(2, Len(ast))>>
    /\ OpenC("fn", Null, 1)
    /\ UNCHANGED <<count, ast, heap, frames, resolver, history, runtime>>

\* codegen_stmt_if, codegen_stmt_switch, codegen_stmt_for_range and
\* codegen_stmt_for_expr: the head, and the start of the body's block.
GenOpen ==
    /\ phase = "codegen"
    /\ AstTok.op \in {"if", "for"}
    /\ OpenC(AstTok.op, Null, Act.pc)
    /\ acts' = Advance(Act.pc + 1)
    /\ UNCHANGED <<vars, runtime>>

\* codegen_stmt_defer generates nothing; "reach" marks its place in the text.
GenDefer ==
    /\ phase = "codegen"
    /\ AstTok.op = "defer"
    /\ \E d \in 1..Len(heap) :
         /\ heap[d].lo = Act.pc
         /\ out' = Append(out, CTok("reach", d, 0, Act.pc))
         /\ acts' = Advance(heap[d].hi + 1)
    /\ UNCHANGED <<vars, opens, runtime>>

Unwinding == phase = "codegen" /\ AstTok.op \in Exits

\* Mutant of GenUnwind: `current` stays at the defer just generated.
GenUnwindStays ==
    /\ Unwinding
    /\ Act.current # AstTok.end
    /\ Act.current # Null
    /\ LET d == Act.current IN
         /\ OpenC("run", d, heap[d].lo)
         /\ acts' = Append(acts, Activation(heap[d].lo + 1, heap[d].hi))
    /\ UNCHANGED <<vars, runtime>>

\* One iteration of codegen_defers: the body is generated here and now.
GenUnwind ==
    /\ Unwinding
    /\ Act.current # AstTok.end
    /\ Act.current # Null
    /\ LET d == Act.current IN
         /\ OpenC("run", d, heap[d].lo)
         /\ acts' = Append([acts EXCEPT ![Len(acts)].current = heap[d].prev],
                           Activation(heap[d].lo + 1, heap[d].hi))
    /\ UNCHANGED <<vars, runtime>>

\* codegen_defers has run off the end of the list: current->data with NULL.
GenNull ==
    /\ Unwinding
    /\ Act.current # AstTok.end
    /\ Act.current = Null
    /\ phase' = "crash"
    /\ UNCHANGED <<count, ast, heap, frames, resolver, history, codegen, runtime>>

\* The defers are generated: the way out itself, and what follows it.
GenExit ==
    /\ Unwinding
    /\ Act.current = AstTok.end
    /\ IF AstTok.op = "end"
         THEN /\ out' = Append(out, CTok("end", Null, opens[Len(opens)], Act.pc))
              /\ opens' = Prefix(opens, Len(opens) - 1)
         ELSE /\ out' = Append(out, CTok(AstTok.op, Null, 0, Act.pc))
              /\ UNCHANGED opens
    /\ acts' = IF Act.pc = Act.hi THEN Prefix(acts, Len(acts) - 1)
                                  ELSE Advance(Act.pc + 1)
    /\ phase' = IF acts' = <<>> THEN "compiled" ELSE phase
    /\ UNCHANGED <<count, ast, heap, frames, resolver, history, runtime>>

Codegen == GenFunction \/ GenOpen \/ GenDefer \/ GenUnwind \/ GenNull \/ GenExit

-----------------------------------------------------------------------------
\* The generated C, executed.  EndOf is the "end" of the block opened at o.
EndOf(o) == CHOOSE e \in 1..Len(out) : out[e].op = "end" /\ out[e].open = o
COpeners == {"fn", "if", "for", "run"}
Enclosing(p) ==
    {o \in 1..p - 1 : out[o].op \in COpeners} \
        {out[e].open : e \in {q \in 1..p - 1 : out[q].op = "end"}}
Innermost(S) == CHOOSE o \in S : \A q \in S : q <= o
LoopAround(p) == Innermost({o \in Enclosing(p) : out[o].op = "for"})
Finished == Len(out) + 1

\* Where C can go from the token at p.
Targets(p) ==
    CASE out[p].op \in {"fn", "run", "reach"} -> {p + 1}
      [] out[p].op \in {"if", "for"} -> {p + 1, EndOf(p) + 1}
      [] out[p].op = "end" ->
           IF out[out[p].open].op = "for" THEN {out[p].open} ELSE {p + 1}
      [] out[p].op = "break" -> {EndOf(LoopAround(p)) + 1}
      [] out[p].op = "continue" -> {LoopAround(p)}
      [] out[p].op = "return" -> {Finished}

\* The call of the function.
Start ==
    /\ phase = "compiled"
    /\ phase' = "run"
    /\ pc' = 1
    /\ UNCHANGED <<count, ast, heap, frames, resolver, history, codegen, pending>>

\* The defers of the blocks that contain `to`: the others, which are the newest
\* ones, are forgotten.
Surviving(stack, to) ==
    Prefix(stack, Cardinality({i \in 1..Len(stack) :
                                   Innermost(Enclosing(stack[i].at)) \in Enclosing(to)}))

Step ==
    /\ phase = "run"
    /\ pc # Finished
    /\ \E to \in Targets(pc) :
         /\ pc' = to
         /\ pending' =
              CASE out[pc].op = "reach" ->
                     Append(pending, [defer |-> out[pc].defer, at |-> pc])
                [] out[pc].op = "run" /\ pending # <<>> ->
                     Prefix(pending, Len(pending) - 1)
                [] OTHER -> Surviving(pending, to)
    /\ UNCHANGED <<vars, codegen>>

\* The function has returned, or the compiler has stopped (or has reached the
\* bound MaxOut, which CodegenEnds shows that it does not).
Halted ==
    \/ phase \in {"fatal", "crash"}
    \/ phase = "codegen" /\ Len(out) >= MaxOut
    \/ phase = "run" /\ pc = Finished
Stopped == Halted /\ UNCHANGED allvars

CNext == ResolveStep \/ Codegen \/ Start \/ Step \/ Stopped

CSpec == CInit /\ [][CNext]_allvars
CFairSpec == CSpec /\ WF_allvars(Codegen)
-----------------------------------------------------------------------------
CTokType ==
    [op : COpeners \cup Exits \cup {"reach"}, defer : Nat, open : Nat, src : Nat]

\* The types of the code generator's state.
GenTypeOK ==
    /\ acts \in Seq([pc : 1..Len(ast), hi : 1..Len(ast), current : 0..Len(heap)])
    /\ out \in Seq(CTokType)
    /\ opens \in Seq(1..Len(out))

\* The types of the code generator's and the C function's state.
CTypeOK ==
    /\ GenTypeOK
    /\ pc \in 0..Len(out) + 1
    /\ pending \in Seq([defer : 1..Len(heap), at : 1..Len(out)])

\* Each body that is being generated has a C block of its own, which is still
\* open, and in the complete text of a function every block is closed.
BlocksMatch ==
    /\ Len(opens) >= Len(acts)
    /\ phase \in {"compiled", "run"} => opens = <<>>

\* codegen_defers stops at its end pointer: it never follows the NULL that
\* ends the list, unless a branchless `when` cut the list short.
NoNullDefer == phase = "crash" => dropped

\* A body that is generated in place only ever unwinds defers older than its
\* own, so the nesting of codegen_block is bounded by the number of defers.
UnwindsOlder == \A i \in 1..(Len(acts) - 1) : acts[i + 1].hi < acts[i].hi

\* What codegen_defers is called for is a stretch of the list, the stretches of
\* nested calls get shorter, and the blocks that the calls open are all closed.
WalksTheList == BlocksMatch /\ NoNullDefer /\ UnwindsOlder

-----------------------------------------------------------------------------
\* A break or continue in a deferred body, generated in place at a return
\* inside another loop, belongs there to that other loop in C.
Captured ==
    \E p \in 1..Len(out) :
        /\ out[p].op \in {"break", "continue"}
        /\ out[LoopAround(p)].src # ast[out[p].src].loop

Running == phase = "run"
Sound == ~dropped /\ ~Captured

\* The promise of `defer`, as the C function keeps it.
Depth(p) == Cardinality(Enclosing(p))
Bodies(p) == {o \in Enclosing(p) : out[o].op = "run"}
ScopeDepth == IF Running /\ Sound THEN Depth(pc) ELSE 0
ScopePending ==
    IF Running /\ Sound
      THEN [i \in 1..Len(pending) |-> <<pending[i].defer, Depth(pending[i].at)>>]
      ELSE <<>>
ScopeRunning ==
    IF Running /\ Sound THEN {<<out[o].defer, Depth(o) + 1>> : o \in Bodies(pc)} ELSE {}
Promise ==
    INSTANCE ScopeExit WITH
        Defers <- 1..MaxStmts,
        depth <- ScopeDepth, pending <- ScopePending, running <- ScopeRunning

\* Every execution of the generated C keeps the promise: each defer that is
\* reached runs once, newest first, before its scope is left by its end, a
\* break, a continue or a return, including returns inside deferred bodies.
KeepsPromise == Promise!Spec

\* stmt-when.test.sunder: "Ensure that when interacts appropriately with
\* defer."  A defer that was reached leaves the stack only by running.
NoneForgotten ==
    [][Running /\ pc # Finished /\ Len(pending') < Len(pending)
         => out[pc].op = "run"]_allvars

\* codegen.c: "defers are generated as equivalent lowered statements".  A body
\* runs only when its defer is the newest one that was reached and not run.
RunsNewest ==
    Running /\ pc # Finished /\ out[pc].op = "run" =>
        /\ pending # <<>>
        /\ pending[Len(pending)].defer = out[pc].defer

\* The code generator comes to an end for every tree that the resolver makes.
CodegenEnds == (phase = "resolved") ~> (phase \in {"compiled", "crash", "run"})
=============================================================================
