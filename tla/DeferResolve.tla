---------------------------- MODULE DeferResolve ----------------------------
(***************************************************************************)
(* The resolver's handling of `defer` (resolve.c): a function body is      *)
(* resolved statement by statement, defers are chained in a singly-linked  *)
(* list through stmt.data.defer.prev, and every way out of a block (its    *)
(* end, break, continue, return) records the part of that list to unwind.  *)
(*                                                                         *)
(* The statement stream is the environment's: any sequence of well-nested  *)
(* statements of the kinds in Stmts.  Statements that are not named here   *)
(* (declarations, assignments, asserts, expressions) leave every variable  *)
(* below alone.  The resolved tree is kept as the flat sequence `ast`: a   *)
(* token that opens a block, the block's statements, an "end" token.       *)
(*                                                                         *)
(* `live` and `loop_at` are history variables: the defers lexically in     *)
(* force, oldest first, and the frame of the innermost enclosing loop.     *)
(* They say what the list *should* be and no guard of the code reads them. *)
(***************************************************************************)
EXTENDS Naturals, Sequences

CONSTANTS
    Stmts,      \* the kinds of statements that the function is built from
    MaxStmts    \* bound: statements in the function body

Kinds == {"defer expr", "defer block", "if", "for", "when", "when none",
          "break", "continue", "return"}

ASSUME StmtsAssumption == Stmts \subseteq Kinds
ASSUME MaxStmtsAssumption == MaxStmts \in Nat

VARIABLES
    phase,              \* "resolve", "resolved" or "fatal", then the code generator's
    count,              \* statements resolved so far (bounded by MaxStmts)
    ast,                \* the resolved tree, flattened
    heap,               \* the STMT_DEFER nodes, in order of creation
    frames,             \* the activations of resolve_block, outermost first
    current_defer,      \* resolver->current_defer: an index of heap, or Null
    current_loop_defer, \* resolver->current_loop_defer
    is_within_loop,     \* resolver->is_within_loop
    live,               \* history: the defers lexically in force
    loop_at,            \* history: the frame of the innermost loop, or 0
    dropped             \* history: a branchless `when` has cleared a non-empty list

resolver == <<current_defer, current_loop_defer, is_within_loop>>
history == <<live, loop_at, dropped>>
vars == <<phase, count, ast, heap, frames, resolver, history>>

Null == 0
Openers == {"fn", "if", "for", "defer"}
Exits == {"end", "break", "continue", "return"}

-----------------------------------------------------------------------------
Top == frames[Len(frames)]
Popped == SubSeq(frames, 1, Len(frames) - 1)
Prefix(s, n) == SubSeq(s, 1, n)
Above(s, n) == SubSeq(s, n + 1, Len(s))
At(s, i) == IF i = 0 THEN Null ELSE s[i]

\* A token of the tree.  `due` is history: the defers that this way out of a
\* block has to run, oldest first.  `loop` is history too: the token that
\* opens the loop that a break or continue was written in.
Token(op, begin, end, due, loop) ==
    [op |-> op, begin |-> begin, end |-> end, due |-> due, loop |-> loop]
Opener(op) == Token(op, Null, Null, <<>>, 0)

\* The locals that resolve_block and the loop statements keep to restore.
Frame(kind) ==
    [kind |-> kind, mark |-> Len(ast) + 1, base |-> Len(live),
     save |-> current_defer, save_loop |-> current_loop_defer,
     save_within |-> is_within_loop, save_loop_at |-> loop_at]

Statement(kind) ==
    /\ phase = "resolve"
    /\ kind \in Stmts
    /\ count < MaxStmts
    /\ count' = count + 1

\* resolve_block as it is entered for a body with a scope of its own.
Enter(op) ==
    /\ ast' = Append(ast, Opener(op))
    /\ frames' = Append(frames, Frame(op))

\* Mutant of BlockEnd: the two pointers are swapped.
BlockEndSwapped ==
    Token("end", Top.save, current_defer, Above(live, Top.base), 0)

\* block_init as resolve_block ends: the list since the block was entered.
BlockEnd == Token("end", current_defer, Top.save, Above(live, Top.base), 0)

-----------------------------------------------------------------------------
Init ==
    /\ phase = "resolve"
    /\ count = 0
    /\ ast = <<Opener("fn")>>
    /\ heap = <<>>
    /\ frames = <<[kind |-> "fn", mark |-> 1, base |-> 0, save |-> Null,
                   save_loop |-> Null, save_within |-> FALSE, save_loop_at |-> 0]>>
    /\ current_defer = Null
    /\ current_loop_defer = Null
    /\ is_within_loop = FALSE
    /\ live = <<>>
    /\ loop_at = 0
    /\ dropped = FALSE

\* A new STMT_DEFER in front of the list: the body has been resolved already.
PushDefer(lo, hi) ==
    /\ heap' = Append(heap, [prev |-> current_defer, lo |-> lo, hi |-> hi])
    /\ current_defer' = Len(heap) + 1
    /\ live' = Append(live, Len(heap) + 1)

\* resolve_stmt_defer_expr: the implicit block has no defers of its own.
DeferExpr ==
    /\ Statement("defer expr")
    /\ ast' = Append(Append(ast, Opener("defer")),
                     Token("end", current_defer, current_defer, <<>>, 0))
    /\ PushDefer(Len(ast) + 1, Len(ast) + 2)
    /\ UNCHANGED <<phase, frames, current_loop_defer, is_within_loop, loop_at, dropped>>

\* Mutant of DeferBlock: the list already starts with the new defer while its
\* body is resolved.
DeferBlockEarly ==
    /\ Statement("defer block")
    /\ Enter("defer")
    /\ current_defer' = Len(heap) + 1
    /\ UNCHANGED <<phase, heap, current_loop_defer, is_within_loop, history>>

\* resolve_stmt_defer_block up to its call of resolve_block.
DeferBlock ==
    /\ Statement("defer block")
    /\ Enter("defer")
    /\ UNCHANGED <<phase, heap, resolver, history>>

\* One arm of resolve_stmt_if or one case of resolve_stmt_switch.
If ==
    /\ Statement("if")
    /\ Enter("if")
    /\ UNCHANGED <<phase, heap, resolver, history>>

\* Mutant of For: the outer loop's mark of the list is kept.
ForKeepsMark ==
    /\ Statement("for")
    /\ Enter("for")
    /\ is_within_loop' = TRUE
    /\ loop_at' = Len(frames) + 1
    /\ UNCHANGED <<phase, heap, current_defer, current_loop_defer, live, dropped>>

\* resolve_stmt_for_range and resolve_stmt_for_expr up to resolve_block.
For ==
    /\ Statement("for")
    /\ Enter("for")
    /\ is_within_loop' = TRUE
    /\ current_loop_defer' = current_defer
    /\ loop_at' = Len(frames) + 1
    /\ UNCHANGED <<phase, heap, current_defer, live, dropped>>

\* resolve_when with an arm whose condition holds: its body is resolved in
\* the enclosing scope and its statements are inlined there.
When ==
    /\ Statement("when")
    /\ frames' = Append(frames, Frame("when"))
    /\ UNCHANGED <<phase, ast, heap, resolver, history>>

\* resolve_when with no such arm returns an empty block whose defer_begin is
\* NULL, and resolve_block makes that the current defer.
WhenNone ==
    /\ Statement("when none")
    /\ current_defer' = Null
    /\ dropped' = (dropped \/ current_defer # Null)
    /\ UNCHANGED <<phase, ast, heap, frames, current_loop_defer, is_within_loop,
                   live, loop_at>>

\* Mutant of Jump: every defer of the function is unwound, as for a return.
JumpUnwindsAll(op) ==
    /\ Statement(op)
    /\ IF is_within_loop
         THEN /\ ast' = Append(ast,
                  Token(op, current_defer, Null,
                        Above(live, frames[loop_at].base), frames[loop_at].mark))
              /\ UNCHANGED phase
         ELSE /\ phase' = "fatal"
              /\ UNCHANGED ast
    /\ UNCHANGED <<heap, frames, resolver, history>>

\* resolve_stmt_break and resolve_stmt_continue.
Jump(op) ==
    /\ Statement(op)
    /\ IF is_within_loop
         THEN /\ ast' = Append(ast,
                  Token(op, current_defer, current_loop_defer,
                        Above(live, IF loop_at = 0 THEN 0 ELSE frames[loop_at].base),
                        IF loop_at = 0 THEN 0 ELSE frames[loop_at].mark))
              /\ UNCHANGED phase
         ELSE /\ phase' = "fatal"
              /\ UNCHANGED ast
    /\ UNCHANGED <<heap, frames, resolver, history>>

Break == Jump("break")
Continue == Jump("continue")

\* resolve_stmt_return: the whole list is unwound.
Return ==
    /\ Statement("return")
    /\ ast' = Append(ast, Token("return", current_defer, Null, live, 0))
    /\ UNCHANGED <<phase, heap, frames, resolver, history>>

\* The end of a block, for each of the callers of resolve_block.
Close(kinds) ==
    /\ phase = "resolve"
    /\ Len(frames) > 1
    /\ Top.kind \in kinds
    /\ frames' = Popped
    /\ UNCHANGED <<phase, count>>

EndIf ==
    /\ Close({"if"})
    /\ ast' = Append(ast, BlockEnd)
    /\ current_defer' = Top.save
    /\ live' = Prefix(live, Top.base)
    /\ UNCHANGED <<heap, current_loop_defer, is_within_loop, loop_at, dropped>>

\* Mutant of EndFor: the flag is cleared, not restored.
EndForClears ==
    /\ Close({"for"})
    /\ ast' = Append(ast, BlockEnd)
    /\ current_defer' = Top.save
    /\ is_within_loop' = FALSE
    /\ current_loop_defer' = Top.save_loop
    /\ live' = Prefix(live, Top.base)
    /\ loop_at' = Top.save_loop_at
    /\ UNCHANGED <<heap, dropped>>

EndFor ==
    /\ Close({"for"})
    /\ ast' = Append(ast, BlockEnd)
    /\ current_defer' = Top.save
    /\ is_within_loop' = Top.save_within
    /\ current_loop_defer' = Top.save_loop
    /\ live' = Prefix(live, Top.base)
    /\ loop_at' = Top.save_loop_at
    /\ UNCHANGED <<heap, dropped>>

\* Mutant of EndDefer: the node is made current before its prev is read.
EndDeferLinksItself ==
    /\ Close({"defer"})
    /\ ast' = Append(ast, BlockEnd)
    /\ heap' = Append(heap, [prev |-> Len(heap) + 1, lo |-> Top.mark, hi |-> Len(ast) + 1])
    /\ current_defer' = Len(heap) + 1
    /\ live' = Append(Prefix(live, Top.base), Len(heap) + 1)
    /\ UNCHANGED <<current_loop_defer, is_within_loop, loop_at, dropped>>

\* The body is complete and current_defer is restored; only then is the new
\* defer chained in front of it.
EndDefer ==
    /\ Close({"defer"})
    /\ ast' = Append(ast, BlockEnd)
    /\ heap' = Append(heap, [prev |-> Top.save, lo |-> Top.mark, hi |-> Len(ast) + 1])
    /\ current_defer' = Len(heap) + 1
    /\ live' = Append(Prefix(live, Top.base), Len(heap) + 1)
    /\ UNCHANGED <<current_loop_defer, is_within_loop, loop_at, dropped>>

\* Mutant of EndWhen: the arm is a scope like any other.
EndWhenRestores ==
    /\ Close({"when"})
    /\ current_defer' = Top.save
    /\ UNCHANGED <<ast, heap, current_loop_defer, is_within_loop, history>>

\* resolve_block restores current_defer and its caller puts when.defer_begin,
\* the list as the arm left it, in its place: the arm's defers stay.
EndWhen ==
    /\ Close({"when"})
    /\ UNCHANGED <<ast, heap, resolver, history>>

\* The end of the function's body, in complete_function.
EndFunction ==
    /\ phase = "resolve"
    /\ Len(frames) = 1
    /\ phase' = "resolved"
    /\ ast' = Append(ast, BlockEnd)
    /\ frames' = <<>>
    /\ current_defer' = Top.save
    /\ live' = <<>>
    /\ UNCHANGED <<count, heap, current_loop_defer, is_within_loop, loop_at, dropped>>

Resolve ==
    \/ DeferExpr \/ DeferBlock \/ If \/ For \/ When \/ WhenNone
    \/ Break \/ Continue \/ Return
    \/ EndIf \/ EndFor \/ EndDefer \/ EndWhen \/ EndFunction

Spec == Init /\ [][Resolve]_vars

-----------------------------------------------------------------------------
TokenType ==
    [op : Openers \cup Exits, begin : Nat, end : Nat, due : Seq(Nat), loop : Nat]
DeferType == [prev : Nat, lo : Nat, hi : Nat]
FrameType ==
    [kind : Openers \cup {"when"}, mark : Nat, base : Nat, save : Nat,
     save_loop : Nat, save_within : BOOLEAN, save_loop_at : Nat]

\* The types of the resolver's state, which the code generator leaves as it is
\* in its own phases.  A defer points at an older one only, so the list ends.
ResolveTypeOK ==
    /\ phase \in {"resolve", "resolved", "fatal",
                  "codegen", "crash", "compiled", "run"}
    /\ count \in Nat
    /\ ast \in Seq(TokenType)
    /\ heap \in Seq(DeferType)
    /\ \A d \in 1..Len(heap) : heap[d].prev < d
    /\ frames \in Seq(FrameType)
    /\ current_defer \in 0..Len(heap)
    /\ current_loop_defer \in 0..Len(heap)
    /\ is_within_loop \in BOOLEAN
    /\ live \in Seq(Nat)
    /\ loop_at \in Nat
    /\ dropped \in BOOLEAN

\* Through the nodes h, the list from `begin` meets exactly the defers of
\* `due`, newest first, and stops at `end`.
Unwinds(h, begin, end, due) ==
    /\ begin = IF due = <<>> THEN end ELSE due[Len(due)]
    /\ \A i \in 1..Len(due) :
         /\ due[i] \in 1..Len(h)
         /\ h[due[i]].prev = IF i = 1 THEN end ELSE due[i - 1]

\* The list that the resolver carries is the list of the defers in force
\* (sunder.h: "The previous defer statement that should be evaluated after
\* this defer statement is evaluated"), as long as no branchless `when` has
\* cleared it.
ListIsScope ==
    phase = "resolve" /\ ~dropped => Unwinds(heap, current_defer, Null, live)

\* Every way out of a block that the resolver records -- the end of a block,
\* a break or continue to its loop, a return through every open scope --
\* names exactly the defers that it leaves behind: none is skipped and none
\* of a scope that stays open is run (block.defer_begin/defer_end,
\* break_.defer_begin/defer_end, return_.defer).
ExitsUnwind ==
    ~dropped => \A i \in 1..Len(ast) :
        ast[i].op \in Exits =>
            Unwinds(heap, ast[i].begin, ast[i].end, ast[i].due)

\* break and continue are refused exactly where no loop encloses them, also
\* after a nested loop or inside the body of a defer.
LoopIsTracked ==
    /\ phase = "resolve" => is_within_loop = (loop_at # 0)
    /\ phase = "fatal" => loop_at = 0
=============================================================================
