# A verification project for the Sunder compiler

`sunder-compile` translates a Sunder program to C.  It is a sequential program:
what is hard about it is not concurrency but state that outlives the recursion
that set it.  The resolver carries a list of defers, loop marks, a chain of
template instantiations and caches through a recursive walk; a type is visible
before it is complete; the same deferred body is generated again at every way
out of a block; declarations are resolved in an order that a different phase
computed.  Tests exercise particular programs.  The models here let the
*program being compiled* be the environment's choice, and check every program up
to a bound, and (in the theorems) every program.

All paths below are relative to the repository; line numbers are in
`PROJECT.json`, under `map`.

## The system

| component | state | operations | interacts with |
|---|---|---|---|
| driver (`sunder-compile.c`, `sunder.c`, `codegen()`) | options, module list, the intermediate C file | parse arguments, load the main module, generate, run the C compiler, remove the file | every phase |
| lexer, parser (`lex.c`, `parse.c`, `cst.c`) | position in the buffer, two tokens | next token, one function per grammar rule | orderer (through the syntax tree) |
| orderer (`order.c`) | state of each top-level declaration, open declarations, the order | `order_tldecl` and the walk of a declaration | reads the syntax tree, writes `module->ordered` |
| top-level resolution (`resolve()`) | symbol tables, completeness of types, incomplete functions | two passes over the order, then the bodies | the order; get_symbol; templates |
| defer resolution (`resolve_block`, `resolve_stmt_*`) | current defer, current loop defer, is_within_loop | one function per statement | code generator, through defer_begin / defer_end |
| code generation (`codegen.c`) | output, the C function being printed | one function per statement and expression | the resolved tree |
| template instantiation (`xget_template_instance`) | cache of instances, chain, list of incomplete functions | look up or create an instance, complete a body | top-level resolution, struct completion |
| symbol tables (`ast.c`), freezing (`util.c`) | elements, parent, frozen flag, chilling list | insert, lookup, freeze, merge | the resolver, imports |
| imports and modules | module list, loaded flags, search path | load, look up, resolve an import | orderer and resolver, recursively |
| interning (`util.c`) | an open-addressing hash set | intern | everything that compares names by pointer |
| unique types, static names | `context()->types`, static symbols | `type_unique_*`, `normalize_unique` | resolver, code generator |
| layout (`complete_struct`, `complete_union`) | size, align, offsets, is_complete | add a member | top-level resolution, constants |
| expressions and casts (`resolve_expr_*`, `implicit_cast`) | `is_within_constant_decl` | one function per expression | constant evaluation |
| constant evaluation (`eval.c`), big integers, bit arrays (`util.c`) | none | eval, add, mul, divrem, shifts, conversions | resolver |
| runtime support (`lib/sys/sys.h`), standard library (`lib/std`) | the generated program's | checked arithmetic, vectors, hash maps, readers | generated code |

What is hard, component by component, and what makes it correct:

* **Defer resolution.**  The head of the list is saved and restored by every
  block, taken over from a `when`, and read by every break, continue and return.
  Correct: each way out of a block unwinds exactly the defers it leaves behind.
* **Code generation of defers.**  A body is generated in place, recursively,
  at every way out, and may itself leave.  Correct: on every path of the C
  function each defer that was reached runs once, newest first, before its
  scope is left; and the generator ends.
* **Orderer.**  A declaration is marked, tested and appended at three places of
  a recursion, structs, unions and enums out of turn.  Correct: each declaration
  is in the order once and after what it names, and only circles are refused.
* **Top-level resolution.**  Types are visible before they are complete.
  Correct: nothing is laid out from an unfinished type, and the order of
  declarations decides nothing that it need not.
* **Templates.**  Instances are cached at different points of their creation,
  bodies are completed later with the chain of their creation.  Correct: one
  instance per argument list, and the nesting is bounded.
* **Imports, tables.**  Modules load each other; tables are shared, frozen and
  merged.  Correct: no module twice, nothing inserted into a frozen table, the
  same names visible whatever the order of imports.
* **Interning, unique types.**  Equality is by pointer.  Correct: equal contents,
  equal pointer, also across a rehash.
* **Parser.**  It decides by one token, at four places by two, and takes nothing
  back.  Correct: it reads the language of `GRAMMAR`, and gives up only where
  that language has no way on.
* **Constants, big integers.**  At the limits of every width, with operands that
  are results too.  Correct: equal to the integers, and to what the generated C
  does.
* **Layouts.**  Offsets are computed once by the compiler and once by C.  Correct:
  both agree, and every definition is printed after what it needs.

The full list, at its lines, is `hazards` in `PROJECT.json`.

## Modules

| module | models | state and actions |
|---|---|---|
| `DeferResolve` | `resolve_block`, `resolve_stmt_defer_*`, `_if`, `_switch`, `_for_*`, `_break`, `_continue`, `_return`, `resolve_when` | `heap` is the chain of `STMT_DEFER` nodes, `frames` the C stack of `resolve_block` and its callers' saved locals, `current_defer`, `current_loop_defer`, `is_within_loop` the fields of `struct resolver`; one action per statement and per end of a block |
| `DeferCodegen` | `codegen_block`, `codegen_defers`, `codegen_stmt_*`, and the C function they print, running | `acts` is the recursion of `codegen_block`, `out` the C text as tokens, `pc` and `pending` the execution |
| `ScopeExit` | nothing: it is the promise of `defer` | a stack of pending bodies, each with the depth of its scope, and the bodies that are running, each with the depth of its own scope |
| `Order` | `order.c` | `state`, `dependencies`, `topological_order` as in `struct orderer`; `Enter` and `Finish` are the two halves of `order_tldecl` |
| `TopLevel` | the two passes of `resolve()`, completion of types, the check for incomplete types in `get_symbol` | `symbols`, `complete`; `skipped` is what the resolver comes upon that the orderer did not look at, one reference at a time (`LookUp`); extends `Order`, so that the order it works on is the one the orderer made |
| `Template` | `xget_template_instance`, `complete_function`, the list of incomplete functions | `cache`, `chain`, `acts` (the recursion), `incomplete_functions` and the index `at` of the loop over it |
| `Imports`, `MCImports` | `load_module`, `resolve_import_file`, `merge_symbol_table`, what `resolve()` exports | `acts` is the recursion of `load_module`, in each with the files of a directory that it still loops over; `SkipFile` passes a file for another platform; `symbols` and `global` are the tables, `tag`, `at_cwd` and `dotted` what the file system says of a directory |
| `Expr` | literals, unary and binary operators, casts, assignments, indices and slices on integers, `bool` and `byte`: `resolve_expr_*`, `explicit_cast`, `eval.c`, `strgen_rvalue_*`, `sys.h` | `stack` holds the resolved operands that wait for their operator; a node has the outcome of constant evaluation and the outcome of its C; `target` is the C compiler; one action per kind of expression |
| `Grammar` | nothing: it is the language of the file `GRAMMAR`, as sets of derivations | no state; `Documented` says whether it is `GRAMMAR` to the letter, or with what the parser reads otherwise |
| `Parser`, `MCParser` | every function of `parse.c` | `todo` is the stack of the recursion, `ahead` the current and the next token, `roots` the roots of the expression trees being built; `Look`, `Expect` and `Call` are a look at a token, `expect_current` and the step of any function |
| `Bigint` | `bigint_*` and the conversions of `bitarr_*` | `heap` has the signs and limbs; one action per call, in which a result may be an operand |
| `Layout` | `complete_struct`, `complete_union`, `resolve_type_*`, `type_unique_*`, `codegen_type_declaration`, `codegen_type_definition` | `layout` and `types` as in the compiler, `acts` the recursion of completion, `c` what the C compiler makes of the declarations |
| `Symbols`, `MCSymbols` | `intern`, `symbol_table_*`, `normalize_unique`, `register_static_symbol`, the declarations that make tables, `freeze`, `context_fini` | `names` is the hash set, `tables` the symbol tables with the capacity of their buffers, `statics` the registered static names, `frozen` the list of `freeze()`, `frames` the recursion of the resolver, with the address that an open slice list has reserved |
| `DeferResolveProofs`, `DeferCodegenProofs`, `DeferPromiseProofs`, `TopLevelProofs`, `TemplateProofs`, `ImportsProofs`, `LayoutProofs`, `ExprProofs` | | theorems, see "Proofs" |

How the data is abstracted.  A statement is its kind; expressions and
declarations inside a function do not touch the modelled state.  `if` stands for
one arm of an `if` or one case of a `switch`, both of which are a block of their
own; a body with several arms is a sequence of them.  The tree that the resolver
builds is kept flat: a token that opens a block, its statements, an `end`.
`live`, `loop_at`, `due`, `pending`, `stale`, `missing` and `dropped` are
history variables: no guard that models code reads them.  In `Order` and
`TopLevel` a declaration is its kind and a list of references; a reference is
to a name, a size, a layout or a member (what is declared in the type, as in
`t::x`).  Structs and unions are different kinds, since `get_symbol` refuses to
look into an incomplete struct only: it looks into an incomplete union and
does not find the name.  The program is chosen as the compiler looks at
it, which gives the same programs as choosing it first, in fewer states.

The orderer does not see everything that the resolver will look up.  It records
no dependencies for a template, so what an instance names is looked up where the
instantiation is, whatever its kind; it passes over the template arguments of
`typeof(x)::f[[T]]`, over extensions, and over a namespace's own names when they
are qualified in part.  These references are `skipped`; they are arbitrary, and chosen
when the second pass has come to the declaration, so what is said of the resolver
is said for any of them.

In `Expr` an expression is not a tree but what is left of it: the type and
kind that the resolver looks at, and two outcomes, each a value, a fatal error
or the compiler's own `UNREACHABLE()`.  Leaves are literals and constant symbols;
a symbol has its value in constant evaluation and its C object at run time, so
that every expression on symbols can be compared.  C itself is external:
arithmetic on promoted operands is exact, conversions narrow.

In `Parser` a function of `parse.c` is a row of tokens to expect and functions to
call, which the current token decides; a loop is a function that calls itself
last.  One token stands for all that the parser treats alike (all comparisons,
all literals).  The trees are kept as the roots of the expressions that are open:
that is all that precedence is about.

In `Symbols` a string is a row of words, so that `a::a` and `a_a` can mangle to
one C identifier; the hash is any function, in the run one under which strings
of a length collide.  A handler of the resolver is a row of calls (make a table,
register a static name, insert a symbol) which are done one after the other.
A handler in whose middle others can run is two actions with a frame in between:
the list of a slice reserves its name (`BeginList`), its elements, which may
instantiate templates and hold lists of their own, are resolved, and then the name
is registered (`EndList`).  An error may come at any point (`Refuse`, and the
redeclarations that leave a handler halfway).  `fatal` calls `exit`, and
`context_fini` is an `atexit` handler of debug builds, so `Finalize` follows an error
as it follows success, with the tables as the error has left them.

In `Layout` a type is its name, `uintmax_t` ends at `UINTMAX_MAX`, and C's rules
for alignment, complete types and the scope of names are external.  That scalars
and pointers are aligned to powers of two that fit is `AlignmentsAssumption`.

In `DeferCodegen` the C text and C's control flow are external: `break` and
`continue` mean the innermost loop of the *text*, conditions go either way.

## Runs

| run | instance | shows |
|---|---|---|
| `defer_codegen` | all functions of up to 4 statements of the 9 kinds, on every path | `ListIsScope`, `ExitsUnwind`, `LoopIsTracked`, that the generator finds the end of every list it walks (`WalksTheList`), that it ends (`CodegenEnds`), and that the C function implements `ScopeExit` (`KeepsPromise`) |
| `toplevel` | 3 declarations, 1 reference each, looked at by the orderer or skipped, every kind and use | the order (`EachOnce`, `NamesFirst`, `CircularIsReal`), what is refused (`RejectedForOrder`), what is laid out or read too early (`OrderSuffices`), `Decided` |
| `template` | 2 templates, one use in each signature and body, `T`, `*T` or a constant argument, depth 3 | `ChainIsHonest`, one instance per argument and bounded arguments (`InstancesOnce`), `InstantiationEnds` |
| `imports` | 4 source files, 2 of them in a directory, 3 import statements, one namespace | `ImportsFirst`, `RedeclaredIsReal`, `SeesItsImports`, `PlatformFiles` |
| `expr` | widths 2 and 3, unsized integers up to 5, an array of 2 elements, with and without `__GNUC__`, `char` signed and unsigned | `SameValue`, `RefusalsAgree` |
| `parser` | five vocabularies that together are the language; sources of any length, with at most 7 or 8 things left to do at a time | `ReadsGrammar`, `RefusesOnlyErrors`, `TreeIsPrecedence` |
| `bigint` | 2 bigints, limbs of 2 bits, radices 2 and 3, bit arrays of 3 and 4 bits, magnitudes up to 20, any sequence of calls | arithmetic and comparison are those of the integers (`Represents`), text and bits are converted both ways (`Converts`) |
| `layout` | a declared struct or union and an instance, with 3 members and 2 other types, integers and pointers of 1 and 2 bytes, 6-bit `uintmax_t` | `MembersApart`, `CAgrees` |
| `symbols` | six kinds of modules, of up to 17 tables and symbols, refused at any point or not; sets of 2 slots and buffers of 2 elements at first | `NamesResolve`, `StaticsApart`, `LifecyclesEnd` |

and the runs of the findings below.

**Bounds and why they are enough.**  The defer list is changed by pushing one
node and by restoring a saved head; four statements give two defers in nested
scopes with a way out, or a way out inside a deferred body inside a loop with an
older defer outside.  The theorems say the same of functions of any length.  `MaxOut` bounds the C text; `CodegenEnds` shows
that no function of the run reaches it.  In `Order` three declarations give a
circle that does not include the first open declaration; `EachOnce`, `NamesFirst`
and `CircularIsReal` are proved for any number of declarations and references.  In
`TopLevel` three declarations give a type, its user, and one between them in the
order; the reference of each is one that the orderer has looked at or one that it
has skipped.  `RejectedForOrder` and `OrderSuffices` are proved for any number of
both.  In
`Template` two templates that use each other in signature and body give every
circle of structs and functions, and `MaxDepth` (16 in the code) is reached from
any growing argument whatever its value.  In `Imports` three import statements
give the triangle (a module imported directly and through another), a circle,
and a directory next to a file of it; the bound is on the whole program.  In
`Expr` the widths are the parameters: nothing in the code depends on a width but
through the range of the type, and at 2 and 3 bits every pair of values meets,
so that each edge (minimum, maximum, 0, -1, a shift by the width or more, a
narrowing and a widening cast) is an operand of every operator.  Since a node is
only its type, its kind and its two outcomes, the reachable states are closed
under building: expressions of every depth are covered.  `MaxUnsized` reaches
past every range but the top of `usize`, which literals with a suffix reach.

In `Parser` the depth lets every construct occur in every other one that the
vocabulary has, once, and the length of a source is not bounded at all, so that
lists, chains of operators and runs of declarations are of any length.  In
`Bigint` two bits make carries, borrows and the growth of a number by a limb
happen within numbers of one to three limbs, and the reachable values are closed
under all calls up to `MaxInt`.  In `Layout` a `UINTMAX_MAX` of 63 lets an array
overflow `uintmax_t` and pass `SIZEOF_MAX`, and two sizes of integers give every
kind of padding.  In `Symbols` the first sizes are small so that the set is
rehashed and buffers move several times; a module has two templates' or functions'
worth of names of each kind.

`CHECK_DEADLOCK FALSE` is said of runs in which the compiler stops when it has
refused or finished the program, or where a bound stops it (`Layout`).

**Fairness.**  The compiler is one sequential process, so weak fairness of its
next step says only that it is not stopped from outside: `CFairSpec` has it for
the code generator, `RFairSpec` for ordering and resolution, `TFairSpec` for
instantiation.  Nothing is assumed about the generated program, whose loops may
run for ever.

## Findings

Each is a run that is expected to be violated; the property quotes the comment
or test that the code disagrees with.

* `defer_when`, `NoneForgotten`: a `when` none of whose conditions hold, and that
  has no `else`, drops the defers before it, because `resolve_when` returns an
  empty block with a null `defer_begin`.
* `defer_jump`, `RunsNewest`: a `break` in a deferred body, generated in place at
  a `return` inside an inner loop, leaves that inner loop in C; execution goes on
  after the `return` and the body runs again.
* `constants_are_static`, `ConstantsAreStatic`: `resolve_decl_constant` clears
  `is_within_constant_decl` instead of restoring it.  A local constant whose
  initializer instantiates a struct with a constant in it goes on as if it were a
  variable; a slice list in the rest of it gets local storage and the compiler
  stops at `UNREACHABLE()`.

The following are stated by definitions in the modules too, and TLC refutes each
of them when it is added to the `.cfg` that is named; they are not runs of their
own.

* `ReportIsTrue` (`TopLevel.cfg`): the report of a circle pairs the last open
  declaration with the first one, on which it need not depend.  With
  `let a = b; let b = b;` the compiler says that "`b` depends on `a`".
* `RefusedIsBug` (`TopLevel.cfg`): whether two structs, one of which has a pointer
  to the other, compile depends on which is written first.
* `SizesAreFinal` (`TopLevel.cfg`): the size of an incomplete struct can be read
  through an array or `sizeof`, and the early value is kept.
* `InstanceOnce` (`Template.cfg`): a function template whose signature
  instantiates a struct that instantiates the same function is created twice,
  and refused as a redeclaration.
* `PlatformFiles` (`Imports.cfg`, with `Dotted = {TRUE}` or
  `AtCwd = {FALSE}`): an import of a directory under a path with a dot in it
  (`"./dir"`) loads none of its files, and from another working directory the
  variant for the platform does not replace the general one.
* `FreedOnce` (`Symbols.cfg`): a template instance's table that is exactly full
  when it is frozen (7, 15, ... parameters) is reallocated by the insertion that
  follows, and a debug build frees the old block twice at exit.  When the program
  is refused, what is open among the tables of blocks, extensions and instances is
  never freed.  `LifecyclesEnd` excepts exactly these.
* `SizesFit` (`Layout.cfg`): the size of an array is checked against the maximum,
  that of a struct is not: two members `[0x7fffffffffffffff]u8` and one `[3]u8`
  are accepted, with a `sizeof` of 1.
* `RefusesOnlyErrors` (`Parser.cfg`, with `Documented = TRUE`): `countof(a + a)`
  and `var x: typeof(a)::t` are in `GRAMMAR` and refused.

Seen on the way, without a run of their own: an enum and a struct that name each
other compile in one order only, since an enum's symbol is not predeclared; a
template that is instantiated before a function, variable or constant that it
names is refused, and so is `u8::k` before the `extend u8` that declares it
(`RejectedForOrder` allows for both); a name that was
made unique by a number can clash with one that has the number already, so that in one
function the constants `a`, `a_1` and, in a block of its own, another `a` are refused
before C is printed (`Conflict`); and the table that a
namespaced module exports is its own, so the same namespace of the modules that
it imports is passed on (`SeesItsImports` allows for it), although `sunder.h` speaks
of the symbols "declared in this module".

And from `Expr`, confirmed with the compiler: where `char` is signed, a byte from
0x80 on is a negative number in C until it is cast, so that with `var b = 0x80y`
the comparison `b == 0x80y` is false at run time and true when it is folded, and
`(b ^ 0x80y) == 0x00y` is false, too (`SameValue` excepts comparisons of which an
operand is such a byte, and holds of everything else).  `-(1)` in a function
stops the compiler at `UNREACHABLE()`, because unary operators are not folded and
casts fold values only; at global scope it is -1 (`RefusalsAgree` says that
this is the only way there).  `+1y` has an arbitrary value.  A folded
`false and (1/0 == 0)` is refused although C would not evaluate the division
(`RefusalsAgree` allows for it).  A shift of a constant by a huge count takes as many
steps as the count.  From `Layout`: an array or a pointer to an array of a struct
that is not complete keeps its early size, which `CAgrees` excepts; with
`struct b { var x: u32; var p: *[2]b; }` the C compiler refuses the definition.
`struct s { var x: u8; var y: [0]any; }` has a member whose alignment is
`ALIGNOF_UNSIZED`, and the compiler counts up to it.  Not modelled: without `__GNUC__`, the wrapping product of two
`u16` is computed in `int`, which overflows.

## Proofs

Constants are arbitrary in every theorem: functions of any length and nesting,
modules of any number of declarations and references, any graph of imports, any
templates and depth, integers of any width, types of any sizes.  Most are of
the form `Spec => []Inv`, by an inductive invariant; `PromiseKept` is a refinement
and `ForgottenOnlyIfCut` an action property, from such an invariant; those of
`ExprProofs` are about operators.

| module | theorems | of `Spec` | inductive invariant |
|---|---|---|---|
| `DeferResolveProofs` | `TypeCorrect`, `ListCorrect`, `ExitsCorrect`, `LoopCorrect` | `DeferResolve!Spec` | `IInv` |
| `DeferCodegenProofs` | `WalksCorrect`, `GenTypeCorrect`, `ResolvedStays` | `CSpec` | that, and `TreeOK`, `GenInv` |
| `DeferPromiseProofs` | `CTypeCorrect`, `PromiseKept`, `NewestUnlessCut`, `ForgottenOnlyIfCut` | `CSpec` | those, and `PromiseInv` |
| `TopLevelProofs` | `OrderTypeCorrect`, `EachOnceCorrect`, `NamesFirstCorrect`, `CircularCorrect` | `Order`'s `Spec` | `IInv` |
| `TopLevelProofs` | `TopLevelTypeCorrect`, `OrderStays`, `RejectedCorrect`, `OrderSufficesCorrect` | `RSpec` | that, and `TInv` |
| `TemplateProofs` | `TemplateTypeCorrect`, `ChainCorrect`, `InstancesOnceCorrect` | `TSpec` | `TemplateInv` |
| `ImportsProofs` | `ImportsTypeCorrect`, `ImportsFirstCorrect`, `RedeclaredCorrect`, `SeesCorrect`, `PlatformFilesCorrect` | `Spec` | `ImportsInv` |
| `LayoutProofs` | `LayoutTypeCorrect`, `ApartCorrect` | `Spec` | `LayoutInv` |
| `ExprProofs` | `SumCheckIsExact`, `DifferenceCheckIsExact`, `ProductCheckIsExact`, `DivisionCheckIsExact`, `OverflowIsExact` | | (lemmas on operators) |

**Defers, resolved.**  None of the three properties is inductive.  What a block
restores when it ends is in a frame, so the invariant says of every frame on the
stack what the property says of the current state: its saved head, through the
nodes that existed when the frame was entered, unwinds the defers that were live
then; its saved loop marks fit the frame that they were saved for; and the marks
of the frames grow.  Nodes are only ever appended, which the lemmas on `Unwinds`
use: a list that ends well in a heap ends well in a longer one.

**Defers, generated.**  Why does `codegen_defers`, which copies deferred bodies
into one another, find the end of every list?  The text of a function is a tree
kept flat, so the proof begins with a function `D`, the depth in front of each
token, which exists as long as the resolver builds (`TreeOK`): it is one deeper
after an opening token and one less deep after an `end`; a deferred body is left
at the depth at which it was entered; bodies are numbered as they end, and one
inside another ends before it; a way out begins with a defer that was complete
before it.  Of each activation of the generator `GenInv` then says that the defer
it has come to ended before its place, and lies on the stretch that is due at its
way out (unless a `when` has cut the list, see the finding); that an activation
lies before the body that it is in; and how many C blocks it has opened.
`ResolvedStays` carries the resolver's four theorems over to the composition.

**Defers, run.**  `PromiseKept` is the theorem that the rest of this part leads up
to: the C function implements `ScopeExit`, whatever the function, and however long
it runs.  Its argument is about places, the points between two tokens.
At each place of the tree, `E` gives the blocks that are open and `L` the defers
in force (`Complete`; `DeferCodegenProofs` shows that they exist as long as the
resolver builds).  At each place of the text, `B` gives the C blocks that are open
(`Text`) and `W` the defers that wait there, by the tokens where they were reached
(`Waits`).  What the generator puts down depends on where its activations are: each stands at a
place of the tree, and the C blocks that are open since it was called for are
images of the tree's blocks (`Standing`, with `X`); it has reached exactly the
defers that are in force there, and the one that it is to generate next is the
newest that it has yet to run (`Waiting`, with `Y`).  So a body starts where its
own defer is the newest that waits, and the older ones wait throughout it, which
makes the body's own ways out right, at any depth of inlining.  Where C control
goes from a token is then a matter of `B`: an `end` leads behind its block, a loop
is left with the blocks in it, and all of these places agree on what waits there
(`TargetBlocks`, `TargetWaits`).
While the function runs, its stack is what `W` says of the next token
(`Stacked`): the invariant relates the state to the text alone, not to the path
that was taken, so loops and repeated calls need no argument of their own.
Every step is then one of `Enter`, `Reach`, `RunBody`, `Leave` or a stutter
of `ScopeExit` (`StepPromise`).  `break` and `continue` take an innermost loop, which is the
greatest index of a loop in a sequence of blocks; that there is one is where
the library's well-founded minimum is used.

The two findings are the exceptions, and `Sound` names them: a branchless `when`
has cut the list, or a jump in a deferred body has been captured by a loop around
its copy.  `NewestUnlessCut` and `ForgottenOnlyIfCut` say that nothing else breaks
what the runs `defer_jump` and `defer_when` find broken.

**Order.**  The invariant adds that `dependencies` has no repetitions, that each
open declaration refers to the next one (which is what makes a circle real), that
a declaration is ordered, open or unordered and nothing else, and that every
ordered reference of an open declaration is in the order already or marked out
of turn.

**Top-level resolution.**  `TInv` adds to it that `order()` comes to the extend
declarations last and finds each of them alone on the stack (`ExtendsOK`, from
which `ExtendsLast` follows: no declaration refers to one), that what is complete is
exactly the part of the order that the second pass has done, so that a name the
resolver lacks is later in the order or the declaration itself.  `RejectedForOrder`
says why a name can be lacking at all: the orderer skipped it, or it is of a type
that was marked before its members were ordered.  What has been accepted got
everything it needed, skipped or not (`LayoutsFirst`), and a size that was read too
early is that of a later struct or union (`StaleIsLater`).

**Templates.**  A chain is restored from where it was saved, so what holds of the
chain must hold of every saved one, and of those with which bodies wait on the
list: it is a way through the program, its structs are in the cache, arguments
are nested no deeper than it is long (`GoodChain`).  An activation adds exactly one
link to the chain that it has saved (`StackOK`); a struct that is being
instantiated is in the cache, not on the list yet, and in one activation only
(`StructsOK`); everything in the cache is on the list or being instantiated.

**Imports.**  The table of a module is, at any time, its namespace, what the
modules merged into it so far export, and at the end what it declares
(`TablesOK`): since a loaded module does not change, a table can be computed from the
others.  What is merged already and what an activation still has to import
together are what the module reaches (`MergedOK`).  A clash is then one of two
declarations.  `PlatformFilesCorrect` is for paths without a dot and for imports
from where the compiler runs, as the property says; the finding has the rest.

**Layouts.**  What a struct has been told of a member's type must stay true, so a
type that is a member is finished, and only what is being completed changes
(`Ready`, `ActsOK`).  Sums in `uintmax_t` do not wrap as long as no object exceeds
`SIZEOF_MAX`: an offset is rounded up by less than an alignment, the alignment of
everything that takes up space is one of a scalar or pointer (`AlignsOK`), and
those divide `SIZEOF_MAX + 1`.  All members of an open struct end before the offset
that it has come to (`Placed`).  The proof found a mistake in an earlier form of
`oversized`: a union of `SIZEOF_MAX` bytes with alignment 2 grows by a byte when its
last member has been added, which has to count, too.

**The checks of `sys.h`.**  `OverflowIsExact` combines the first three: the checks
that `sys.h` writes out for compilers without builtins refuse exactly the results
that are out of range, as the builtins and `eval.c` do, for every width.  The run
`expr` shows it at two widths, as a part of `RefusalsAgree`.  A product is compared
with a limit by comparing with the quotient of the limit (`Beyond`), sign by sign.

**Assumptions.**  Those on constants are evaluated by TLC on every run.  The prover
has no arithmetic of powers of two; what is used of them is assumed:
`LimitsAssumption` (the least value of a type is 0 or the greatest's negation less
1) and `AlignmentsAssumption` (of two alignments the smaller divides the greater,
each divides `SIZEOF_MAX + 1`, and `UINTMAX_MAX` is `2 * SIZEOF_MAX + 1`).

**Only model-checked**, and why:

* liveness: `CodegenEnds`, `Decided`, `InstantiationEnds`;
* `ExprTypeOK` (what is evaluated is in the range of its type), `SameValue` and
  `RefusalsAgree` of `Expr`: bit operations, shifts and powers of
  two, beyond what the solver has;
* `CAgrees`: what C makes of the declarations is a recursive function over the
  list and over the members of a struct, so it is an induction over data;
* `Parser`, `Bigint` and `Symbols`: the language of `Grammar` is closed with a
  recursive operator, and `Bigint` and `Symbols` fold over rows of limbs and calls.

## Not modelled, and why

Of expressions, what is not on integers, booleans and bytes: floating point,
pointers, aggregates, calls and members.  The lexer: a sequential scanner whose
tokens are the environment's choice in `Parser`.  The nodes of the syntax tree
(`cst.c`): constructors.  The driver: system calls in a row.  The rest of the
runtime and the standard library: programs that are compiled, not the compiler.
Diagnostics and locations, but for the report of a circle.  `defined()`, which asks for a name without
requiring it.  The conversions of big integers to C's own types.
Which type names mangle alike: two types whose names do (a struct `a_b` and a
struct `b` in a namespace `a`) are one C type name, which nothing checks; the
check before C is printed is on static symbols only, and that is what `Symbols`
has.

## Plan

Modelled and checked: defers (`DeferResolve`, `DeferCodegen`, `ScopeExit`), the
order of declarations (`Order`, `TopLevel`), templates, imports, expressions, the
parser, big integers, layouts, symbols.  Proved about: all of these but the
parser, big integers and symbols, of expressions the checks of `sys.h`, and of
defers everything but that the generator ends.  What is left, in this order:

1. `Symbols` with the calls of a handler as a state of its own rather than a fold,
   and proofs that static names differ and that tables are freed once.
2. Expressions on pointers and aggregates, with `eval_lvalue`.
