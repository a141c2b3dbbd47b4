------------------------------- MODULE Symbols -------------------------------
(***************************************************************************)
(* Names: the set of interned strings (intern), the symbol tables that map *)
(* interned names to symbols by comparing pointers, the static names of    *)
(* what is generated, and what becomes of the memory at exit (freeze,      *)
(* context_fini).                                                          *)
(*                                                                         *)
(* The program is the environment's choice, declaration by declaration, in *)
(* the order in which one module is resolved; an activation of the         *)
(* resolver that can meet other declarations is a frame.  A string is a    *)
(* row of words, so that the C identifiers `a::b` and `a_b` are made into  *)
(* can be the same.  Symbols are numbered as they are inserted.  Left out: *)
(* the export and global tables, which only repeat what the module's has,  *)
(* and the names of local objects, which are no file-scope C identifiers.  *)
(* A program may be refused at any point, and then the compiler exits.     *)
(***************************************************************************)
EXTENDS Naturals, SequencesExt, FiniteSets

CONSTANTS
    Identifiers,    \* the identifiers of the program: strings
    Hash(_),        \* hash_djb2: any function of strings to Nat
    InitialSlots,   \* what intern_init makes room for
    DefaultCapacity,\* of a stretchy buffer
    Programs        \* bounds: in a row, the kinds of declarations of a program,
                    \* how many tables and symbols in them, slice lists, and
                    \* the numbers of parameters of templates

ASSUME SizesAssumption == InitialSlots \in Nat \ {0} /\ DefaultCapacity \in Nat \ {0}
ASSUME HashAssumption == \A name \in Identifiers : Hash(name) \in Nat
ASSUME ProgramsAssumption ==
    Programs \in Seq([kinds : SUBSET {"constant", "variable", "block", "function", "struct",
                                      "function template", "struct template", "extend"},
                      size : Nat, lists : 0..6, parameters : SUBSET (1..3)])

VARIABLES
    program,    \* the bounds of this program: an index of Programs
    names,      \* the interned strings; a pointer is an index of names.strings
    tables,     \* the symbol tables
    statics,    \* context()->static_symbols: their names
    chilling,   \* context()->chilling_symbol_tables
    frozen,     \* the list of freeze()
    frames,     \* the activations of the resolver, with what they restore
    templates,  \* the templates declared so far
    incomplete_functions,
    is_within_constant_decl,
    slice_lists,\* the counter in resolve_expr_list
    phase,      \* "declarations", "bodies", "fatal", "conflict", "generated", "done"
    declared,   \* history: what was inserted where
    locals      \* history: the slice lists of constants that are not static

tablevars == <<names, tables, declared, statics>>
vars == <<program, tablevars, chilling, frozen, frames, templates,
          incomplete_functions, is_within_constant_decl, slice_lists, phase, locals>>

Numerals == <<"1", "2", "3", "4", "5", "6">>
ParameterNames == <<<<"T1">>, <<"T2">>, <<"T3">>>>
Return == <<"return">>
NULL == 0

-----------------------------------------------------------------------------
(***************************************************************************)
(* intern: open addressing with linear probing; the table is doubled       *)
(* before more than half of it is in use.                                  *)
(***************************************************************************)
\* The first place from the hash on that Stops.
Probe(slots, hash, Stops(_)) ==
    LET n == Cardinality(DOMAIN slots)
        offset == CHOOSE k \in 0..(n - 1) :
                     /\ Stops((hash + k) % n)
                     /\ \A j \in 0..(k - 1) : ~Stops((hash + j) % n)
    IN  (hash + offset) % n

Unused(slots, hash) == Probe(slots, hash, LAMBDA i : slots[i] = NULL)

Doubled(strings, slots) ==
    LET n == Cardinality(DOMAIN slots)
        new[i \in 0..n] ==
            IF i = 0 THEN [j \in 0..(2 * n - 1) |-> NULL]
            ELSE IF slots[i - 1] = NULL THEN new[i - 1]
            ELSE [new[i - 1] EXCEPT
                    ![Unused(new[i - 1], Hash(strings[slots[i - 1]]))] = slots[i - 1]]
    IN  new[n]

\* The pointer to an interned string, or NULL.
Pointer(interned, string) ==
    interned.slots[Probe(interned.slots, Hash(string), LAMBDA i :
        interned.slots[i] = NULL \/ interned.strings[interned.slots[i]] = string)]

Intern(interned, string) ==
    IF Pointer(interned, string) # NULL THEN interned
    ELSE LET count == Len(interned.strings)
             slots == IF 2 * (count + 1) > Cardinality(DOMAIN interned.slots)
                      THEN Doubled(interned.strings, interned.slots) ELSE interned.slots
         IN  [strings |-> Append(interned.strings, string),
              slots |-> [slots EXCEPT ![Unused(slots, Hash(string))] = count + 1]]

-----------------------------------------------------------------------------
(***************************************************************************)
(* symbol_table_*.  A table's elements are a stretchy buffer: `buffer`     *)
(* numbers the blocks that they have been in, 0 is NULL.  A handler of the *)
(* resolver makes a row of Calls; Do is what one of them does.             *)
(***************************************************************************)
State == [names |-> names, tables |-> tables, declared |-> declared, statics |-> statics]
SetState(x) ==
    /\ names' = x.names
    /\ tables' = x.tables
    /\ declared' = x.declared
    /\ statics' = x.statics

Create(parent) == <<[call |-> "create", parent |-> parent]>>
Static(string) == <<[call |-> "static", string |-> string]>>
Register(address) == <<[call |-> "register", address |-> address]>>
InsertMoving(t, string, moves) ==
    <<[call |-> "insert", table |-> t, string |-> string, moves |-> moves]>>
Insert(t, string) == InsertMoving(t, string, FALSE)

symbol_table_new(x, parent) ==
    [x EXCEPT !.tables = Append(@, [parent |-> parent, buffer |-> NULL,
                                    capacity |-> 0, elements |-> <<>>])]

\* Mutant of LookupLocal: the first element with the name.
LookupFirst(x, t, name) ==
    LET elements == x.tables[t].elements
        found == {i \in DOMAIN elements : elements[i].name = name}
    IN  IF found = {} THEN NULL
        ELSE elements[CHOOSE i \in found : \A j \in found : j >= i].symbol

LookupLocal(x, t, name) ==
    LET elements == x.tables[t].elements
        found == {i \in DOMAIN elements : elements[i].name = name}
    IN  IF found = {} THEN NULL
        ELSE elements[CHOOSE i \in found : \A j \in found : j <= i].symbol

Lookup(x, t, name) ==
    LET from[u \in 0..t] ==
            IF u = NULL THEN NULL
            ELSE IF LookupLocal(x, u, name) # NULL THEN LookupLocal(x, u, name)
            ELSE from[x.tables[u].parent]
    IN  from[t]

\* Mutant of symbol_table_insert: a full buffer is moved and keeps its capacity.
InsertUngrown(x, t, string, moves) ==
    LET interned == Intern(x.names, string)
        full == Len(x.tables[t].elements) = x.tables[t].capacity
        element == [name |-> Pointer(interned, string), symbol |-> Len(x.declared) + 1]
    IN  [x EXCEPT
            !.names = interned,
            !.tables[t] =
                [@ EXCEPT !.elements = Append(@, element),
                          !.capacity = IF ~full THEN @
                                       ELSE IF @ = 0 THEN DefaultCapacity ELSE @,
                          !.buffer = IF full /\ (moves \/ @ = NULL) THEN @ + 1 ELSE @],
            !.declared = Append(@, [table |-> t, string |-> string])]

\* symbol_table_insert, and sbuf_push in it; a block that is grown may move.
symbol_table_insert(x, t, string, moves) ==
    LET interned == Intern(x.names, string)
        full == Len(x.tables[t].elements) = x.tables[t].capacity
        element == [name |-> Pointer(interned, string), symbol |-> Len(x.declared) + 1]
    IN  [x EXCEPT
            !.names = interned,
            !.tables[t] =
                [@ EXCEPT !.elements = Append(@, element),
                          !.capacity = IF ~full THEN @
                                       ELSE IF @ = 0 THEN DefaultCapacity ELSE 2 * @,
                          !.buffer = IF full /\ (moves \/ @ = NULL) THEN @ + 1 ELSE @],
            !.declared = Append(@, [table |-> t, string |-> string])]

\* symbol_table_insert would refuse the name.
Redeclared(x, t, string) == LookupLocal(x, t, Pointer(Intern(x.names, string), string)) # NULL

\* Heap blocks: a table, and the buffer that its elements are in.
Blocks(x, t) ==
    IF x.tables[t].buffer = NULL THEN <<<<t, 0>>>> ELSE <<<<t, 0>>, <<t, x.tables[t].buffer>>>>

-----------------------------------------------------------------------------
(***************************************************************************)
(* Static names.                                                           *)
(***************************************************************************)
Qualified(prefix, name) == IF prefix = <<>> THEN name ELSE prefix \o <<"::">> \o name

normalize(name, id) == IF id = 0 THEN name ELSE name \o <<".", Numerals[id]>>

\* normalize_unique interns every name that it tries.
normalize_unique(x, string) ==
    LET tries[k \in 0..Len(x.statics)] ==
            Intern(IF k = 0 THEN x.names ELSE tries[k - 1], normalize(string, k))
        taken(k) == Contains(x.statics, Pointer(tries[k], normalize(string, k)))
        id == CHOOSE k \in 0..Len(x.statics) : ~taken(k) /\ \A j \in 0..(k - 1) : taken(j)
    IN  [state |-> [x EXCEPT !.names = tries[id]],
         address |-> Pointer(tries[id], normalize(string, id))]

register_static_symbol(x, address) == [x EXCEPT !.statics = Append(@, address)]

Do(x, c) ==
    CASE c.call = "create"   -> symbol_table_new(x, c.parent)
      [] c.call = "register" -> register_static_symbol(x, c.address)
      [] c.call = "static"   -> LET unique == normalize_unique(x, c.string)
                                IN  register_static_symbol(unique.state, unique.address)
      [] c.call = "insert"   -> symbol_table_insert(x, c.table, c.string, c.moves)

After(calls) == FoldLeft(Do, State, calls)

\* mangle, as far as it can give two names the same spelling.
Mangled(string) ==
    [i \in DOMAIN string |-> IF string[i] \in {"::", "."} THEN "_" ELSE string[i]]

StringOf(pointer) == names.strings[pointer]

-----------------------------------------------------------------------------
(***************************************************************************)
(* The resolver.                                                           *)
(***************************************************************************)
Top == frames[Len(frames)]
Push(frame) == frames' = Append(frames, frame)
Pop == frames' = SubSeq(frames, 1, Len(frames) - 1)
Frame(kind, table, prefix, name) ==
    [kind |-> kind, table |-> table, prefix |-> prefix, name |-> name, address |-> NULL]

\* resolver->current_function is set: also in what a body instantiates.
InFunction == \E i \in DOMAIN frames : frames[i].kind = "body"

Resolving == phase \in {"declarations", "bodies"}

\* Bounds.
Fits(x) == Len(x.tables) + Len(x.declared) <= Programs[program].size

\* The frames in which declarations of a kind may come next.
May(kind) ==
    /\ Resolving
    /\ kind \in Programs[program].kinds
    /\ Top.kind = "module" => phase = "declarations"
    /\ Top.kind = "extend" => tables[Top.table].elements = <<>>
    /\ Top.kind \in
        CASE kind = "constant" -> {"module", "struct", "body", "extend"}
          [] kind = "function" -> {"module", "struct", "body", "extend"}
          [] kind \in {"function template", "struct template"} -> {"module", "body"}
          [] kind \in {"variable", "block"} -> {"body"}
          [] kind \in {"struct", "extend"} -> {"module"}

\* The name of a declaration; the one inside `extend` has it from there.
Named(id) == Top.kind = "extend" => id = Top.name

Global == 1     \* context()->global_symbol_table
BuiltinType == 2\* the symbols of a builtin type
Module == 3     \* module->symbols

Init ==
    LET table(parent) == [parent |-> parent, buffer |-> NULL, capacity |-> 0, elements |-> <<>>]
    IN  /\ program \in DOMAIN Programs
        /\ names = Intern([strings |-> <<>>, slots |-> [i \in 0..(InitialSlots - 1) |-> NULL]],
                          Return)
        /\ tables = <<table(NULL), table(Global), table(NULL)>>
        /\ declared = <<>>
        /\ statics = <<>>
        /\ chilling = <<BuiltinType>>
        /\ frozen = <<>>
        /\ frames = <<Frame("module", Module, <<>>, <<>>)>>
        /\ templates = <<>>
        /\ incomplete_functions = <<>>
        /\ is_within_constant_decl = FALSE
        /\ slice_lists = 0
        /\ phase = "declarations"
        /\ locals = {}

Fatal ==
    /\ phase' = "fatal"
    /\ UNCHANGED <<program, tablevars, chilling, frozen, frames, templates,
                   incomplete_functions, is_within_constant_decl, slice_lists, locals>>

\* Any other error in what is being resolved.
Refuse == Resolving /\ Fatal

\* A redeclaration that is found when its new table is in the chilling list.
FatalChilled(x) ==
    /\ phase' = "fatal"
    /\ SetState(x)
    /\ chilling' = Append(chilling, Len(x.tables))
    /\ UNCHANGED <<program, frozen, frames, templates, incomplete_functions,
                   is_within_constant_decl, slice_lists, locals>>

\* resolve_decl_constant, up to its initializer.
BeginConstant(id) ==
    /\ May("constant")
    /\ Named(id)
    /\ Push(Frame("constant", Top.table, Top.prefix, id))
    /\ is_within_constant_decl' = TRUE
    /\ UNCHANGED <<program, tablevars, chilling, frozen, templates,
                   incomplete_functions, slice_lists, phase, locals>>

ListName(id) == <<"list", Numerals[id]>>

\* Mutant of NextList: the counter is advanced when a list ends.
NextListLate == Len(SelectSeq(declared, LAMBDA e : e.string[1] = "list")) + 1

NextList == slice_lists + 1

\* resolve_expr_list in the initializer of a constant, for a slice.  The list
\* takes a number; one that is static reserves its name, and its elements are
\* resolved before the name is registered.  When the list is there its elements
\* are resolved, a second time if it is static: the lists in them are further
\* lists of the constant.
BeginList ==
    LET name == ListName(NextList)
        is_static == ~InFunction \/ is_within_constant_decl
        unique == normalize_unique(State, Qualified(Top.prefix, name))
        x == IF is_static THEN unique.state ELSE After(Insert(Top.table, name))
    IN  /\ Resolving
        /\ Top.kind \in {"constant", "list"}
        /\ slice_lists < Programs[program].lists
        /\ Fits(x)
        /\ SetState(x)
        /\ slice_lists' = slice_lists + 1
        /\ IF is_static
           THEN /\ Push([Frame("list", Top.table, Top.prefix, name)
                            EXCEPT !.address = unique.address])
                /\ UNCHANGED locals
           ELSE /\ locals' = locals \cup {name}
                /\ UNCHANGED frames
        /\ UNCHANGED <<program, chilling, frozen, templates, incomplete_functions,
                       is_within_constant_decl, phase>>

\* The elements of a static list have been resolved.
EndList ==
    LET x == After(Register(Top.address) \o Insert(Top.table, Top.name))
    IN  /\ Resolving
        /\ Top.kind = "list"
        /\ Fits(x)
        /\ SetState(x)
        /\ Pop
        /\ UNCHANGED <<program, chilling, frozen, templates, incomplete_functions,
                       is_within_constant_decl, slice_lists, phase, locals>>

\* The end of resolve_decl_constant.
EndConstant ==
    LET x == After(Static(Qualified(Top.prefix, Top.name)) \o Insert(Top.table, Top.name))
    IN  /\ Resolving
        /\ Top.kind = "constant"
        /\ IF ~InFunction /\ Redeclared(State, Top.table, Top.name) THEN Fatal
           ELSE /\ Fits(x)
                /\ SetState(x)
                /\ is_within_constant_decl' = FALSE
                /\ Pop
                /\ UNCHANGED <<program, chilling, frozen, templates, incomplete_functions,
                               slice_lists, phase, locals>>

\* resolve_decl_variable in a function.
Variable(id) ==
    LET x == After(Insert(Top.table, id))
    IN  /\ May("variable")
        /\ Fits(x)
        /\ SetState(x)
        /\ UNCHANGED <<program, chilling, frozen, frames, templates, incomplete_functions,
                       is_within_constant_decl, slice_lists, phase, locals>>

NewTable == Len(tables) + 1

\* resolve_decl_function, without template parameters: the function's symbol
\* goes into one table, its return value into a new one.
DeclFunction(t, inner, prefix, name, moves) ==
    Static(Qualified(prefix, name)) \o InsertMoving(t, name, moves)
    \o Create(t) \o Insert(inner, Return)

\* resolve_decl_struct: the table of the struct, and its symbol.
DeclStruct(t, name, moves) == Create(t) \o InsertMoving(t, name, moves)

Incomplete(x, table) ==
    Append(incomplete_functions, [table |-> table, address |-> Last(x.statics)])

Function(id) ==
    LET x == After(DeclFunction(Top.table, NewTable, Top.prefix, id, FALSE))
    IN  /\ May("function")
        /\ Named(id)
        /\ IF Redeclared(State, Top.table, id) THEN Fatal
           ELSE /\ Fits(x)
                /\ SetState(x)
                /\ chilling' = Append(chilling, NewTable)
                /\ incomplete_functions' = Incomplete(x, NewTable)
                /\ UNCHANGED <<program, frozen, frames, templates, is_within_constant_decl,
                               slice_lists, phase, locals>>

\* resolve_decl_struct and complete_struct, up to its first member.
BeginStruct(id) ==
    LET x == After(DeclStruct(Top.table, id, FALSE))
    IN  /\ May("struct")
        /\ IF Redeclared(State, Top.table, id) THEN FatalChilled(After(Create(Top.table)))
           ELSE /\ Fits(x)
                /\ SetState(x)
                /\ chilling' = Append(chilling, NewTable)
                /\ Push(Frame("struct", NewTable, id, id))
                /\ UNCHANGED <<program, frozen, templates, incomplete_functions,
                               is_within_constant_decl, slice_lists, phase, locals>>

\* The end of complete_struct.
EndStruct ==
    /\ Resolving
    /\ Top.kind = "struct"
    /\ Pop
    /\ UNCHANGED <<program, tablevars, chilling, frozen, templates, incomplete_functions,
                   is_within_constant_decl, slice_lists, phase, locals>>

\* resolve_decl_function and resolve_decl_struct, with n template parameters.
Template(id, of, n) ==
    LET x == After(DeclStruct(Top.table, id, FALSE))
    IN  /\ May(IF of = "function" THEN "function template" ELSE "struct template")
        /\ IF Redeclared(State, Top.table, id) THEN FatalChilled(After(Create(Top.table)))
           ELSE /\ Fits(x)
                /\ SetState(x)
                /\ chilling' = Append(chilling, NewTable)
                /\ templates' = Append(templates,
                      [of |-> of, name |-> id, parameters |-> n, parent |-> Top.table,
                       symbols |-> NewTable, prefix |-> Top.prefix])
                /\ UNCHANGED <<program, frozen, frames, incomplete_functions,
                               is_within_constant_decl, slice_lists, phase, locals>>

InstanceName(t) == t.name \o <<"[[", "u8", "]]">>

\* xget_template_instance: a table of its parameters and the template itself,
\* frozen before the declaration is resolved in it.
Instance(t, moves) ==
    LET parameters ==
            Create(t.parent)
            \o [i \in 1..t.parameters |-> Insert(NewTable, ParameterNames[i])[1]]
            \o Insert(NewTable, t.name)
        inner == NewTable + 1
        x == After(parameters
                   \o (IF t.of = "function"
                       THEN DeclFunction(NewTable, inner, t.prefix, InstanceName(t), moves)
                       ELSE DeclStruct(NewTable, InstanceName(t), moves))
                   \o Insert(t.symbols, InstanceName(t)))
    IN  /\ Resolving
        /\ Top.kind \in {"constant", "list", "body"}
        /\ Lookup(State, t.symbols, Pointer(names, InstanceName(t))) = NULL
        /\ Fits(x)
        /\ SetState(x)
        /\ frozen' = frozen \o Blocks(After(parameters), NewTable)
        /\ chilling' = Append(chilling, inner)
        /\ IF t.of = "function"
           THEN /\ incomplete_functions' = Incomplete(x, inner)
                /\ UNCHANGED frames
           ELSE /\ Push(Frame("struct", inner, InstanceName(t), t.name))
                /\ UNCHANGED incomplete_functions
        /\ UNCHANGED <<program, templates, is_within_constant_decl, slice_lists, phase,
                       locals>>

\* symbol_table_insert refuses the parameter after the k-th of the template, or
\* after all of them the template, whose name an earlier one has.
RefuseInstance(t, k) ==
    LET x == After(Create(t.parent)
                   \o [i \in 1..k |-> Insert(NewTable, ParameterNames[i])[1]])
    IN  /\ Resolving
        /\ Top.kind \in {"constant", "list", "body"}
        /\ Lookup(State, t.symbols, Pointer(names, InstanceName(t))) = NULL
        /\ Fits(x)
        /\ SetState(x)
        /\ Push(Frame("instance", NewTable, t.prefix, t.name))
        /\ phase' = "fatal"
        /\ UNCHANGED <<program, chilling, frozen, templates, incomplete_functions,
                       is_within_constant_decl, slice_lists, locals>>

\* resolve_decl_extend, before and after the declaration in it.
BeginExtend(id) ==
    LET x == After(Create(Top.table))
    IN  /\ May("extend")
        /\ Fits(x)
        /\ SetState(x)
        /\ Push(Frame("extend", NewTable, <<"u8">>, id))
        /\ UNCHANGED <<program, chilling, frozen, templates, incomplete_functions,
                       is_within_constant_decl, slice_lists, phase, locals>>

EndExtend ==
    LET x == After(Insert(BuiltinType, Top.name))
    IN  /\ Resolving
        /\ Top.kind = "extend"
        /\ tables[Top.table].elements # <<>>
        /\ IF Redeclared(State, BuiltinType, Top.name) THEN Fatal
           ELSE /\ Fits(x)
                /\ SetState(x)
                /\ frozen' = frozen \o Blocks(x, Top.table)
                /\ Pop
                /\ UNCHANGED <<program, chilling, templates, incomplete_functions,
                               is_within_constant_decl, slice_lists, phase, locals>>

\* complete_function: its body is resolved in the table of the function.
BeginFunction ==
    LET f == Head(incomplete_functions)
    IN  /\ Resolving
        /\ Top.kind = "module"
        /\ incomplete_functions # <<>>
        /\ phase' = "bodies"
        /\ incomplete_functions' = Tail(incomplete_functions)
        /\ Push(Frame("body", f.table, StringOf(f.address), <<>>))
        /\ UNCHANGED <<program, tablevars, chilling, frozen, templates,
                       is_within_constant_decl, slice_lists, locals>>

\* A block inside a body has a table of its own, frozen when it ends.
BeginBlock ==
    LET x == After(Create(Top.table))
    IN  /\ May("block")
        /\ Fits(x)
        /\ SetState(x)
        /\ Push(Frame("body", NewTable, Top.prefix, <<"{">>))
        /\ UNCHANGED <<program, chilling, frozen, templates, incomplete_functions,
                       is_within_constant_decl, slice_lists, phase, locals>>

\* Mutant of EndBlock: the table of the function is frozen, too.
EndBlockFreezes ==
    /\ Resolving
    /\ Top.kind = "body"
    /\ Pop
    /\ frozen' = frozen \o Blocks(State, Top.table)
    /\ UNCHANGED <<program, tablevars, chilling, templates, incomplete_functions,
                   is_within_constant_decl, slice_lists, phase, locals>>

EndBlock ==
    /\ Resolving
    /\ Top.kind = "body"
    /\ Pop
    /\ frozen' = IF Top.name = <<"{">> THEN frozen \o Blocks(State, Top.table) ELSE frozen
    /\ UNCHANGED <<program, tablevars, chilling, templates, incomplete_functions,
                   is_within_constant_decl, slice_lists, phase, locals>>

\* codegen's check for static symbols with the same mangled address.
Conflict ==
    \E i, j \in DOMAIN statics : i < j /\ Mangled(StringOf(statics[i])) = Mangled(StringOf(statics[j]))

Codegen ==
    /\ Resolving
    /\ Top.kind = "module"
    /\ incomplete_functions = <<>>
    /\ phase' = IF Conflict THEN "conflict" ELSE "generated"
    /\ UNCHANGED <<program, tablevars, chilling, frozen, frames, templates,
                   incomplete_functions, is_within_constant_decl, slice_lists, locals>>

\* context_fini, in a debug build: module_del, the global table, the chilling
\* tables; then freeze_fini frees every pointer of the list.  It is called at
\* exit, also when the program has been refused.
Finalize ==
    LET order == <<Module, Global>> \o chilling
        until[i \in 0..Len(order)] ==
            IF i = 0 THEN frozen ELSE until[i - 1] \o Blocks(State, order[i])
    IN  /\ phase \in {"fatal", "conflict", "generated"}
        /\ phase' = "done"
        /\ frozen' = until[Len(order)]
        /\ UNCHANGED <<program, tablevars, chilling, frames, templates,
                       incomplete_functions, is_within_constant_decl, slice_lists, locals>>

Next ==
    \/ \E id \in Identifiers :
          \/ BeginConstant(id)
          \/ Variable(id)
          \/ Function(id)
          \/ BeginStruct(id)
          \/ BeginExtend(id)
          \/ \E of \in {"function", "struct"}, n \in Programs[program].parameters : Template(id, of, n)
    \/ BeginList
    \/ EndList
    \/ EndConstant
    \/ EndStruct
    \/ \E i \in DOMAIN templates, moves \in BOOLEAN : Instance(templates[i], moves)
    \/ \E i \in DOMAIN templates :
          \E k \in 1..templates[i].parameters : RefuseInstance(templates[i], k)
    \/ EndExtend
    \/ BeginFunction
    \/ BeginBlock
    \/ EndBlock
    \/ Refuse
    \/ Codegen
    \/ Finalize

Spec == Init /\ [][Next]_vars
-----------------------------------------------------------------------------
SymbolsTypeOK ==
    /\ \A i \in DOMAIN names.slots : names.slots[i] \in 0..Len(names.strings)
    /\ \A t \in DOMAIN tables :
          /\ tables[t].parent \in 0..(t - 1)
          /\ Len(tables[t].elements) <= tables[t].capacity
          /\ tables[t].buffer = NULL <=> tables[t].elements = <<>>
    /\ \A i \in DOMAIN statics : statics[i] \in DOMAIN names.strings
    /\ \A i \in DOMAIN chilling : chilling[i] \in DOMAIN tables
    /\ \A i \in DOMAIN frames :
          /\ frames[i].table \in DOMAIN tables
          /\ IF frames[i].kind = "list" THEN frames[i].address \in DOMAIN names.strings
             ELSE frames[i].address = NULL
    /\ slice_lists \in 0..Programs[program].lists
    /\ is_within_constant_decl \in BOOLEAN
    /\ phase \in {"declarations", "bodies", "fatal", "conflict", "generated", "done"}

\* Two strings are equal if and only if their pointers are: every string that
\* was interned is found again, where it is, however often the set has been
\* rehashed; there is always a slot for the search to end at.
InternedOnce ==
    /\ \A p \in DOMAIN names.strings : Pointer(names, names.strings[p]) = p
    /\ 2 * Len(names.strings) <= Cardinality(DOMAIN names.slots)

\* What is declared under a name in the scopes around a table: the innermost
\* and, in one scope, the newest, or NULL.
Visible(t, string) ==
    LET around[u \in 0..t] == IF u = NULL THEN {} ELSE {u} \cup around[tables[u].parent]
        found == {i \in DOMAIN declared :
                     declared[i].table \in around[t] /\ declared[i].string = string}
    IN  IF found = {} THEN NULL
        ELSE CHOOSE i \in found : \A j \in found :
                /\ declared[j].table <= declared[i].table
                /\ declared[j].table = declared[i].table => j <= i

\* Lookup by pointers finds what the scopes of the source say, in every table
\* and for every name: in blocks, in function bodies that are resolved after
\* everything else, in templates' instances, and after buffers have moved.
FindsInnermost ==
    \A t \in DOMAIN tables, p \in DOMAIN names.strings :
        Lookup(State, t, p) = Visible(t, names.strings[p])

\* A name means what the scopes of the source say.
NamesResolve == InternedOnce /\ FindsInnermost

\* No two static symbols have the same name: also not those that the elements
\* of slice lists lead to, between the reservation of the list's name and its
\* registration, the only thing that makes a name taken.
StaticsApart ==
    LET open == {i \in DOMAIN frames : frames[i].address # NULL}
    IN  /\ \A i, j \in DOMAIN statics : i # j => statics[i] # statics[j]
        /\ \A i \in open :
              /\ \A j \in DOMAIN statics : frames[i].address # statics[j]
              /\ \A j \in open : i # j => frames[i].address # frames[j].address

Live == UNION {{Blocks(State, t)[i] : i \in DOMAIN Blocks(State, t)} : t \in DOMAIN tables}
Frees(block) == Cardinality({i \in DOMAIN frozen : frozen[i] = block})
Wrong ==
    {block \in Live \cup {frozen[i] : i \in DOMAIN frozen} :
        Frees(block) # IF block \in Live THEN 1 ELSE 0}

\* The tables that are nobody's until they are frozen: of blocks, of extend
\* declarations and of parameters of template instances.
Unowned ==
    {frames[i].table : i \in {j \in DOMAIN frames :
        \/ frames[j].kind \in {"extend", "instance"}
        \/ frames[j].kind = "body" /\ frames[j].name = <<"{">>}}

\* When the compiler has exited, whether or not it has refused the program,
\* every table and its elements have been freed once, but for
\* - the elements of a template instance's table that was exactly full when it
\*   was frozen: the instance's own symbol makes it grow;
\* - what an error has left open among the tables that nobody owns: that is
\*   never freed.
LifecyclesEnd ==
    phase = "done" =>
        \A block \in Wrong :
            LET elements == tables[block[1]].elements
            IN  \/ /\ block[2] # 0
                   /\ StringOf(elements[1].name) = ParameterNames[1]
                   /\ tables[block[1]].capacity = 2 * (Len(elements) - 1)
                \/ /\ block[1] \in Unowned
                   /\ Frees(block) = 0

\* context_fini finalizes in debug builds "as a way to ensure that the model of
\* object lifecycles is correctly implemented": every block is freed once.
\* The code breaks it: see "Findings" in README.md.
FreedOnce == phase = "done" => Wrong = {}

\* "Constants (globals and locals) have their values computed at compile-time":
\* the elements of a slice list in a constant have static storage.
ConstantsAreStatic == locals = {}
=============================================================================
