------------------------------- MODULE Parser -------------------------------
(***************************************************************************)
(* The parser (parse.c): one function per rule, two tokens of lookahead, a *)
(* precedence climber for expressions, and no way back: the first token    *)
(* that a function does not expect ends the compiler.                      *)
(*                                                                         *)
(* A function is what it does next: a row of tokens to expect and of       *)
(* functions to call, decided by the current token, and by the next one    *)
(* where the code peeks.  A loop is a function that calls itself last.     *)
(* `todo` is the stack of the recursion, the rows of all activations one   *)
(* after the other.  The source is the environment's choice, token by      *)
(* token, when the parser looks at it; there is no end to its length, only *)
(* to the depth of the recursion.                                          *)
(***************************************************************************)
EXTENDS Naturals, Sequences, FiniteSets, Grammar

CONSTANT Vocabularies   \* bounds: in a row, the tokens that a source is written
                        \* with, and how much may be left to do in reading it

ASSUME VocabulariesAssumption ==
    Vocabularies \in Seq([tokens : SUBSET Tokens, depth : Nat])

VARIABLES
    vocabulary, \* the bounds of this source: an index of Vocabularies
    todo,       \* what the functions on the C stack have still to do
    ahead,      \* the tokens that were looked at and are not consumed
    roots,      \* history: for each expression that is being parsed, the
                \* innermost first, the precedence of the root of its tree
    derivations,\* history: what GRAMMAR derives after the consumed tokens
    outcome     \* "parsing", "accepted", "rejected"

vars == <<vocabulary, todo, ahead, roots, derivations, outcome>>

Fatal == <<"fatal">>

\* enum precedence.
LOWEST == 0
OR == 1
AND == 2
COMPARE == 3
SUM == 4
PRODUCT == 5
PREFIX == 6
POSTFIX == 7
PRIMARY == 8    \* history: the root of what needs no parentheses

token_kind_precedence(c) ==
    CASE c = "or" -> OR
      [] c = "and" -> AND
      [] c = "==" -> COMPARE
      [] c \in {"+", "|"} -> SUM
      [] c \in {"*", "/"} -> PRODUCT
      [] c \in {"(", "[", ".*", "."} -> POSTFIX
      [] OTHER -> LOWEST

\* parse_expr_precedence(p), and its loop over left denotations.
Operands == <<"expr0", "expr1", "expr2", "expr3", "expr4", "expr5", "expr6">>
Loops == <<"loop0", "loop1", "loop2", "loop3", "loop4", "loop5", "loop6">>
parse_expr_at(p) == Operands[p + 1]
Loop(p) == Loops[p + 1]
IsOperand(f) == \E i \in 1..7 : f = Operands[i]
IsLoop(f) == \E i \in 1..7 : f = Loops[i]
Level(f) == (CHOOSE i \in 1..7 : f \in {Operands[i], Loops[i]}) - 1
parse_expr == "expr0"

-----------------------------------------------------------------------------
(***************************************************************************)
(* Modules and declarations.                                               *)
(***************************************************************************)
parse_block(c) == <<"{", "block stmts">>
block_stmts(c) == IF c = "}" THEN <<"}">> ELSE <<"parse_stmt", "block stmts">>

parse_switch_case(c) ==
    IF c = "else" THEN <<"else", "parse_block">>
    ELSE <<"parse_symbol", "case symbols", "parse_block">>
case_symbols(c) == IF c = "or" THEN <<"or", "parse_symbol", "case symbols">> ELSE <<>>

parse_module(c) ==
    IF c = "namespace" THEN <<"parse_namespace", "module imports">>
    ELSE <<"module imports">>
module_imports(c) ==
    IF c = "import" THEN <<"parse_import", "module imports">> ELSE <<"module decls">>
module_decls(c) == IF c = "eof" THEN <<>> ELSE <<"parse_decl", "module decls">>

parse_namespace(c) == <<"namespace", "id", "namespace rest">>
namespace_rest(c) == IF c = ";" THEN <<";">> ELSE <<"::", "id", "namespace rest">>
parse_import(c) == <<"import", "bytes", ";">>

parse_decl(c, p) ==
    CASE c = "var" -> <<"parse_decl_variable">>
      [] c = "let" -> <<"parse_decl_constant">>
      [] c = "func" -> <<"parse_decl_function">>
      [] c = "struct" -> <<"parse_decl_struct">>
      [] c = "union" -> <<"parse_decl_union">>
      [] c = "enum" -> <<"parse_decl_enum">>
      [] c = "extend" -> <<"parse_decl_extend">>
      [] c = "type" -> <<"parse_decl_alias">>
      [] c = "extern" /\ p = "var" -> <<"parse_decl_extern_variable">>
      [] c = "extern" /\ p = "func" -> <<"parse_decl_extern_function">>
      [] c = "extern" /\ p = "type" -> <<"parse_decl_extern_type">>
      [] OTHER -> Fatal

\* A missing type is found out by `uninit`, which is fatal without one.
parse_decl_variable(c) == <<"var", "id", "variable type">>
parse_decl_constant(c) == <<"let", "id", "variable type">>
variable_type(c) ==
    IF c = ":" THEN <<":", "parse_type", "=", "value or uninit", ";">>
    ELSE <<"=", "value", ";">>
value_or_uninit(c) == IF c = "uninit" THEN <<"uninit">> ELSE <<parse_expr>>
value(c) == IF c = "uninit" THEN Fatal ELSE <<parse_expr>>

parse_decl_function(c) ==
    <<"func", "id", "parse_template_parameter_list", "(",
      "parse_function_parameter_list", ")", "parse_type", "parse_block">>
parse_decl_struct(c) ==
    <<"struct", "id", "parse_template_parameter_list", "{", "parse_member_list", "}">>
parse_decl_union(c) ==
    <<"union", "id", "parse_template_parameter_list", "{", "parse_member_list", "}">>
parse_decl_enum(c) == <<"enum", "id", "type specifier", "{", "enum values">>
type_specifier(c) == IF c = ":" THEN <<":", "parse_type">> ELSE <<>>
enum_values(c) ==
    IF c \notin {"}", "func"} THEN <<"parse_enum_value", "enum values">>
    ELSE <<"enum functions">>
enum_functions(c) ==
    IF c = "}" THEN <<"}">> ELSE <<"parse_member_function", "enum functions">>
parse_decl_extend(c) == <<"extend", "parse_type", "parse_decl">>
parse_decl_alias(c) == <<"type", "id", "=", "parse_type", ";">>
parse_decl_extern_variable(c) == <<"extern", "var", "id", ":", "parse_type", ";">>
parse_decl_extern_function(c) ==
    <<"extern", "func", "id", "(", "parse_function_parameter_list", ")", "parse_type", ";">>
parse_decl_extern_type(c) == <<"extern", "type", "id", ";">>

-----------------------------------------------------------------------------
(***************************************************************************)
(* Statements.                                                             *)
(***************************************************************************)
parse_stmt(c) ==
    CASE c \in {"var", "let", "func", "type"} -> <<"parse_stmt_decl">>
      [] c = "defer" -> <<"parse_stmt_defer">>
      [] c = "if" -> <<"parse_stmt_if">>
      [] c = "when" -> <<"parse_stmt_when">>
      [] c = "for" -> <<"parse_stmt_for">>
      [] c = "break" -> <<"parse_stmt_break">>
      [] c = "switch" -> <<"parse_stmt_switch">>
      [] c = "return" -> <<"parse_stmt_return">>
      [] c = "assert" -> <<"parse_stmt_assert">>
      [] OTHER -> <<parse_expr, "stmt assign">>
parse_stmt_decl(c) == <<"parse_decl">>
stmt_assign(c) == IF c \in {"=", "+="} THEN <<c, parse_expr, ";">> ELSE <<";">>

parse_stmt_defer(c) == <<"defer", "deferred">>
deferred(c) == IF c = "{" THEN <<"parse_block">> ELSE <<parse_expr, ";">>

parse_stmt_if(c) == <<"if", parse_expr, "parse_block", "if rest">>
if_rest(c) ==
    IF c = "elif" THEN <<"elif", parse_expr, "parse_block", "if rest">> ELSE <<"else rest">>
parse_stmt_when(c) == <<"when", parse_expr, "parse_block", "when rest">>
when_rest(c) ==
    IF c = "elwhen" THEN <<"elwhen", parse_expr, "parse_block", "when rest">>
    ELSE <<"else rest">>
else_rest(c) == IF c = "else" THEN <<"else", "parse_block">> ELSE <<>>

parse_stmt_for(c) == <<"for", "for head">>
\* Mutant of for_head: the next token is not looked at.
for_head_unpeeked(c, p) ==
    IF c = "id" THEN <<"id", "type specifier", "in", parse_expr, "for end", "parse_block">>
    ELSE <<parse_expr, "parse_block">>
for_head(c, p) ==
    IF c = "id" /\ p \in {":", "in"}
    THEN <<"id", "type specifier", "in", parse_expr, "for end", "parse_block">>
    ELSE <<parse_expr, "parse_block">>
for_end(c) == IF c = ":" THEN <<":", parse_expr>> ELSE <<>>

parse_stmt_break(c) == <<"break", ";">>
parse_stmt_switch(c) == <<"switch", parse_expr, "{", "switch cases">>
\* Mutant of switch_cases: cases may follow `else`.
switch_cases_on(c) == IF c = "}" THEN <<"}">> ELSE <<"parse_switch_case", "switch cases">>
switch_cases(c) ==
    IF c = "}" THEN <<"}">>
    ELSE IF c = "else" THEN <<"parse_switch_case", "}">>
    ELSE <<"parse_switch_case", "switch cases">>
parse_stmt_return(c) == <<"return", "returned", ";">>
returned(c) == IF c = ";" THEN <<>> ELSE <<parse_expr>>
parse_stmt_assert(c) == <<"assert", parse_expr, ";">>

-----------------------------------------------------------------------------
(***************************************************************************)
(* Expressions: a null denotation for the first token, then left           *)
(* denotations as long as the current operator binds tighter.              *)
(***************************************************************************)
token_kind_nud(c) ==
    CASE c \in {"id", "typeof", "::"} -> <<"parse_symbol">>
      [] c \in {"lit", "bytes"} -> <<c>>
      [] c = "(" -> <<"parse_expr_lparen">>
      [] c = "defined" -> <<"parse_expr_defined">>
      [] c = "sizeof" -> <<"parse_expr_sizeof">>
      [] c = "fileof" -> <<"parse_expr_fileof">>
      [] c = "embed" -> <<"parse_expr_embed">>
      [] c \in {"not", "countof", "+", "*"} -> <<"parse_expr_nud_unary">>
      [] OTHER -> Fatal

token_kind_led(c) ==
    CASE c = "(" -> <<"parse_expr_led_lparen">>
      [] c = "[" -> <<"parse_expr_led_lbracket">>
      [] c = ".*" -> <<".*">>
      [] c = "." -> <<"parse_expr_led_dot">>
      [] c \in {"or", "and", "==", "+", "|", "*", "/"} -> <<"parse_expr_led_binary">>

parse_expr_precedence(c, p) == token_kind_nud(c) \o <<Loop(p)>>
\* Mutant of led_loop: `if` instead of `while`.
led_once(c, p) == IF p < token_kind_precedence(c) THEN token_kind_led(c) ELSE <<>>
led_loop(c, p) ==
    IF p < token_kind_precedence(c) THEN token_kind_led(c) \o <<Loop(p)>> ELSE <<>>

parse_expr_lparen(c) == <<"(", "lparen rest">>
lparen_rest(c) ==
    IF c # ":" THEN <<parse_expr, ")">> ELSE <<":", "parse_type", ")", "typed">>
typed(c, p) ==
    CASE c = "[" -> <<"[", "list first">>
      [] c = "{" /\ p \in {"}", "."} -> <<"{", "parse_member_initializer_list", "}">>
      [] c = "{" /\ p \notin {"}", "."} -> <<"{", parse_expr, ",", parse_expr, "}">>
      [] OTHER -> <<parse_expr_at(PREFIX)>>
list_first(c) == IF c = "]" THEN <<"]">> ELSE <<parse_expr, "list rest">>
list_rest(c) ==
    CASE c = "..." -> <<"...", "]">>
      [] c = "]" -> <<"]">>
      [] OTHER -> <<",", "list first">>

parse_expr_led_lparen(c) == <<"(", "arguments first">>
arguments_first(c) == IF c = ")" THEN <<")">> ELSE <<parse_expr, "arguments rest">>
arguments_rest(c) == IF c = ")" THEN <<")">> ELSE <<",", "arguments first">>
parse_expr_led_lbracket(c) == <<"[", parse_expr, "bracket rest">>
bracket_rest(c) == IF c = ":" THEN <<":", parse_expr, "]">> ELSE <<"]">>
parse_expr_led_dot(c) == <<".", "parse_symbol_element">>
\* Mutant of parse_expr_led_binary: operators are right associative.
led_binary_right(c) == <<c, parse_expr_at(token_kind_precedence(c) - 1)>>
parse_expr_led_binary(c) == <<c, parse_expr_at(token_kind_precedence(c))>>

parse_expr_nud_unary(c) ==
    IF c = "countof" THEN <<c, "(", parse_expr_at(PREFIX), ")">>
    ELSE <<c, parse_expr_at(PREFIX)>>
parse_expr_defined(c) == <<"defined", "(", "parse_symbol", ")">>
parse_expr_sizeof(c) == <<"sizeof", "(", "parse_type", ")">>
parse_expr_fileof(c) == <<"fileof", "(", ")">>
parse_expr_embed(c) == <<"embed", "(", "bytes", ")">>

-----------------------------------------------------------------------------
(***************************************************************************)
(* Symbols, lists and types.                                               *)
(***************************************************************************)
parse_symbol(c) ==
    CASE c = "::" -> <<"::", "parse_symbol_element", "symbol rest">>
      [] c = "typeof" -> <<"parse_type", "::", "parse_symbol_element", "symbol rest">>
      [] OTHER -> <<"parse_symbol_element", "symbol rest">>
symbol_rest(c) ==
    IF c = "::" THEN <<"::", "parse_symbol_element", "symbol rest">> ELSE <<>>
parse_symbol_element(c) == <<"id", "element arguments">>
element_arguments(c, p) ==
    IF c = "[" /\ p = "[" THEN <<"parse_template_argument_list">> ELSE <<>>

parse_template_parameter_list(c) ==
    IF c # "[" THEN <<>> ELSE <<"[", "[", "id", "parameters rest", "]", "]">>
parameters_rest(c) == IF c = "," THEN <<",", "id", "parameters rest">> ELSE <<>>
parse_template_argument_list(c) == <<"[", "[", "parse_type", "types rest", "]", "]">>
types_rest(c) == IF c = "," THEN <<",", "parse_type", "types rest">> ELSE <<>>

parse_function_parameter_list(c) ==
    IF c # "id" THEN <<>> ELSE <<"parse_function_parameter", "function parameters">>
function_parameters(c) ==
    IF c = "," THEN <<",", "parse_function_parameter", "function parameters">> ELSE <<>>
parse_function_parameter(c) == <<"id", ":", "parse_type">>

parse_member_list(c) == IF c = "}" THEN <<>> ELSE <<"parse_member", "parse_member_list">>
parse_member(c) ==
    CASE c = "var" -> <<"parse_member_variable">>
      [] c = "let" -> <<"parse_member_constant">>
      [] c = "func" -> <<"parse_member_function">>
      [] c = "type" -> <<"parse_member_alias">>
      [] OTHER -> Fatal
parse_member_constant(c) == <<"parse_decl_constant">>
parse_member_function(c) == <<"parse_decl_function">>
parse_member_alias(c) == <<"parse_decl_alias">>
parse_member_variable(c) == <<"var", "id", ":", "parse_type", ";">>

parse_member_initializer_list(c) ==
    IF c # "." THEN <<>> ELSE <<"parse_member_initializer", "initializers rest">>
initializers_rest(c) == IF c = "," THEN <<",", "initializers next">> ELSE <<>>
initializers_next(c) ==
    IF c = "}" THEN <<>> ELSE <<"parse_member_initializer", "initializers rest">>
parse_member_initializer(c) == <<".", "id", "=", "value or uninit">>
parse_enum_value(c) == <<"id", "enum value", ";">>
enum_value(c) == IF c = "=" THEN <<"=", parse_expr>> ELSE <<>>

parse_type(c) ==
    CASE c \in {"id", "::"} -> <<"parse_symbol">>
      [] c = "func" -> <<"parse_type_function">>
      [] c = "*" -> <<"parse_type_pointer">>
      [] c = "[" -> <<"parse_type_array_or_slice">>
      [] c = "struct" -> <<"parse_type_struct">>
      [] c = "union" -> <<"parse_type_union">>
      [] c = "enum" -> <<"parse_type_enum">>
      [] c = "typeof" -> <<"parse_type_typeof">>
      [] OTHER -> Fatal
parse_type_function(c) == <<"func", "(", "function types", ")", "parse_type">>
function_types(c) == IF c = ")" THEN <<>> ELSE <<"parse_type", "types rest">>
parse_type_pointer(c) == <<"*", "parse_type">>
parse_type_array_or_slice(c) == <<"[", "array count", "]", "parse_type">>
array_count(c) == IF c = "]" THEN <<>> ELSE <<parse_expr>>
parse_type_struct(c) == <<"struct", "{", "type members">>
parse_type_union(c) == <<"union", "{", "type members">>
type_members(c) == IF c = "}" THEN <<"}">> ELSE <<"parse_member_variable", "type members">>
parse_type_enum(c) == <<"enum", "type specifier", "{", "type values">>
type_values(c) == IF c = "}" THEN <<"}">> ELSE <<"parse_enum_value", "type values">>
parse_type_typeof(c) == <<"typeof", "(", parse_expr, ")">>

-----------------------------------------------------------------------------
\* What the function named f does at the current token c and the next one p.
Body(f, c, p) ==
    CASE f = "parse_block" -> parse_block(c)
      [] f = "block stmts" -> block_stmts(c)
      [] f = "parse_switch_case" -> parse_switch_case(c)
      [] f = "case symbols" -> case_symbols(c)
      [] f = "parse_module" -> parse_module(c)
      [] f = "module imports" -> module_imports(c)
      [] f = "module decls" -> module_decls(c)
      [] f = "parse_namespace" -> parse_namespace(c)
      [] f = "namespace rest" -> namespace_rest(c)
      [] f = "parse_import" -> parse_import(c)
      [] f = "parse_decl" -> parse_decl(c, p)
      [] f = "parse_decl_variable" -> parse_decl_variable(c)
      [] f = "parse_decl_constant" -> parse_decl_constant(c)
      [] f = "variable type" -> variable_type(c)
      [] f = "value or uninit" -> value_or_uninit(c)
      [] f = "value" -> value(c)
      [] f = "parse_decl_function" -> parse_decl_function(c)
      [] f = "parse_decl_struct" -> parse_decl_struct(c)
      [] f = "parse_decl_union" -> parse_decl_union(c)
      [] f = "parse_decl_enum" -> parse_decl_enum(c)
      [] f = "type specifier" -> type_specifier(c)
      [] f = "enum values" -> enum_values(c)
      [] f = "enum functions" -> enum_functions(c)
      [] f = "parse_decl_extend" -> parse_decl_extend(c)
      [] f = "parse_decl_alias" -> parse_decl_alias(c)
      [] f = "parse_decl_extern_variable" -> parse_decl_extern_variable(c)
      [] f = "parse_decl_extern_function" -> parse_decl_extern_function(c)
      [] f = "parse_decl_extern_type" -> parse_decl_extern_type(c)
      [] f = "parse_stmt" -> parse_stmt(c)
      [] f = "parse_stmt_decl" -> parse_stmt_decl(c)
      [] f = "stmt assign" -> stmt_assign(c)
      [] f = "parse_stmt_defer" -> parse_stmt_defer(c)
      [] f = "deferred" -> deferred(c)
      [] f = "parse_stmt_if" -> parse_stmt_if(c)
      [] f = "if rest" -> if_rest(c)
      [] f = "parse_stmt_when" -> parse_stmt_when(c)
      [] f = "when rest" -> when_rest(c)
      [] f = "else rest" -> else_rest(c)
      [] f = "parse_stmt_for" -> parse_stmt_for(c)
      [] f = "for head" -> for_head(c, p)
      [] f = "for end" -> for_end(c)
      [] f = "parse_stmt_break" -> parse_stmt_break(c)
      [] f = "parse_stmt_switch" -> parse_stmt_switch(c)
      [] f = "switch cases" -> switch_cases(c)
      [] f = "parse_stmt_return" -> parse_stmt_return(c)
      [] f = "returned" -> returned(c)
      [] f = "parse_stmt_assert" -> parse_stmt_assert(c)
      [] f = "parse_expr_lparen" -> parse_expr_lparen(c)
      [] f = "lparen rest" -> lparen_rest(c)
      [] f = "typed" -> typed(c, p)
      [] f = "list first" -> list_first(c)
      [] f = "list rest" -> list_rest(c)
      [] f = "parse_expr_led_lparen" -> parse_expr_led_lparen(c)
      [] f = "arguments first" -> arguments_first(c)
      [] f = "arguments rest" -> arguments_rest(c)
      [] f = "parse_expr_led_lbracket" -> parse_expr_led_lbracket(c)
      [] f = "bracket rest" -> bracket_rest(c)
      [] f = "parse_expr_led_dot" -> parse_expr_led_dot(c)
      [] f = "parse_expr_led_binary" -> parse_expr_led_binary(c)
      [] f = "parse_expr_nud_unary" -> parse_expr_nud_unary(c)
      [] f = "parse_expr_defined" -> parse_expr_defined(c)
      [] f = "parse_expr_sizeof" -> parse_expr_sizeof(c)
      [] f = "parse_expr_fileof" -> parse_expr_fileof(c)
      [] f = "parse_expr_embed" -> parse_expr_embed(c)
      [] f = "parse_symbol" -> parse_symbol(c)
      [] f = "symbol rest" -> symbol_rest(c)
      [] f = "parse_symbol_element" -> parse_symbol_element(c)
      [] f = "element arguments" -> element_arguments(c, p)
      [] f = "parse_template_parameter_list" -> parse_template_parameter_list(c)
      [] f = "parameters rest" -> parameters_rest(c)
      [] f = "parse_template_argument_list" -> parse_template_argument_list(c)
      [] f = "types rest" -> types_rest(c)
      [] f = "parse_function_parameter_list" -> parse_function_parameter_list(c)
      [] f = "function parameters" -> function_parameters(c)
      [] f = "parse_function_parameter" -> parse_function_parameter(c)
      [] f = "parse_member_list" -> parse_member_list(c)
      [] f = "parse_member" -> parse_member(c)
      [] f = "parse_member_constant" -> parse_member_constant(c)
      [] f = "parse_member_function" -> parse_member_function(c)
      [] f = "parse_member_alias" -> parse_member_alias(c)
      [] f = "parse_member_variable" -> parse_member_variable(c)
      [] f = "parse_member_initializer_list" -> parse_member_initializer_list(c)
      [] f = "initializers rest" -> initializers_rest(c)
      [] f = "initializers next" -> initializers_next(c)
      [] f = "parse_member_initializer" -> parse_member_initializer(c)
      [] f = "parse_enum_value" -> parse_enum_value(c)
      [] f = "enum value" -> enum_value(c)
      [] f = "parse_type" -> parse_type(c)
      [] f = "parse_type_function" -> parse_type_function(c)
      [] f = "function types" -> function_types(c)
      [] f = "parse_type_pointer" -> parse_type_pointer(c)
      [] f = "parse_type_array_or_slice" -> parse_type_array_or_slice(c)
      [] f = "array count" -> array_count(c)
      [] f = "parse_type_struct" -> parse_type_struct(c)
      [] f = "parse_type_union" -> parse_type_union(c)
      [] f = "type members" -> type_members(c)
      [] f = "parse_type_enum" -> parse_type_enum(c)
      [] f = "type values" -> type_values(c)
      [] f = "parse_type_typeof" -> parse_type_typeof(c)
      [] IsOperand(f) -> parse_expr_precedence(c, Level(f))
      [] IsLoop(f) -> led_loop(c, Level(f))

\* The functions that call check_peek, at this current token.
Peeks(f, c) ==
    \/ f = "parse_decl" /\ c = "extern"
    \/ f = "for head" /\ c = "id"
    \/ f = "typed" /\ c = "{"
    \/ f = "element arguments" /\ c = "["

-----------------------------------------------------------------------------
Top == Head(todo)

Init ==
    /\ vocabulary \in DOMAIN Vocabularies
    /\ todo = <<"parse_module">>
    /\ ahead = <<>>
    /\ roots = <<>>
    /\ derivations = Start
    /\ outcome = "parsing"

\* lexer_next_token, when the function on top looks at a token.
Look(token) ==
    /\ outcome = "parsing"
    /\ todo # <<>>
    /\ Len(todo) <= Vocabularies[vocabulary].depth
    /\ \/ ahead = <<>>
       \/ Len(ahead) = 1 /\ Peeks(Top, ahead[1])
    /\ ahead' = Append(ahead, token)
    /\ UNCHANGED <<vocabulary, todo, roots, derivations, outcome>>

\* expect_current.
Expect ==
    /\ outcome = "parsing"
    /\ todo # <<>>
    /\ ahead # <<>>
    /\ Top \in Tokens
    /\ IF ahead[1] = Top
       THEN /\ todo' = Tail(todo)
            /\ ahead' = Tail(ahead)
            /\ derivations' = After(derivations, Top)
            /\ UNCHANGED outcome
       ELSE /\ outcome' = "rejected"
            /\ UNCHANGED <<todo, ahead, derivations>>
    /\ UNCHANGED <<vocabulary, roots>>

\* What becomes of the trees: a null denotation, an operator taken by the
\* loop, the end of an expression, a cast.
Roots(f, c, p) ==
    IF IsOperand(f) THEN
        <<IF c \in {"not", "+", "*"} THEN PREFIX ELSE PRIMARY>> \o roots
    ELSE IF IsLoop(f) THEN
        IF Level(f) < token_kind_precedence(c)
        THEN <<token_kind_precedence(c)>> \o Tail(roots) ELSE Tail(roots)
    ELSE IF f = "typed" /\ c \notin {"[", "{"} THEN <<PREFIX>> \o Tail(roots)
    ELSE roots

\* A function is called, or goes on.
Call ==
    /\ outcome = "parsing"
    /\ todo # <<>>
    /\ ahead # <<>>
    /\ Top \notin Tokens
    /\ Peeks(Top, ahead[1]) => Len(ahead) = 2
    /\ LET c == ahead[1]
           p == ahead[Len(ahead)]
           body == Body(Top, c, p)
       IN  IF Fatal[1] \in {body[i] : i \in DOMAIN body}
           THEN /\ outcome' = "rejected"
                /\ UNCHANGED <<todo, roots>>
           ELSE /\ todo' = body \o Tail(todo)
                /\ roots' = Roots(Top, c, p)
                /\ UNCHANGED outcome
    /\ UNCHANGED <<vocabulary, ahead, derivations>>

Accept ==
    /\ outcome = "parsing"
    /\ todo = <<>>
    /\ outcome' = "accepted"
    /\ UNCHANGED <<vocabulary, todo, ahead, roots, derivations>>

Next ==
    \/ \E token \in Vocabularies[vocabulary].tokens : Look(token)
    \/ Expect
    \/ Call
    \/ Accept

Spec == Init /\ [][Next]_vars
-----------------------------------------------------------------------------
\* Every name on the stack is a token, a loop or a function; at most two
\* tokens are looked at; every expression being parsed has a root.
ParserTypeOK ==
    /\ vocabulary \in DOMAIN Vocabularies
    /\ todo \in Seq(STRING)
    /\ ahead \in UNION {[1..n -> Tokens] : n \in 0..2}
    /\ outcome \in {"parsing", "accepted", "rejected"}
    /\ Len(roots) = Cardinality({i \in DOMAIN todo : IsLoop(todo[i])})

\* What was consumed is the beginning of a module of GRAMMAR; what was
\* accepted is one.
ReadsGrammar ==
    /\ derivations # {}
    /\ outcome = "accepted" => Viable(derivations, ahead)

\* The parser gives up on a token only where GRAMMAR has no module that goes
\* on with it: deciding by one token, or two, loses no way to go on.
RefusesOnlyErrors == outcome = "rejected" => ~Viable(derivations, ahead)

\* The trees that the precedence climber builds are those of the levels of
\* enum precedence, left to right within a level: an operand has no root that
\* binds less tightly than the operator it belongs to, on the right of a binary
\* operator none that binds alike, and the next operator takes no operand
\* whose root binds less tightly than itself.
TreeIsPrecedence ==
    /\ \A i \in 1..(Len(todo) - 1) :
          IsLoop(todo[i]) /\ IsLoop(todo[i + 1]) =>
              LET operand == Cardinality({j \in 1..i : IsLoop(todo[j])})
                  operator == roots[operand + 1]
              IN  IF operator = PREFIX THEN roots[operand] >= PREFIX
                  ELSE roots[operand] > operator
    /\ outcome = "parsing" /\ todo # <<>> /\ ahead # <<>> =>
          (IsLoop(Top) /\ Level(Top) < token_kind_precedence(ahead[1]) =>
              roots[1] >= token_kind_precedence(ahead[1]))
=============================================================================
