------------------------------ MODULE Grammar ------------------------------
(***************************************************************************)
(* The language that the file GRAMMAR describes, as a set of derivations:  *)
(* the promise that the parser (Parser) is held to.                        *)
(*                                                                         *)
(* GRAMMAR is left-recursive and ambiguous in <expr>; here an expression   *)
(* is a row of operands between binary operators, an operand a row of      *)
(* prefixes, a primary expression and a row of postfixes, which derives    *)
(* the same rows of tokens.  Which tree they are is not GRAMMAR's subject. *)
(*                                                                         *)
(* One token stands for all that GRAMMAR treats alike: "lit" for literals, *)
(* "==" for comparisons, "+" for sums that are prefixes too, "|" for those *)
(* that are not, "/" for products, "+=" for compound assignments, "not"    *)
(* for the prefixes that are no binary operators; "break", "sizeof",       *)
(* "fileof", "countof" also for continue, alignof, lineof, startof.        *)
(***************************************************************************)
EXTENDS Sequences, TLC

CONSTANT Documented \* TRUE: GRAMMAR as it is written.  FALSE: GRAMMAR but
                    \* for the places where the parser reads something else

ASSUME DocumentedAssumption == Documented \in BOOLEAN

Tokens ==
    {"namespace", "import", "var", "let", "func", "struct", "union", "enum",
     "extend", "type", "extern", "defer", "if", "elif", "else", "when",
     "elwhen", "for", "in", "break", "switch", "return", "assert", "uninit",
     "id", "bytes", "lit", "typeof", "defined", "sizeof", "fileof", "embed",
     "countof", "not", "or", "and", "==", "+", "*", "/", "|", "=", "+=", "(",
     ")", "[", "]", "{", "}", ":", "::", ";", ",", ".", ".*", "...", "eof"}

\* <rule> ::= body?          <rule> ::= item*
Maybe(rule, body) == rule :> {<<>>, body}
Many(rule, item) == rule :> {<<>>, item \o <<rule>>}

ModuleRules ==
       "<module>" :> {<<"<namespace>", "<imports>", "<decls>", "eof">>}
    @@ Maybe("<namespace>", <<"namespace", "id", "<ids>", ";">>)
    @@ Many("<ids>", <<"::", "id">>)
    @@ Many("<imports>", <<"import", "bytes", ";">>)
    @@ "<decls>" :> {<<"<module-level-decl>", "<decls>">>, <<"<extends>">>}
    @@ "<extends>" :> {<<>>, <<"<decl-extend>", IF Documented THEN "<extends>" ELSE "<decls>">>}
    @@ "<decl-extend>" :> {<<"extend", "<type>", "<decl-constant>">>,
                           <<"extend", "<type>", "<decl-function>">>}
                          \cup (IF Documented THEN {}
                                ELSE {<<"extend", "<type>", "<module-level-decl>">>,
                                      <<"extend", "<type>", "<decl-extend>">>})

DeclRules ==
       "<module-level-decl>" :>
          {<<"<decl-variable>">>, <<"<decl-constant>">>, <<"<decl-function>">>,
           <<"struct", "id", "<parameters>", "{", "<members>", "}">>,
           <<"union", "id", "<parameters>", "{", "<members>", "}">>,
           <<"enum", "id", "<typed>", "{", "<enum-values>", "<functions>", "}">>,
           <<"<decl-type-alias>">>,
           <<"extern", "var", "id", ":", "<type>", ";">>,
           <<"extern", "func", "id", "(", "<function-parameters>", ")", "<type>", ";">>,
           <<"extern", "type", "id", ";">>}
    @@ "<decl-variable>" :> {<<"var", "<initial>">>}
    @@ "<decl-constant>" :> {<<"let", "<initial>">>}
    @@ "<initial>" :> {<<"id", "<typed>", "=", "<expr>", ";">>,
                       <<"id", ":", "<type>", "=", "uninit", ";">>}
    @@ "<decl-type-alias>" :> {<<"type", "id", "=", "<type>", ";">>}
    @@ "<decl-function>" :>
          {<<"func", "id", "<parameters>", "(", "<function-parameters>", ")",
             "<type>", "<block>">>}
    @@ Maybe("<typed>", <<":", "<type>">>)
    @@ Maybe("<parameters>", <<"[", "[", "id", "<more-parameters>", "]", "]">>)
    @@ Many("<more-parameters>", <<",", "id">>)
    @@ Maybe("<function-parameters>", <<"id", ":", "<type>", "<more-function-parameters>">>)
    @@ Many("<more-function-parameters>", <<",", "id", ":", "<type>">>)
    @@ "<members>" :> {<<>>} \cup
          {<<member, "<members>">> : member \in {"<member-variable>", "<decl-constant>",
                                                 "<decl-function>", "<decl-type-alias>"}}
    @@ "<member-variable>" :> {<<"var", "id", ":", "<type>", ";">>}
    @@ Many("<enum-values>", <<"id", "<enum-value>", ";">>)
    @@ Maybe("<enum-value>", <<"=", "<expr>">>)
    @@ Many("<functions>", <<"<decl-function>">>)

StmtRules ==
       "<block>" :> {<<"{", "<stmts>", "}">>}
    @@ Many("<stmts>", <<"<stmt>">>)
    @@ "<stmt>" :>
          {<<"<decl-variable>">>, <<"<decl-constant>">>, <<"<decl-type-alias>">>,
           <<"defer", "<block>">>, <<"defer", "<expr>", ";">>,
           <<"if", "<expr>", "<block>", "<elifs>", "<else>">>,
           <<"when", "<expr>", "<block>", "<elwhens>", "<else>">>,
           <<"for", "id", "<typed>", "in", "<expr>", "<block>">>,
           <<"for", "id", "<typed>", "in", "<expr>", ":", "<expr>", "<block>">>,
           <<"for", "<expr>", "<block>">>,
           <<"break", ";">>,
           <<"switch", "<expr>", "{", "<cases>", "<else>", "}">>,
           <<"return", ";">>, <<"return", "<expr>", ";">>,
           <<"assert", "<expr>", ";">>,
           <<"<expr>", "=", "<expr>", ";">>, <<"<expr>", "+=", "<expr>", ";">>,
           <<"<expr>", ";">>}
          \cup (IF Documented THEN {} ELSE {<<"<decl-function>">>})
    @@ Many("<elifs>", <<"elif", "<expr>", "<block>">>)
    @@ Many("<elwhens>", <<"elwhen", "<expr>", "<block>">>)
    @@ Maybe("<else>", <<"else", "<block>">>)
    @@ Many("<cases>", <<"<symbol>", "<or-symbols>", "<block>">>)
    @@ Many("<or-symbols>", <<"or", "<symbol>">>)

ExprRules ==
       "<expr>" :> {<<"<operand>", "<operators>">>}
    @@ "<operators>" :> {<<>>} \cup
          {<<op, "<operand>", "<operators>">> :
              op \in {"or", "and", "==", "+", "|", "*", "/"}}
    @@ "<operand>" :> {<<"<primary>", "<postfixes>">>,
                       <<"(", ":", "<type>", ")", "<operand>">>} \cup
          {<<prefix, "<operand>">> : prefix \in {"not", "+", "*"}}
    @@ "<primary>" :>
          {<<"<symbol>">>, <<"lit">>, <<"bytes">>,
           <<"(", ":", "<type>", ")", "[", "<elements>", "]">>,
           <<"(", ":", IF Documented THEN "<type-slice>" ELSE "<type>", ")",
             "{", "<expr>", ",", "<expr>", "}">>,
           <<"(", ":", "<type>", ")", "{", "<initializers>", "}">>,
           <<"(", "<expr>", ")">>,
           <<"defined", "(", "<symbol>", ")">>, <<"sizeof", "(", "<type>", ")">>,
           <<"fileof", "(", ")">>, <<"embed", "(", "bytes", ")">>,
           <<"countof", "(", IF Documented THEN "<expr>" ELSE "<operand>", ")">>}
    @@ "<elements>" :> {<<>>, <<"<expr>", "...">>, <<"<expr>", "<more-elements>">>}
    @@ "<more-elements>" :> {<<>>, <<",">>, <<",", "<expr>", "...">>,
                             <<",", "<expr>", "<more-elements>">>}
    @@ "<initializers>" :> {<<>>, <<"<initializer>", "<more-initializers>">>}
    @@ "<more-initializers>" :> {<<>>, <<",">>,
                                 <<",", "<initializer>", "<more-initializers>">>}
    @@ "<initializer>" :> {<<".", "id", "=", "<expr>">>, <<".", "id", "=", "uninit">>}
    @@ "<postfixes>" :> {<<>>} \cup
          {postfix \o <<"<postfixes>">> : postfix \in
              {<<"(", "<arguments>", ")">>, <<"[", "<expr>", "]">>,
               <<"[", "<expr>", ":", "<expr>", "]">>,
               <<".", "<symbol-element>">>, <<".*">>}}
    @@ "<arguments>" :> {<<>>, <<"<expr>", "<more-arguments>">>}
    @@ "<more-arguments>" :> {<<>>, <<",">>, <<",", "<expr>", "<more-arguments>">>}

TypeRules ==
       "<symbol>" :> {<<"<element-symbol>">>,
                      <<"<type-typeof>", "::", "<elements-of-symbol>">>}
    @@ "<element-symbol>" :> {<<"<elements-of-symbol>">>,
                              <<"::", "<elements-of-symbol>">>}
    @@ "<elements-of-symbol>" :> {<<"<symbol-element>", "<more-symbol-elements>">>}
    @@ Many("<more-symbol-elements>", <<"::", "<symbol-element>">>)
    @@ "<symbol-element>" :> {<<"id">>, <<"id", "[", "[", "<type>", "<more-types>", "]", "]">>}
    @@ Many("<more-types>", <<",", "<type>">>)
    @@ "<type>" :>
          {IF Documented THEN <<"<symbol>">> ELSE <<"<element-symbol>">>,
           <<"func", "(", "<types>", ")", "<type>">>, <<"*", "<type>">>,
           <<"[", "<expr>", "]", "<type>">>, <<"<type-slice>">>,
           <<"struct", "{", "<member-variables>", "}">>,
           <<"union", "{", "<member-variables>", "}">>,
           <<"enum", "<typed>", "{", "<enum-values>", "}">>,
           <<"<type-typeof>">>}
    @@ "<type-slice>" :> {<<"[", "]", "<type>">>}
    @@ "<type-typeof>" :> {<<"typeof", "(", "<expr>", ")">>}
    @@ "<types>" :> {<<>>, <<"<type>", "<more-types>">>}
    @@ Many("<member-variables>", <<"<member-variable>">>)

Rules == ModuleRules @@ DeclRules @@ StmtRules @@ ExprRules @@ TypeRules

\* A derivation is what is left to be derived: a row of rules and tokens.
Start == {<<"<module>">>}

RECURSIVE Open(_)
\* The derivations that begin with a token, or are at their end.
Open(derivations) ==
    LET closed == {d \in derivations : d # <<>> /\ Head(d) \notin Tokens}
    IN  IF closed = {} THEN derivations
        ELSE Open((derivations \ closed) \cup
                  UNION {{body \o Tail(d) : body \in Rules[Head(d)]} : d \in closed})

\* What is left of them after the next token of the source.
After(derivations, token) ==
    {Tail(d) : d \in {d \in Open(derivations) : d # <<>> /\ Head(d) = token}}

Viable(derivations, tokens) ==
    IF Len(tokens) = 0 THEN derivations # {}
    ELSE IF Len(tokens) = 1 THEN After(derivations, tokens[1]) # {}
    ELSE After(After(derivations, tokens[1]), tokens[2]) # {}
=============================================================================
