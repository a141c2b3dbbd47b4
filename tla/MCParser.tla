------------------------------ MODULE MCParser ------------------------------
(***************************************************************************)
(* The vocabularies of the runs of Parser: one for each part of the        *)
(* language, with what is needed to come to it.                            *)
(***************************************************************************)
EXTENDS Parser

Brackets == {"(", ")", "[", "]", "{", "}"}
Common == Brackets \cup {"id", "=", ":", "::", ";", ",", "eof"}

Declarations ==
    {"namespace", "import", "bytes", "var", "let", "func", "struct", "union",
     "enum", "extend", "type", "extern", "uninit", "lit"}
Statements ==
    {"func", "let", "type", "defer", "if", "elif", "else", "when", "elwhen", "for",
     "in", "break", "switch", "return", "assert", "+=", "or"}
Expressions ==
    {"let", "lit", "bytes", "typeof", "defined", "sizeof", "fileof", "embed",
     "countof", "not", "*", "+", ".", ".*", "...", "uninit"}
Operators == {"not", "or", "and", "==", "+", "|", "*", "/", ".*"}
TypeSpecifiers ==
    {"type", "func", "struct", "union", "enum", "typeof", "*", "var", "lit"}

Parts ==
    <<[tokens |-> Common \cup Declarations, depth |-> 8],
      [tokens |-> Common \cup Statements, depth |-> 8],
      [tokens |-> Common \cup Expressions, depth |-> 7],
      [tokens |-> {"let", "id", "=", ";", "(", ")", ":"} \cup Operators, depth |-> 8],
      [tokens |-> Common \cup TypeSpecifiers, depth |-> 7]>>
=============================================================================
