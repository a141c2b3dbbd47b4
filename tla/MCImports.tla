------------------------------ MODULE MCImports ------------------------------
(***************************************************************************)
(* An instance of Imports: two of the source files are variants of one     *)
(* module in the directory.                                                *)
(***************************************************************************)
EXTENDS Imports

Variants == <<"b", "c">>
=============================================================================
