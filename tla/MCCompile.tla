----------------------------- MODULE MCCompile -----------------------------
(***************************************************************************)
(* TLC instance of Compile: every control structure in up to three         *)
(* functions, one of them hidden, with calls and early returns.            *)
(***************************************************************************)
EXTENDS Compile

CONSTANTS f, h

NoPrefix == {}
NoImport == <<>>
BoolSig == {[params |-> <<>>, ptypes |-> <<>>, rtype |-> "bool"]}

\* main goes on only with a file without errors
NoErrors == ~errors

=============================================================================
