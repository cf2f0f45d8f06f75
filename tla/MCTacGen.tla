------------------------------ MODULE MCTacGen ------------------------------
(***************************************************************************)
(* TLC instances of TacGen: all programs up to a number of quads over a    *)
(* small vocabulary.                                                       *)
(***************************************************************************)
EXTENDS TacGen

CONSTANTS x, p, f, g

NoPrefix == {}
XPrefixOfP == {<<x, p>>}

IntFun == [params |-> <<>>, ptypes |-> <<>>, rtype |-> "int"]
NilFun == [params |-> <<p>>, ptypes |-> <<"int">>, rtype |-> "nil"]
BoolFun == [params |-> <<p, x>>, ptypes |-> <<"bool", "int">>, rtype |-> "bool"]

OneSig == {IntFun}
TwoSigs == {IntFun, NilFun}
OneImport == [h \in {g} |-> BoolFun]
NoImport == <<>>

\* what follows an error is discarded by main: look no further
NoErrors == ~errors
=============================================================================
