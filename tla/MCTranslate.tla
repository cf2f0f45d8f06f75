---------------------------- MODULE MCTranslate ----------------------------
(***************************************************************************)
(* TLC instance of TacGen: all programs up to a number of quads over four  *)
(* vocabularies: for the nesting of expressions, for scopes and names, for *)
(* assignments in operands, and with every statement and errors in the     *)
(* program.  A behaviour is the walk of a program of one of them.          *)
(***************************************************************************)
EXTENDS MCTacGen

VARIABLE vocabulary

Expressions ==
    INSTANCE TacGen WITH
        Idents <- {p}, Funs <- {f}, Imported <- NoImport,
        Nodes <- {"unary", "call", "print"}, BinOps <- {"LessEqual"},
        MaxTemps <- 5, MaxDepth <- 1, MaxParams <- 1, MaxQuads <- 10, MaxPending <- 3, MaxOpen <- 4
Names ==
    INSTANCE TacGen WITH
        Funs <- {f}, Imported <- NoImport, Nodes <- {"decl", "block", "exprstmt"}, BinOps <- {},
        MaxTemps <- 3, MaxDepth <- 3, MaxParams <- 1, MaxQuads <- 7, MaxPending <- 1, MaxOpen <- 4
Operators ==
    INSTANCE TacGen WITH
        Idents <- {x}, Funs <- {f}, Imported <- NoImport,
        Nodes <- {"decl", "exprstmt", "nil"}, BinOps <- {"Plus"},
        MaxTemps <- 3, MaxDepth <- 1, MaxParams <- 0, MaxQuads <- 7, MaxPending <- 3, MaxOpen <- 3
Errors ==
    INSTANCE TacGen WITH
        Idents <- {p}, Nodes <- Nodes \ {"print", "exprstmt", "block", "nil"}, BinOps <- {},
        MaxTemps <- 1, MaxDepth <- 2, MaxParams <- 2, MaxQuads <- 7, MaxPending <- 1, MaxOpen <- 4

AnyVocabulary ==
    /\ Init
    /\ vocabulary \in {"expressions", "names", "operators", "errors"}
Walk ==
    /\ \/ vocabulary = "expressions" /\ Expressions!Next
       \/ vocabulary = "names" /\ Names!Next
       \/ vocabulary = "operators" /\ Operators!Next
       \/ vocabulary = "errors" /\ Errors!Next
    /\ UNCHANGED vocabulary

Walks == AnyVocabulary /\ [][Walk]_<<vars, vocabulary>>

\* what follows an error is discarded by main: look further in one of them only
ErrorsAreErrors == vocabulary = "errors" \/ ~errors
=============================================================================
