----------------------------- MODULE MCLocalOpt -----------------------------
(***************************************************************************)
(* TLC instances of LocalOpt: a computation, a store or a test; a use of   *)
(* its result; a second use; and a return; and loops with a test and a     *)
(* body of two quads.  t and u are temporaries, a and b variables.         *)
(***************************************************************************)
EXTENDS LocalOpt

CONSTANTS t, u, a, b

First ==
    {Quad(op, t, l, r) : op \in BinaryOps, l \in {0, 1, -4, a}, r \in {0, 1, -1, a}}
        \cup {Quad("Assign", a, l, Nothing) : l \in {0, b}}
        \cup {Quad("CondGoto", x, k, Nothing) : x \in {a, 1}, k \in {3, 4}}
Use ==
    {Quad("Assign", x, y, Nothing) : x \in {a, b}, y \in {t, a}}
        \cup {Quad(op, u, t, r) : op \in {"Minus", "Star", "Or"}, r \in {0, 1, t}}
        \cup {Quad("Plus", u, 0, 1)}
        \cup {Quad("PushArg", Nothing, Nothing, t), Quad("CondGoto", t, 4, Nothing),
               Quad("Goto", Nothing, Nothing, 4)}
Again ==
    {Quad("Assign", b, x, Nothing) : x \in {a, u}}
        \cup {Quad("Less", t, x, b) : x \in {t, u}}
End == {Quad("Return", Nothing, Nothing, x) : x \in {a, b, u}}

Stretches == {<<c, d, e, r>> : c \in First, d \in Use, e \in Again, r \in End}

Test == {Quad("Less", t, 0, a), Quad("Minus", t, a, u), Quad("Assign", t, a, Nothing)}
Body ==
    {<<Quad(op, u, x, y), Quad("Assign", z, u, Nothing)>> :
        op \in {"Minus", "Slash"}, x \in {a, u}, y \in {0, 1, b}, z \in {a, b}}
        \cup {<<Quad("Plus", u, b, 1), Quad("PushArg", Nothing, Nothing, u)>>,
               <<Quad("Minus", u, a, 1), Quad("CondGoto", b, 7, 6)>>}
Loops ==
    {<<Quad("Assign", u, k, Nothing), c, Quad("CondGoto", t, 7, Nothing)>> \o d \o
         <<Quad("Goto", Nothing, Nothing, back), r>> :
         k \in {1, b}, c \in Test, d \in Body, back \in {2, 4, 5}, r \in End}
MCPrograms == Stretches \cup Loops

=============================================================================
