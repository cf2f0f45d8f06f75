----------------------------- MODULE MCDeadCode -----------------------------
(***************************************************************************)
(* All programs of four quads: the call that generate_ir puts first, then  *)
(* any jumps, calls and returns over the labels below, with any of the     *)
(* places labelled, as an executable (a label main) and as a library.      *)
(***************************************************************************)
EXTENDS DeadCode

CONSTANTS f, l

Jump(op, a, b) == [op |-> op, target |-> Nothing, opd1 |-> a, opd2 |-> b]
Names == {Main, f, l}
Quads == {Jump("Goto", Nothing, a) : a \in Names}
         \cup {Jump("CondGoto", l, f), Jump("CondGoto", f, l),
               Jump("CondGoto", Main, l)}
         \cup {Jump("CallNil", Nothing, a) : a \in {Main, f}}
         \cup {Jump("Return", Nothing, Nothing)}
Body == [1 .. 3 -> Quads]
\* main goes on only when no name was declared twice
Places == {L \in [1 .. 3 -> Names \cup {Nothing}] :
             \A i, j \in 1 .. 3 : L[i] = L[j] /\ L[i] # Nothing => i = j}

SmallPrograms ==
    {[quads |-> <<Jump("CallNil", Nothing, Main)>> \o q,
      labels |-> <<Start>> \o L] : q \in Body, L \in Places}
HiddenLabels == {Start, l}

=============================================================================
