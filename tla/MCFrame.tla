------------------------------ MODULE MCFrame ------------------------------
(***************************************************************************)
(* TLC instance of Frame.                                                  *)
(***************************************************************************)
EXTENDS Frame, TLC

CONSTANTS x, y, f, g

Swaps == Permutations({x, y}) \cup Permutations({f, g})

=============================================================================
