----------------------------- MODULE MCLinkage -----------------------------
(***************************************************************************)
(* TLC instance of Linkage: two files with up to three references and      *)
(* labels each, the text section at an address other than 0.               *)
(***************************************************************************)
EXTENDS Linkage, TLC

Symmetry == Permutations(Files)

=============================================================================
