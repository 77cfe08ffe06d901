----------------------------- MODULE MCSessions -----------------------------
(***************************************************************************)
(* Sessions for TLC: tokens and addresses are interchangeable.             *)
(***************************************************************************)
EXTENDS Sessions, TLC

Symmetry == Permutations(Token) \cup Permutations(Address)
=============================================================================
