------------------------------ MODULE MCWebUI ------------------------------
(***************************************************************************)
(* WebUI for TLC: the places for tasks are interchangeable, and so are the *)
(* projects.                                                               *)
(***************************************************************************)
EXTENDS WebUI, TLC

CONSTANTS p, q, f, g

MCCopyOf == (f :> g) @@ (g :> None)
MCPresent == {[slug |-> p, name |-> f], [slug |-> q, name |-> f]}
Symmetry == Permutations(Task) \cup Permutations(Slug)
=============================================================================
