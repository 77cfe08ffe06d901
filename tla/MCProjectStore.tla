--------------------------- MODULE MCProjectStore ---------------------------
(***************************************************************************)
(* ProjectStore for TLC: texts are file lengths in words, and the one      *)
(* patch lengthens a file, so that a lost PATCH shows in its length.       *)
(***************************************************************************)
EXTENDS ProjectStore, TLC

MCContent == {"empty", "one", "two"}

MCEdit ==
  [p \in {"grow"} |->
    [c \in MCContent |-> IF c = "one" THEN "two" ELSE Rejected]]

Symmetry == Permutations(Thread)
=============================================================================
