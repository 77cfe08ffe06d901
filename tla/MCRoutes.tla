------------------------------ MODULE MCRoutes ------------------------------
(***************************************************************************)
(* Routes for TLC.  The one patch lengthens a one-word file; threads are   *)
(* interchangeable.                                                        *)
(***************************************************************************)
EXTENDS Routes, TLC

MCContent == {"empty", "one", "two"}

MCEdit ==
  [p \in {"grow"} |->
    [c \in MCContent |-> IF c = "one" THEN "two" ELSE Rejected]]

Symmetry == Permutations(Thread)
=============================================================================
