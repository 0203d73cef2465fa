------------------------------ MODULE MCUsers ------------------------------
(* Users for TLC: nobody has a part in the beginning, so the people are     *)
(* interchangeable.                                                         *)
EXTENDS Users, TLC

Symmetry == Permutations(People)
============================================================================
