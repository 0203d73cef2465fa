------------------------------ MODULE Selecting ------------------------------
(* The list comprehension [x for x in s if ...], with the indices of the    *)
(* members to keep for its condition, as a recursive function.              *)
EXTENDS Naturals, Sequences

(* The members of s at the indices in I, in their order. *)
Select(s, I) ==
  LET taken[n \in 0..Len(s)] == IF n = 0 THEN <<>>
                                ELSE IF n \in I THEN Append(taken[n - 1], s[n])
                                ELSE taken[n - 1]
  IN  taken[Len(s)]
=============================================================================
