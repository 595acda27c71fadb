----------------------------- MODULE MCSessions -----------------------------
(* Model-checking instance of Sessions: the sets are model values and       *)
(* interchangeable within each set.                                         *)
EXTENDS Sessions, TLC

Symmetry == Permutations(Users) \cup Permutations(Tokens)
              \cup Permutations(Requests)
=============================================================================
