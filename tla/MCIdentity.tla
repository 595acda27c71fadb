----------------------------- MODULE MCIdentity -----------------------------
(* Model-checking instance of Identity: the sets are model values and       *)
(* interchangeable within each set.                                         *)
EXTENDS Identity, TLC

Symmetry == Permutations(Users) \cup Permutations(Emails)
              \cup Permutations(Phones) \cup Permutations(Requests)
=============================================================================
