------------------------------ MODULE MCVoting ------------------------------
(* Model-checking instance of Voting: users and phones are model values and  *)
(* interchangeable within each set.                                          *)
EXTENDS Voting, TLC

Symmetry == Permutations(Users) \cup Permutations(Phones)
=============================================================================
