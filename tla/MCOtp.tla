-------------------------------- MODULE MCOtp --------------------------------
(* Model-checking instance of Otp: the sets are model values and            *)
(* interchangeable within each set.                                         *)
EXTENDS Otp, TLC

Symmetry == Permutations(Phones) \cup Permutations(Codes)
              \cup Permutations(Requests)
=============================================================================
