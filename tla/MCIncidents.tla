---------------------------- MODULE MCIncidents ----------------------------
(* Model-checking instance of Incidents: the sets are model values and      *)
(* interchangeable within each set.  The symmetry serves the safety runs    *)
(* only.                                                                    *)
EXTENDS Incidents, TLC

Symmetry == Permutations(Reports) \cup Permutations(Voters)
              \cup Permutations(Requests)
=============================================================================
