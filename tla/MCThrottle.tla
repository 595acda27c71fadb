----------------------------- MODULE MCThrottle -----------------------------
(* Model-checking instance of Throttle: one limit and one duration for all   *)
(* throttles but the global one.                                             *)
EXTENDS Throttle, TLC

MCLimit == [s \in Scopes |-> IF s = "global" THEN 2 ELSE 1]
MCDuration == [s \in Scopes |-> 2]

Symmetry == Permutations(Requests)
=============================================================================
