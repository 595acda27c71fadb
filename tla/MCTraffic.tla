----------------------------- MODULE MCTraffic ------------------------------
(* Model-checking instance of Traffic: one sample at the lower end of the    *)
(* bands and in the viewport, one on a border between bands and outside.     *)
EXTENDS Traffic, TLC

MCSamples == {[congestion_level |-> 0, inside |-> TRUE],
              [congestion_level |-> 67, inside |-> FALSE]}

Symmetry == Permutations(Segments) \cup Permutations(Workers)
=============================================================================
