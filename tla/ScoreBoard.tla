----------------------------- MODULE ScoreBoard ------------------------------
(***************************************************************************)
(* What the incident board promises of credibility, whatever requests      *)
(* stand for it: a voter has one ballot on an incident, the last one cast; *)
(* a ballot unsettles the incident's score; and a score that is settled is *)
(* set once, to the sum of the ballots.  An expired incident stays so, and *)
(* may still be voted on.                                                  *)
(***************************************************************************)
EXTENDS Integers, FiniteSets

CONSTANTS
  Reports,
  Voters

VARIABLES
  ballots,  \* value by (incident, voter)
  score,    \* of the incidents whose score is settled
  posted,   \* the incidents on the board
  expired   \* those that are over

For(i, value) == {u \in Voters : <<i, u>> \in DOMAIN ballots /\ ballots[<<i, u>>] = value}
Sum(i) == Cardinality(For(i, 1)) - Cardinality(For(i, -1))

Init ==
  /\ ballots = [k \in {} |-> k]
  /\ score = [i \in {} |-> i]
  /\ posted = {}
  /\ expired = {}

Set(i, n) == score' = [x \in DOMAIN score \cup {i} |-> IF x = i THEN n ELSE score[x]]

Post(i) ==
  /\ i \notin posted
  /\ posted' = posted \cup {i}
  /\ Set(i, 0)
  /\ UNCHANGED <<ballots, expired>>

Cast(i, u, value) ==
  /\ i \in posted
  /\ ballots' = [k \in DOMAIN ballots \cup {<<i, u>>} |->
                   IF k = <<i, u>> THEN value ELSE ballots[k]]
  /\ score' = [x \in DOMAIN score \ {i} |-> score[x]]
  /\ UNCHANGED <<posted, expired>>

Settle(i) ==
  /\ i \in posted \ DOMAIN score
  /\ Set(i, Sum(i))
  /\ UNCHANGED <<ballots, posted, expired>>

Expire(S) ==
  /\ expired' = expired \cup S
  /\ UNCHANGED <<ballots, score, posted>>

Next ==
  \/ \E i \in Reports : Post(i)
  \/ \E i \in posted, u \in Voters, value \in {1, -1} : Cast(i, u, value)
  \/ \E i \in posted : Settle(i)
  \/ \E S \in SUBSET (posted \ expired) : Expire(S)

Spec == Init /\ [][Next]_<<ballots, score, posted, expired>>
=============================================================================
