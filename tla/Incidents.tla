----------------------------- MODULE Incidents -----------------------------
(***************************************************************************)
(* The incident board: reports, votes, the credibility score kept on the   *)
(* incident's row, and the Celery task that expires reports                *)
(* (incidents/views.py, incidents/tasks.py, incidents/models.py).          *)
(*                                                                         *)
(* Each ORM call commits on its own.  A vote is SELECT (FindIncident),     *)
(* update_or_create, which is one transaction (UpsertVote), SELECT SUM     *)
(* (SumVotes) and an UPDATE of one column (SaveScore).  Who votes and how  *)
(* is an input of the request that nothing reads before UpsertVote, so it  *)
(* is chosen there.  Guests and unverified users are turned away by the    *)
(* permissions: Voters are the users who pass them.                        *)
(***************************************************************************)
EXTENDS Integers, FiniteSets

CONSTANTS
  Reports,     \* ids of incidents rows
  Voters,      \* users that pass IsVerifiedUser
  Requests,    \* vote requests the server processes run side by side
  NoReport,    \* "no incident" for an idle request
  ReportTTL,   \* DEFAULT_INCIDENT_TTL_HOURS in ticks
  MaxTime      \* bound on the clock

ASSUME ReportsAssumption == NoReport \notin Reports
ASSUME VotersAssumption == IsFiniteSet(Voters)
ASSUME TimeAssumption == ReportTTL \in Nat /\ MaxTime \in Nat

VARIABLES
  now,             \* the clock, in ticks
  incidents,       \* rows by id; no code deletes one
  incident_votes,  \* value by (incident, user), the table's unique key
  pc,              \* where each vote request is
  target,          \* the incident it votes on ...
  seen,            \* ... the row it read ...
  total,           \* ... and the sum it computed
  crowded,         \* history: requests that met another one on their incident
  dirty            \* history: incidents whose last vote was not a clean one

vars == <<now, incidents, incident_votes, pc, target, seen, total, crowded, dirty>>

Row == [status: {"active", "expired"}, credibility_score: Int, expires_at: Nat]

NoRow == [status |-> "active", credibility_score |-> 0, expires_at |-> 0]

Posted == DOMAIN incidents

\* SUM(value) over the incident's votes, or 0.
VotersFor(i, value) ==
  {u \in Voters : <<i, u>> \in DOMAIN incident_votes /\ incident_votes[<<i, u>>] = value}
Total_Count(i) == Cardinality(VotersFor(i, 1)) + Cardinality(VotersFor(i, -1))
Total(i) == Cardinality(VotersFor(i, 1)) - Cardinality(VotersFor(i, -1))

InFlight == {r \in Requests : pc[r] # "idle"}
Others(r, i) == {q \in InFlight \ {r} : target[q] = i}

-----------------------------------------------------------------------------

Init ==
  /\ now = 0
  /\ incidents = [i \in {} |-> i]
  /\ incident_votes = [k \in {} |-> k]
  /\ pc = [r \in Requests |-> "idle"]
  /\ target = [r \in Requests |-> NoReport]
  /\ seen = [r \in Requests |-> NoRow]
  /\ total = [r \in Requests |-> 0]
  /\ crowded = {}
  /\ dirty = {}

\* IncidentListCreateView.post: one INSERT.
CreateIncident(i) ==
  /\ i \notin Posted
  /\ incidents' = [x \in Posted \cup {i} |->
                     IF x = i THEN [status |-> "active", credibility_score |-> 0,
                                    expires_at |-> now + ReportTTL]
                              ELSE incidents[x]]
  /\ UNCHANGED <<now, incident_votes, pc, target, seen, total, crowded, dirty>>

\* IncidentVoteView: SELECT the incident, whatever its status.
FindIncident(r, i) ==
  /\ pc[r] = "idle"
  /\ i \in Posted
  /\ pc' = [pc EXCEPT ![r] = "vote"]
  /\ target' = [target EXCEPT ![r] = i]
  /\ seen' = [seen EXCEPT ![r] = incidents[i]]
  /\ crowded' = IF Others(r, i) # {} THEN crowded \cup {r} \cup Others(r, i) ELSE crowded
  /\ UNCHANGED <<now, incidents, incident_votes, total, dirty>>

\* IncidentVoteView: a user's second vote replaces the first.
UpsertVote(r, u, value) ==
  /\ pc[r] = "vote"
  /\ incident_votes' =
       [k \in DOMAIN incident_votes \cup {<<target[r], u>>} |->
          IF k = <<target[r], u>> THEN value ELSE incident_votes[k]]
  /\ pc' = [pc EXCEPT ![r] = "sum"]
  /\ UNCHANGED <<now, incidents, target, seen, total, crowded, dirty>>

\* IncidentVoteView: the new score is computed from all votes in the table.
NewTotal_Increment(r) == seen[r].credibility_score + 1
NewTotal(r) == Total(target[r])

SumVotes(r) ==
  /\ pc[r] = "sum"
  /\ total' = [total EXCEPT ![r] = NewTotal(r)]
  /\ pc' = [pc EXCEPT ![r] = "save"]
  /\ UNCHANGED <<now, incidents, incident_votes, target, seen, crowded, dirty>>

Done(r) ==
  /\ pc' = [pc EXCEPT ![r] = "idle"]
  /\ target' = [target EXCEPT ![r] = NoReport]
  /\ seen' = [seen EXCEPT ![r] = NoRow]
  /\ total' = [total EXCEPT ![r] = 0]
  /\ crowded' = crowded \ {r}

\* save(update_fields=["credibility_score"]) of the row read by FindIncident.
Saved_FullRow(r) == [seen[r] EXCEPT !.credibility_score = total[r]]
Saved(r) == [incidents[target[r]] EXCEPT !.credibility_score = total[r]]

SaveScore(r) ==
  /\ pc[r] = "save"
  /\ incidents' = [incidents EXCEPT ![target[r]] = Saved(r)]
  /\ dirty' = IF r \in crowded THEN dirty \cup {target[r]} ELSE dirty \ {target[r]}
  /\ Done(r)
  /\ UNCHANGED <<now, incident_votes>>

\* The process dies or a statement raises (the user row has gone, the database
\* is away): a vote that is in the table stays there.
Abort(r) ==
  /\ pc[r] # "idle"
  /\ dirty' = IF pc[r] = "vote" THEN dirty ELSE dirty \cup {target[r]}
  /\ Done(r)
  /\ UNCHANGED <<now, incidents, incident_votes>>

\* expire_stale_incidents: one UPDATE.
Stale_Inclusive(i) == incidents[i].status = "active" /\ incidents[i].expires_at <= now
Stale_Now(i) == incidents[i].status = "active" /\ incidents[i].expires_at = now
Stale(i) == incidents[i].status = "active" /\ incidents[i].expires_at < now

ExpireStaleIncidents ==
  /\ \E i \in Posted : Stale(i)
  /\ incidents' = [i \in Posted |-> IF Stale(i)
                     THEN [incidents[i] EXCEPT !.status = "expired"]
                     ELSE incidents[i]]
  /\ UNCHANGED <<now, incident_votes, pc, target, seen, total, crowded, dirty>>

Tick ==
  /\ now < MaxTime
  /\ now' = now + 1
  /\ UNCHANGED <<incidents, incident_votes, pc, target, seen, total, crowded, dirty>>

Next ==
  \/ \E i \in Reports : CreateIncident(i)
  \/ \E r \in Requests, i \in Reports : FindIncident(r, i)
  \/ \E r \in Requests, u \in Voters, value \in {1, -1} : UpsertVote(r, u, value)
  \/ \E r \in Requests : SumVotes(r)
  \/ \E r \in Requests : SaveScore(r)
  \/ \E r \in Requests : Abort(r)
  \/ ExpireStaleIncidents
  \/ Tick

Spec == Init /\ [][Next]_vars

\* Celery Beat sends the task every five minutes (sadaksathi/celery.py).
FairSpec == Spec /\ WF_vars(ExpireStaleIncidents)

-----------------------------------------------------------------------------
\* Types: a request has a target exactly while it runs, votes are for reports
\* that exist, and no report is expired before its deadline has passed.
TypeOK ==
  /\ now \in 0..MaxTime
  /\ Posted \subseteq Reports
  /\ incidents \in [Posted -> Row]
  /\ \A i \in Posted : incidents[i].status = "expired" => incidents[i].expires_at < now
  /\ DOMAIN incident_votes \subseteq Posted \X Voters
  /\ incident_votes \in [DOMAIN incident_votes -> {1, -1}]
  /\ pc \in [Requests -> {"idle", "vote", "sum", "save"}]
  /\ target \in [Requests -> Posted \cup {NoReport}]
  /\ \A r \in Requests : pc[r] = "idle" <=> target[r] = NoReport
  /\ seen \in [Requests -> Row]
  /\ total \in [Requests -> Int]
  /\ crowded \subseteq InFlight
  /\ dirty \subseteq Posted

Quiescent(i) == \A r \in Requests : target[r] # i

\* "a credibility score driven by votes": once no vote request is running on
\* an incident, its score is the sum of its votes.
ScoreIsSumOfVotes ==
  \A i \in Posted : Quiescent(i) => incidents[i].credibility_score = Total(i)

\* What the code does guarantee: it is, if the last vote to finish was alone on
\* the incident all along and none has failed half-way since.  One clean vote
\* repairs whatever races and failures left behind.
ScoreIsSumUnlessDirty ==
  \A i \in Posted \ dirty : Quiescent(i) => incidents[i].credibility_score = Total(i)

\* However votes race or fail, a score never claims more voters than have voted
\* on the incident: changing one's mind or voting twice counts once.
ScoreWithinVotes ==
  \A i \in Posted :
    LET voted == Cardinality(VotersFor(i, 1) \cup VotersFor(i, -1))
    IN  /\ incidents[i].credibility_score \in (-voted)..voted
        /\ \A r \in Requests : target[r] = i => total[r] \in (-voted)..voted

\* A vote request that read the incident before it expired does not bring it
\* back: an expired report never becomes active again.
ExpiredIsFinal ==
  [][\A i \in Posted : incidents[i].status = "expired" => incidents'[i].status = "expired"]_vars

\* A score as callers may trust it: that of an incident that is not dirty and on
\* which no request under way has voted yet.
BeforeVotes(i) == \A r \in Requests : target[r] = i => pc[r] = "vote"
SettledScore ==
  [i \in {x \in Posted \ dirty : BeforeVotes(x)} |-> incidents[i].credibility_score]

Promise == INSTANCE ScoreBoard
  WITH ballots <- incident_votes, score <- SettledScore, posted <- Posted,
       expired <- {i \in Posted : incidents[i].status = "expired"}

\* However votes race, fail and meet the expiry task, the four statements of a
\* vote act as two: a ballot that replaces the voter's last one and unsettles
\* the score, and, of a vote that met no other, one that settles it as the sum.
ImplementsScoreBoard == Promise!Spec

\* Every report past its deadline is expired by the task in the end, however
\* many runs of it were missed and whatever votes are under way.
Overdue(i) == i \in Posted /\ incidents[i].expires_at < now
OverdueExpires ==
  \A i \in Reports : Overdue(i) ~> (i \in Posted /\ incidents[i].status = "expired")
=============================================================================
