--------------------------- MODULE IncidentsProofs ---------------------------
(***************************************************************************)
(* Proofs about Incidents, for every finite set of voters and every set of *)
(* reports and requests.                                                   *)
(***************************************************************************)
EXTENDS Incidents, FiniteSetTheorems, TLAPS

\* A request that has met no other is alone on its incident.
AloneInv ==
  \A r \in InFlight \ crowded, q \in InFlight : target[q] = target[r] => q = r

\* The sum such a request is about to save is still right.
SumInv == \A r \in InFlight \ crowded : pc[r] = "save" => total[r] = Total(target[r])

\* As long as nobody on it has voted yet, a clean incident's score is right.
ScoreInv ==
  \A i \in Posted \ dirty : BeforeVotes(i) => incidents[i].credibility_score = Total(i)

IInv == TypeOK /\ AloneInv /\ SumInv /\ ScoreInv

-----------------------------------------------------------------------------
\* What the operators on votes depend on and are bounded by.

LEMMA TotalType ==
  ASSUME NEW i
  PROVE  /\ \A value : /\ IsFiniteSet(VotersFor(i, value))
                       /\ Cardinality(VotersFor(i, value)) \in Nat
         /\ Total(i) \in Int
<1>1. \A value : VotersFor(i, value) \subseteq Voters
  BY DEF VotersFor
<1>2. \A value : /\ IsFiniteSet(VotersFor(i, value))
                 /\ Cardinality(VotersFor(i, value)) \in Nat
  BY <1>1, VotersAssumption, FS_Subset, FS_CardinalityType
<1>3. QED
  BY <1>2 DEF Total

LEMMA TotalKept ==
  ASSUME NEW i, incident_votes' = incident_votes
  PROVE  Total(i)' = Total(i)
  BY DEF Total, VotersFor

LEMMA TotalZero ==
  ASSUME NEW i, \A u \in Voters : <<i, u>> \notin DOMAIN incident_votes
  PROVE  Total(i) = 0
<1>1. VotersFor(i, 1) = {} /\ VotersFor(i, -1) = {}
  BY DEF VotersFor
<1>2. QED
  BY <1>1, FS_EmptySet DEF Total

\* A vote counts for its own incident only.
LEMMA TotalElsewhere ==
  ASSUME NEW r \in Requests, NEW u \in Voters, NEW value \in {1, -1},
         UpsertVote(r, u, value), NEW i, target[r] # i
  PROVE  Total(i)' = Total(i)
<1>1. \A v \in Voters : /\ <<i, v>> \in DOMAIN incident_votes' <=> <<i, v>> \in DOMAIN incident_votes
                        /\ <<i, v>> \in DOMAIN incident_votes
                             => incident_votes'[<<i, v>>] = incident_votes[<<i, v>>]
  BY DEF UpsertVote
<1>2. \A x : VotersFor(i, x)' = VotersFor(i, x)
  BY <1>1 DEF VotersFor
<1>3. QED
  BY <1>2 DEF Total

-----------------------------------------------------------------------------
LEMMA InitInv == Init => IInv
<1> SUFFICES ASSUME Init PROVE IInv
  OBVIOUS
<1>1. TypeOK
  BY TimeAssumption DEF Init, TypeOK, Posted, Row, NoRow
<1>2. AloneInv /\ SumInv
  BY DEF Init, AloneInv, SumInv, InFlight
<1>3. ScoreInv
  BY DEF Init, ScoreInv, Posted
<1>4. QED
  BY <1>1, <1>2, <1>3 DEF IInv

\* What the end of a request does to its own state, and to nobody else's.
LEMMA DoneEffect ==
  ASSUME TypeOK, NEW r \in Requests, Done(r)
  PROVE  /\ pc'[r] = "idle" /\ target'[r] = NoReport
         /\ \A q \in Requests \ {r} : pc'[q] = pc[q] /\ target'[q] = target[q] /\ total'[q] = total[q]
         /\ InFlight' = InFlight \ {r}
         /\ crowded' = crowded \ {r}
         /\ pc' \in [Requests -> {"idle", "vote", "sum", "save"}]
         /\ target' \in [Requests -> Posted \cup {NoReport}]
         /\ \A q \in Requests : pc'[q] = "idle" <=> target'[q] = NoReport
         /\ seen' \in [Requests -> Row]
         /\ total' \in [Requests -> Int]
         /\ crowded' \subseteq InFlight'
  BY DEF Done, TypeOK, InFlight, NoRow, Row

LEMMA Holder ==
  ASSUME TypeOK, NEW r \in Requests, pc[r] # "idle"
  PROVE  target[r] \in Posted /\ r \in InFlight
  BY DEF TypeOK, InFlight

LEMMA StepType == TypeOK /\ [Next]_vars => TypeOK'
<1> SUFFICES ASSUME TypeOK, [Next]_vars PROVE TypeOK'
  OBVIOUS
<1>1. ASSUME NEW i \in Reports, CreateIncident(i) PROVE TypeOK'
  <2>1. /\ Posted' = Posted \cup {i}
        /\ incidents' \in [Posted' -> Row]
        /\ \A x \in Posted' : incidents'[x].status = "expired" => incidents'[x].expires_at < now
    BY <1>1, TimeAssumption DEF CreateIncident, Posted, TypeOK, Row
  <2>2. QED
    BY <1>1, <2>1 DEF CreateIncident, TypeOK, InFlight
<1>2. ASSUME NEW r \in Requests, NEW i \in Reports, FindIncident(r, i) PROVE TypeOK'
  <2>1. i # NoReport /\ Posted' = Posted /\ incidents[i] \in Row
    BY <1>2, ReportsAssumption DEF FindIncident, Posted, TypeOK
  <2>2. InFlight' = InFlight \cup {r} /\ Others(r, i) \subseteq InFlight
    BY <1>2 DEF FindIncident, InFlight, Others, TypeOK
  <2>3. crowded' \subseteq InFlight'
    BY <1>2, <2>2 DEF FindIncident, TypeOK
  <2>4. QED
    BY <1>2, <2>1, <2>3 DEF FindIncident, TypeOK
<1>3. ASSUME NEW r \in Requests, NEW u \in Voters, NEW value \in {1, -1},
             UpsertVote(r, u, value)
      PROVE  TypeOK'
  <2>1. target[r] \in Posted
    BY <1>3, Holder DEF UpsertVote
  <2>2. /\ DOMAIN incident_votes' \subseteq Posted \X Voters
        /\ incident_votes' \in [DOMAIN incident_votes' -> {1, -1}]
    BY <1>3, <2>1 DEF UpsertVote, TypeOK
  <2>3. QED
    BY <1>3, <2>2 DEF UpsertVote, TypeOK, Posted, InFlight
<1>4. ASSUME NEW r \in Requests, SumVotes(r) PROVE TypeOK'
  <2>1. NewTotal(r) \in Int
    BY TotalType DEF NewTotal
  <2>2. QED
    BY <1>4, <2>1 DEF SumVotes, TypeOK, Posted, InFlight
<1>5. ASSUME NEW r \in Requests, SaveScore(r) PROVE TypeOK'
  <2>1. target[r] \in Posted
    BY <1>5, Holder DEF SaveScore
  <2>2. /\ Posted' = Posted
        /\ incidents' \in [Posted -> Row]
        /\ \A x \in Posted : incidents'[x].status = "expired" => incidents'[x].expires_at < now
        /\ dirty' \subseteq Posted
    BY <1>5, <2>1 DEF SaveScore, Saved, Posted, TypeOK, Row
  <2>3. QED
    BY <1>5, <2>2, DoneEffect DEF SaveScore, TypeOK
<1>6. ASSUME NEW r \in Requests, Abort(r) PROVE TypeOK'
  <2>1. target[r] \in Posted
    BY <1>6, Holder DEF Abort
  <2>2. dirty' \subseteq Posted
    BY <1>6, <2>1 DEF Abort, TypeOK
  <2>3. QED
    BY <1>6, <2>2, DoneEffect DEF Abort, TypeOK, Posted
<1>7. CASE ExpireStaleIncidents
  <2>1. /\ Posted' = Posted
        /\ incidents' \in [Posted -> Row]
        /\ \A x \in Posted : incidents'[x].status = "expired" => incidents'[x].expires_at < now
    BY <1>7 DEF ExpireStaleIncidents, Stale, Posted, TypeOK, Row
  <2>2. QED
    BY <1>7, <2>1 DEF ExpireStaleIncidents, TypeOK, InFlight
<1>8. CASE Tick
  <2>1. \A x \in Posted : incidents[x].expires_at \in Nat
    BY DEF TypeOK, Row
  <2>2. now' \in 0..MaxTime /\ now' = now + 1 /\ now \in Nat
    BY <1>8, TimeAssumption DEF Tick, TypeOK
  <2>3. \A x \in Posted : incidents[x].status = "expired" => incidents[x].expires_at < now'
    BY <2>1, <2>2 DEF TypeOK
  <2>4. QED
    BY <1>8, <2>2, <2>3 DEF Tick, TypeOK, Posted, InFlight
<1>9. CASE UNCHANGED vars
  BY <1>9 DEF vars, TypeOK, Posted, InFlight
<1>10. QED
  BY <1>1, <1>2, <1>3, <1>4, <1>5, <1>6, <1>7, <1>8, <1>9 DEF Next

-----------------------------------------------------------------------------
\* Requests that met no other.

\* A request without company stays alone or gets company and is marked.
LEMMA StepAlone == TypeOK /\ AloneInv /\ [Next]_vars => AloneInv'
<1> SUFFICES ASSUME TypeOK, AloneInv, [Next]_vars PROVE AloneInv'
  OBVIOUS
<1>1. ASSUME NEW r \in Requests, NEW i \in Reports, FindIncident(r, i) PROVE AloneInv'
  <2>1. /\ InFlight' = InFlight \cup {r}
        /\ target'[r] = i
        /\ \A q \in InFlight : q # r /\ target'[q] = target[q]
    BY <1>1 DEF FindIncident, InFlight, TypeOK
  <2>2. CASE Others(r, i) # {}
    <3>1. crowded' = crowded \cup {r} \cup Others(r, i)
      BY <1>1, <2>2 DEF FindIncident
    <3>2. QED
      BY <2>1, <3>1 DEF AloneInv, Others
  <2>3. CASE Others(r, i) = {}
    <3>1. crowded' = crowded /\ \A q \in InFlight : target[q] # i
      BY <1>1, <2>1, <2>3 DEF FindIncident, Others
    <3>2. QED
      BY <2>1, <3>1 DEF AloneInv
  <2>4. QED
    BY <2>2, <2>3
<1>2. ASSUME NEW r \in Requests, Done(r) PROVE AloneInv'
  BY <1>2, DoneEffect DEF AloneInv, InFlight
<1>3. ASSUME InFlight' = InFlight, target' = target, crowded' = crowded PROVE AloneInv'
  BY <1>3 DEF AloneInv
<1>4. ASSUME NEW r \in Requests, NEW u \in Voters, NEW value \in {1, -1}, UpsertVote(r, u, value)
      PROVE  AloneInv'
  BY <1>3, <1>4 DEF UpsertVote, InFlight, TypeOK
<1>5. ASSUME NEW r \in Requests, SumVotes(r) PROVE AloneInv'
  BY <1>3, <1>5 DEF SumVotes, InFlight, TypeOK
<1>6. ASSUME UNCHANGED <<pc, target, crowded>> PROVE AloneInv'
  BY <1>3, <1>6 DEF InFlight
<1>7. QED
  BY <1>1, <1>2, <1>4, <1>5, <1>6
     DEF Next, SaveScore, Abort, CreateIncident, ExpireStaleIncidents, Tick, vars

LEMMA StepSum == TypeOK /\ AloneInv /\ SumInv /\ [Next]_vars => SumInv'
<1> SUFFICES ASSUME TypeOK, AloneInv, SumInv, [Next]_vars,
                    NEW q \in InFlight', q \notin crowded', pc'[q] = "save",
                    NEW i, target'[q] = i
             PROVE  total'[q] = Total(i)'
  BY DEF SumInv
<1>0. q \in Requests
  BY DEF InFlight
<1>1. ASSUME q \in InFlight \ crowded, pc[q] = "save", target[q] = i, total'[q] = total[q],
             Total(i)' = Total(i)
      PROVE  total'[q] = Total(i)'
  BY <1>1 DEF SumInv
<1>2. ASSUME NEW r \in Requests, NEW j \in Reports, FindIncident(r, j)
      PROVE  total'[q] = Total(i)'
  <2>1. q # r /\ q \in InFlight \ crowded /\ pc[q] = "save" /\ target[q] = i
    BY <1>0, <1>2 DEF FindIncident, InFlight, TypeOK
  <2>2. QED
    BY <1>1, <1>2, <2>1, TotalKept DEF FindIncident
<1>3. ASSUME NEW r \in Requests, NEW u \in Voters, NEW value \in {1, -1}, UpsertVote(r, u, value)
      PROVE  total'[q] = Total(i)'
  <2>1. q # r /\ q \in InFlight \ crowded /\ pc[q] = "save" /\ r \in InFlight /\ target[q] = i
    BY <1>0, <1>3 DEF UpsertVote, InFlight, TypeOK
  <2>2. target[r] # i
    BY <2>1 DEF AloneInv
  <2>3. QED
    BY <1>1, <1>3, <2>1, <2>2, TotalElsewhere DEF UpsertVote
<1>4. ASSUME NEW r \in Requests, SumVotes(r) PROVE total'[q] = Total(i)'
  <2>1. Total(i)' = Total(i) /\ target[q] = i
    BY <1>4, TotalKept DEF SumVotes
  <2>2. CASE q = r
    BY <1>0, <1>4, <2>1, <2>2 DEF SumVotes, NewTotal, TypeOK
  <2>3. CASE q # r
    <3>1. total'[q] = total[q] /\ pc[q] = "save" /\ q \in InFlight \ crowded
      BY <1>0, <1>4, <2>3 DEF SumVotes, TypeOK, InFlight
    <3>2. QED
      BY <1>1, <2>1, <3>1
  <2>4. QED
    BY <2>2, <2>3
<1>5. ASSUME NEW r \in Requests, Done(r), incident_votes' = incident_votes
      PROVE  total'[q] = Total(i)'
  <2>1. q # r /\ q \in InFlight \ crowded /\ pc[q] = "save"
        /\ target[q] = i /\ total'[q] = total[q]
    BY <1>0, <1>5, DoneEffect DEF InFlight
  <2>2. QED
    BY <1>1, <1>5, <2>1, TotalKept
<1>6. ASSUME UNCHANGED <<incident_votes, pc, target, total, crowded>>
      PROVE  total'[q] = Total(i)'
  BY <1>1, <1>6, TotalKept DEF InFlight
<1>7. QED
  BY <1>2, <1>3, <1>4, <1>5, <1>6
     DEF Next, SaveScore, Abort, CreateIncident, ExpireStaleIncidents, Tick, vars

\* The score of an incident that no vote has touched since the last clean save.
LEMMA StepScore == IInv /\ [Next]_vars => ScoreInv'
<1> SUFFICES ASSUME IInv, [Next]_vars,
                    NEW i \in Posted', i \notin dirty', BeforeVotes(i)'
             PROVE  incidents'[i].credibility_score = Total(i)'
  BY DEF ScoreInv
<1>0. TypeOK /\ AloneInv /\ SumInv /\ ScoreInv
  BY DEF IInv
\* Nothing happens to i, or no more than a request leaving before its vote.
<1>1. ASSUME i \in Posted \ dirty, BeforeVotes(i), Total(i)' = Total(i),
             incidents'[i].credibility_score = incidents[i].credibility_score
      PROVE  incidents'[i].credibility_score = Total(i)'
  BY <1>0, <1>1 DEF ScoreInv
<1>2. ASSUME NEW j \in Reports, CreateIncident(j) PROVE incidents'[i].credibility_score = Total(i)'
  <2>1. Total(i)' = Total(i)
    BY <1>2, TotalKept DEF CreateIncident
  <2>2. CASE i = j
    <3>1. \A u \in Voters : <<i, u>> \notin DOMAIN incident_votes
      BY <1>0, <1>2, <2>2 DEF CreateIncident, TypeOK
    <3>2. incidents'[i].credibility_score = 0
      BY <1>2, <2>2 DEF CreateIncident
    <3>3. QED
      BY <2>1, <3>1, <3>2, TotalZero
  <2>3. CASE i # j
    <3>1. i \in Posted \ dirty /\ incidents'[i] = incidents[i]
      BY <1>2, <2>3 DEF CreateIncident, Posted
    <3>2. BeforeVotes(i)
      BY <1>2 DEF CreateIncident, BeforeVotes
    <3>3. QED
      BY <1>1, <2>1, <3>1, <3>2
  <2>4. QED
    BY <2>2, <2>3
<1>3. ASSUME NEW r \in Requests, NEW j \in Reports, FindIncident(r, j)
      PROVE  incidents'[i].credibility_score = Total(i)'
  <2>1. Total(i)' = Total(i) /\ incidents' = incidents /\ dirty' = dirty /\ i \in Posted
    BY <1>3, TotalKept DEF FindIncident, Posted
  <2>2. target[r] = NoReport /\ i # NoReport
    BY <1>0, <1>3, <2>1, ReportsAssumption DEF FindIncident, TypeOK
  <2>3. BeforeVotes(i)
    BY <1>0, <1>3, <2>2 DEF FindIncident, BeforeVotes, TypeOK
  <2>4. QED
    BY <1>1, <2>1, <2>3
<1>4. ASSUME NEW r \in Requests, NEW u \in Voters, NEW value \in {1, -1}, UpsertVote(r, u, value)
      PROVE  incidents'[i].credibility_score = Total(i)'
  <2>1. target[r] # i
    BY <1>0, <1>4 DEF UpsertVote, BeforeVotes, TypeOK
  <2>2. Total(i)' = Total(i)
    BY <1>4, <2>1, TotalElsewhere
  <2>3. BeforeVotes(i)
    BY <1>0, <1>4, <2>1 DEF UpsertVote, BeforeVotes, TypeOK
  <2>4. QED
    BY <1>1, <1>4, <2>2, <2>3 DEF UpsertVote, Posted
<1>5. ASSUME NEW r \in Requests, SumVotes(r) PROVE incidents'[i].credibility_score = Total(i)'
  <2>1. Total(i)' = Total(i)
    BY <1>5, TotalKept DEF SumVotes
  <2>2. BeforeVotes(i)
    BY <1>0, <1>5 DEF SumVotes, BeforeVotes, TypeOK
  <2>3. QED
    BY <1>1, <1>5, <2>1, <2>2 DEF SumVotes, Posted
<1>6. ASSUME NEW r \in Requests, SaveScore(r) PROVE incidents'[i].credibility_score = Total(i)'
  <2>1. Total(i)' = Total(i) /\ i \in Posted /\ target[r] \in Posted /\ r \in InFlight
    BY <1>0, <1>6, TotalKept, Holder DEF SaveScore, Posted
  <2>2. CASE target[r] = i
    <3>1. r \notin crowded
      BY <1>6, <2>2 DEF SaveScore
    <3>2. total[r] = Total(i)
      BY <1>0, <1>6, <2>1, <2>2, <3>1 DEF SaveScore, SumInv
    <3>3. incidents'[i].credibility_score = total[r]
      BY <1>0, <1>6, <2>1, <2>2 DEF SaveScore, Saved, Posted, TypeOK, Row
    <3>4. QED
      BY <2>1, <3>2, <3>3
  <2>3. CASE target[r] # i
    <3>1. incidents'[i] = incidents[i] /\ i \notin dirty
      BY <1>0, <1>6, <2>1, <2>3 DEF SaveScore, Posted, TypeOK
    <3>2. BeforeVotes(i)
      BY <1>0, <1>6, <2>3, DoneEffect DEF SaveScore, BeforeVotes
    <3>3. QED
      BY <1>1, <2>1, <3>1, <3>2
  <2>4. QED
    BY <2>2, <2>3
<1>7. ASSUME NEW r \in Requests, Abort(r) PROVE incidents'[i].credibility_score = Total(i)'
  <2>1. Total(i)' = Total(i) /\ i \in Posted /\ incidents' = incidents /\ i \notin dirty
    BY <1>7, TotalKept DEF Abort, Posted
  <2>2. target[r] = i => pc[r] = "vote"
    BY <1>7 DEF Abort
  <2>3. BeforeVotes(i)
    BY <1>0, <1>7, <2>2, DoneEffect DEF Abort, BeforeVotes
  <2>4. QED
    BY <1>1, <2>1, <2>3
<1>8. CASE ExpireStaleIncidents
  <2>1. Total(i)' = Total(i) /\ i \in Posted \ dirty
    BY <1>8, TotalKept DEF ExpireStaleIncidents, Posted
  <2>2. incidents'[i].credibility_score = incidents[i].credibility_score
    BY <1>0, <1>8, <2>1 DEF ExpireStaleIncidents, TypeOK, Row
  <2>3. BeforeVotes(i)
    BY <1>8 DEF ExpireStaleIncidents, BeforeVotes
  <2>4. QED
    BY <1>1, <2>1, <2>2, <2>3
<1>9. CASE UNCHANGED <<incidents, incident_votes, pc, target, dirty>>
  BY <1>1, <1>9, TotalKept DEF Posted, BeforeVotes
<1>10. QED
  BY <1>2, <1>3, <1>4, <1>5, <1>6, <1>7, <1>8, <1>9 DEF Next, Tick, vars

LEMMA StepInv == IInv /\ [Next]_vars => IInv'
  BY StepType, StepAlone, StepSum, StepScore DEF IInv

\* Every variable keeps its type; no report is expired before its deadline.
THEOREM TypeCorrect == Spec => []TypeOK
<1>1. IInv => TypeOK
  BY DEF IInv
<1>2. QED
  BY <1>1, InitInv, StepInv, PTL DEF Spec

\* Once nothing runs on an incident whose last vote met no other, its score is
\* the sum of its votes, whatever happened before.
THEOREM ScoreIsSum == Spec => []ScoreIsSumUnlessDirty
<1>1. IInv => ScoreIsSumUnlessDirty
  BY DEF IInv, ScoreInv, BeforeVotes, ScoreIsSumUnlessDirty, Quiescent
<1>2. QED
  BY <1>1, InitInv, StepInv, PTL DEF Spec

-----------------------------------------------------------------------------
\* No step makes an expired report active again.

LEMMA ExpiredStep ==
  ASSUME TypeOK, [Next]_vars, NEW i \in Posted, incidents[i].status = "expired"
  PROVE  incidents'[i].status = "expired"
<1>1. ASSUME NEW j \in Reports, CreateIncident(j) PROVE incidents'[i] = incidents[i]
  BY <1>1 DEF CreateIncident, Posted
<1>2. ASSUME NEW r \in Requests, SaveScore(r) PROVE incidents'[i].status = "expired"
  <2>1. target[r] \in Posted
    BY <1>2, Holder DEF SaveScore
  <2>2. QED
    BY <1>2, <2>1 DEF SaveScore, Saved, Posted, TypeOK, Row
<1>3. CASE ExpireStaleIncidents
  BY <1>3 DEF ExpireStaleIncidents, Stale
<1>4. CASE UNCHANGED incidents
  BY <1>4
<1>5. QED
  BY <1>1, <1>2, <1>3, <1>4
     DEF Next, FindIncident, UpsertVote, SumVotes, Abort, Tick, vars

\* An expired report stays expired: a vote saves the score column alone.
THEOREM ExpiredFinal == Spec => ExpiredIsFinal
<1>1. TypeOK /\ [Next]_vars
        => [\A i \in Posted : incidents[i].status = "expired"
                                => incidents'[i].status = "expired"]_vars
  BY ExpiredStep
<1>2. QED
  BY <1>1, TypeCorrect, PTL DEF Spec, ExpiredIsFinal

-----------------------------------------------------------------------------
\* A score claims no more voters than have voted.

Voted(i) == VotersFor(i, 1) \cup VotersFor(i, -1)
Within(n, i) == n \in (-Cardinality(Voted(i)))..Cardinality(Voted(i))

\* A request has no sum before it is computed.
FreshInv == \A r \in Requests : pc[r] # "save" => total[r] = 0

LEMMA WithinEquiv ==
  ScoreWithinVotes <=>
    \A i \in Posted : /\ Within(incidents[i].credibility_score, i)
                      /\ \A r \in Requests : target[r] = i => Within(total[r], i)
  BY DEF ScoreWithinVotes, Within, Voted

LEMMA VotedFinite ==
  ASSUME NEW i
  PROVE  IsFiniteSet(Voted(i)) /\ Cardinality(Voted(i)) \in Nat
<1>1. Voted(i) \subseteq Voters
  BY DEF Voted, VotersFor
<1>2. QED
  BY <1>1, VotersAssumption, FS_Subset, FS_CardinalityType

LEMMA TotalWithin ==
  ASSUME NEW i
  PROVE  Within(Total(i), i)
<1>1. VotersFor(i, 1) \subseteq Voted(i) /\ VotersFor(i, -1) \subseteq Voted(i)
  BY DEF Voted
<1>2. /\ Cardinality(VotersFor(i, 1)) <= Cardinality(Voted(i))
      /\ Cardinality(VotersFor(i, -1)) <= Cardinality(Voted(i))
  BY <1>1, VotedFinite, FS_Subset
<1>3. Cardinality(VotersFor(i, 1)) \in Nat /\ Cardinality(VotersFor(i, -1)) \in Nat
  BY TotalType
<1>4. QED
  BY <1>2, <1>3, VotedFinite DEF Within, Total

\* Who has voted has voted for good.
LEMMA VotedGrows ==
  ASSUME TypeOK, [Next]_vars, NEW i
  PROVE  Voted(i) \subseteq Voted(i)'
<1>1. ASSUME NEW r \in Requests, NEW u \in Voters, NEW value \in {1, -1}, UpsertVote(r, u, value)
      PROVE  Voted(i) \subseteq Voted(i)'
  <2>1. \A k \in DOMAIN incident_votes :
          /\ k \in DOMAIN incident_votes'
          /\ incident_votes'[k] \in {1, -1}
    BY <1>1 DEF UpsertVote, TypeOK
  <2>2. QED
    BY <2>1 DEF Voted, VotersFor
<1>2. CASE UNCHANGED incident_votes
  BY <1>2 DEF Voted, VotersFor
<1>3. QED
  BY <1>1, <1>2 DEF Next, CreateIncident, FindIncident, SumVotes, SaveScore, Abort,
                    ExpireStaleIncidents, Tick, vars

LEMMA WithinKept ==
  ASSUME TypeOK, [Next]_vars, NEW i, NEW n, Within(n, i)
  PROVE  Within(n, i)'
<1>1. Voted(i) \subseteq Voted(i)' /\ IsFiniteSet(Voted(i)')
  <2>1. Voted(i)' \subseteq Voters
    BY DEF Voted, VotersFor
  <2>2. QED
    BY <2>1, VotedGrows, VotersAssumption, FS_Subset
<1>2. /\ Cardinality(Voted(i)) <= Cardinality(Voted(i)')
      /\ Cardinality(Voted(i)') \in Nat
  BY <1>1, FS_Subset, FS_CardinalityType
<1>3. QED
  BY <1>2, VotedFinite DEF Within

LEMMA ZeroWithin == ASSUME NEW i PROVE Within(0, i)
  BY VotedFinite DEF Within

LEMMA StepScoreWithin ==
  ASSUME TypeOK, ScoreWithinVotes, [Next]_vars,
         NEW i \in Posted', NEW n, n = incidents'[i].credibility_score
  PROVE  Within(n, i)'
<1>0. \A j \in Posted : /\ Within(incidents[j].credibility_score, j)
                        /\ \A r \in Requests : target[r] = j => Within(total[r], j)
  BY WithinEquiv
<1> SUFFICES Within(n, i)
  BY WithinKept
<1>1. ASSUME NEW j \in Reports, CreateIncident(j) PROVE Within(n, i)
  <2>1. CASE i = j
    BY <1>1, <2>1, ZeroWithin DEF CreateIncident
  <2>2. CASE i # j
    <3>1. i \in Posted /\ incidents'[i] = incidents[i]
      BY <1>1, <2>2 DEF CreateIncident, Posted
    <3>2. QED
      BY <1>0, <3>1
  <2>3. QED
    BY <2>1, <2>2
<1>2. ASSUME NEW r \in Requests, SaveScore(r) PROVE Within(n, i)
  <2>1. target[r] \in Posted /\ i \in Posted
    BY <1>2, Holder DEF SaveScore, Posted
  <2>2. CASE target[r] = i
    <3>1. n = total[r]
      BY <1>2, <2>1, <2>2 DEF SaveScore, Saved, Posted, TypeOK, Row
    <3>2. QED
      BY <1>0, <2>1, <2>2, <3>1
  <2>3. CASE target[r] # i
    <3>1. incidents'[i] = incidents[i]
      BY <1>2, <2>1, <2>3 DEF SaveScore, Posted, TypeOK
    <3>2. QED
      BY <1>0, <2>1, <3>1
  <2>4. QED
    BY <2>2, <2>3
<1>3. CASE ExpireStaleIncidents
  <2>1. i \in Posted /\ n = incidents[i].credibility_score
    BY <1>3 DEF ExpireStaleIncidents, Posted, TypeOK, Row
  <2>2. QED
    BY <1>0, <2>1
<1>4. CASE UNCHANGED incidents
  BY <1>0, <1>4 DEF Posted
<1>5. QED
  BY <1>1, <1>2, <1>3, <1>4
     DEF Next, FindIncident, UpsertVote, SumVotes, Abort, Tick, vars

LEMMA StepTotalWithin ==
  ASSUME TypeOK, ScoreWithinVotes, [Next]_vars,
         FreshInv, NEW i \in Posted', NEW q \in Requests, target'[q] = i, NEW n, n = total'[q]
  PROVE  Within(n, i)'
<1>0. \A j \in Posted, r \in Requests : target[r] = j => Within(total[r], j)
  BY WithinEquiv
<1> SUFFICES Within(n, i)
  BY WithinKept
<1>1. ASSUME target[q] = i, i \in Posted, n = total[q] PROVE Within(n, i)
  BY <1>0, <1>1
<1>2. ASSUME NEW j \in Reports, CreateIncident(j) PROVE Within(n, i)
  <2>1. target[q] = i /\ n = total[q]
    BY <1>2 DEF CreateIncident
  <2>2. CASE pc[q] = "idle"
    <3>1. i = NoReport
      BY <2>1, <2>2 DEF TypeOK
    <3>2. i \in Posted \cup {j}
      BY <1>2 DEF CreateIncident, Posted
    <3>3. QED
      BY <3>1, <3>2, ReportsAssumption DEF TypeOK
  <2>3. CASE pc[q] # "idle"
    BY <1>1, <2>1, <2>3, Holder
  <2>4. QED
    BY <2>2, <2>3
<1>3. ASSUME NEW r \in Requests, NEW j \in Reports, FindIncident(r, j) PROVE Within(n, i)
  <2>1. i \in Posted /\ total' = total
    BY <1>3 DEF FindIncident, Posted
  <2>2. CASE q = r
    BY <1>3, <2>1, <2>2, ZeroWithin DEF FindIncident, FreshInv
  <2>3. CASE q # r
    <3>1. target[q] = i
      BY <1>3, <2>3 DEF FindIncident, TypeOK
    <3>2. QED
      BY <1>1, <2>1, <3>1
  <2>4. QED
    BY <2>2, <2>3
<1>4. ASSUME NEW r \in Requests, SumVotes(r) PROVE Within(n, i)
  <2>1. i \in Posted /\ target[q] = i
    BY <1>4 DEF SumVotes, Posted
  <2>2. CASE q = r
    BY <1>4, <2>1, <2>2, TotalWithin DEF SumVotes, NewTotal, TypeOK
  <2>3. CASE q # r
    BY <1>1, <1>4, <2>1, <2>3 DEF SumVotes, TypeOK
  <2>4. QED
    BY <2>2, <2>3
<1>5. ASSUME NEW r \in Requests, Done(r), Posted' = Posted PROVE Within(n, i)
  <2>1. i # NoReport
    BY <1>5, ReportsAssumption DEF TypeOK
  <2>2. q # r /\ target[q] = i /\ n = total[q]
    BY <1>5, <2>1, DoneEffect
  <2>3. QED
    BY <1>1, <1>5, <2>2
<1>6. ASSUME UNCHANGED <<target, total>>, Posted' = Posted PROVE Within(n, i)
  BY <1>1, <1>6
<1>7. QED
  BY <1>2, <1>3, <1>4, <1>5, <1>6
     DEF Next, UpsertVote, SaveScore, Abort, ExpireStaleIncidents, Tick, vars, Posted

LEMMA StepFresh == TypeOK /\ FreshInv /\ [Next]_vars => FreshInv'
<1> SUFFICES ASSUME TypeOK, FreshInv, [Next]_vars PROVE FreshInv'
  OBVIOUS
<1>1. ASSUME NEW r \in Requests, Done(r) PROVE FreshInv'
  BY <1>1 DEF Done, FreshInv, TypeOK
<1>2. ASSUME NEW r \in Requests, NEW j \in Reports, FindIncident(r, j) PROVE FreshInv'
  BY <1>2 DEF FindIncident, FreshInv, TypeOK
<1>3. ASSUME NEW r \in Requests, NEW u \in Voters, NEW value \in {1, -1}, UpsertVote(r, u, value)
      PROVE  FreshInv'
  BY <1>3 DEF UpsertVote, FreshInv, TypeOK
<1>4. ASSUME NEW r \in Requests, SumVotes(r) PROVE FreshInv'
  BY <1>4 DEF SumVotes, FreshInv, TypeOK
<1>5. CASE UNCHANGED <<pc, total>>
  BY <1>5 DEF FreshInv
<1>6. QED
  BY <1>1, <1>2, <1>3, <1>4, <1>5
     DEF Next, SaveScore, Abort, CreateIncident, ExpireStaleIncidents, Tick, vars

\* However votes race or fail, a score and the sums about to be saved stay
\* within the number of voters who have voted on the incident.
THEOREM ScoreBounded == Spec => []ScoreWithinVotes
<1>1. Init => FreshInv /\ ScoreWithinVotes
  BY DEF Init, FreshInv, ScoreWithinVotes, Posted
<1>2. TypeOK /\ FreshInv /\ ScoreWithinVotes /\ [Next]_vars => FreshInv' /\ ScoreWithinVotes'
  <2> SUFFICES ASSUME TypeOK, FreshInv, ScoreWithinVotes, [Next]_vars
               PROVE  FreshInv' /\ ScoreWithinVotes'
    OBVIOUS
  <2>1. \A i \in Posted' : /\ Within(incidents[i].credibility_score, i)'
                           /\ \A r \in Requests : (target[r] = i => Within(total[r], i))'
    BY StepScoreWithin, StepTotalWithin
  <2>2. ScoreWithinVotes'
    BY <2>1 DEF ScoreWithinVotes, Within, Voted
  <2>3. QED
    BY <2>2, StepFresh
<1>3. QED
  BY <1>1, <1>2, TypeCorrect, PTL DEF Spec

-----------------------------------------------------------------------------
\* The board implements ScoreBoard.

Settled == {i \in Posted \ dirty : BeforeVotes(i)}
Expired == {i \in Posted : incidents[i].status = "expired"}
Promised == <<incident_votes, SettledScore, Posted, Expired>>

LEMMA SumIsTotal == \A i : Promise!Sum(i) = Total(i)
<1>1. \A S : Promise!Cardinality(S) = Cardinality(S)
  BY DEF Promise!Cardinality, Cardinality
<1>2. \A i, value : Promise!For(i, value) = VotersFor(i, value)
  BY DEF Promise!For, VotersFor
<1>3. QED
  BY <1>1, <1>2 DEF Promise!Sum, Total

LEMMA InitRefines == Init => Promise!Init
<1> SUFFICES ASSUME Init PROVE Promise!Init
  OBVIOUS
<1>1. Posted = {} /\ incident_votes = [k \in {} |-> k]
  BY DEF Init, Posted
<1>2. SettledScore = [i \in {} |-> i]
  BY <1>1 DEF SettledScore
<1>3. QED
  BY <1>1, <1>2 DEF Promise!Init

\* Scores stay as they are where the settled incidents and their rows do.
LEMMA ScoresKept ==
  ASSUME Settled' = Settled,
         \A i \in Settled : incidents'[i].credibility_score = incidents[i].credibility_score
  PROVE  SettledScore' = SettledScore
BY DEF SettledScore, Settled

\* A report is settled at 0: no request is on it, and no vote.
LEMMA PostRefines ==
  ASSUME TypeOK, NEW i \in Reports, CreateIncident(i)
  PROVE  Promise!Post(i)
<1>1. /\ i \notin Posted /\ Posted' = Posted \cup {i}
      /\ \A x \in Posted : incidents'[x] = incidents[x]
      /\ incidents'[i].status = "active" /\ incidents'[i].credibility_score = 0
      /\ UNCHANGED <<incident_votes, pc, target, dirty>>
  BY DEF CreateIncident, Posted
<1>2. i \notin dirty /\ BeforeVotes(i)
  BY <1>1, ReportsAssumption DEF TypeOK, BeforeVotes
<1>3. Settled' = Settled \cup {i} /\ i \notin Settled
  BY <1>1, <1>2 DEF Settled, BeforeVotes
<1>4. Expired' = Expired
  BY <1>1 DEF Expired
<1>5. SettledScore' = [x \in Settled \cup {i} |-> IF x = i THEN 0 ELSE SettledScore[x]]
  BY <1>1, <1>3 DEF SettledScore, Settled
<1>6. DOMAIN SettledScore = Settled
  BY DEF SettledScore, Settled
<1>7. QED
  BY <1>1, <1>4, <1>5, <1>6 DEF Promise!Post, Promise!Set, Expired

\* A vote that enters the table unsettles the score.
LEMMA CastRefines ==
  ASSUME TypeOK, NEW r \in Requests, NEW u \in Voters, NEW value \in {1, -1},
         UpsertVote(r, u, value)
  PROVE  \E i \in Posted : Promise!Cast(i, u, value)
<1>1. PICK i \in Posted : i = target[r]
  BY Holder DEF UpsertVote
<1>2. /\ pc[r] = "vote" /\ pc'[r] = "sum" /\ \A q \in Requests \ {r} : pc'[q] = pc[q]
      /\ UNCHANGED <<incidents, target, dirty>>
      /\ incident_votes' = [k \in DOMAIN incident_votes \cup {<<i, u>>} |->
                              IF k = <<i, u>> THEN value ELSE incident_votes[k]]
  BY <1>1 DEF UpsertVote, TypeOK
<1>3. Settled' = Settled \ {i}
  <2>1. ~BeforeVotes(i)'
    BY <1>1, <1>2 DEF BeforeVotes
  <2>2. \A x : x # i => (BeforeVotes(x)' <=> BeforeVotes(x))
    BY <1>1, <1>2 DEF BeforeVotes
  <2>3. QED
    BY <1>2, <2>1, <2>2 DEF Settled, Posted
<1>4. SettledScore' = [x \in Settled \ {i} |-> SettledScore[x]] /\ DOMAIN SettledScore = Settled
  BY <1>2, <1>3 DEF SettledScore, Settled
<1>5. UNCHANGED <<Posted, Expired>>
  BY <1>2 DEF Posted, Expired
<1>6. Promise!Cast(i, u, value)
  BY <1>1, <1>2, <1>4, <1>5 DEF Promise!Cast, Expired
<1>7. QED
  BY <1>1, <1>6

\* Only the last of a clean vote's statements is seen, and it settles the score.
LEMMA SaveRefines ==
  ASSUME IInv, NEW r \in Requests, SaveScore(r)
  PROVE  (\E i \in Posted : Promise!Settle(i)) \/ UNCHANGED Promised
<1>0. TypeOK /\ AloneInv /\ SumInv
  BY DEF IInv
<1>1. PICK i \in Posted : i = target[r] /\ r \in InFlight /\ pc[r] = "save"
  BY <1>0, Holder DEF SaveScore
<1>2. /\ Posted' = Posted /\ incident_votes' = incident_votes
      /\ incidents'[i].credibility_score = total[r]
      /\ incidents'[i].status = incidents[i].status
      /\ \A x \in Posted \ {i} : incidents'[x] = incidents[x]
  BY <1>0, <1>1 DEF SaveScore, Saved, Posted, TypeOK, Row
<1>3. dirty' = IF r \in crowded THEN dirty \cup {i} ELSE dirty \ {i}
  BY <1>1 DEF SaveScore
<1>4. /\ pc'[r] = "idle" /\ target'[r] = NoReport
      /\ \A q \in Requests \ {r} : pc'[q] = pc[q] /\ target'[q] = target[q]
  BY <1>0, DoneEffect DEF SaveScore
<1>5. i # NoReport
  BY <1>0, <1>1, ReportsAssumption DEF TypeOK
<1>6. Expired' = Expired
  BY <1>1, <1>2 DEF Expired
<1>7. i \notin Settled /\ DOMAIN SettledScore = Settled
  BY <1>1 DEF Settled, BeforeVotes, SettledScore
<1>8. \A x \in Posted : x # i => (BeforeVotes(x)' <=> BeforeVotes(x))
  <2>1. \A x \in Posted : x # NoReport
    BY <1>0, ReportsAssumption DEF TypeOK
  <2>2. QED
    BY <1>1, <1>4, <2>1 DEF BeforeVotes
<1>9. CASE r \in crowded
  <2>1. Settled' = Settled
    BY <1>2, <1>3, <1>7, <1>8, <1>9 DEF Settled
  <2>2. \A x \in Settled : incidents'[x].credibility_score = incidents[x].credibility_score
    BY <1>2, <1>7 DEF Settled
  <2>3. QED
    BY <1>2, <1>6, <2>1, <2>2, ScoresKept DEF Promised
<1>10. CASE r \notin crowded
  <2>1. total[r] = Total(i)
    BY <1>0, <1>1, <1>10 DEF SumInv
  <2>2. BeforeVotes(i)'
    <3>1. ASSUME NEW q \in Requests, target'[q] = i PROVE FALSE
      <4>1. q # r /\ target[q] = i /\ q \in InFlight
        BY <1>0, <1>4, <1>5, <3>1 DEF InFlight, TypeOK
      <4>2. ASSUME q \notin crowded PROVE FALSE
        BY <1>0, <1>1, <1>10, <4>1, <4>2 DEF AloneInv
      <4>3. q = r
        BY <1>0, <1>1, <1>10, <4>1 DEF AloneInv
      <4>4. QED
        BY <4>1, <4>3
    <3>2. QED
      BY <3>1 DEF BeforeVotes
  <2>3. Settled' = Settled \cup {i}
    BY <1>1, <1>2, <1>3, <1>8, <1>10, <2>2 DEF Settled
  <2>4. SettledScore' = [x \in Settled \cup {i} |-> IF x = i THEN Total(i) ELSE SettledScore[x]]
    <3>1. SettledScore' = [x \in Settled' |-> incidents'[x].credibility_score]
      BY DEF SettledScore, Settled
    <3>2. \A x \in Settled : x # i /\ SettledScore[x] = incidents'[x].credibility_score
      BY <1>2, <1>7 DEF SettledScore, Settled
    <3>3. QED
      BY <1>2, <2>1, <2>3, <3>1, <3>2
  <2>5. Promise!Settle(i)
    BY <1>1, <1>2, <1>6, <1>7, <2>4, SumIsTotal DEF Promise!Settle, Promise!Set, Expired
  <2>6. QED
    BY <2>5
<1>11. QED
  BY <1>9, <1>10

\* A vote that fails leaves a score that is not settled as it is.
LEMMA AbortRefines ==
  ASSUME TypeOK, NEW r \in Requests, Abort(r)
  PROVE  UNCHANGED Promised
<1> DEFINE i == target[r]
<1>1. /\ UNCHANGED <<incidents, incident_votes>>
      /\ pc[r] # "idle" /\ i \in Posted
      /\ dirty' = IF pc[r] = "vote" THEN dirty ELSE dirty \cup {i}
  BY Holder DEF Abort
<1>2. /\ pc'[r] = "idle" /\ target'[r] = NoReport
      /\ \A q \in Requests \ {r} : pc'[q] = pc[q] /\ target'[q] = target[q]
  BY DoneEffect DEF Abort
<1>3. \A x \in Posted : x # NoReport
  BY ReportsAssumption DEF TypeOK
<1> HIDE DEF i
<1>4. \A x \in Posted : x # i => (BeforeVotes(x)' <=> BeforeVotes(x))
  BY <1>2, <1>3 DEF BeforeVotes, i
<1>5. CASE pc[r] = "vote"
  <2>1. \A x \in Posted : BeforeVotes(x)' <=> BeforeVotes(x)
    BY <1>2, <1>3, <1>5 DEF BeforeVotes
  <2>2. Settled' = Settled
    BY <1>1, <1>5, <2>1 DEF Settled, Posted
  <2>3. QED
    BY <1>1, <2>2, ScoresKept DEF Promised, Posted, Expired
<1>6. CASE pc[r] # "vote"
  <2>1. ~BeforeVotes(i)
    BY <1>6 DEF BeforeVotes, i
  <2>2. Settled' = Settled
    BY <1>1, <1>4, <1>6, <2>1 DEF Settled, Posted
  <2>3. QED
    BY <1>1, <2>2, ScoresKept DEF Promised, Posted, Expired
<1>7. QED
  BY <1>5, <1>6

LEMMA ExpireRefines ==
  ASSUME TypeOK, ExpireStaleIncidents
  PROVE  \E S \in SUBSET (Posted \ Expired) : Promise!Expire(S)
<1>0. PICK S : S = {i \in Posted : Stale(i)}
  OBVIOUS
<1>1. /\ UNCHANGED <<incident_votes, pc, target, dirty>> /\ Posted' = Posted
      /\ \A i \in Posted : incidents'[i] = IF i \in S THEN [incidents[i] EXCEPT !.status = "expired"]
                                                      ELSE incidents[i]
  BY <1>0 DEF ExpireStaleIncidents, Posted
<1>2. S \in SUBSET (Posted \ Expired)
  BY <1>0 DEF Expired, Stale
<1>3. ASSUME NEW i \in Posted
      PROVE  /\ incidents'[i].credibility_score = incidents[i].credibility_score
             /\ incidents'[i].status = "expired" <=> i \in S \/ incidents[i].status = "expired"
  <2>1. incidents[i] \in Row
    BY DEF TypeOK
  <2>2. QED
    BY <1>1, <2>1 DEF Row
<1>4. Settled' = Settled /\ Expired' = Expired \cup S
  <2>1. Settled' = Settled
    BY <1>1 DEF Settled, BeforeVotes
  <2>2. Expired' = Expired \cup S
    BY <1>1, <1>2, <1>3 DEF Expired
  <2>3. QED
    BY <2>1, <2>2
<1>5. SettledScore' = SettledScore
  BY <1>3, <1>4, ScoresKept DEF Settled
<1>6. Promise!Expire(S)
  BY <1>1, <1>4, <1>5 DEF Promise!Expire, Expired
<1>7. QED
  BY <1>2, <1>6

LEMMA StepRefines == IInv /\ [Next]_vars => [Promise!Next]_Promised
<1> SUFFICES ASSUME IInv, [Next]_vars PROVE Promise!Next \/ UNCHANGED Promised
  OBVIOUS
<1>0. TypeOK
  BY DEF IInv
<1>1. ASSUME NEW i \in Reports, CreateIncident(i) PROVE Promise!Next
  BY <1>0, <1>1, PostRefines DEF Promise!Next
<1>2. ASSUME NEW r \in Requests, NEW i \in Reports, FindIncident(r, i) PROVE UNCHANGED Promised
  <2>1. /\ UNCHANGED <<incidents, incident_votes, dirty>>
        /\ pc[r] = "idle" /\ pc'[r] = "vote" /\ target[r] = NoReport
        /\ \A q \in Requests \ {r} : pc'[q] = pc[q] /\ target'[q] = target[q]
    BY <1>0, <1>2 DEF FindIncident, TypeOK
  <2>2. \A x \in Posted : x # NoReport
    BY <1>0, ReportsAssumption DEF TypeOK
  <2>3. \A x \in Posted : BeforeVotes(x)' <=> BeforeVotes(x)
    BY <2>1, <2>2 DEF BeforeVotes
  <2>4. Settled' = Settled
    BY <2>1, <2>3 DEF Settled, Posted
  <2>5. QED
    BY <2>1, <2>4, ScoresKept DEF Promised, Posted, Expired
<1>3. ASSUME NEW r \in Requests, NEW u \in Voters, NEW value \in {1, -1}, UpsertVote(r, u, value)
      PROVE  Promise!Next
  BY <1>0, <1>3, CastRefines DEF Promise!Next
<1>4. ASSUME NEW r \in Requests, SumVotes(r) PROVE UNCHANGED Promised
  <2>1. /\ UNCHANGED <<incidents, incident_votes, target, dirty>>
        /\ \A q \in Requests : pc'[q] = "vote" <=> pc[q] = "vote"
    BY <1>0, <1>4 DEF SumVotes, TypeOK
  <2>2. Settled' = Settled
    BY <2>1 DEF Settled, BeforeVotes, Posted
  <2>3. QED
    BY <2>1, <2>2, ScoresKept DEF Promised, Posted, Expired
<1>5. ASSUME NEW r \in Requests, SaveScore(r) PROVE Promise!Next \/ UNCHANGED Promised
  BY <1>5, SaveRefines DEF Promise!Next
<1>6. ASSUME NEW r \in Requests, Abort(r) PROVE UNCHANGED Promised
  BY <1>0, <1>6, AbortRefines
<1>7. CASE ExpireStaleIncidents
  BY <1>0, <1>7, ExpireRefines DEF Promise!Next, Expired
<1>8. CASE UNCHANGED <<incidents, incident_votes, pc, target, dirty>>
  <2>1. Settled' = Settled
    BY <1>8 DEF Settled, BeforeVotes, Posted
  <2>2. QED
    BY <1>8, <2>1, ScoresKept DEF Promised, Posted, Expired
<1>9. QED
  BY <1>1, <1>2, <1>3, <1>4, <1>5, <1>6, <1>7, <1>8 DEF Next, Tick, vars

\* However votes race, fail and meet the expiry task, the board implements the
\* promise: one ballot a voter, and a score that is settled is their sum.
THEOREM Implements == Spec => ImplementsScoreBoard
<1>1. Spec => []IInv
  BY InitInv, StepInv, PTL DEF Spec
<1>2. IInv /\ [Next]_vars => [Promise!Next]_<<incident_votes, SettledScore, Posted,
                                {i \in Posted : incidents[i].status = "expired"}>>
  BY StepRefines DEF Promised, Expired
<1>3. QED
  BY <1>1, <1>2, InitRefines, PTL DEF Spec, ImplementsScoreBoard, Promise!Spec

-----------------------------------------------------------------------------
(* Expiry in the end.  The prover knows nothing of ENABLED, so the fairness   *)
(* of the task is written out: its action has one guard, that there is a      *)
(* stale report, and changes the row of each, so it is enabled exactly then.  *)

AnyStale == \E i \in Posted : Stale(i)

\* Celery Beat sends the task again and again: it runs infinitely often, or
\* again and again finds no stale report (WF_vars(ExpireStaleIncidents)).
TaskRuns ==
  []<><<ExpireStaleIncidents>>_vars \/ []<>~AnyStale

Late(i) == Overdue(i) /\ incidents[i].status = "active"
Gone(i) == i \in Posted /\ incidents[i].status = "expired"

\* A report that is late stays late, its deadline where it is, until it is gone.
LEMMA LateKept ==
  ASSUME TypeOK, NEW i, Late(i), [Next]_vars
  PROVE  Late(i)' \/ Gone(i)'
<1> USE DEF Late, Gone, Overdue, Posted
<1>0. i \in Posted /\ incidents[i] \in Row /\ now \in Nat
  BY DEF TypeOK
<1>1. ASSUME NEW x \in Reports, CreateIncident(x) PROVE Late(i)'
  BY <1>0, <1>1 DEF CreateIncident
<1>2. ASSUME NEW r \in Requests, SaveScore(r) PROVE Late(i)'
  BY <1>0, <1>2 DEF SaveScore, Saved, TypeOK, Row
<1>3. CASE ExpireStaleIncidents
  BY <1>0, <1>3 DEF ExpireStaleIncidents, Row
<1>4. CASE Tick
  BY <1>0, <1>4 DEF Tick, Row
<1>5. CASE UNCHANGED <<now, incidents>>
  BY <1>5
<1>6. QED
  BY <1>1, <1>2, <1>3, <1>4, <1>5
     DEF Next, vars, FindIncident, UpsertVote, SumVotes, Abort

\* One run of the task expires every report that is late.
LEMMA LateGoes ==
  ASSUME TypeOK, NEW i, Late(i), ExpireStaleIncidents
  PROVE  Gone(i)'
BY DEF ExpireStaleIncidents, Late, Gone, Overdue, Stale, Posted, TypeOK, Row

LEMMA TaskCatchesUp ==
  ASSUME NEW i \in Reports
  PROVE  Spec /\ TaskRuns => (Overdue(i) ~> Gone(i))
<1>1. TypeOK /\ Overdue(i) => Late(i) \/ Gone(i)
  BY DEF TypeOK, Overdue, Late, Gone, Row
<1>2. TypeOK /\ Late(i) /\ [Next]_vars => Late(i)' \/ Gone(i)'
  BY LateKept
<1>3. TypeOK /\ Late(i) /\ <<ExpireStaleIncidents>>_vars => Gone(i)'
  BY LateGoes
<1>4. Late(i) => AnyStale
  BY DEF Late, Overdue, Stale, AnyStale
<1>5. QED
  BY <1>1, <1>2, <1>3, <1>4, TypeCorrect, PTL DEF TaskRuns, Spec

\* A report past its deadline is expired in the end, for any number of reports,
\* votes under way and missed runs, as long as the task is run again and again.
THEOREM TaskExpires == Spec /\ TaskRuns => OverdueExpires
<1>1. Spec /\ TaskRuns => \A i \in Reports : Overdue(i) ~> Gone(i)
  BY TaskCatchesUp
<1>2. QED
  BY <1>1 DEF OverdueExpires, Gone
=============================================================================
