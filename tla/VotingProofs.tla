---------------------------- MODULE VotingProofs ----------------------------
(***************************************************************************)
(* Proofs about Voting, for every finite set of users and every set of     *)
(* phones, reports and requests.                                           *)
(*                                                                         *)
(* A behaviour of Voting is one of Identity and one of Incidents, so what  *)
(* IdentityProofs and IncidentsProofs show of the components holds here    *)
(* and is cited from there.  The prover takes the definitions of those     *)
(* instances and of the instances in Voting for different ones; the first  *)
(* lemmas tell it that they are not.                                       *)
(***************************************************************************)
EXTENDS Voting, FiniteSetTheorems, TLAPS

AccountsP == INSTANCE IdentityProofs
BoardP == INSTANCE IncidentsProofs
            WITH Voters <- Users, Requests <- VoteRequests, pc <- at

\* The user of a running vote request, and of a vote in the table, has proved a
\* phone.
Proved(u) == \E p \in Phones : <<u, p>> \in proven
CallerInv ==
  /\ caller \in [VoteRequests -> Users \cup {Null}]
  /\ at \in [VoteRequests -> {"idle", "vote", "sum", "save"}]
  /\ \A r \in VoteRequests : caller[r] = Null <=> at[r] = "idle"
  /\ \A r \in VoteRequests : caller[r] # Null => Proved(caller[r])
VotesInv == \A k \in DOMAIN incident_votes : k[2] \in Users => Proved(k[2])

\* What the auth component guarantees.
AuthInv ==
  /\ AccountsP!TypeOK
  /\ AccountsP!VerifiedClaimIsEarned
  /\ AccountsP!ProvenApart
  /\ AccountsP!ProvenIsHeld

-----------------------------------------------------------------------------
\* The components.

LEMMA NextAccounts == Accounts!Next <=> AccountsP!Next
<1>1. ASSUME NEW u, NEW e PROVE Accounts!Register(u, e) <=> AccountsP!Register(u, e)
  BY DEF Accounts!Register, Accounts!Insert, Accounts!Unique, Accounts!Claims, Accounts!NoRow,
         Accounts!Ids, AccountsP!Register, AccountsP!Insert, AccountsP!Unique, AccountsP!Claims,
         AccountsP!NoRow, AccountsP!Ids
<1>2. ASSUME NEW u, NEW d PROVE Accounts!GuestLogin(u, d) <=> AccountsP!GuestLogin(u, d)
  BY DEF Accounts!GuestLogin, Accounts!Insert, Accounts!Unique, Accounts!Claims, Accounts!NoRow,
         Accounts!Ids, AccountsP!GuestLogin, AccountsP!Insert, AccountsP!Unique,
         AccountsP!Claims, AccountsP!NoRow, AccountsP!Ids
<1>3. ASSUME NEW u, NEW p PROVE Accounts!VerifyNewPhone(u, p) <=> AccountsP!VerifyNewPhone(u, p)
  BY DEF Accounts!VerifyNewPhone, Accounts!Insert, Accounts!Unique, Accounts!Claims,
         Accounts!NoRow, Accounts!Ids, AccountsP!VerifyNewPhone, AccountsP!Insert,
         AccountsP!Unique, AccountsP!Claims, AccountsP!NoRow, AccountsP!Ids
<1>4. ASSUME NEW u PROVE Accounts!SignIn(u) <=> AccountsP!SignIn(u)
  BY DEF Accounts!SignIn, Accounts!Claims, Accounts!Ids, AccountsP!SignIn, AccountsP!Claims,
         AccountsP!Ids
<1>5. ASSUME NEW r, NEW p PROVE Accounts!FindByPhone(r, p) <=> AccountsP!FindByPhone(r, p)
  BY DEF Accounts!FindByPhone, Accounts!Find, Accounts!Claims, Accounts!Ids, Accounts!InFlight,
         AccountsP!FindByPhone, AccountsP!Find, AccountsP!Claims, AccountsP!Ids,
         AccountsP!InFlight
<1>6. ASSUME NEW r PROVE Accounts!SaveVerified(r) <=> AccountsP!SaveVerified(r)
  BY DEF Accounts!SaveVerified, Accounts!Claims, Accounts!Done, Accounts!NoRow,
         AccountsP!SaveVerified, AccountsP!Claims, AccountsP!Done, AccountsP!NoRow
<1>7. ASSUME NEW r, NEW u PROVE Accounts!FindUser(r, u) <=> AccountsP!FindUser(r, u)
  BY DEF Accounts!FindUser, Accounts!Find, Accounts!InFlight, AccountsP!FindUser,
         AccountsP!Find, AccountsP!InFlight
<1>8. ASSUME NEW r, NEW e, NEW p PROVE Accounts!SaveUser(r, e, p) <=> AccountsP!SaveUser(r, e, p)
  BY DEF Accounts!SaveUser, Accounts!Saved, Accounts!Edit, Accounts!Given, Accounts!Unique,
         Accounts!Claims, Accounts!Done, Accounts!NoRow, Accounts!Ids, AccountsP!SaveUser,
         AccountsP!Saved, AccountsP!Edit, AccountsP!Given, AccountsP!Unique, AccountsP!Claims,
         AccountsP!Done, AccountsP!NoRow, AccountsP!Ids
<1>9. ASSUME NEW r PROVE Accounts!Abort(r) <=> AccountsP!Abort(r)
  BY DEF Accounts!Abort, Accounts!Done, Accounts!NoRow, AccountsP!Abort, AccountsP!Done,
         AccountsP!NoRow
<1>10. QED
  BY <1>1, <1>2, <1>3, <1>4, <1>5, <1>6, <1>7, <1>8, <1>9 DEF Accounts!Next, AccountsP!Next

LEMMA SameAccounts ==
  /\ Accounts!Init <=> AccountsP!Init
  /\ Accounts!TypeOK <=> AccountsP!TypeOK
  /\ Accounts!Ids = AccountsP!Ids
  /\ \A t : Accounts!IsVerifiedUser(t) <=> AccountsP!IsVerifiedUser(t)
  BY DEF Accounts!Init, Accounts!TypeOK, Accounts!Ids, Accounts!Row, Accounts!NoRow,
         Accounts!IsVerifiedUser, AccountsP!Init, AccountsP!TypeOK, AccountsP!Ids,
         AccountsP!Row, AccountsP!NoRow, AccountsP!IsVerifiedUser

LEMMA SameBoard ==
  /\ Board!Init <=> BoardP!Init
  /\ Board!TypeOK <=> BoardP!TypeOK
  BY DEF Board!Init, Board!TypeOK, Board!NoRow, Board!Row, Board!Posted, Board!InFlight,
         BoardP!Init, BoardP!TypeOK, BoardP!NoRow, BoardP!Row, BoardP!Posted, BoardP!InFlight

LEMMA SameSets ==
  /\ \A S : IsFiniteSet(S) <=> BoardP!IsFiniteSet(S)
  /\ \A S : Board!Cardinality(S) = Cardinality(S)
  /\ \A S : BoardP!Cardinality(S) = Cardinality(S)
<1>1. \A S : IsFiniteSet(S) <=> BoardP!IsFiniteSet(S)
  BY DEF IsFiniteSet, BoardP!IsFiniteSet
<1>2. \A S : Board!Cardinality(S) = Cardinality(S)
  BY DEF Board!Cardinality, Cardinality
<1>3. \A S : BoardP!Cardinality(S) = Cardinality(S)
  BY DEF BoardP!Cardinality, Cardinality
<1>4. QED
  BY <1>1, <1>2, <1>3

LEMMA BoardSteps ==
  /\ \A i : Board!CreateIncident(i) <=> BoardP!CreateIncident(i)
  /\ \A r, i : Board!FindIncident(r, i) <=> BoardP!FindIncident(r, i)
  /\ \A r, u, value : Board!UpsertVote(r, u, value) <=> BoardP!UpsertVote(r, u, value)
  /\ \A r : Board!SumVotes(r) <=> BoardP!SumVotes(r)
  /\ \A r : Board!SaveScore(r) <=> BoardP!SaveScore(r)
  /\ \A r : Board!Abort(r) <=> BoardP!Abort(r)
  /\ Board!ExpireStaleIncidents <=> BoardP!ExpireStaleIncidents
  /\ Board!Tick <=> BoardP!Tick
<1>1. \A i : Board!CreateIncident(i) <=> BoardP!CreateIncident(i)
  BY DEF Board!CreateIncident, Board!Posted, BoardP!CreateIncident, BoardP!Posted
<1>2. \A r, i : Board!FindIncident(r, i) <=> BoardP!FindIncident(r, i)
  BY DEF Board!FindIncident, Board!Posted, Board!Others, Board!InFlight, BoardP!FindIncident,
         BoardP!Posted, BoardP!Others, BoardP!InFlight
<1>3. \A r, u, value : Board!UpsertVote(r, u, value) <=> BoardP!UpsertVote(r, u, value)
  BY DEF Board!UpsertVote, BoardP!UpsertVote
<1>4. \A r : Board!SumVotes(r) <=> BoardP!SumVotes(r)
  <2>1. \A i : /\ Board!VotersFor(i, 1) = BoardP!VotersFor(i, 1)
               /\ Board!VotersFor(i, -1) = BoardP!VotersFor(i, -1)
    BY DEF Board!VotersFor, BoardP!VotersFor
  <2>2. \A i : Board!Total(i) = BoardP!Total(i)
    BY <2>1, SameSets DEF Board!Total, BoardP!Total
  <2>3. \A r : Board!NewTotal(r) = BoardP!NewTotal(r)
    BY <2>2 DEF Board!NewTotal, BoardP!NewTotal
  <2>4. QED
    BY <2>3 DEF Board!SumVotes, BoardP!SumVotes
<1>5. \A r : Board!SaveScore(r) <=> BoardP!SaveScore(r)
  BY DEF Board!SaveScore, Board!Saved, Board!Done, Board!NoRow, BoardP!SaveScore, BoardP!Saved,
         BoardP!Done, BoardP!NoRow
<1>6. \A r : Board!Abort(r) <=> BoardP!Abort(r)
  BY DEF Board!Abort, Board!Done, Board!NoRow, BoardP!Abort, BoardP!Done, BoardP!NoRow
<1>7. Board!ExpireStaleIncidents <=> BoardP!ExpireStaleIncidents
  BY DEF Board!ExpireStaleIncidents, Board!Posted, Board!Stale, BoardP!ExpireStaleIncidents,
         BoardP!Posted, BoardP!Stale
<1>8. Board!Tick <=> BoardP!Tick
  BY DEF Board!Tick, BoardP!Tick
<1>9. QED
  BY <1>1, <1>2, <1>3, <1>4, <1>5, <1>6, <1>7, <1>8

\* A step of Voting is a step of Identity or leaves its variables alone.
LEMMA AccountsStep == [Next]_vars => [AccountsP!Next]_(AccountsP!vars)
<1> SUFFICES ASSUME [Next]_vars PROVE AccountsP!Next \/ UNCHANGED accounts
  BY DEF accounts, AccountsP!vars
<1>1. QED
  BY NextAccounts
     DEF Next, Account, Report, Vote, CastVote, SumVotes, EndVote, Background, vars

LEMMA AccountsSpec == Spec => AccountsP!Spec
<1>1. Init => AccountsP!Init
  BY SameAccounts DEF Init
<1>2. QED
  BY <1>1, AccountsStep, PTL DEF Spec, AccountsP!Spec

LEMMA AuthHolds == Spec => []AuthInv
<1>1. AccountsP!Spec => []AccountsP!TypeOK
  BY AccountsP!TypeCorrect, AccountsAssumption
<1>2. AccountsP!Spec => []AccountsP!VerifiedClaimIsEarned
  BY AccountsP!ClaimEarned, AccountsAssumption
<1>3. AccountsP!Spec => [](AccountsP!ProvenApart /\ AccountsP!ProvenIsHeld)
  BY AccountsP!ProvenOnce, AccountsAssumption
<1>4. QED
  BY <1>1, <1>2, <1>3, AccountsSpec, PTL DEF AuthInv

\* What a user has proven stays proven.
LEMMA ProvenStays == AuthInv /\ [Next]_vars => proven \subseteq proven'
  BY AccountsStep, AccountsP!ProvenGrows, AccountsAssumption DEF AuthInv

-----------------------------------------------------------------------------
\* Callers and votes.

LEMMA InitVotes == Init => CallerInv /\ VotesInv
  BY AccountsAssumption DEF Init, Board!Init, CallerInv, VotesInv

LEMMA StepCaller == AuthInv /\ CallerInv /\ [Next]_vars => CallerInv'
<1> SUFFICES ASSUME AuthInv, CallerInv, [Next]_vars PROVE CallerInv'
  OBVIOUS
<1>0. \A u : Proved(u) => Proved(u)'
  BY ProvenStays DEF Proved
<1>1. ASSUME NEW r \in VoteRequests, NEW u \in Users, NEW i \in Reports, Vote(r, u, i)
      PROVE  CallerInv'
  <2>1. Proved(u)
    BY <1>1, SameAccounts
       DEF Vote, MayVote, AuthInv, AccountsP!VerifiedClaimIsEarned, Proved
  <2>2. u # Null
    BY AccountsAssumption
  <2>3. at' = [at EXCEPT ![r] = "vote"] /\ caller' = [caller EXCEPT ![r] = u]
    BY <1>1 DEF Vote, Board!FindIncident
  <2>4. QED
    BY <1>0, <2>1, <2>2, <2>3 DEF CallerInv
<1>2. ASSUME NEW r \in VoteRequests, EndVote(r) PROVE CallerInv'
  <2>1. at' = [at EXCEPT ![r] = "idle"] /\ caller' = [caller EXCEPT ![r] = Null]
    BY <1>2 DEF EndVote, Board!SaveScore, Board!Abort, Board!Done
  <2>2. QED
    BY <1>0, <2>1 DEF CallerInv
<1>3. ASSUME caller' = caller, at' \in [VoteRequests -> {"idle", "vote", "sum", "save"}],
             \A r \in VoteRequests : at'[r] = "idle" <=> at[r] = "idle"
      PROVE  CallerInv'
  BY <1>0, <1>3 DEF CallerInv
<1>4. ASSUME NEW r \in VoteRequests, NEW value \in {1, -1}, CastVote(r, value) PROVE CallerInv'
  BY <1>3, <1>4 DEF CastVote, Board!UpsertVote, CallerInv
<1>5. ASSUME NEW r \in VoteRequests, SumVotes(r) PROVE CallerInv'
  BY <1>3, <1>5 DEF SumVotes, Board!SumVotes, CallerInv
<1>6. QED
  BY <1>1, <1>2, <1>3, <1>4, <1>5
     DEF Next, Account, Report, Background, vars, board, Board!CreateIncident,
         Board!ExpireStaleIncidents, Board!Tick, CallerInv

LEMMA StepVotes == AuthInv /\ CallerInv /\ VotesInv /\ [Next]_vars => VotesInv'
<1> SUFFICES ASSUME AuthInv, CallerInv, VotesInv, [Next]_vars PROVE VotesInv'
  OBVIOUS
<1>0. \A u : Proved(u) => Proved(u)'
  BY ProvenStays DEF Proved
<1>1. ASSUME NEW r \in VoteRequests, NEW value \in {1, -1}, CastVote(r, value) PROVE VotesInv'
  <2>1. /\ at[r] = "vote"
        /\ DOMAIN incident_votes' = DOMAIN incident_votes \cup {<<target[r], caller[r]>>}
    BY <1>1 DEF CastVote, Board!UpsertVote
  <2>2. Proved(caller[r])
    BY <2>1 DEF CallerInv
  <2>3. QED
    BY <1>0, <2>1, <2>2 DEF VotesInv
<1>2. ASSUME incident_votes' = incident_votes PROVE VotesInv'
  BY <1>0, <1>2 DEF VotesInv
<1>3. QED
  BY <1>1, <1>2
     DEF Next, Account, Report, Vote, SumVotes, EndVote, Background, vars, board,
         Board!CreateIncident, Board!FindIncident, Board!SumVotes, Board!SaveScore, Board!Abort,
         Board!ExpireStaleIncidents, Board!Tick

LEMMA VotingInv == Spec => [](AuthInv /\ CallerInv /\ VotesInv)
<1>1. AuthInv /\ CallerInv /\ VotesInv /\ [Next]_vars => CallerInv' /\ VotesInv'
  BY StepCaller, StepVotes
<1>2. QED
  BY <1>1, InitVotes, AuthHolds, PTL DEF Spec

\* Knowing that a running request has a caller, so that a vote is somebody's, a
\* step of Voting is one of Incidents or leaves its variables alone.
LEMMA BoardStep == CallerInv /\ [Next]_vars => [BoardP!Next]_(BoardP!vars)
<1> SUFFICES ASSUME CallerInv, [Next]_vars PROVE BoardP!Next \/ UNCHANGED board
  BY DEF board, BoardP!vars
<1>1. ASSUME NEW i \in Reports, Report(i) PROVE BoardP!Next
  BY <1>1, BoardSteps DEF Report, BoardP!Next
<1>2. ASSUME NEW r \in VoteRequests, NEW u \in Users, NEW i \in Reports, Vote(r, u, i)
      PROVE  BoardP!Next
  BY <1>2, BoardSteps DEF Vote, BoardP!Next
<1>3. ASSUME NEW r \in VoteRequests, NEW value \in {1, -1}, CastVote(r, value) PROVE BoardP!Next
  <2>1. Board!UpsertVote(r, caller[r], value)
    BY <1>3 DEF CastVote
  <2>2. caller[r] \in Users
    BY <2>1 DEF CallerInv, Board!UpsertVote
  <2>3. QED
    BY <2>1, <2>2, BoardSteps DEF BoardP!Next
<1>4. ASSUME NEW r \in VoteRequests, SumVotes(r) PROVE BoardP!Next
  BY <1>4, BoardSteps DEF SumVotes, BoardP!Next
<1>5. ASSUME NEW r \in VoteRequests, EndVote(r) PROVE BoardP!Next
  BY <1>5, BoardSteps DEF EndVote, BoardP!Next
<1>6. CASE Background
  BY <1>6, BoardSteps DEF Background, BoardP!Next
<1>7. CASE UNCHANGED board
  BY <1>7
<1>8. QED
  BY <1>1, <1>2, <1>3, <1>4, <1>5, <1>6, <1>7 DEF Next, Account, vars

LEMMA BoardSpec == Spec => BoardP!Spec
<1>1. Init => BoardP!Init
  BY SameBoard DEF Init
<1>2. QED
  BY <1>1, BoardStep, VotingInv, PTL DEF Spec, BoardP!Spec

\* A vote request of anybody, whatever happens to the rows of users, moves the
\* board as Incidents says: what holds there holds of the whole system.
THEOREM ImplementsBoard == Spec => Board!Spec
<1>1. Board!Init <=> BoardP!Init
  BY SameBoard
<1>2. Board!Next <=> BoardP!Next
  BY BoardSteps DEF Board!Next, BoardP!Next
<1>3. [BoardP!Next]_(BoardP!vars) => [Board!Next]_(Board!vars)
  BY <1>2 DEF Board!vars, BoardP!vars
<1>4. QED
  BY <1>1, <1>3, BoardSpec, PTL DEF Board!Spec, BoardP!Spec

\* Nor does a vote move the accounts but as Identity says.
THEOREM ImplementsAccounts == Spec => Accounts!Spec
<1>1. Accounts!Init <=> AccountsP!Init
  BY SameAccounts
<1>2. [AccountsP!Next]_(AccountsP!vars) => [Accounts!Next]_(Accounts!vars)
  BY NextAccounts DEF Accounts!vars, AccountsP!vars
<1>3. QED
  BY <1>1, <1>2, AccountsSpec, PTL DEF Accounts!Spec, AccountsP!Spec

\* The two instances promise the same.
LEMMA SamePromise ==
  /\ Board!Promise!Init <=> BoardP!Promise!Init
  /\ Board!Promise!Next <=> BoardP!Promise!Next
<1>1. /\ Board!SettledScore = BoardP!SettledScore
      /\ Board!Posted = BoardP!Posted
  BY DEF Board!SettledScore, BoardP!SettledScore, Board!Posted, BoardP!Posted,
         Board!BeforeVotes, BoardP!BeforeVotes
<1>2. (Board!SettledScore)' = (BoardP!SettledScore)' /\ (Board!Posted)' = (BoardP!Posted)'
  BY DEF Board!SettledScore, BoardP!SettledScore, Board!Posted, BoardP!Posted,
         Board!BeforeVotes, BoardP!BeforeVotes
<1>3. \A i : Board!Promise!Sum(i) = BoardP!Promise!Sum(i)
  <2>1. \A S : Board!Promise!Cardinality(S) = BoardP!Promise!Cardinality(S)
    BY DEF Board!Promise!Cardinality, BoardP!Promise!Cardinality
  <2>2. \A i, value : Board!Promise!For(i, value) = BoardP!Promise!For(i, value)
    BY DEF Board!Promise!For, BoardP!Promise!For
  <2>3. QED
    BY <2>1, <2>2 DEF Board!Promise!Sum, BoardP!Promise!Sum
<1>4. Board!Promise!Init <=> BoardP!Promise!Init
  BY <1>1 DEF Board!Promise!Init, BoardP!Promise!Init
<1>5. /\ \A i : Board!Promise!Post(i) <=> BoardP!Promise!Post(i)
      /\ \A i, u, value : Board!Promise!Cast(i, u, value) <=> BoardP!Promise!Cast(i, u, value)
      /\ \A i : Board!Promise!Settle(i) <=> BoardP!Promise!Settle(i)
      /\ \A S : Board!Promise!Expire(S) <=> BoardP!Promise!Expire(S)
  BY <1>1, <1>2, <1>3
     DEF Board!Promise!Post, BoardP!Promise!Post, Board!Promise!Cast, BoardP!Promise!Cast,
         Board!Promise!Settle, BoardP!Promise!Settle, Board!Promise!Expire,
         BoardP!Promise!Expire, Board!Promise!Set, BoardP!Promise!Set
<1>6. QED
  BY <1>1, <1>4, <1>5 DEF Board!Promise!Next, BoardP!Promise!Next

\* The score of the whole system is what ScoreBoard promises.
THEOREM ImplementsScores == Spec => Board!ImplementsScoreBoard
<1>1. BoardP!Spec => BoardP!ImplementsScoreBoard
  BY BoardP!Implements, BoardAssumption, SameSets
<1>2. ASSUME [BoardP!Promise!Next]_<<incident_votes, BoardP!SettledScore, BoardP!Posted,
                {i \in BoardP!Posted : incidents[i].status = "expired"}>>
      PROVE  [Board!Promise!Next]_<<incident_votes, Board!SettledScore, Board!Posted,
                {i \in Board!Posted : incidents[i].status = "expired"}>>
  BY <1>2, SamePromise
     DEF Board!SettledScore, BoardP!SettledScore, Board!Posted, BoardP!Posted,
         Board!BeforeVotes, BoardP!BeforeVotes
<1>3. QED
  BY <1>1, <1>2, SamePromise, BoardSpec, PTL
     DEF BoardP!ImplementsScoreBoard, Board!ImplementsScoreBoard, BoardP!Promise!Spec, Board!Promise!Spec

LEMMA BoardHolds == Spec => [](BoardP!TypeOK /\ BoardP!ScoreWithinVotes)
<1>1. BoardP!Spec => []BoardP!TypeOK
  BY BoardP!TypeCorrect, BoardAssumption, SameSets
<1>2. BoardP!Spec => []BoardP!ScoreWithinVotes
  BY BoardP!ScoreBounded, BoardAssumption, SameSets
<1>3. QED
  BY <1>1, <1>2, BoardSpec, PTL

-----------------------------------------------------------------------------
\* Votes are of users who proved a phone, whatever the vote raced with.
THEOREM Earned == Spec => []VotesAreEarned
<1>1. VotesInv => VotesAreEarned
  <2> SUFFICES ASSUME VotesInv, NEW i \in Reports, NEW u \in VotersOf(i)
               PROVE  \E p : p \in PhonesOf({u})
    BY DEF VotesAreEarned
  <2>1. u \in Users /\ <<i, u>> \in DOMAIN incident_votes
    BY DEF VotersOf
  <2>2. Proved(u)
    BY <2>1 DEF VotesInv
  <2>3. QED
    BY <2>2 DEF Proved, PhonesOf
<1>2. QED
  BY <1>1, VotingInv, PTL

\* A running vote request, and every vote, belongs to a user with a row.
THEOREM TypeCorrect == Spec => []TypeOK
<1>1. AuthInv /\ CallerInv /\ VotesInv /\ BoardP!TypeOK => TypeOK
  <2> SUFFICES ASSUME AuthInv, CallerInv, VotesInv, BoardP!TypeOK PROVE TypeOK
    OBVIOUS
  <2>1. Accounts!TypeOK /\ Board!TypeOK
    BY SameAccounts, SameBoard DEF AuthInv
  <2>2. \A u : Proved(u) => u \in Accounts!Ids
    BY <2>1 DEF Proved, Accounts!TypeOK
  <2>3. caller \in [VoteRequests -> Accounts!Ids \cup {Null}]
    BY <2>2 DEF CallerInv
  <2>4. \A k \in DOMAIN incident_votes : k[2] \in Users
    BY DEF BoardP!TypeOK
  <2>5. \A k \in DOMAIN incident_votes : k[2] \in Accounts!Ids
    BY <2>2, <2>4 DEF VotesInv
  <2>6. QED
    BY <2>1, <2>3, <2>5 DEF TypeOK, CallerInv
<1>2. QED
  BY <1>1, VotingInv, BoardHolds, PTL

-----------------------------------------------------------------------------
\* Voters of whom no phone was edited are as many as the phones they proved.

LEMMA PhonePerUser ==
  ASSUME AuthInv, NEW A \in SUBSET (Users \ rephoned), \A u \in A : Proved(u)
  PROVE  IsFiniteSet(PhonesOf(A)) /\ Cardinality(PhonesOf(A)) = Cardinality(A)
<1> DEFINE f == [u \in A |-> users[u].phone]
<1>1. \A u \in A : u \in AccountsP!Ids \ rephoned
  BY DEF AuthInv, AccountsP!TypeOK, Proved
<1>2. \A u \in A, p \in Phones : <<u, p>> \in proven <=> p = f[u]
  BY <1>1 DEF AuthInv, AccountsP!ProvenIsHeld, Proved
<1>3. \A u \in A : f[u] \in Phones /\ <<u, f[u]>> \in proven
  BY <1>2 DEF Proved
<1>4. \A u, v \in A : f[u] = f[v] => u = v
  BY <1>1, <1>3 DEF AuthInv, AccountsP!ProvenApart
<1>5. f \in [A -> PhonesOf(A)]
  BY <1>3 DEF PhonesOf
<1>6. \A p \in PhonesOf(A) : \E u \in A : f[u] = p
  BY <1>2 DEF PhonesOf
<1> HIDE DEF f
<1>7. f \in Bijection(A, PhonesOf(A))
  <2>1. f \in Injection(A, PhonesOf(A))
    BY <1>4, <1>5 DEF Injection, IsInjective
  <2>2. f \in Surjection(A, PhonesOf(A))
    BY <1>5, <1>6 DEF Surjection
  <2>3. QED
    BY <2>1, <2>2 DEF Bijection
<1>8. IsFiniteSet(A)
  BY BoardAssumption, FS_Subset
<1>9. QED
  BY <1>7, <1>8, FS_Bijection DEF ExistsBijection

\* A score stays within the number of phones behind it, but for voters whose
\* phone was edited.
THEOREM ScoreCounted == Spec => []ScoreCountsPhones
<1>1. AuthInv /\ VotesInv /\ BoardP!TypeOK /\ BoardP!ScoreWithinVotes => ScoreCountsPhones
  <2> SUFFICES ASSUME AuthInv, VotesInv, BoardP!TypeOK, BoardP!ScoreWithinVotes,
                      NEW i \in DOMAIN incidents
               PROVE  LET edited == VotersOf(i) \cap rephoned
                          n == Cardinality(PhonesOf(VotersOf(i) \ rephoned)) + Cardinality(edited)
                      IN  incidents[i].credibility_score \in (-n)..n
    BY DEF ScoreCountsPhones
  <2> DEFINE A == VotersOf(i) \ rephoned
             B == VotersOf(i) \cap rephoned
  <2>1. BoardP!VotersFor(i, 1) \cup BoardP!VotersFor(i, -1) = VotersOf(i)
    BY DEF BoardP!VotersFor, VotersOf, BoardP!TypeOK
  <2>2. incidents[i].credibility_score \in (-Cardinality(VotersOf(i)))..Cardinality(VotersOf(i))
    BY <2>1, SameSets DEF BoardP!ScoreWithinVotes, BoardP!Posted
  <2>3. A \in SUBSET Users /\ B \in SUBSET Users /\ VotersOf(i) = A \cup B /\ A \cap B = {}
    BY DEF VotersOf
  <2>4. /\ IsFiniteSet(A) /\ Cardinality(A) \in Nat
        /\ IsFiniteSet(B) /\ Cardinality(B) \in Nat
    BY <2>3, BoardAssumption, FS_Subset, FS_CardinalityType
  <2>5. Cardinality(VotersOf(i)) = Cardinality(A) + Cardinality(B)
    <3>1. Cardinality(A \cup B) = Cardinality(A) + Cardinality(B) - Cardinality(A \cap B)
      BY <2>4, FS_Union
    <3>2. Cardinality(A \cap B) = 0
      BY <2>3, FS_EmptySet
    <3> HIDE DEF A, B
    <3>3. QED
      BY <2>3, <2>4, <3>1, <3>2
  <2>6. \A u \in A : Proved(u)
    BY DEF VotesInv, VotersOf
  <2>7. Cardinality(PhonesOf(A)) = Cardinality(A)
    BY <2>3, <2>6, PhonePerUser
  <2>8. QED
    BY <2>2, <2>5, <2>7
<1>2. QED
  BY <1>1, VotingInv, BoardHolds, PTL
=============================================================================
