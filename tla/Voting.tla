------------------------------- MODULE Voting -------------------------------
(***************************************************************************)
(* Identities and the incident board together: who may vote, and what a    *)
(* score says of the people behind it (incidents/views.py,                 *)
(* accounts/permissions.py).                                               *)
(*                                                                         *)
(* The permissions of IncidentVoteView read the claims of the caller's     *)
(* token and nothing else, before the view reads the incident.  Meanwhile  *)
(* the user's row may be edited, upgraded or verified by requests of the   *)
(* auth component, and other votes run.  Each step is a step of one of the *)
(* two components; a token may be of any age (when it expires is in        *)
(* Sessions).                                                              *)
(***************************************************************************)
EXTENDS Integers, FiniteSets

CONSTANTS
  Users, Emails, Phones, Devices, Requests, Null,  \* as in Identity
  Reports, NoReport, ReportTTL, MaxTime,           \* as in Incidents
  VoteRequests                                     \* requests of IncidentVoteView

ASSUME AccountsAssumption == Null \notin Users \cup Emails \cup Phones \cup Devices
ASSUME BoardAssumption ==
  /\ NoReport \notin Reports
  /\ IsFiniteSet(Users)
  /\ ReportTTL \in Nat /\ MaxTime \in Nat

VARIABLES
  users, tokens, pc, pk, read, proven, intended, rephoned, overlapped,
  now, incidents, incident_votes, at, target, seen, total, crowded, dirty,
  caller  \* request.user.sub of each vote request

accounts == <<users, tokens, pc, pk, read, proven, intended, rephoned, overlapped>>
board == <<now, incidents, incident_votes, at, target, seen, total, crowded, dirty>>
vars == <<accounts, board, caller>>

Accounts == INSTANCE Identity
Board == INSTANCE Incidents WITH Voters <- Users, Requests <- VoteRequests, pc <- at

\* IsAuthenticated and IsVerifiedUser, on the claims of a token.
MayVote_AllowAny(u) == TRUE
MayVote_NotGuest(u) == \E t \in tokens : t.sub = u /\ ~t.isGuest
MayVote(u) == \E t \in tokens : t.sub = u /\ Accounts!IsVerifiedUser(t)

-----------------------------------------------------------------------------

Init ==
  /\ Accounts!Init
  /\ Board!Init
  /\ caller = [r \in VoteRequests |-> Null]

\* Any request to the auth views.
Account == Accounts!Next /\ UNCHANGED <<board, caller>>

\* IncidentListCreateView: any token will do.
Report(i) ==
  /\ tokens # {}
  /\ Board!CreateIncident(i)
  /\ UNCHANGED <<accounts, caller>>

\* IncidentVoteView: the permissions, and the SELECT of the incident.
Vote(r, u, i) ==
  /\ MayVote(u)
  /\ Board!FindIncident(r, i)
  /\ caller' = [caller EXCEPT ![r] = u]
  /\ UNCHANGED accounts

\* The rest of it: the vote is the caller's.
CastVote(r, value) ==
  /\ Board!UpsertVote(r, caller[r], value)
  /\ UNCHANGED <<accounts, caller>>

SumVotes(r) == Board!SumVotes(r) /\ UNCHANGED <<accounts, caller>>

EndVote(r) ==
  /\ Board!SaveScore(r) \/ Board!Abort(r)
  /\ caller' = [caller EXCEPT ![r] = Null]
  /\ UNCHANGED accounts

\* The expiry task and the clock.
Background ==
  /\ Board!ExpireStaleIncidents \/ Board!Tick
  /\ UNCHANGED <<accounts, caller>>

Next ==
  \/ Account
  \/ \E i \in Reports : Report(i)
  \/ \E r \in VoteRequests, u \in Users, i \in Reports : Vote(r, u, i)
  \/ \E r \in VoteRequests, value \in {1, -1} : CastVote(r, value)
  \/ \E r \in VoteRequests : SumVotes(r)
  \/ \E r \in VoteRequests : EndVote(r)
  \/ Background

Spec == Init /\ [][Next]_vars

-----------------------------------------------------------------------------
\* Types: a vote request has a caller, with a row, exactly while it runs, so
\* that User.objects.get finds it, and so has every vote in the table.
TypeOK ==
  /\ Accounts!TypeOK
  /\ Board!TypeOK
  /\ caller \in [VoteRequests -> Accounts!Ids \cup {Null}]
  /\ \A r \in VoteRequests : caller[r] = Null <=> at[r] = "idle"
  /\ \A k \in DOMAIN incident_votes : k[2] \in Accounts!Ids

VotersOf(i) == {u \in Users : <<i, u>> \in DOMAIN incident_votes}
PhonesOf(us) == {p \in Phones : \E u \in us : <<u, p>> \in proven}

\* "voting requires a verified identity": every vote in the table is of a user
\* who proved a phone, whatever the claims, the row and the vote raced with.
VotesAreEarned == \A i \in Reports : \A u \in VotersOf(i) : PhonesOf({u}) # {}

\* A score counts phones: it stays within the number of phones its voters
\* proved, but for voters whose phone an upgrade or a profile edit has set, who
\* may have left a number to the next user.
ScoreCountsPhones ==
  \A i \in DOMAIN incidents :
    LET edited == VotersOf(i) \cap rephoned
        n == Cardinality(PhonesOf(VotersOf(i) \ rephoned)) + Cardinality(edited)
    IN  incidents[i].credibility_score \in (-n)..n
=============================================================================
