------------------------------ MODULE Identity ------------------------------
(***************************************************************************)
(* Identities of the auth component: the users table, and the claims about *)
(* a user that access tokens carry (accounts/views.py, accounts/models.py, *)
(* accounts/tokens.py, accounts/permissions.py).                           *)
(*                                                                         *)
(* UpgradeGuestView and MeView.patch SELECT a row (FindUser) and later     *)
(* UPDATE all its columns (SaveUser); the tail of VerifyOtpView SELECTs by *)
(* phone (FindByPhone) and later UPDATEs one column (SaveVerified).  The   *)
(* views that INSERT check for a duplicate first, but only the unique      *)
(* constraints decide, so they are one action each.  The claims of a token *)
(* are those of the row in memory and are recorded with the statement that *)
(* read or wrote it; when tokens expire is in Sessions.                    *)
(*                                                                         *)
(* Left out: password_hash, a column like email to everything here, and    *)
(* email_verified, which no code sets.                                     *)
(***************************************************************************)
EXTENDS Integers, FiniteSets

CONSTANTS
  Users,     \* ids of users rows
  Emails, Phones, Devices,
  Requests,  \* requests the server processes run side by side
  Null       \* NULL, and "no user" for an idle request

ASSUME NullAssumption == Null \notin Users \cup Emails \cup Phones \cup Devices

VARIABLES
  users,       \* rows by id; no code deletes one
  tokens,      \* claims of the access tokens signed so far
  pc,          \* where each request is
  pk,          \* the user it works on ...
  read,        \* ... and the row it read
  proven,      \* history: <<user, phone>> pairs proven with a one-time code
  intended,    \* history: each row as the requests that succeeded asked for it
  rephoned,    \* history: users given a phone by upgrade or profile edit
  overlapped   \* history: users two requests worked on at once

vars == <<users, tokens, pc, pk, read, proven, intended, rephoned, overlapped>>

Row == [email: Emails \cup {Null}, phone: Phones \cup {Null},
        device_id: Devices \cup {Null}, is_guest: BOOLEAN, phone_verified: BOOLEAN]

NoRow == [email |-> Null, phone |-> Null, device_id |-> Null,
          is_guest |-> FALSE, phone_verified |-> FALSE]

Ids == DOMAIN users

\* The unique columns of users: NULLs never clash.
Unique_NoPhone(u, row) ==
  \A v \in Ids \ {u} :
    /\ row.email # Null => users[v].email # row.email
    /\ row.device_id # Null => users[v].device_id # row.device_id
Unique(u, row) ==
  \A v \in Ids \ {u} :
    /\ row.email # Null => users[v].email # row.email
    /\ row.phone # Null => users[v].phone # row.phone
    /\ row.device_id # Null => users[v].device_id # row.device_id

\* sign_access_token: what a token says of its user.
Claims(u, row) == [sub |-> u, isGuest |-> row.is_guest, phoneVerified |-> row.phone_verified]

\* IsVerifiedUser, as far as the columns kept here go.
IsVerifiedUser(claims) == ~claims.isGuest /\ claims.phoneVerified

InFlight == {r \in Requests : pc[r] # "idle"}

-----------------------------------------------------------------------------

Init ==
  /\ users = [u \in {} |-> u]
  /\ tokens = {}
  /\ pc = [r \in Requests |-> "idle"]
  /\ pk = [r \in Requests |-> Null]
  /\ read = [r \in Requests |-> NoRow]
  /\ proven = {}
  /\ intended = [u \in {} |-> u]
  /\ rephoned = {}
  /\ overlapped = {}

\* An INSERT that the constraints let through; the caller gets a token.
Insert(u, row) ==
  /\ u \in Users \ Ids
  /\ Unique(u, row)
  /\ users' = [v \in Ids \cup {u} |-> IF v = u THEN row ELSE users[v]]
  /\ intended' = [v \in Ids \cup {u} |-> IF v = u THEN row ELSE intended[v]]
  /\ tokens' = tokens \cup {Claims(u, row)}
  /\ UNCHANGED <<pc, pk, read, rephoned, overlapped>>

\* RegisterView.
Register_AsGuest(u, e) ==
  /\ Insert(u, [NoRow EXCEPT !.email = e, !.is_guest = TRUE])
  /\ UNCHANGED proven
Register(u, e) ==
  /\ Insert(u, [NoRow EXCEPT !.email = e])
  /\ UNCHANGED proven

\* GuestLoginView for a device without a row.
GuestLogin(u, d) ==
  /\ Insert(u, [NoRow EXCEPT !.device_id = d, !.is_guest = TRUE])
  /\ UNCHANGED proven

\* VerifyOtpView for a phone without a row, the code being right.
VerifyNewPhone(u, p) ==
  /\ Insert(u, [NoRow EXCEPT !.phone = p, !.phone_verified = TRUE])
  /\ proven' = proven \cup {<<u, p>>}

\* LoginView, RefreshView, GuestLoginView for a known device: SELECT and sign.
SignIn(u) ==
  /\ u \in Ids
  /\ tokens' = tokens \cup {Claims(u, users[u])}
  /\ UNCHANGED <<users, pc, pk, read, proven, intended, rephoned, overlapped>>

\* A SELECT of user u whose row the request will write.
Find(r, u, next) ==
  /\ pc[r] = "idle"
  /\ pc' = [pc EXCEPT ![r] = next]
  /\ pk' = [pk EXCEPT ![r] = u]
  /\ read' = [read EXCEPT ![r] = users[u]]
  /\ overlapped' = IF \E q \in InFlight : pk[q] = u THEN overlapped \cup {u} ELSE overlapped

Done(r) ==
  /\ pc' = [pc EXCEPT ![r] = "idle"]
  /\ pk' = [pk EXCEPT ![r] = Null]
  /\ read' = [read EXCEPT ![r] = NoRow]

\* VerifyOtpView: SELECT the user by phone; one already verified signs in.
FindByPhone(r, p) ==
  \E u \in Ids :
    /\ users[u].phone = p
    /\ proven' = proven \cup {<<u, p>>}
    /\ IF users[u].phone_verified
       THEN /\ pc[r] = "idle"
            /\ tokens' = tokens \cup {Claims(u, users[u])}
            /\ UNCHANGED <<pc, pk, read, overlapped>>
       ELSE /\ Find(r, u, "verify")
            /\ UNCHANGED tokens
    /\ UNCHANGED <<users, intended, rephoned>>

\* save(update_fields=["phone_verified"]), then a token with the row in memory.
SaveVerified(r) ==
  /\ pc[r] = "verify"
  /\ users' = [users EXCEPT ![pk[r]].phone_verified = TRUE]
  /\ intended' = [intended EXCEPT ![pk[r]].phone_verified = TRUE]
  /\ tokens' = tokens \cup {Claims(pk[r], [read[r] EXCEPT !.phone_verified = TRUE])}
  /\ Done(r)
  /\ UNCHANGED <<proven, rephoned, overlapped>>

\* MeView.patch asks for any valid token of the user, UpgradeGuestView for one
\* that says guest; then both SELECT the row.
FindUser(r, u) ==
  /\ \E t \in tokens :
       /\ t.sub = u
       /\ \/ Find(r, u, "patch")
          \/ t.isGuest /\ Find(r, u, "upgrade")
  /\ UNCHANGED <<users, tokens, proven, intended, rephoned>>

\* The edits a request asks for; Null asks for none.
Given(asked, old) == IF asked = Null THEN old ELSE asked
Edit_VerifiesUpgraded(r, row, e, p) ==
  [row EXCEPT !.email = Given(e, @),
              !.phone = Given(p, @),
              !.phone_verified = @ \/ pc[r] = "upgrade",
              !.is_guest = @ /\ pc[r] # "upgrade"]
Edit(r, row, e, p) ==
  [row EXCEPT !.email = Given(e, @),
              !.phone = Given(p, @),
              !.is_guest = @ /\ pc[r] # "upgrade"]

Saved_StillGuest(r, e, p) == [Edit(r, read[r], e, p) EXCEPT !.is_guest = read[r].is_guest]
Saved(r, e, p) == Edit(r, read[r], e, p)

\* user.save(): every column is written, as read or as edited.
SaveUser(r, e, p) ==
  LET u == pk[r]
      new == Saved(r, e, p)
  IN  /\ pc[r] \in {"patch", "upgrade"}
      /\ pc[r] = "upgrade" => e # Null \/ p # Null
      /\ Unique(u, new)
      /\ users' = [users EXCEPT ![u] = new]
      /\ intended' = [intended EXCEPT ![u] = Edit(r, @, e, p)]
      /\ rephoned' = IF p = Null THEN rephoned ELSE rephoned \cup {u}
      /\ IF pc[r] = "upgrade"
         THEN tokens' = tokens \cup {Claims(u, new)}
         ELSE UNCHANGED tokens
      /\ Done(r)
      /\ UNCHANGED <<proven, overlapped>>

\* A duplicate is found, a constraint refuses the UPDATE or the process dies.
Abort(r) ==
  /\ pc[r] # "idle"
  /\ Done(r)
  /\ UNCHANGED <<users, tokens, proven, intended, rephoned, overlapped>>

Next ==
  \/ \E u \in Users, e \in Emails : Register(u, e)
  \/ \E u \in Users, d \in Devices : GuestLogin(u, d)
  \/ \E u \in Users, p \in Phones : VerifyNewPhone(u, p)
  \/ \E u \in Users : SignIn(u)
  \/ \E r \in Requests, p \in Phones : FindByPhone(r, p)
  \/ \E r \in Requests : SaveVerified(r)
  \/ \E r \in Requests, u \in Users : FindUser(r, u)
  \/ \E r \in Requests, e \in Emails \cup {Null}, p \in Phones \cup {Null} : SaveUser(r, e, p)
  \/ \E r \in Requests : Abort(r)

Spec == Init /\ [][Next]_vars

-----------------------------------------------------------------------------
\* Types: a request works on an existing user exactly while it runs, tokens are
\* about existing users, and whoever counts as a guest came with a device.
TypeOK ==
  /\ Ids \subseteq Users
  /\ users \in [Ids -> Row]
  /\ \A u \in Ids : users[u].is_guest => users[u].device_id # Null
  /\ tokens \subseteq [sub: Ids, isGuest: BOOLEAN, phoneVerified: BOOLEAN]
  /\ pc \in [Requests -> {"idle", "verify", "patch", "upgrade"}]
  /\ pk \in [Requests -> Ids \cup {Null}]
  /\ \A r \in Requests : pc[r] = "idle" <=> pk[r] = Null
  /\ read \in [Requests -> Row]
  /\ proven \subseteq Ids \X Phones
  /\ intended \in [Ids -> Row]
  /\ rephoned \subseteq Ids
  /\ overlapped \subseteq Ids

\* No edit is lost or undone: a row is what the requests that succeeded made of
\* it, unless two requests worked on the user at once.
EditsKeptUnlessOverlapped == \A u \in Ids \ overlapped : users[u] = intended[u]

\* "identity actually needs to be real (not just present)": the phone a user is
\* verified for is one the user proved to hold.
VerifiedPhoneIsProven ==
  \A u \in Ids : users[u].phone_verified => <<u, users[u].phone>> \in proven

\* What the code does guarantee: it is, for users whose phone no upgrade and no
\* profile edit has set.
VerifiedPhoneIsProvenUnlessEdited ==
  \A u \in Ids \ rephoned : users[u].phone_verified => <<u, users[u].phone>> \in proven

\* Every token that opens the actions reserved to verified users belongs to a
\* user who once proved a phone, however old its claims are and whichever
\* row, stale or not, it was signed from.
VerifiedClaimIsEarned ==
  \A t \in tokens : IsVerifiedUser(t) => \E p \in Phones : <<t.sub, p>> \in proven
=============================================================================
