------------------------------ MODULE Sessions ------------------------------
(***************************************************************************)
(* Sessions of the auth component: the refresh_tokens table, the stateless *)
(* access tokens signed beside it, and the handlers that issue, rotate and *)
(* revoke (accounts/views.py, accounts/tokens.py, accounts/models.py).     *)
(*                                                                         *)
(* No view opens a transaction, so every ORM call commits on its own: one  *)
(* action is one statement, and requests interleave between statements.    *)
(* RefreshView is SELECT (RefreshFind), UPDATE (RefreshRevoke), SELECT     *)
(* user + INSERT (RefreshIssue).  The user's SELECT is folded into the     *)
(* INSERT: a user id is never reused, and an INSERT for a user deleted in  *)
(* between fails on its foreign key, which ends the request as Abort does. *)
(* Requests answered with an error before any statement has written change *)
(* nothing and have no action.                                             *)
(***************************************************************************)
EXTENDS Integers, FiniteSets

CONSTANTS
  Users,       \* user ids
  Tokens,      \* refresh tokens; 384 random bits, so no value comes twice
  Requests,    \* refresh requests the server processes run side by side
  NoToken,     \* "no token" for an idle request
  AccessTTL,   \* settings.JWT_ACCESS_TTL in ticks
  RefreshTTL,  \* settings.JWT_REFRESH_TTL_DAYS in ticks
  MaxTime      \* bound on the clock

ASSUME TokensAssumption == NoToken \notin Tokens
ASSUME TTLAssumption ==
  AccessTTL \in Nat /\ RefreshTTL \in Nat \ {0} /\ MaxTime \in Nat

VARIABLES
  now,             \* the database clock, in ticks
  users,           \* ids present in the users table
  refresh_tokens,  \* rows by token; a row leaves with its user (CASCADE)
  access_tokens,   \* every access JWT signed so far
  pc,              \* where each refresh request is
  stored,          \* the row a refresh request read
  logoutAt,        \* history: when a user last logged out everywhere,
                   \*   Never once the user has signed in again
  straggler,       \* history: a refresh was under way at that logout
  forked           \* history: sign-ins one of whose tokens two requests held

vars == <<now, users, refresh_tokens, access_tokens, pc, stored,
          logoutAt, straggler, forked>>
history == <<logoutAt, straggler, forked>>

Never == -1

\* session is a history field: the token of the sign-in the row descends from.
Row == [user: Users, expires_at: Nat, revoked: BOOLEAN, session: Tokens]

Present == {t \in DOMAIN refresh_tokens : refresh_tokens[t].user \in users}

Unexpired(t) == refresh_tokens[t].expires_at > now

\* A token RefreshView accepts is stored, not revoked and not expired.
Acceptable_NoRevokedFilter(t) == t \in Present /\ Unexpired(t)
Acceptable(t) == t \in Present /\ ~refresh_tokens[t].revoked /\ Unexpired(t)

\* IsAuthenticated: the bearer holds an access token of u that has not expired.
Authenticated(u) == \E a \in access_tokens : a.sub = u /\ a.exp > now

RefreshExpiry == now + RefreshTTL
AccessExpiry_RefreshTTL == now + RefreshTTL
AccessExpiry == now + AccessTTL

\* Requests inside RefreshView, after its first SELECT.
InFlight == {r \in Requests : pc[r] # "idle"}
HolderUser(r) == refresh_tokens[stored[r]].user
HolderSession(r) == refresh_tokens[stored[r]].session

-----------------------------------------------------------------------------

Init ==
  /\ now = 0
  /\ users = Users
  /\ refresh_tokens = [t \in {} |-> t]
  /\ access_tokens = {}
  /\ pc = [r \in Requests |-> "idle"]
  /\ stored = [r \in Requests |-> NoToken]
  /\ logoutAt = [u \in Users |-> Never]
  /\ straggler = [u \in Users |-> FALSE]
  /\ forked = {}

\* _issue_token_pair: sign the access token, insert the refresh token's row.
IssueTokenPair(u, t, s) ==
  /\ t \in Tokens \ DOMAIN refresh_tokens
  /\ refresh_tokens' =
       [x \in DOMAIN refresh_tokens \cup {t} |->
          IF x = t THEN [user |-> u, expires_at |-> RefreshExpiry,
                         revoked |-> FALSE, session |-> s]
                   ELSE refresh_tokens[x]]
  /\ access_tokens' = access_tokens \cup {[sub |-> u, exp |-> AccessExpiry]}

\* The tail of register, login, OTP verify, guest login and upgrade.
SignIn(u, t) ==
  /\ u \in users
  /\ IssueTokenPair(u, t, t)
  /\ logoutAt' = [logoutAt EXCEPT ![u] = Never]
  /\ UNCHANGED <<now, users, pc, stored, straggler, forked>>

\* RefreshView: SELECT the presented token's row.
RefreshFind(r, t) ==
  /\ pc[r] = "idle"
  /\ Acceptable(t)
  /\ pc' = [pc EXCEPT ![r] = "revoke"]
  /\ stored' = [stored EXCEPT ![r] = t]
  /\ forked' = IF \E q \in InFlight : stored[q] = t
               THEN forked \cup {refresh_tokens[t].session} ELSE forked
  /\ UNCHANGED <<now, users, refresh_tokens, access_tokens, logoutAt, straggler>>

Done(r) ==
  /\ pc' = [pc EXCEPT ![r] = "idle"]
  /\ stored' = [stored EXCEPT ![r] = NoToken]

Rotate_NotSaved(t) == UNCHANGED refresh_tokens
Rotate(t) == refresh_tokens' = [refresh_tokens EXCEPT ![t].revoked = TRUE]

\* RefreshView: UPDATE ... SET revoked of the row read, whatever it holds by
\* now; save() raises when the row has gone.
RefreshRevoke(r) ==
  /\ pc[r] = "revoke"
  /\ \/ /\ stored[r] \in Present
        /\ Rotate(stored[r])
        /\ pc' = [pc EXCEPT ![r] = "issue"]
        /\ UNCHANGED stored
     \/ /\ stored[r] \notin Present
        /\ Done(r)
        /\ UNCHANGED refresh_tokens
  /\ UNCHANGED <<now, users, access_tokens, history>>

\* RefreshView: SELECT the user and issue the new pair, or 401 without one.
RefreshIssue(r) ==
  /\ pc[r] = "issue"
  /\ \/ /\ HolderUser(r) \in users
        /\ \E t \in Tokens : IssueTokenPair(HolderUser(r), t, HolderSession(r))
     \/ /\ HolderUser(r) \notin users
        /\ UNCHANGED <<refresh_tokens, access_tokens>>
  /\ Done(r)
  /\ UNCHANGED <<now, users, history>>

\* The process dies, the client is dropped or a statement raises: what has
\* been written stays written.
Abort(r) ==
  /\ pc[r] # "idle"
  /\ Done(r)
  /\ UNCHANGED <<now, users, refresh_tokens, access_tokens, history>>

Revoke(S) ==
  refresh_tokens' = [x \in DOMAIN refresh_tokens |->
                       IF x \in S THEN [refresh_tokens[x] EXCEPT !.revoked = TRUE]
                                  ELSE refresh_tokens[x]]

\* LogoutView: one UPDATE, no authentication, no other condition; an unknown
\* token is answered "Logged out" as well.
Logout(t) ==
  /\ Revoke({t} \cap Present)
  /\ UNCHANGED <<now, users, access_tokens, pc, stored, history>>

\* LogoutAllView: one UPDATE over the caller's unrevoked rows.
LogoutAll(u) ==
  /\ Authenticated(u)
  /\ Revoke({t \in Present : refresh_tokens[t].user = u})
  /\ logoutAt' = [logoutAt EXCEPT ![u] = now]
  /\ straggler' = [straggler EXCEPT ![u] = \E r \in InFlight : HolderUser(r) = u]
  /\ UNCHANGED <<now, users, access_tokens, pc, stored, forked>>

\* External: no code deletes users, but RefreshView expects it to happen.
DeleteUser(u) ==
  /\ u \in users
  /\ users' = users \ {u}
  /\ UNCHANGED <<now, refresh_tokens, access_tokens, pc, stored, history>>

Tick ==
  /\ now < MaxTime
  /\ now' = now + 1
  /\ UNCHANGED <<users, refresh_tokens, access_tokens, pc, stored, history>>

Next ==
  \/ \E u \in Users, t \in Tokens : SignIn(u, t)
  \/ \E r \in Requests, t \in Tokens : RefreshFind(r, t)
  \/ \E r \in Requests : RefreshRevoke(r)
  \/ \E r \in Requests : RefreshIssue(r)
  \/ \E r \in Requests : Abort(r)
  \/ \E t \in Tokens : Logout(t)
  \/ \E u \in Users : LogoutAll(u)
  \/ \E u \in Users : DeleteUser(u)
  \/ Tick

Spec == Init /\ [][Next]_vars

-----------------------------------------------------------------------------
\* Types: a request holds a row exactly while it runs, and every signed
\* access token expires within AccessTTL of being signed.
TypeOK ==
  /\ now \in 0..MaxTime
  /\ users \subseteq Users
  /\ DOMAIN refresh_tokens \subseteq Tokens
  /\ refresh_tokens \in [DOMAIN refresh_tokens -> Row]
  /\ access_tokens \subseteq [sub: Users, exp: 0..(now + AccessTTL)]
  /\ pc \in [Requests -> {"idle", "revoke", "issue"}]
  /\ stored \in [Requests -> DOMAIN refresh_tokens \cup {NoToken}]
  /\ \A r \in Requests : pc[r] = "idle" <=> stored[r] = NoToken
  /\ logoutAt \in [Users -> 0..now \cup {Never}]
  /\ straggler \in [Users -> BOOLEAN]
  /\ forked \subseteq Tokens

\* A row that backs a session: written out here so that the properties do not
\* depend on the condition RefreshView tests.
Live(t) ==
  /\ refresh_tokens[t].user \in users
  /\ ~refresh_tokens[t].revoked
  /\ refresh_tokens[t].expires_at > now

LoggedOutCleanly(u) == logoutAt[u] # Never /\ ~straggler[u]

\* LogoutAllView answers "All sessions revoked": until the user signs in
\* again, no refresh token of the user is live.
LogoutAllRevokesAll ==
  \A u \in Users : logoutAt[u] # Never =>
    \A t \in DOMAIN refresh_tokens : refresh_tokens[t].user = u => ~Live(t)

\* What the code does guarantee: a logout-all that met no refresh of the user
\* under way is final until the next sign-in, whatever tokens are replayed
\* later and whatever requests die half-way.
LogoutAllIsFinal ==
  \A u \in Users : LoggedOutCleanly(u) =>
    \A t \in DOMAIN refresh_tokens : refresh_tokens[t].user = u => ~Live(t)

\* Access tokens cannot be revoked; after such a logout-all the last of them
\* is refused AccessTTL later, so the user is then out everywhere.
AccessDiesAfterLogoutAll ==
  \A u \in Users : LoggedOutCleanly(u) /\ now >= logoutAt[u] + AccessTTL => ~Authenticated(u)

\* "rotate": a refresh replaces the presented token.  The code checks a token
\* and revokes it in two statements, so what it guarantees is less: only a
\* sign-in one of whose tokens was presented by two requests at once ever has
\* two live tokens.
OneTokenUnlessForked ==
  \A t1, t2 \in DOMAIN refresh_tokens :
    /\ Live(t1) /\ Live(t2)
    /\ refresh_tokens[t1].session = refresh_tokens[t2].session
    /\ refresh_tokens[t1].session \notin forked
    => t1 = t2

\* The session a sign-in opened, as callers see it: it is open while a live
\* token of it is stored or a refresh under way may still store one.
OpenSessions ==
  {refresh_tokens[t].session : t \in {x \in DOMAIN refresh_tokens : Live(x)}}
    \cup {HolderSession(r) : r \in {q \in InFlight : HolderUser(q) \in users}}
OwnerOfSession ==
  [s \in {t \in DOMAIN refresh_tokens : refresh_tokens[t].session = t} |-> refresh_tokens[s].user]

Registry == INSTANCE SessionRegistry
  WITH SessionIds <- Tokens, owner <- OwnerOfSession, open <- OpenSessions

\* However refreshes, logouts, expiry and failures interleave, no closed session
\* is ever open again and none changes hands: only a sign-in opens one.
ImplementsRegistry == Registry!Spec
=============================================================================
