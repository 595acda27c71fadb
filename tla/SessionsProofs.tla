--------------------------- MODULE SessionsProofs ---------------------------
(***************************************************************************)
(* Proofs about Sessions, for every set of users, tokens and requests and  *)
(* every pair of lifetimes.                                                *)
(***************************************************************************)
EXTENDS Sessions, TLAPS

\* Holders of a row of sign-in s.
Holds(r, s) == r \in InFlight /\ HolderSession(r) = s

\* The history field names a row of the table.
RootedInv ==
  \A t \in DOMAIN refresh_tokens :
    refresh_tokens[t].session \in DOMAIN refresh_tokens

\* After a clean logout-all nothing unrevoked is left of the user, in the
\* table or in the hands of a request, and no access token outlives it.
CleanLogout(u) ==
  /\ \A t \in DOMAIN refresh_tokens :
       refresh_tokens[t].user = u => refresh_tokens[t].revoked \/ u \notin users
  /\ \A r \in InFlight : HolderUser(r) # u
  /\ \A a \in access_tokens : a.sub = u => a.exp <= logoutAt[u] + AccessTTL
CleanLogoutInv == \A u \in Users : LoggedOutCleanly(u) => CleanLogout(u)

\* A sign-in that never forked has one unrevoked row and one holder at most;
\* a holder about to issue has revoked that row, one about to revoke holds it.
UnforkedSession(s) ==
  /\ \A t1, t2 \in DOMAIN refresh_tokens :
       /\ refresh_tokens[t1].session = s /\ ~refresh_tokens[t1].revoked
       /\ refresh_tokens[t2].session = s /\ ~refresh_tokens[t2].revoked
       => t1 = t2
  /\ \A q1, q2 \in Requests : Holds(q1, s) /\ Holds(q2, s) => q1 = q2
  /\ \A q \in Requests, t \in DOMAIN refresh_tokens :
       Holds(q, s) /\ refresh_tokens[t].session = s /\ ~refresh_tokens[t].revoked
       => pc[q] = "revoke" /\ t = stored[q]
UnforkedInv == \A s \in Tokens \ forked : UnforkedSession(s)

IInv == TypeOK /\ RootedInv /\ CleanLogoutInv /\ UnforkedInv

-----------------------------------------------------------------------------
\* What the two writers of the table do to it, row by row.

LEMMA IssueEffect ==
  ASSUME NEW u \in Users, NEW t \in Tokens, NEW s \in Tokens, TypeOK,
         IssueTokenPair(u, t, s)
  PROVE  /\ t \notin DOMAIN refresh_tokens
         /\ DOMAIN refresh_tokens' = DOMAIN refresh_tokens \cup {t}
         /\ DOMAIN refresh_tokens' \subseteq Tokens
         /\ refresh_tokens' \in [DOMAIN refresh_tokens' -> Row]
         /\ refresh_tokens'[t].user = u
         /\ refresh_tokens'[t].session = s
         /\ ~refresh_tokens'[t].revoked
         /\ \A x \in DOMAIN refresh_tokens : refresh_tokens'[x] = refresh_tokens[x]
         /\ access_tokens' = access_tokens \cup {[sub |-> u, exp |-> now + AccessTTL]}
         /\ access_tokens' \subseteq [sub: Users, exp: 0..(now + AccessTTL)]
  BY TTLAssumption DEF TypeOK, IssueTokenPair, Row, RefreshExpiry, AccessExpiry

\* So what they put there is of the right types.
LEMMA IssueType ==
  ASSUME NEW u \in Users, NEW t \in Tokens, NEW s \in Tokens, TypeOK,
         IssueTokenPair(u, t, s)
  PROVE  /\ DOMAIN refresh_tokens' \subseteq Tokens
         /\ refresh_tokens' \in [DOMAIN refresh_tokens' -> Row]
         /\ DOMAIN refresh_tokens \subseteq DOMAIN refresh_tokens'
         /\ access_tokens' \subseteq [sub: Users, exp: 0..(now + AccessTTL)]
<1>1. DOMAIN refresh_tokens' = DOMAIN refresh_tokens \cup {t}
  BY IssueEffect
<1>2. /\ DOMAIN refresh_tokens' \subseteq Tokens
      /\ refresh_tokens' \in [DOMAIN refresh_tokens' -> Row]
      /\ access_tokens' \subseteq [sub: Users, exp: 0..(now + AccessTTL)]
  BY IssueEffect
<1>3. QED
  BY <1>1, <1>2

LEMMA RevokeEffect ==
  ASSUME NEW S, TypeOK, Revoke(S)
  PROVE  /\ DOMAIN refresh_tokens' = DOMAIN refresh_tokens
         /\ refresh_tokens' \in [DOMAIN refresh_tokens' -> Row]
         /\ \A x \in DOMAIN refresh_tokens :
              /\ refresh_tokens'[x].user = refresh_tokens[x].user
              /\ refresh_tokens'[x].session = refresh_tokens[x].session
              /\ refresh_tokens'[x].revoked <=> refresh_tokens[x].revoked \/ x \in S
<1>1. ASSUME NEW x \in DOMAIN refresh_tokens
      PROVE  /\ refresh_tokens'[x] = IF x \in S
                   THEN [refresh_tokens[x] EXCEPT !.revoked = TRUE]
                   ELSE refresh_tokens[x]
             /\ refresh_tokens[x] \in Row
  BY DEF TypeOK, Revoke
<1>2. DOMAIN refresh_tokens' = DOMAIN refresh_tokens
  BY DEF Revoke
<1>3. ASSUME NEW x \in DOMAIN refresh_tokens
      PROVE  /\ refresh_tokens'[x] \in Row
             /\ refresh_tokens'[x].user = refresh_tokens[x].user
             /\ refresh_tokens'[x].session = refresh_tokens[x].session
             /\ refresh_tokens'[x].revoked <=> refresh_tokens[x].revoked \/ x \in S
  BY <1>1 DEF Row
<1>4. refresh_tokens' \in [DOMAIN refresh_tokens' -> Row]
  BY <1>2, <1>3 DEF Revoke
<1>5. QED
  BY <1>2, <1>3, <1>4

LEMMA RotateEffect ==
  ASSUME NEW t \in DOMAIN refresh_tokens, TypeOK, Rotate(t)
  PROVE  /\ DOMAIN refresh_tokens' = DOMAIN refresh_tokens
         /\ refresh_tokens' \in [DOMAIN refresh_tokens' -> Row]
         /\ \A x \in DOMAIN refresh_tokens :
              /\ refresh_tokens'[x].user = refresh_tokens[x].user
              /\ refresh_tokens'[x].session = refresh_tokens[x].session
              /\ refresh_tokens'[x].revoked <=> refresh_tokens[x].revoked \/ x = t
  BY DEF TypeOK, Rotate, Row

\* A request in flight holds a row of the table.
LEMMA HolderRow ==
  ASSUME TypeOK, NEW r \in InFlight
  PROVE  /\ r \in Requests
         /\ stored[r] \in DOMAIN refresh_tokens
         /\ HolderUser(r) \in Users
         /\ HolderSession(r) \in Tokens
  BY TokensAssumption DEF TypeOK, InFlight, HolderUser, HolderSession, Row

-----------------------------------------------------------------------------

LEMMA InitType == Init => TypeOK
  BY TTLAssumption, TokensAssumption DEF Init, TypeOK, Row, Never

LEMMA StepType == TypeOK /\ [Next]_vars => TypeOK'
<1> SUFFICES ASSUME TypeOK, [Next]_vars PROVE TypeOK'
  OBVIOUS
<1> USE TTLAssumption, TokensAssumption
<1>1. ASSUME NEW u \in Users, NEW t \in Tokens, SignIn(u, t) PROVE TypeOK'
  <2>1. IssueTokenPair(u, t, t)
    BY <1>1 DEF SignIn
  <2>2. /\ DOMAIN refresh_tokens' \subseteq Tokens
        /\ refresh_tokens' \in [DOMAIN refresh_tokens' -> Row]
        /\ DOMAIN refresh_tokens \subseteq DOMAIN refresh_tokens'
        /\ access_tokens' \subseteq [sub: Users, exp: 0..(now + AccessTTL)]
    BY ONLY TypeOK, <2>1, IssueType
  <2>3. stored' \in [Requests -> DOMAIN refresh_tokens' \cup {NoToken}]
    BY <1>1, <2>2 DEF SignIn, TypeOK
  <2>4. logoutAt' \in [Users -> 0..now' \cup {Never}]
    BY <1>1 DEF SignIn, TypeOK, Never
  <2>5. QED
    BY <1>1, <2>2, <2>3, <2>4 DEF SignIn, TypeOK
<1>2. ASSUME NEW r \in Requests, NEW t \in Tokens, RefreshFind(r, t) PROVE TypeOK'
  BY <1>2 DEF RefreshFind, TypeOK, Acceptable, Present, Row
<1>3. ASSUME NEW r \in Requests, RefreshRevoke(r) PROVE TypeOK'
  <2>1. CASE Rotate(stored[r]) /\ stored[r] \in Present
    BY <1>3, <2>1, RotateEffect DEF RefreshRevoke, TypeOK, Present, Done, history
  <2>2. CASE ~(Rotate(stored[r]) /\ stored[r] \in Present)
    BY <1>3, <2>2 DEF RefreshRevoke, TypeOK, Done, history
  <2>3. QED BY <2>1, <2>2
<1>4. ASSUME NEW r \in Requests, RefreshIssue(r) PROVE TypeOK'
  <2>1. r \in InFlight
    BY <1>4 DEF RefreshIssue, InFlight
  <2>2. CASE \E t \in Tokens : IssueTokenPair(HolderUser(r), t, HolderSession(r))
    <3>1. PICK t \in Tokens : IssueTokenPair(HolderUser(r), t, HolderSession(r))
      BY <2>2
    <3>2. /\ DOMAIN refresh_tokens' \subseteq Tokens
          /\ refresh_tokens' \in [DOMAIN refresh_tokens' -> Row]
          /\ DOMAIN refresh_tokens \subseteq DOMAIN refresh_tokens'
          /\ access_tokens' \subseteq [sub: Users, exp: 0..(now + AccessTTL)]
      BY <2>1, <3>1, IssueType, HolderRow
    <3>3. stored' \in [Requests -> DOMAIN refresh_tokens' \cup {NoToken}]
      BY <1>4, <3>2 DEF RefreshIssue, Done, TypeOK
    <3>4. QED
      BY <1>4, <3>2, <3>3 DEF RefreshIssue, TypeOK, Done, history
  <2>3. CASE UNCHANGED <<refresh_tokens, access_tokens>>
    BY <1>4, <2>3 DEF RefreshIssue, TypeOK, Done, history
  <2>4. QED
    BY <1>4, <2>2, <2>3 DEF RefreshIssue
<1>5. ASSUME NEW r \in Requests, Abort(r) PROVE TypeOK'
  BY <1>5 DEF Abort, Done, TypeOK, history
<1>6. ASSUME NEW t \in Tokens, Logout(t) PROVE TypeOK'
  BY <1>6, RevokeEffect DEF Logout, TypeOK, history
<1>7. ASSUME NEW u \in Users, LogoutAll(u) PROVE TypeOK'
  BY <1>7, RevokeEffect DEF LogoutAll, TypeOK, Never
<1>8. ASSUME NEW u \in Users, DeleteUser(u) PROVE TypeOK'
  BY <1>8 DEF DeleteUser, TypeOK, history
<1>9. CASE Tick
  BY <1>9 DEF Tick, TypeOK, Never, history
<1>10. CASE UNCHANGED vars
  BY <1>10 DEF vars, TypeOK
<1>11. QED
  BY <1>1, <1>2, <1>3, <1>4, <1>5, <1>6, <1>7, <1>8, <1>9, <1>10 DEF Next

\* Every variable keeps its type, whatever the requests do and wherever they die.
THEOREM TypeCorrect == Spec => []TypeOK
  BY InitType, StepType, PTL DEF Spec

-----------------------------------------------------------------------------
\* The history field of a row names a row.

LEMMA RootedIssue ==
  ASSUME TypeOK, RootedInv, NEW u \in Users, NEW t \in Tokens,
         NEW s \in Tokens, s \in DOMAIN refresh_tokens \cup {t},
         IssueTokenPair(u, t, s)
  PROVE  RootedInv'
<1>1. /\ DOMAIN refresh_tokens' = DOMAIN refresh_tokens \cup {t}
      /\ refresh_tokens'[t].session = s
      /\ \A x \in DOMAIN refresh_tokens : refresh_tokens'[x] = refresh_tokens[x]
  BY IssueEffect, ZenonT(30)
<1>2. QED
  BY <1>1 DEF RootedInv

LEMMA StepRooted == TypeOK /\ RootedInv /\ [Next]_vars => RootedInv'
<1> SUFFICES ASSUME TypeOK, RootedInv, [Next]_vars PROVE RootedInv'
  OBVIOUS
<1>1. ASSUME NEW u \in Users, NEW t \in Tokens, SignIn(u, t) PROVE RootedInv'
  <2>1. IssueTokenPair(u, t, t)
    BY <1>1 DEF SignIn
  <2>2. QED
    BY <2>1, RootedIssue
<1>2. ASSUME NEW r \in Requests, RefreshRevoke(r) PROVE RootedInv'
  <2>1. CASE Rotate(stored[r]) /\ stored[r] \in Present
    BY <2>1, RotateEffect DEF RootedInv, Present
  <2>2. CASE UNCHANGED refresh_tokens
    BY <2>2 DEF RootedInv
  <2>3. QED
    BY <1>2, <2>1, <2>2 DEF RefreshRevoke
<1>3. ASSUME NEW r \in Requests, RefreshIssue(r) PROVE RootedInv'
  <2>1. r \in InFlight
    BY <1>3 DEF RefreshIssue, InFlight
  <2>2. ASSUME NEW t \in Tokens, IssueTokenPair(HolderUser(r), t, HolderSession(r))
        PROVE  RootedInv'
    <3>1. HolderSession(r) \in DOMAIN refresh_tokens
      BY <2>1, HolderRow DEF RootedInv, HolderSession
    <3>2. QED
      BY <2>1, <2>2, <3>1, HolderRow, RootedIssue
  <2>3. CASE UNCHANGED refresh_tokens
    BY <2>3 DEF RootedInv
  <2>4. QED
    BY <1>3, <2>2, <2>3 DEF RefreshIssue
<1>4. ASSUME NEW S, Revoke(S) PROVE RootedInv'
  BY <1>4, RevokeEffect DEF RootedInv
<1>5. CASE UNCHANGED refresh_tokens
  BY <1>5 DEF RootedInv
<1>6. QED
  BY <1>1, <1>2, <1>3, <1>4, <1>5
     DEF Next, RefreshFind, Abort, Logout, LogoutAll, DeleteUser, Tick, vars

-----------------------------------------------------------------------------
\* A clean logout-all stays final.

\* Every row of u that exists, and every request holding one, was there before.
LEMMA CleanKept ==
  ASSUME TypeOK, NEW u \in Users, CleanLogout(u),
         users' \subseteq users,
         DOMAIN refresh_tokens' = DOMAIN refresh_tokens,
         \A x \in DOMAIN refresh_tokens :
           /\ refresh_tokens'[x].user = refresh_tokens[x].user
           /\ refresh_tokens[x].revoked => refresh_tokens'[x].revoked,
         \A r \in Requests : r \in InFlight' =>
           r \in InFlight /\ stored'[r] = stored[r],
         access_tokens' = access_tokens,
         logoutAt'[u] = logoutAt[u]
  PROVE  CleanLogout(u)'
<1>1. \A r \in InFlight' : HolderUser(r)' = HolderUser(r) /\ r \in InFlight
  <2>1. TAKE r \in InFlight'
  <2>2. r \in Requests /\ r \in InFlight /\ stored'[r] = stored[r]
    BY DEF InFlight
  <2>3. stored[r] \in DOMAIN refresh_tokens
    BY <2>2, HolderRow
  <2>4. QED
    BY <2>2, <2>3 DEF HolderUser
<1>2. QED
  BY <1>1 DEF CleanLogout

\* Issuing to another user leaves u logged out.
LEMMA CleanIssue ==
  ASSUME TypeOK, NEW u \in Users, CleanLogout(u),
         NEW v \in Users, v # u, NEW t \in Tokens, NEW s \in Tokens,
         IssueTokenPair(v, t, s),
         users' = users,
         \A r \in Requests : r \in InFlight' =>
           r \in InFlight /\ stored'[r] = stored[r],
         logoutAt'[u] = logoutAt[u]
  PROVE  CleanLogout(u)'
<1>1. /\ DOMAIN refresh_tokens' = DOMAIN refresh_tokens \cup {t}
      /\ refresh_tokens'[t].user = v
      /\ \A x \in DOMAIN refresh_tokens : refresh_tokens'[x] = refresh_tokens[x]
      /\ access_tokens' = access_tokens \cup {[sub |-> v, exp |-> now + AccessTTL]}
  BY IssueEffect
<1>2. \A x \in DOMAIN refresh_tokens' : refresh_tokens'[x].user = u =>
         refresh_tokens'[x].revoked \/ u \notin users'
  BY <1>1 DEF CleanLogout
<1>3. \A r \in InFlight' : HolderUser(r)' # u
  <2>1. TAKE r \in InFlight'
  <2>2. r \in InFlight /\ stored'[r] = stored[r]
    BY DEF InFlight
  <2>3. stored[r] \in DOMAIN refresh_tokens
    BY <2>2, HolderRow
  <2>4. QED
    BY <1>1, <2>2, <2>3 DEF HolderUser, CleanLogout
<1>4. \A a \in access_tokens' : a.sub = u => a.exp <= logoutAt'[u] + AccessTTL
  BY <1>1 DEF CleanLogout
<1>5. QED
  BY <1>2, <1>3, <1>4 DEF CleanLogout

LEMMA StepClean == TypeOK /\ CleanLogoutInv /\ [Next]_vars => CleanLogoutInv'
<1> SUFFICES ASSUME TypeOK, CleanLogoutInv, [Next]_vars,
                    NEW u \in Users, LoggedOutCleanly(u)'
             PROVE  CleanLogout(u)'
  BY DEF CleanLogoutInv
<1>0. ASSUME logoutAt' = logoutAt, straggler' = straggler
      PROVE  CleanLogout(u)
  BY <1>0 DEF CleanLogoutInv, LoggedOutCleanly
<1>1. ASSUME NEW v \in Users, NEW t \in Tokens, SignIn(v, t) PROVE CleanLogout(u)'
  <2>1. u # v /\ logoutAt'[u] = logoutAt[u] /\ straggler' = straggler
    BY <1>1 DEF SignIn, LoggedOutCleanly, TypeOK
  <2>2. CleanLogout(u)
    BY <2>1 DEF CleanLogoutInv, LoggedOutCleanly
  <2>3. IssueTokenPair(v, t, t) /\ users' = users /\ pc' = pc /\ stored' = stored
    BY <1>1 DEF SignIn
  <2>4. QED
    BY <2>1, <2>2, <2>3, CleanIssue DEF InFlight
<1>2. ASSUME NEW r \in Requests, NEW t \in Tokens, RefreshFind(r, t)
      PROVE  CleanLogout(u)'
  <2>1. CleanLogout(u)
    BY <1>2, <1>0 DEF RefreshFind
  <2>2. refresh_tokens[t].user # u
    BY <1>2, <2>1 DEF RefreshFind, Acceptable, Present, CleanLogout
  <2>3. \A q \in InFlight' : HolderUser(q)' # u
    BY <1>2, <2>1, <2>2 DEF RefreshFind, HolderUser, InFlight, CleanLogout, TypeOK
  <2>4. QED
    BY <1>2, <2>1, <2>3 DEF RefreshFind, CleanLogout
<1>3. ASSUME NEW r \in Requests, RefreshRevoke(r) PROVE CleanLogout(u)'
  <2>1. CleanLogout(u)
    BY <1>3, <1>0 DEF RefreshRevoke, history
  <2>2. \A q \in Requests : q \in InFlight' => q \in InFlight /\ stored'[q] = stored[q]
    BY <1>3, TokensAssumption DEF RefreshRevoke, Done, InFlight, TypeOK
  <2>3. CASE Rotate(stored[r]) /\ stored[r] \in Present
    BY <1>3, <2>1, <2>2, <2>3, RotateEffect, CleanKept
       DEF RefreshRevoke, Present, history
  <2>4. CASE UNCHANGED refresh_tokens
    BY <1>3, <2>1, <2>2, <2>4, CleanKept DEF RefreshRevoke, history
  <2>5. QED
    BY <1>3, <2>3, <2>4 DEF RefreshRevoke
<1>4. ASSUME NEW r \in Requests, RefreshIssue(r) PROVE CleanLogout(u)'
  <2>1. CleanLogout(u)
    BY <1>4, <1>0 DEF RefreshIssue, history
  <2>2. \A q \in Requests : q \in InFlight' => q \in InFlight /\ stored'[q] = stored[q]
    BY <1>4 DEF RefreshIssue, Done, InFlight, TypeOK
  <2>3. r \in InFlight
    BY <1>4 DEF RefreshIssue, InFlight
  <2>4. ASSUME NEW t \in Tokens, IssueTokenPair(HolderUser(r), t, HolderSession(r))
        PROVE  CleanLogout(u)'
    <3>1. HolderUser(r) # u
      BY <2>1, <2>3 DEF CleanLogout
    <3>2. QED
      BY <1>4, <2>1, <2>2, <2>3, <2>4, <3>1, HolderRow, CleanIssue
         DEF RefreshIssue, history
  <2>5. CASE UNCHANGED <<refresh_tokens, access_tokens>>
    BY <1>4, <2>1, <2>2, <2>5, CleanKept DEF RefreshIssue, history
  <2>6. QED
    BY <1>4, <2>4, <2>5 DEF RefreshIssue
<1>5. ASSUME NEW r \in Requests, Abort(r) PROVE CleanLogout(u)'
  <2>1. \A q \in Requests : q \in InFlight' => q \in InFlight /\ stored'[q] = stored[q]
    BY <1>5 DEF Abort, Done, InFlight, TypeOK
  <2>2. QED
    BY <1>5, <1>0, <2>1, CleanKept DEF Abort, history
<1>6. ASSUME NEW t \in Tokens, Logout(t) PROVE CleanLogout(u)'
  BY <1>6, <1>0, RevokeEffect, CleanKept DEF Logout, InFlight, history
<1>7. ASSUME NEW v \in Users, LogoutAll(v) PROVE CleanLogout(u)'
  <2> DEFINE S == {t \in Present : refresh_tokens[t].user = v}
  <2>1. Revoke(S) /\ users' = users /\ access_tokens' = access_tokens
        /\ pc' = pc /\ stored' = stored
    BY <1>7 DEF LogoutAll
  <2>2. CASE u = v
    <3>1. logoutAt'[u] = now /\ \A r \in InFlight : HolderUser(r) # u
      BY <1>7, <2>2 DEF LogoutAll, LoggedOutCleanly, TypeOK
    <3>2. \A r \in InFlight' : HolderUser(r)' # u
      BY <2>1, <3>1, RevokeEffect, HolderRow DEF InFlight, HolderUser
    <3>3. \A x \in DOMAIN refresh_tokens' : refresh_tokens'[x].user = u =>
            refresh_tokens'[x].revoked \/ u \notin users'
      BY <2>1, <2>2, RevokeEffect DEF Present
    <3>4. \A a \in access_tokens' : a.sub = u => a.exp <= logoutAt'[u] + AccessTTL
      BY <2>1, <3>1, TTLAssumption DEF TypeOK
    <3>5. QED
      BY <3>2, <3>3, <3>4 DEF CleanLogout
  <2>3. CASE u # v
    <3>1. CleanLogout(u) /\ logoutAt'[u] = logoutAt[u]
      BY <1>7, <2>3 DEF LogoutAll, CleanLogoutInv, LoggedOutCleanly, TypeOK
    <3>2. QED
      BY <2>1, <3>1, RevokeEffect, CleanKept DEF InFlight
  <2>4. QED
    BY <2>2, <2>3
<1>8. ASSUME NEW v \in Users, DeleteUser(v) PROVE CleanLogout(u)'
  BY <1>8, <1>0, CleanKept DEF DeleteUser, InFlight, history
<1>9. CASE Tick
  BY <1>9, <1>0, CleanKept DEF Tick, InFlight, history
<1>10. CASE UNCHANGED vars
  BY <1>10, <1>0, CleanKept DEF vars, InFlight
<1>11. QED
  BY <1>1, <1>2, <1>3, <1>4, <1>5, <1>6, <1>7, <1>8, <1>9, <1>10 DEF Next

-----------------------------------------------------------------------------
\* One unrevoked row per sign-in that never forked.

\* Losing holders and revoking rows keep it.
LEMMA UnforkedKept ==
  ASSUME TypeOK, NEW s \in Tokens, UnforkedSession(s),
         DOMAIN refresh_tokens' = DOMAIN refresh_tokens,
         \A x \in DOMAIN refresh_tokens :
           /\ refresh_tokens'[x].session = refresh_tokens[x].session
           /\ refresh_tokens[x].revoked => refresh_tokens'[x].revoked,
         \A q \in Requests : q \in InFlight' =>
           q \in InFlight /\ pc'[q] = pc[q] /\ stored'[q] = stored[q]
  PROVE  UnforkedSession(s)'
<1>1. \A q \in Requests : Holds(q, s)' =>
        Holds(q, s) /\ pc'[q] = pc[q] /\ stored'[q] = stored[q]
  <2>1. SUFFICES ASSUME NEW q \in Requests, Holds(q, s)'
                 PROVE  Holds(q, s) /\ pc'[q] = pc[q] /\ stored'[q] = stored[q]
    OBVIOUS
  <2>2. q \in InFlight /\ pc'[q] = pc[q] /\ stored'[q] = stored[q]
    BY <2>1 DEF Holds
  <2>3. stored[q] \in DOMAIN refresh_tokens
    BY <2>2, HolderRow
  <2>4. QED
    BY <2>1, <2>2, <2>3 DEF Holds, HolderSession
<1>2. QED
  BY <1>1 DEF UnforkedSession

\* Inserting a row of another sign-in keeps it.
LEMMA UnforkedIssueOther ==
  ASSUME TypeOK, NEW s \in Tokens, UnforkedSession(s),
         NEW u \in Users, NEW t \in Tokens, NEW o \in Tokens, o # s,
         IssueTokenPair(u, t, o),
         \A q \in Requests : q \in InFlight' =>
           q \in InFlight /\ pc'[q] = pc[q] /\ stored'[q] = stored[q]
  PROVE  UnforkedSession(s)'
<1>1. /\ DOMAIN refresh_tokens' = DOMAIN refresh_tokens \cup {t}
      /\ refresh_tokens'[t].session = o
      /\ \A x \in DOMAIN refresh_tokens : refresh_tokens'[x] = refresh_tokens[x]
  BY IssueEffect, ZenonT(30)
<1>2. \A q \in Requests : Holds(q, s)' =>
        Holds(q, s) /\ pc'[q] = pc[q] /\ stored'[q] = stored[q]
  <2>1. SUFFICES ASSUME NEW q \in Requests, Holds(q, s)'
                 PROVE  Holds(q, s) /\ pc'[q] = pc[q] /\ stored'[q] = stored[q]
    OBVIOUS
  <2>2. q \in InFlight /\ pc'[q] = pc[q] /\ stored'[q] = stored[q]
    BY <2>1 DEF Holds
  <2>3. stored[q] \in DOMAIN refresh_tokens
    BY <2>2, HolderRow
  <2>4. QED
    BY <1>1, <2>1, <2>2, <2>3 DEF Holds, HolderSession
<1>3. QED
  BY <1>1, <1>2 DEF UnforkedSession

\* Inserting the only unrevoked row of a sign-in nobody holds keeps it.
LEMMA UnforkedIssueOnly ==
  ASSUME TypeOK, NEW s \in Tokens,
         NEW u \in Users, NEW t \in Tokens,
         IssueTokenPair(u, t, s),
         \A x \in DOMAIN refresh_tokens :
           refresh_tokens[x].session = s => refresh_tokens[x].revoked,
         \A q \in Requests : ~Holds(q, s)'
  PROVE  UnforkedSession(s)'
<1>1. /\ DOMAIN refresh_tokens' = DOMAIN refresh_tokens \cup {t}
      /\ \A x \in DOMAIN refresh_tokens : refresh_tokens'[x] = refresh_tokens[x]
  BY IssueEffect
<1>2. QED
  BY <1>1 DEF UnforkedSession

LEMMA StepUnforked ==
  TypeOK /\ RootedInv /\ UnforkedInv /\ [Next]_vars => UnforkedInv'
<1> SUFFICES ASSUME TypeOK, RootedInv, UnforkedInv, [Next]_vars,
                    NEW s \in Tokens, s \notin forked'
             PROVE  UnforkedSession(s)'
  BY DEF UnforkedInv
<1>0. ASSUME forked \subseteq forked' PROVE UnforkedSession(s)
  BY <1>0 DEF UnforkedInv
<1>1. ASSUME NEW u \in Users, NEW t \in Tokens, SignIn(u, t)
      PROVE  UnforkedSession(s)'
  <2>1. IssueTokenPair(u, t, t) /\ pc' = pc /\ stored' = stored
    BY <1>1 DEF SignIn
  <2>2. CASE s = t
    <3>1. \A x \in DOMAIN refresh_tokens : refresh_tokens[x].session # s
      BY <2>1, <2>2 DEF IssueTokenPair, RootedInv
    <3>2. \A x \in DOMAIN refresh_tokens : refresh_tokens'[x] = refresh_tokens[x]
      BY <2>1, IssueEffect
    <3>3. \A q \in Requests : ~Holds(q, s)'
      BY <2>1, <3>1, <3>2, HolderRow DEF Holds, InFlight, HolderSession
    <3>4. QED
      BY <2>1, <2>2, <3>1, <3>3, UnforkedIssueOnly
  <2>3. CASE s # t
    BY <1>0, <1>1, <2>1, <2>3, UnforkedIssueOther DEF SignIn, InFlight
  <2>4. QED
    BY <2>2, <2>3
<1>2. ASSUME NEW r \in Requests, NEW t \in Tokens, RefreshFind(r, t)
      PROVE  UnforkedSession(s)'
  <2>1. /\ UnforkedSession(s)
        /\ refresh_tokens' = refresh_tokens
        /\ t \in DOMAIN refresh_tokens /\ ~refresh_tokens[t].revoked
        /\ r \notin InFlight
        /\ \A q \in Requests \ {r} : pc'[q] = pc[q] /\ stored'[q] = stored[q]
        /\ pc'[r] = "revoke" /\ stored'[r] = t
    BY <1>2, <1>0 DEF RefreshFind, Acceptable, Present, InFlight, TypeOK
  <2>2. \A q \in Requests \ {r} : Holds(q, s)' <=> Holds(q, s)
    BY <2>1 DEF Holds, InFlight, HolderSession
  <2>3. CASE refresh_tokens[t].session = s
    <3>1. \A q \in InFlight : stored[q] # t
      BY <1>2, <2>3 DEF RefreshFind
    <3>2. \A q \in Requests : ~Holds(q, s)
      BY <2>1, <2>3, <3>1 DEF UnforkedSession, Holds
    <3>3. \A q \in Requests : Holds(q, s)' => q = r
      BY <2>2, <3>2
    <3>4. QED
      BY <2>1, <2>3, <3>3 DEF UnforkedSession
  <2>4. CASE refresh_tokens[t].session # s
    <3>1. ~Holds(r, s)'
      BY <2>1, <2>4 DEF Holds, HolderSession
    <3>2. QED
      BY <2>1, <2>2, <3>1 DEF UnforkedSession
  <2>5. QED
    BY <2>3, <2>4
<1>3. ASSUME NEW r \in Requests, RefreshRevoke(r) PROVE UnforkedSession(s)'
  <2>1. UnforkedSession(s) /\ r \in InFlight /\ stored[r] \in DOMAIN refresh_tokens
    BY <1>3, <1>0, HolderRow DEF RefreshRevoke, history, InFlight
  <2>2. CASE /\ stored[r] \in Present /\ Rotate(stored[r])
             /\ pc' = [pc EXCEPT ![r] = "issue"] /\ UNCHANGED stored
    <3>1. /\ DOMAIN refresh_tokens' = DOMAIN refresh_tokens
          /\ \A x \in DOMAIN refresh_tokens :
               /\ refresh_tokens'[x].session = refresh_tokens[x].session
               /\ refresh_tokens'[x].revoked <=>
                    refresh_tokens[x].revoked \/ x = stored[r]
      BY <2>1, <2>2, RotateEffect
    <3>2. \A q \in Requests : Holds(q, s)' => Holds(q, s)
      <4>1. SUFFICES ASSUME NEW q \in Requests, Holds(q, s)' PROVE Holds(q, s)
        OBVIOUS
      <4>2. q \in InFlight
        BY <2>1, <2>2, <4>1 DEF Holds, InFlight, TypeOK
      <4>3. QED
        BY <2>2, <3>1, <4>1, <4>2, HolderRow DEF Holds, HolderSession
    <3>3. \A q \in Requests, t \in DOMAIN refresh_tokens' :
            Holds(q, s)' /\ refresh_tokens'[t].session = s /\ ~refresh_tokens'[t].revoked
            => pc'[q] = "revoke" /\ t = stored'[q]
      <4>1. SUFFICES ASSUME NEW q \in Requests, NEW t \in DOMAIN refresh_tokens,
                            Holds(q, s), refresh_tokens[t].session = s,
                            ~refresh_tokens[t].revoked, t # stored[r]
                     PROVE  pc'[q] = "revoke" /\ t = stored'[q]
        BY <3>1, <3>2
      <4>2. pc[q] = "revoke" /\ t = stored[q]
        BY <2>1, <4>1 DEF UnforkedSession
      <4>3. q # r
        BY <4>1, <4>2
      <4>4. QED
        BY <2>2, <4>2, <4>3 DEF TypeOK
    <3>4. QED
      BY <2>1, <3>1, <3>2, <3>3 DEF UnforkedSession
  <2>3. CASE Done(r) /\ UNCHANGED refresh_tokens
    <3>1. \A q \in Requests : q \in InFlight' =>
            q \in InFlight /\ pc'[q] = pc[q] /\ stored'[q] = stored[q]
      BY <2>3 DEF Done, InFlight, TypeOK
    <3>2. QED
      BY <2>1, <2>3, <3>1, UnforkedKept
  <2>4. QED
    BY <1>3, <2>2, <2>3 DEF RefreshRevoke
<1>4. ASSUME NEW r \in Requests, RefreshIssue(r) PROVE UnforkedSession(s)'
  <2>1. UnforkedSession(s) /\ r \in InFlight /\ r \notin InFlight'
    BY <1>4, <1>0 DEF RefreshIssue, Done, history, InFlight, TypeOK
  <2>2. \A q \in Requests : q \in InFlight' =>
          q \in InFlight /\ pc'[q] = pc[q] /\ stored'[q] = stored[q]
    BY <1>4 DEF RefreshIssue, Done, InFlight, TypeOK
  <2>3. ASSUME NEW t \in Tokens, IssueTokenPair(HolderUser(r), t, HolderSession(r))
        PROVE  UnforkedSession(s)'
    <3>1. CASE HolderSession(r) = s
      <4>1. Holds(r, s) /\ pc[r] = "issue"
        BY <1>4, <2>1, <3>1 DEF Holds, RefreshIssue
      <4>2. \A x \in DOMAIN refresh_tokens :
              refresh_tokens[x].session = s => refresh_tokens[x].revoked
        BY <2>1, <4>1 DEF UnforkedSession
      <4>3. \A x \in DOMAIN refresh_tokens : refresh_tokens'[x] = refresh_tokens[x]
        BY <2>1, <2>3, HolderRow, IssueEffect
      <4>4. \A q \in Requests : Holds(q, s)' => Holds(q, s) /\ q # r
        BY <2>1, <2>2, <4>3, HolderRow DEF Holds, HolderSession
      <4>5. \A q \in Requests : ~Holds(q, s)'
        BY <2>1, <4>1, <4>4 DEF UnforkedSession
      <4>6. QED
        BY <2>1, <2>3, <3>1, <4>2, <4>5, HolderRow, UnforkedIssueOnly
    <3>2. CASE HolderSession(r) # s
      BY <2>1, <2>2, <2>3, <3>2, HolderRow, UnforkedIssueOther
    <3>3. QED
      BY <3>1, <3>2
  <2>4. CASE UNCHANGED refresh_tokens
    BY <2>1, <2>2, <2>4, UnforkedKept
  <2>5. QED
    BY <1>4, <2>3, <2>4 DEF RefreshIssue
<1>5. ASSUME NEW r \in Requests, Abort(r) PROVE UnforkedSession(s)'
  <2>1. \A q \in Requests : q \in InFlight' =>
          q \in InFlight /\ pc'[q] = pc[q] /\ stored'[q] = stored[q]
    BY <1>5 DEF Abort, Done, InFlight, TypeOK
  <2>2. QED
    BY <1>5, <1>0, <2>1, UnforkedKept DEF Abort, history
<1>6. ASSUME NEW S, Revoke(S), pc' = pc, stored' = stored, forked' = forked
      PROVE  UnforkedSession(s)'
  BY <1>6, <1>0, RevokeEffect, UnforkedKept DEF InFlight
<1>7. ASSUME refresh_tokens' = refresh_tokens, pc' = pc, stored' = stored,
             forked' = forked
      PROVE  UnforkedSession(s)'
  BY <1>7, <1>0, UnforkedKept DEF InFlight
<1>8. QED
  BY <1>1, <1>2, <1>3, <1>4, <1>5, <1>6, <1>7
     DEF Next, Logout, LogoutAll, DeleteUser, Tick, vars, history

-----------------------------------------------------------------------------

LEMMA InitInv == Init => IInv
<1> SUFFICES ASSUME Init PROVE IInv
  OBVIOUS
<1>1. TypeOK
  BY InitType
<1>2. RootedInv
  BY DEF Init, RootedInv
<1>3. CleanLogoutInv
  BY DEF Init, CleanLogoutInv, LoggedOutCleanly
<1>4. UnforkedInv
  BY DEF Init, UnforkedInv, UnforkedSession, Holds, InFlight
<1>5. QED
  BY <1>1, <1>2, <1>3, <1>4 DEF IInv

LEMMA StepInv == IInv /\ [Next]_vars => IInv'
  BY StepType, StepRooted, StepClean, StepUnforked DEF IInv

\* A logout-all that met no refresh of the user under way leaves no live
\* token until the user signs in again.
THEOREM LogoutAllFinal == Spec => []LogoutAllIsFinal
<1>1. IInv => LogoutAllIsFinal
  BY DEF IInv, CleanLogoutInv, CleanLogout, LogoutAllIsFinal, Live
<1>2. QED
  BY <1>1, InitInv, StepInv, PTL DEF Spec

\* AccessTTL after such a logout-all the user holds no valid access token.
THEOREM AccessDies == Spec => []AccessDiesAfterLogoutAll
<1>1. IInv => AccessDiesAfterLogoutAll
  <2>1. SUFFICES ASSUME IInv, NEW u \in Users, LoggedOutCleanly(u),
                        now >= logoutAt[u] + AccessTTL,
                        NEW a \in access_tokens, a.sub = u, a.exp > now
                 PROVE  FALSE
    BY DEF AccessDiesAfterLogoutAll, Authenticated
  <2>2. a.exp <= logoutAt[u] + AccessTTL
    BY <2>1 DEF IInv, CleanLogoutInv, CleanLogout
  <2>3. a.exp \in Nat /\ now \in Nat /\ logoutAt[u] \in Nat
    BY <2>1, TTLAssumption DEF IInv, TypeOK, LoggedOutCleanly, Never
  <2>4. QED
    BY <2>1, <2>2, <2>3, TTLAssumption
<1>2. QED
  BY <1>1, InitInv, StepInv, PTL DEF Spec

\* A sign-in whose tokens were never presented by two requests at once is
\* backed by one live token at most.
THEOREM OneToken == Spec => []OneTokenUnlessForked
<1>1. IInv => OneTokenUnlessForked
  BY DEF IInv, TypeOK, Row, UnforkedInv, UnforkedSession, OneTokenUnlessForked, Live
<1>2. QED
  BY <1>1, InitInv, StepInv, PTL DEF Spec

-----------------------------------------------------------------------------
\* The refinement of SessionRegistry: only a sign-in opens a session.

Roots == {t \in DOMAIN refresh_tokens : refresh_tokens[t].session = t}

\* A step that inserts no root and lets no closed session open is a Close.
LEMMA CloseStep ==
  ASSUME OwnerOfSession' = OwnerOfSession, OpenSessions' \subseteq OpenSessions
  PROVE  Registry!Next
<1> DEFINE S == OpenSessions \ OpenSessions'
<1>1. S \in SUBSET OpenSessions /\ OpenSessions' = OpenSessions \ S
  OBVIOUS
<1>2. Registry!Close(S)
  BY <1>1 DEF Registry!Close
<1>3. QED
  BY <1>1, <1>2 DEF Registry!Next

\* Rows keep their user and session: so do the roots.
LEMMA OwnerKept ==
  ASSUME DOMAIN refresh_tokens' = DOMAIN refresh_tokens,
         \A x \in DOMAIN refresh_tokens :
           /\ refresh_tokens'[x].user = refresh_tokens[x].user
           /\ refresh_tokens'[x].session = refresh_tokens[x].session
  PROVE  OwnerOfSession' = OwnerOfSession
<1>1. Roots' = Roots
  BY DEF Roots
<1>2. \A x \in Roots : refresh_tokens'[x].user = refresh_tokens[x].user
  BY DEF Roots
<1>3. OwnerOfSession = [x \in Roots |-> refresh_tokens[x].user]
  BY DEF OwnerOfSession, Roots
<1>4. OwnerOfSession' = [x \in Roots' |-> refresh_tokens'[x].user]
  BY DEF OwnerOfSession, Roots
<1>5. QED
  BY <1>1, <1>2, <1>3, <1>4

\* Rows die, requests end and nothing else happens: sessions only close.
LEMMA OpenShrinks ==
  ASSUME TypeOK,
         DOMAIN refresh_tokens' = DOMAIN refresh_tokens,
         \A x \in DOMAIN refresh_tokens :
           /\ refresh_tokens'[x].user = refresh_tokens[x].user
           /\ refresh_tokens'[x].session = refresh_tokens[x].session,
         \A x \in DOMAIN refresh_tokens : Live(x)' => Live(x),
         users' \subseteq users,
         \A q \in Requests : q \in InFlight' => q \in InFlight /\ stored'[q] = stored[q]
  PROVE  Registry!Next
<1>1. ASSUME NEW q \in InFlight', HolderUser(q)' \in users'
      PROVE  HolderSession(q)' \in OpenSessions
  <2>1. q \in Requests /\ q \in InFlight /\ stored'[q] = stored[q]
    BY <1>1 DEF InFlight
  <2>2. stored[q] \in DOMAIN refresh_tokens
    BY <2>1, HolderRow
  <2>3. HolderUser(q)' = HolderUser(q) /\ HolderSession(q)' = HolderSession(q)
    BY <2>1, <2>2 DEF HolderUser, HolderSession
  <2>4. QED
    BY <1>1, <2>1, <2>3 DEF OpenSessions
<1>2. ASSUME NEW x \in DOMAIN refresh_tokens', Live(x)'
      PROVE  refresh_tokens'[x].session \in OpenSessions
  BY <1>2 DEF OpenSessions
<1>3. OpenSessions' \subseteq OpenSessions
  BY <1>1, <1>2 DEF OpenSessions
<1>4. QED
  BY <1>3, OwnerKept, CloseStep

LEMMA InitRefines == Init => Registry!Init
  BY DEF Init, Registry!Init, OwnerOfSession, OpenSessions, InFlight

LEMMA SignInRefines ==
  ASSUME TypeOK, RootedInv, NEW u \in Users, NEW t \in Tokens, SignIn(u, t)
  PROVE  Registry!Next
<1>1. IssueTokenPair(u, t, t) /\ now' = now /\ users' = users /\ pc' = pc /\ stored' = stored
  BY DEF SignIn
<1>2. /\ t \notin DOMAIN refresh_tokens
      /\ DOMAIN refresh_tokens' = DOMAIN refresh_tokens \cup {t}
      /\ refresh_tokens'[t].user = u
      /\ refresh_tokens'[t].session = t
      /\ ~refresh_tokens'[t].revoked
      /\ \A x \in DOMAIN refresh_tokens : refresh_tokens'[x] = refresh_tokens[x]
  BY <1>1, IssueEffect, ZenonT(30)
<1>3. Roots' = Roots \cup {t} /\ t \notin Roots
  BY <1>2 DEF Roots
<1>4. OwnerOfSession = [x \in Roots |-> refresh_tokens[x].user]
  BY DEF OwnerOfSession, Roots
<1>5. OwnerOfSession' = [x \in Roots' |-> refresh_tokens'[x].user]
  BY DEF OwnerOfSession, Roots
<1>6. \A x \in Roots : refresh_tokens'[x].user = refresh_tokens[x].user
  BY <1>2 DEF Roots
<1>7. OwnerOfSession' = [x \in DOMAIN OwnerOfSession \cup {t} |->
                           IF x = t THEN u ELSE OwnerOfSession[x]]
  BY <1>2, <1>3, <1>4, <1>5, <1>6
<1>8. Live(t)'
  <2>1. refresh_tokens'[t].expires_at = now + RefreshTTL
    BY <1>1 DEF IssueTokenPair, RefreshExpiry
  <2>2. refresh_tokens'[t].expires_at > now
    BY <2>1, TTLAssumption DEF TypeOK
  <2>3. QED
    BY <1>1, <1>2, <2>2 DEF Live, SignIn
<1>9. \A x \in DOMAIN refresh_tokens : Live(x)' <=> Live(x)
  BY <1>1, <1>2 DEF Live
<1>10. \A q \in InFlight : /\ HolderUser(q)' = HolderUser(q)
                           /\ HolderSession(q)' = HolderSession(q)
  BY <1>1, <1>2, HolderRow DEF HolderUser, HolderSession
<1>11. InFlight' = InFlight
  BY <1>1 DEF InFlight
<1>12. {refresh_tokens[x].session : x \in {y \in DOMAIN refresh_tokens : Live(y)}}' =
       {refresh_tokens[x].session : x \in {y \in DOMAIN refresh_tokens : Live(y)}} \cup {t}
  BY <1>2, <1>8, <1>9
<1>13. {HolderSession(r) : r \in {q \in InFlight : HolderUser(q) \in users}}' =
       {HolderSession(r) : r \in {q \in InFlight : HolderUser(q) \in users}}
  BY <1>1, <1>10, <1>11
<1>14. OpenSessions' = OpenSessions \cup {t}
  BY <1>12, <1>13 DEF OpenSessions
<1>15. Registry!Open(u, t)
  BY <1>3, <1>4, <1>7, <1>14 DEF Registry!Open
<1>16. QED
  BY <1>15 DEF Registry!Next

\* A refresh inserts a row of a session that was open, and no root.
LEMMA IssueRefines ==
  ASSUME TypeOK, RootedInv, NEW r \in Requests, RefreshIssue(r)
  PROVE  Registry!Next
<1>1. /\ r \in InFlight /\ now' = now /\ users' = users
      /\ \A q \in Requests : q \in InFlight' => q \in InFlight /\ stored'[q] = stored[q]
  BY DEF RefreshIssue, Done, InFlight, TypeOK
<1>2. ASSUME HolderUser(r) \in users, NEW t \in Tokens,
             IssueTokenPair(HolderUser(r), t, HolderSession(r))
      PROVE  Registry!Next
  <2>1. /\ t \notin DOMAIN refresh_tokens
        /\ DOMAIN refresh_tokens' = DOMAIN refresh_tokens \cup {t}
        /\ refresh_tokens'[t].session = HolderSession(r)
        /\ \A x \in DOMAIN refresh_tokens : refresh_tokens'[x] = refresh_tokens[x]
    BY <1>1, <1>2, HolderRow, IssueEffect, ZenonT(30)
  <2>2. HolderSession(r) \in DOMAIN refresh_tokens
    BY <1>1, HolderRow DEF RootedInv, HolderSession
  <2>3. Roots' = Roots
    BY <2>1, <2>2 DEF Roots
  <2>4. \A x \in Roots : refresh_tokens'[x].user = refresh_tokens[x].user
    BY <2>1 DEF Roots
  <2>5. OwnerOfSession = [x \in Roots |-> refresh_tokens[x].user]
    BY DEF OwnerOfSession, Roots
  <2>6. OwnerOfSession' = [x \in Roots' |-> refresh_tokens'[x].user]
    BY DEF OwnerOfSession, Roots
  <2>7. OwnerOfSession' = OwnerOfSession
    BY <2>3, <2>4, <2>5, <2>6
  <2>8. HolderSession(r) \in OpenSessions
    BY <1>1, <1>2 DEF OpenSessions
  <2>9. ASSUME NEW x \in DOMAIN refresh_tokens', Live(x)'
        PROVE  refresh_tokens'[x].session \in OpenSessions
    <3>1. CASE x = t
      BY <2>1, <2>8, <3>1
    <3>2. CASE x \in DOMAIN refresh_tokens
      BY <1>1, <2>1, <2>9, <3>2 DEF Live, OpenSessions
    <3>3. QED
      BY <2>1, <3>1, <3>2
  <2>10. ASSUME NEW q \in InFlight', HolderUser(q)' \in users'
         PROVE  HolderSession(q)' \in OpenSessions
    <3>1. q \in Requests /\ q \in InFlight /\ stored'[q] = stored[q]
      BY <1>1 DEF InFlight
    <3>2. stored[q] \in DOMAIN refresh_tokens
      BY <3>1, HolderRow
    <3>3. HolderUser(q)' = HolderUser(q) /\ HolderSession(q)' = HolderSession(q)
      BY <2>1, <3>1, <3>2 DEF HolderUser, HolderSession
    <3>4. QED
      BY <1>1, <2>10, <3>1, <3>3 DEF OpenSessions
  <2>11. OpenSessions' \subseteq OpenSessions
    BY <2>9, <2>10 DEF OpenSessions
  <2>12. QED
    BY <2>7, <2>11, CloseStep
<1>3. CASE UNCHANGED refresh_tokens
  BY <1>1, <1>3, OpenShrinks DEF Live
<1>4. QED
  BY <1>2, <1>3 DEF RefreshIssue

\* A refresh takes a live token up: its session was open already.
LEMMA FindRefines ==
  ASSUME TypeOK, NEW r \in Requests, NEW t \in Tokens, RefreshFind(r, t)
  PROVE  Registry!Next
<1>1. /\ refresh_tokens' = refresh_tokens /\ users' = users /\ now' = now
      /\ t \in DOMAIN refresh_tokens /\ Live(t)
      /\ \A q \in Requests \ {r} : pc'[q] = pc[q] /\ stored'[q] = stored[q]
      /\ stored'[r] = t
  BY DEF RefreshFind, Acceptable, Present, Unexpired, Live, TypeOK
<1>2. ASSUME NEW q \in InFlight', HolderUser(q)' \in users'
      PROVE  HolderSession(q)' \in OpenSessions
  <2>1. CASE q = r
    BY <1>1, <2>1 DEF HolderSession, OpenSessions
  <2>2. CASE q # r
    <3>1. q \in InFlight /\ stored'[q] = stored[q]
      BY <1>1, <2>2 DEF InFlight
    <3>2. QED
      BY <1>1, <1>2, <3>1 DEF HolderUser, HolderSession, OpenSessions
  <2>3. QED
    BY <2>1, <2>2
<1>3. ASSUME NEW x \in DOMAIN refresh_tokens', Live(x)'
      PROVE  refresh_tokens'[x].session \in OpenSessions
  BY <1>1, <1>3 DEF Live, OpenSessions
<1>4. OpenSessions' \subseteq OpenSessions
  BY <1>2, <1>3 DEF OpenSessions
<1>5. QED
  BY <1>1, <1>4, OwnerKept, CloseStep

LEMMA StepRefines ==
  TypeOK /\ RootedInv /\ [Next]_vars => [Registry!Next]_<<OwnerOfSession, OpenSessions>>
<1> SUFFICES ASSUME TypeOK, RootedInv, [Next]_vars
             PROVE  [Registry!Next]_<<OwnerOfSession, OpenSessions>>
  OBVIOUS
<1>1. ASSUME NEW r \in Requests, RefreshRevoke(r) PROVE Registry!Next
  <2>1. /\ now' = now /\ users' = users
        /\ \A q \in Requests : q \in InFlight' => q \in InFlight /\ stored'[q] = stored[q]
    BY <1>1, TokensAssumption DEF RefreshRevoke, Done, InFlight, TypeOK
  <2>2. CASE Rotate(stored[r]) /\ stored[r] \in Present
    <3>1. \A x \in DOMAIN refresh_tokens :
            refresh_tokens'[x].expires_at = refresh_tokens[x].expires_at
      BY <2>2 DEF Rotate, TypeOK, Row
    <3>2. stored[r] \in DOMAIN refresh_tokens
      BY <2>2 DEF Present
    <3>3. /\ DOMAIN refresh_tokens' = DOMAIN refresh_tokens
          /\ \A x \in DOMAIN refresh_tokens :
               /\ refresh_tokens'[x].user = refresh_tokens[x].user
               /\ refresh_tokens'[x].session = refresh_tokens[x].session
               /\ refresh_tokens[x].revoked => refresh_tokens'[x].revoked
      BY <2>2, <3>2, RotateEffect
    <3>4. \A x \in DOMAIN refresh_tokens : Live(x)' => Live(x)
      BY <2>1, <3>1, <3>3 DEF Live
    <3>5. QED
      BY <2>1, <3>3, <3>4, OpenShrinks
  <2>3. CASE UNCHANGED refresh_tokens
    BY <2>1, <2>3, OpenShrinks DEF Live
  <2>4. QED
    BY <1>1, <2>2, <2>3 DEF RefreshRevoke
<1>2. ASSUME NEW S, Revoke(S), now' = now, users' = users, pc' = pc, stored' = stored
      PROVE  Registry!Next
  <2>1. \A x \in DOMAIN refresh_tokens :
          refresh_tokens'[x].expires_at = refresh_tokens[x].expires_at
    BY <1>2 DEF Revoke, TypeOK, Row
  <2>2. \A x \in DOMAIN refresh_tokens : Live(x)' => Live(x)
    BY <1>2, <2>1, RevokeEffect DEF Live
  <2>3. QED
    BY <1>2, <2>2, RevokeEffect, OpenShrinks DEF InFlight
<1>3. ASSUME NEW r \in Requests, Abort(r) PROVE Registry!Next
  BY <1>3, OpenShrinks DEF Abort, Done, InFlight, TypeOK, Live
<1>4. ASSUME NEW u \in Users, DeleteUser(u) PROVE Registry!Next
  BY <1>4, OpenShrinks DEF DeleteUser, InFlight, Live, history
<1>5. CASE Tick
  BY <1>5, OpenShrinks DEF Tick, InFlight, Live, TypeOK, Row, history
<1>6. CASE UNCHANGED vars
  BY <1>6, OpenShrinks DEF vars, InFlight, Live
<1>7. QED
  BY <1>1, <1>2, <1>3, <1>4, <1>5, <1>6, SignInRefines, IssueRefines, FindRefines
     DEF Next, Logout, LogoutAll

\* However refreshes, logouts, expiry and failures interleave, the token table
\* implements the registry: no closed session is open again, none changes hands.
THEOREM Implements == Spec => ImplementsRegistry
<1>1. Spec => [](TypeOK /\ RootedInv)
  BY InitInv, StepInv, PTL DEF Spec, IInv
<1>2. QED
  BY <1>1, InitRefines, StepRefines, PTL DEF Spec, ImplementsRegistry, Registry!Spec
=============================================================================
