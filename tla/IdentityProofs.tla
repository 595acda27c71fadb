--------------------------- MODULE IdentityProofs ---------------------------
(***************************************************************************)
(* Proofs about Identity, for every set of users, e-mail addresses, phones,*)
(* devices and requests.                                                   *)
(***************************************************************************)
EXTENDS Identity, TLAPS

\* A row in the memory of a request is a guest's only if it came with a device.
ReadInv == \A r \in Requests : read[r].is_guest => read[r].device_id # Null

\* A user no two requests ever worked on at once: the row is as asked for, and
\* the one request at work has it in memory.
AloneUser(u) ==
  /\ users[u] = intended[u]
  /\ \A r1, r2 \in Requests : pk[r1] = u /\ pk[r2] = u => r1 = r2
  /\ \A r \in Requests : pk[r] = u => read[r] = users[u]
AloneInv == \A u \in Ids \ overlapped : AloneUser(u)

\* A user who is given no phone but at sign-up: whatever copy of the row says
\* verified, and whoever is about to, the number was proven.
KeptPhone(u) ==
  /\ users[u].phone_verified => <<u, users[u].phone>> \in proven
  /\ \A r \in Requests : pk[r] = u =>
       /\ read[r].phone = users[u].phone
       /\ read[r].phone_verified \/ pc[r] = "verify" => <<u, users[u].phone>> \in proven
PhoneInv == \A u \in Ids \ rephoned : KeptPhone(u)

\* A user whom any copy of the row or any token calls verified, or is about to,
\* has proven a phone.
Proved(u) == \E p \in Phones : <<u, p>> \in proven
EarnedInv ==
  /\ \A u \in Ids : users[u].phone_verified => Proved(u)
  /\ \A r \in Requests : pc[r] # "idle" /\ (read[r].phone_verified \/ pc[r] = "verify")
       => Proved(pk[r])
  /\ \A t \in tokens : t.phoneVerified => Proved(t.sub)

IInv == TypeOK /\ ReadInv /\ AloneInv /\ PhoneInv /\ EarnedInv

\* No two rows have one phone, and what a user of whom no phone was edited has
\* proven is the phone in the row.
PhonesDiffer ==
  \A u, v \in Ids : users[u].phone = users[v].phone /\ users[u].phone # Null => u = v
ProvenIsHeld == \A u \in Ids \ rephoned : \A p : <<u, p>> \in proven => p = users[u].phone

\* So no two such users ever proved one phone.
ProvenApart ==
  \A u, v \in Ids \ rephoned : \A p : <<u, p>> \in proven /\ <<v, p>> \in proven => u = v

-----------------------------------------------------------------------------
LEMMA InitInv == Init => IInv
<1> SUFFICES ASSUME Init PROVE IInv
  OBVIOUS
<1>1. TypeOK
  BY DEF Init, TypeOK, Ids, Row, NoRow
<1>2. ReadInv /\ AloneInv /\ PhoneInv /\ EarnedInv
  BY DEF Init, ReadInv, AloneInv, PhoneInv, EarnedInv, Ids, NoRow
<1>3. QED
  BY <1>1, <1>2 DEF IInv

\* The row of a request at work.
LEMMA Holder ==
  ASSUME TypeOK, NEW r \in Requests, pc[r] # "idle"
  PROVE  pk[r] \in Ids /\ pk[r] # Null /\ read[r] \in Row /\ users[pk[r]] \in Row
  BY NullAssumption DEF TypeOK

LEMMA InsertEffect ==
  ASSUME TypeOK, NEW u, NEW row \in Row, Insert(u, row)
  PROVE  /\ u \in Users /\ u \notin Ids
         /\ Ids' = Ids \cup {u}
         /\ users'[u] = row /\ intended'[u] = row
         /\ \A v \in Ids : users'[v] = users[v] /\ intended'[v] = intended[v]
         /\ users' \in [Ids' -> Row] /\ intended' \in [Ids' -> Row]
         /\ tokens' = tokens \cup {Claims(u, row)}
         /\ \A r \in Requests : pk[r] # u
         /\ UNCHANGED <<pc, pk, read, rephoned, overlapped>>
<1>1. u \in Users /\ u \notin Ids
  BY DEF Insert
<1>2. \A r \in Requests : pk[r] # u
  BY <1>1, NullAssumption DEF TypeOK
<1>3. Ids' = Ids \cup {u}
  BY DEF Insert, Ids
<1>4. DOMAIN intended = Ids /\ DOMAIN users = Ids
  BY DEF TypeOK, Ids
<1>5. /\ users' = [v \in Ids \cup {u} |-> IF v = u THEN row ELSE users[v]]
      /\ intended' = [v \in Ids \cup {u} |-> IF v = u THEN row ELSE intended[v]]
  BY DEF Insert
<1>6. users' \in [Ids' -> Row] /\ intended' \in [Ids' -> Row]
  BY <1>3, <1>5 DEF TypeOK
<1>7. QED
  BY <1>1, <1>2, <1>3, <1>5, <1>6 DEF Insert

\* The three kinds of new rows.
LEMMA NewRows ==
  /\ NoRow \in Row
  /\ \A e \in Emails : [NoRow EXCEPT !.email = e] \in Row
  /\ \A d \in Devices : [NoRow EXCEPT !.device_id = d, !.is_guest = TRUE] \in Row
  /\ \A p \in Phones : [NoRow EXCEPT !.phone = p, !.phone_verified = TRUE] \in Row
  BY DEF NoRow, Row

LEMMA ClaimsType ==
  ASSUME NEW u \in Ids, NEW row \in Row
  PROVE  Claims(u, row) \in [sub: Ids, isGuest: BOOLEAN, phoneVerified: BOOLEAN]
  BY DEF Claims, Row

\* What Find does when a request is about to write user u.
LEMMA FindEffect ==
  ASSUME TypeOK, NEW r \in Requests, NEW u \in Ids, NEW next \in {"verify", "patch", "upgrade"},
         Find(r, u, next)
  PROVE  /\ pc[r] = "idle" /\ pc'[r] = next /\ pk'[r] = u /\ read'[r] = users[u]
         /\ \A q \in Requests \ {r} : pc'[q] = pc[q] /\ pk'[q] = pk[q] /\ read'[q] = read[q]
         /\ pc' \in [Requests -> {"idle", "verify", "patch", "upgrade"}]
         /\ pk' \in [Requests -> Ids \cup {Null}]
         /\ \A q \in Requests : pc'[q] = "idle" <=> pk'[q] = Null
         /\ read' \in [Requests -> Row]
         /\ overlapped \subseteq overlapped' /\ overlapped' \subseteq Ids
         /\ u \notin overlapped' => \A q \in Requests : pk[q] # u
<1>1. u # Null /\ users[u] \in Row
  BY NullAssumption DEF TypeOK
<1>2. u \notin overlapped' => \A q \in Requests : pk[q] # u
  BY <1>1 DEF Find, InFlight, TypeOK
<1>3. QED
  BY <1>1, <1>2 DEF Find, TypeOK

LEMMA DoneEffect ==
  ASSUME TypeOK, NEW r \in Requests, Done(r)
  PROVE  /\ pc'[r] = "idle" /\ pk'[r] = Null /\ read'[r] = NoRow
         /\ \A q \in Requests \ {r} : pc'[q] = pc[q] /\ pk'[q] = pk[q] /\ read'[q] = read[q]
         /\ pc' \in [Requests -> {"idle", "verify", "patch", "upgrade"}]
         /\ pk' \in [Requests -> Ids \cup {Null}]
         /\ \A q \in Requests : pc'[q] = "idle" <=> pk'[q] = Null
         /\ read' \in [Requests -> Row]
  BY NewRows DEF Done, TypeOK

LEMMA EditType ==
  ASSUME NEW r, NEW row \in Row, NEW e \in Emails \cup {Null}, NEW p \in Phones \cup {Null}
  PROVE  /\ Edit(r, row, e, p) \in Row
         /\ Edit(r, row, e, p).phone_verified = row.phone_verified
         /\ Edit(r, row, e, p).device_id = row.device_id
         /\ Edit(r, row, e, p).is_guest => row.is_guest
         /\ p = Null => Edit(r, row, e, p).phone = row.phone
<1>1. Given(e, row.email) \in Emails \cup {Null} /\ Given(p, row.phone) \in Phones \cup {Null}
  BY DEF Given, Row
<1>2. p = Null => Given(p, row.phone) = row.phone
  BY DEF Given
<1>3. (row.is_guest /\ pc[r] # "upgrade") \in BOOLEAN
  OBVIOUS
<1>4. Edit(r, row, e, p) =
        [row EXCEPT !.email = Given(e, row.email), !.phone = Given(p, row.phone),
                    !.is_guest = row.is_guest /\ pc[r] # "upgrade"]
  BY DEF Edit, Row
<1>5. QED
  BY <1>1, <1>2, <1>3, <1>4 DEF Row

-----------------------------------------------------------------------------
\* The steps, once and for all: a new row, a read, a save, or an end.

\* Register, GuestLogin, VerifyNewPhone.
IsInsert(u, row) ==
  /\ Insert(u, row)
  /\ row \in Row
  /\ row.is_guest => row.device_id # Null
  /\ \/ proven' = proven /\ ~row.phone_verified
     \/ proven' = proven \cup {<<u, row.phone>>} /\ row.phone \in Phones

\* FindByPhone and FindUser that go on to write; the phone of the first is proven.
IsFind(r, u, next) ==
  /\ Find(r, u, next)
  /\ UNCHANGED <<users, tokens, intended, rephoned>>
  /\ next \in {"verify", "patch", "upgrade"}
  /\ IF next = "verify"
     THEN users[u].phone \in Phones /\ proven' = proven \cup {<<u, users[u].phone>>}
     ELSE proven' = proven

\* SignIn and FindByPhone of a verified user.
IsSignIn(u) ==
  /\ tokens' = tokens \cup {Claims(u, users[u])}
  /\ UNCHANGED <<users, pc, pk, read, intended, rephoned, overlapped>>
  /\ \/ proven' = proven
     \/ users[u].phone \in Phones /\ proven' = proven \cup {<<u, users[u].phone>>}

LEMMA NextCases ==
  ASSUME TypeOK, [Next]_vars
  PROVE  \/ \E u \in Users : \E row \in Row : IsInsert(u, row)
         \/ \E u \in Ids : IsSignIn(u)
         \/ \E r \in Requests, u \in Ids, next \in {"verify", "patch", "upgrade"} :
              IsFind(r, u, next)
         \/ \E r \in Requests : SaveVerified(r)
         \/ \E r \in Requests, e \in Emails \cup {Null}, p \in Phones \cup {Null} :
              SaveUser(r, e, p)
         \/ \E r \in Requests : Abort(r)
         \/ UNCHANGED vars
<1>1. ASSUME NEW u \in Users, NEW e \in Emails, Register(u, e)
      PROVE  \E row \in Row : IsInsert(u, row)
  <2>1. IsInsert(u, [NoRow EXCEPT !.email = e])
    BY <1>1, NewRows DEF Register, IsInsert, NoRow
  <2>2. QED
    BY <2>1, NewRows
<1>2. ASSUME NEW u \in Users, NEW d \in Devices, GuestLogin(u, d)
      PROVE  \E row \in Row : IsInsert(u, row)
  <2>1. IsInsert(u, [NoRow EXCEPT !.device_id = d, !.is_guest = TRUE])
    BY <1>2, NewRows, NullAssumption DEF GuestLogin, IsInsert, NoRow
  <2>2. QED
    BY <2>1, NewRows
<1>3. ASSUME NEW u \in Users, NEW p \in Phones, VerifyNewPhone(u, p)
      PROVE  \E row \in Row : IsInsert(u, row)
  <2>1. IsInsert(u, [NoRow EXCEPT !.phone = p, !.phone_verified = TRUE])
    BY <1>3, NewRows DEF VerifyNewPhone, IsInsert, NoRow
  <2>2. QED
    BY <2>1, NewRows
<1>4. ASSUME NEW u \in Users, SignIn(u) PROVE u \in Ids /\ IsSignIn(u)
  BY <1>4 DEF SignIn, IsSignIn
<1>5. ASSUME NEW r \in Requests, NEW p \in Phones, FindByPhone(r, p)
      PROVE  \E u \in Ids : IsSignIn(u) \/ IsFind(r, u, "verify")
  <2>1. PICK u \in Ids : FindByPhone(r, p)!(u)
    BY <1>5 DEF FindByPhone
  <2>2. CASE users[u].phone_verified
    BY <2>1, <2>2 DEF IsSignIn
  <2>3. CASE ~users[u].phone_verified
    BY <2>1, <2>3 DEF IsFind
  <2>4. QED
    BY <2>2, <2>3
<1>6. ASSUME NEW r \in Requests, NEW u \in Users, FindUser(r, u)
      PROVE  \E next \in {"patch", "upgrade"} : u \in Ids /\ IsFind(r, u, next)
  <2>1. u \in Ids
    BY <1>6 DEF FindUser, TypeOK
  <2>2. QED
    BY <1>6, <2>1 DEF FindUser, IsFind
<1>7. QED
  BY <1>1, <1>2, <1>3, <1>4, <1>5, <1>6 DEF Next

\* What a request that saves knows and leaves behind.
LEMMA SaveUserEffect ==
  ASSUME TypeOK, NEW r \in Requests, NEW e \in Emails \cup {Null}, NEW p \in Phones \cup {Null},
         SaveUser(r, e, p), NEW u, u = pk[r], NEW new, new = Edit(r, read[r], e, p)
  PROVE  /\ u \in Ids /\ new \in Row /\ Ids' = Ids
         /\ users'[u] = new /\ intended'[u] = Edit(r, intended[u], e, p)
         /\ \A v \in Ids \ {u} : users'[v] = users[v] /\ intended'[v] = intended[v]
         /\ users' \in [Ids -> Row] /\ intended' \in [Ids -> Row]
         /\ rephoned' = IF p = Null THEN rephoned ELSE rephoned \cup {u}
         /\ tokens' \subseteq tokens \cup {Claims(u, new)}
         /\ Done(r) /\ proven' = proven /\ overlapped' = overlapped
<1>1. u \in Ids /\ read[r] \in Row /\ intended[u] \in Row
  BY Holder DEF SaveUser, TypeOK
<1>2. new \in Row /\ Edit(r, intended[u], e, p) \in Row
  BY <1>1, EditType
<1>3. /\ users' = [users EXCEPT ![u] = new]
      /\ intended' = [intended EXCEPT ![u] = Edit(r, intended[u], e, p)]
  BY <1>1 DEF SaveUser, Saved, TypeOK
<1>4. /\ rephoned' = IF p = Null THEN rephoned ELSE rephoned \cup {u}
      /\ tokens' \subseteq tokens \cup {Claims(u, new)}
      /\ Done(r) /\ proven' = proven /\ overlapped' = overlapped
  BY DEF SaveUser, Saved
<1>5. QED
  BY <1>1, <1>2, <1>3, <1>4 DEF TypeOK, Ids

LEMMA SaveVerifiedEffect ==
  ASSUME TypeOK, NEW r \in Requests, SaveVerified(r), NEW u, u = pk[r]
  PROVE  /\ u \in Ids /\ Ids' = Ids /\ pc[r] = "verify"
         /\ users'[u] = [users[u] EXCEPT !.phone_verified = TRUE]
         /\ intended'[u] = [intended[u] EXCEPT !.phone_verified = TRUE]
         /\ \A v \in Ids \ {u} : users'[v] = users[v] /\ intended'[v] = intended[v]
         /\ users' \in [Ids -> Row] /\ intended' \in [Ids -> Row]
         /\ tokens' = tokens \cup {Claims(u, [read[r] EXCEPT !.phone_verified = TRUE])}
         /\ Done(r) /\ UNCHANGED <<proven, rephoned, overlapped>>
<1>1. u \in Ids /\ users[u] \in Row /\ intended[u] \in Row
  BY Holder DEF SaveVerified, TypeOK
<1>2. /\ [users[u] EXCEPT !.phone_verified = TRUE] \in Row
      /\ [intended[u] EXCEPT !.phone_verified = TRUE] \in Row
  BY <1>1 DEF Row
<1>3. /\ users' = [users EXCEPT ![u] = [users[u] EXCEPT !.phone_verified = TRUE]]
      /\ intended' = [intended EXCEPT ![u] = [intended[u] EXCEPT !.phone_verified = TRUE]]
  BY <1>1 DEF SaveVerified, TypeOK
<1>4. QED
  BY <1>1, <1>2, <1>3 DEF SaveVerified, TypeOK, Ids

LEMMA StepType == TypeOK /\ ReadInv /\ [Next]_vars => TypeOK' /\ ReadInv'
<1> SUFFICES ASSUME TypeOK, ReadInv, [Next]_vars PROVE TypeOK' /\ ReadInv'
  OBVIOUS
<1> DEFINE T(S) == [sub: S, isGuest: BOOLEAN, phoneVerified: BOOLEAN]
<1>1. ASSUME NEW u \in Users, NEW row \in Row, IsInsert(u, row) PROVE TypeOK' /\ ReadInv'
  <2>1. Insert(u, row)
    BY <1>1 DEF IsInsert
  <2>2. /\ u \in Users /\ Ids' = Ids \cup {u}
        /\ users' \in [Ids' -> Row] /\ intended' \in [Ids' -> Row]
        /\ users'[u] = row /\ \A v \in Ids : users'[v] = users[v]
        /\ tokens' = tokens \cup {Claims(u, row)}
        /\ UNCHANGED <<pc, pk, read, rephoned, overlapped>>
    BY <2>1, InsertEffect
  <2>3. \A v \in Ids' : users'[v].is_guest => users'[v].device_id # Null
    BY <1>1, <2>2 DEF IsInsert, TypeOK
  <2>4. tokens' \subseteq T(Ids')
    BY <2>2 DEF TypeOK, Claims, Row
  <2>5. proven' \subseteq Ids' \X Phones
    BY <1>1, <2>2 DEF IsInsert, TypeOK
  <2>6. QED
    BY <2>2, <2>3, <2>4, <2>5 DEF TypeOK, ReadInv
<1>2. ASSUME NEW u \in Ids, IsSignIn(u) PROVE TypeOK' /\ ReadInv'
  <2>1. users[u] \in Row
    BY DEF TypeOK
  <2>2. tokens' \subseteq T(Ids)
    BY <1>2, <2>1, ClaimsType DEF IsSignIn, TypeOK
  <2>3. proven' \subseteq Ids \X Phones
    BY <1>2 DEF IsSignIn, TypeOK
  <2>4. QED
    BY <1>2, <2>2, <2>3 DEF IsSignIn, TypeOK, ReadInv, Ids
<1>3. ASSUME NEW r \in Requests, NEW u \in Ids, NEW next \in {"verify", "patch", "upgrade"},
             IsFind(r, u, next)
      PROVE  TypeOK' /\ ReadInv'
  <2>1. proven' \subseteq Ids \X Phones
    BY <1>3 DEF IsFind, TypeOK
  <2>2. ReadInv'
    BY <1>3, FindEffect DEF IsFind, ReadInv, TypeOK
  <2>3. Find(r, u, next) /\ UNCHANGED <<users, tokens, intended, rephoned>>
    BY <1>3 DEF IsFind
  <2>4. /\ pc' \in [Requests -> {"idle", "verify", "patch", "upgrade"}]
        /\ pk' \in [Requests -> Ids \cup {Null}]
        /\ \A q \in Requests : pc'[q] = "idle" <=> pk'[q] = Null
        /\ read' \in [Requests -> Row]
        /\ overlapped' \subseteq Ids
    BY <2>3, FindEffect
  <2>5. QED
    BY <2>1, <2>2, <2>3, <2>4 DEF TypeOK, Ids
<1>4. ASSUME NEW r \in Requests, SaveVerified(r) PROVE TypeOK' /\ ReadInv'
  <2> DEFINE u == pk[r]
             signed == [read[r] EXCEPT !.phone_verified = TRUE]
  <2>1. /\ u \in Ids /\ Ids' = Ids
        /\ users' \in [Ids -> Row] /\ intended' \in [Ids -> Row]
        /\ users'[u] = [users[u] EXCEPT !.phone_verified = TRUE]
        /\ \A v \in Ids \ {u} : users'[v] = users[v]
        /\ tokens' = tokens \cup {Claims(u, signed)}
        /\ Done(r) /\ UNCHANGED <<proven, rephoned, overlapped>>
    BY <1>4, SaveVerifiedEffect
  <2>2. read[r] \in Row /\ users[u] \in Row
    BY <2>1 DEF TypeOK
  <2>3. tokens' \subseteq T(Ids)
    <3>1. signed \in Row
      BY <2>2 DEF Row
    <3>2. Claims(u, signed) \in T(Ids)
      BY <2>1, <3>1, ClaimsType
    <3>3. QED
      BY <2>1, <3>2 DEF TypeOK
  <2>4. \A v \in Ids : users'[v].is_guest => users'[v].device_id # Null
    <3>1. /\ [users[u] EXCEPT !.phone_verified = TRUE].is_guest = users[u].is_guest
          /\ [users[u] EXCEPT !.phone_verified = TRUE].device_id = users[u].device_id
      BY <2>2 DEF Row
    <3>2. \A v \in Ids : /\ users'[v].is_guest = users[v].is_guest
                        /\ users'[v].device_id = users[v].device_id
      BY <2>1, <3>1
    <3>3. QED
      BY <3>2, Zenon DEF TypeOK
  <2>5. ReadInv'
    BY <2>1, DoneEffect DEF ReadInv, NoRow
  <2>6. QED
    BY <2>1, <2>3, <2>4, <2>5, DoneEffect DEF TypeOK
<1>5. ASSUME NEW r \in Requests, NEW e \in Emails \cup {Null}, NEW p \in Phones \cup {Null},
             SaveUser(r, e, p)
      PROVE  TypeOK' /\ ReadInv'
  <2> DEFINE u == pk[r]
             new == Edit(r, read[r], e, p)
  <2>1. /\ u \in Ids /\ new \in Row /\ Ids' = Ids
        /\ users' \in [Ids -> Row] /\ intended' \in [Ids -> Row]
        /\ users'[u] = new
        /\ \A v \in Ids \ {u} : users'[v] = users[v]
        /\ rephoned' \subseteq rephoned \cup {u}
        /\ tokens' \subseteq tokens \cup {Claims(u, new)}
        /\ Done(r) /\ UNCHANGED <<proven, overlapped>>
    BY <1>5, SaveUserEffect
  <2>2. new.is_guest => new.device_id # Null
    BY <2>1, EditType DEF ReadInv, TypeOK
  <2>3. tokens' \subseteq T(Ids)
    <3>1. Claims(u, new) \in T(Ids)
      BY <2>1, ClaimsType
    <3>2. QED
      BY <2>1, <3>1 DEF TypeOK
  <2>4. \A v \in Ids : users'[v].is_guest => users'[v].device_id # Null
    BY <2>1, <2>2 DEF TypeOK
  <2>5. ReadInv'
    BY <2>1, DoneEffect DEF ReadInv, NoRow
  <2> HIDE DEF new
  <2>6. QED
    BY <2>1, <2>3, <2>4, <2>5, DoneEffect DEF TypeOK
<1>6. ASSUME NEW r \in Requests, Abort(r) PROVE TypeOK' /\ ReadInv'
  <2>1. ReadInv'
    BY <1>6, DoneEffect DEF Abort, ReadInv, NoRow
  <2>2. QED
    BY <1>6, <2>1, DoneEffect DEF Abort, TypeOK, Ids
<1>7. CASE UNCHANGED vars
  BY <1>7 DEF vars, TypeOK, ReadInv, Ids
<1>8. QED
  BY <1>1, <1>2, <1>3, <1>4, <1>5, <1>6, <1>7, NextCases

-----------------------------------------------------------------------------
\* No edit is lost while one request works on the user at a time.

LEMMA StepAlone == TypeOK /\ AloneInv /\ [Next]_vars => AloneInv'
<1> SUFFICES ASSUME TypeOK, AloneInv, [Next]_vars, NEW u \in Ids', u \notin overlapped'
             PROVE  AloneUser(u)'
  BY DEF AloneInv
\* Nobody new holds u and its row is as it was.
<1>1. ASSUME u \in Ids \ overlapped, users'[u] = users[u], intended'[u] = intended[u],
             \A q \in Requests : pk'[q] = u => pk[q] = u /\ read'[q] = read[q]
      PROVE  AloneUser(u)'
  BY <1>1 DEF AloneInv, AloneUser
<1>2. ASSUME NEW v \in Users, NEW row \in Row, IsInsert(v, row) PROVE AloneUser(u)'
  <2>1. Insert(v, row)
    BY <1>2 DEF IsInsert
  <2>2. /\ Ids' = Ids \cup {v} /\ v \notin Ids
        /\ users'[v] = row /\ intended'[v] = row
        /\ \A x \in Ids : users'[x] = users[x] /\ intended'[x] = intended[x]
        /\ \A r \in Requests : pk[r] # v
        /\ UNCHANGED <<pc, pk, read, rephoned, overlapped>>
    BY <2>1, InsertEffect
  <2>3. CASE u = v
    BY <2>2, <2>3 DEF AloneUser
  <2>4. CASE u # v
    BY <1>1, <2>2, <2>4
  <2>5. QED
    BY <2>3, <2>4
<1>3. ASSUME NEW v \in Ids, IsSignIn(v) PROVE AloneUser(u)'
  BY <1>1, <1>3 DEF IsSignIn, Ids
<1>4. ASSUME NEW r \in Requests, NEW v \in Ids, NEW next \in {"verify", "patch", "upgrade"},
             IsFind(r, v, next)
      PROVE  AloneUser(u)'
  <2>1. Find(r, v, next) /\ UNCHANGED <<users, intended>> /\ u \in Ids
    BY <1>4 DEF IsFind, Ids
  <2>2. /\ pk'[r] = v /\ read'[r] = users[v]
        /\ \A q \in Requests \ {r} : pk'[q] = pk[q] /\ read'[q] = read[q]
        /\ overlapped \subseteq overlapped'
        /\ v \notin overlapped' => \A q \in Requests : pk[q] # v
    BY <2>1, FindEffect
  <2>3. CASE u = v
    <3>1. \A q \in Requests : pk'[q] = u => q = r
      BY <2>2, <2>3
    <3>2. users[u] = intended[u]
      BY <2>1, <2>2 DEF AloneInv, AloneUser
    <3>3. QED
      BY <2>1, <2>2, <2>3, <3>1, <3>2 DEF AloneUser
  <2>4. CASE u # v
    BY <1>1, <2>1, <2>2, <2>4
  <2>5. QED
    BY <2>3, <2>4
<1>5. ASSUME NEW r \in Requests, Done(r), u \in Ids \ overlapped,
             pk[r] # u => users'[u] = users[u] /\ intended'[u] = intended[u],
             pk[r] = u => users'[u] = intended'[u]
      PROVE  AloneUser(u)'
  <2>1. /\ pk'[r] = Null /\ u # Null
        /\ \A q \in Requests \ {r} : pk'[q] = pk[q] /\ read'[q] = read[q]
    BY <1>5, DoneEffect, NullAssumption DEF TypeOK
  <2>2. CASE pk[r] = u
    <3>1. \A q \in Requests : pk'[q] # u
      BY <1>5, <2>1, <2>2 DEF AloneInv, AloneUser
    <3>2. QED
      BY <1>5, <2>2, <3>1 DEF AloneUser
  <2>3. CASE pk[r] # u
    BY <1>1, <1>5, <2>1, <2>3
  <2>4. QED
    BY <2>2, <2>3
<1>6. ASSUME NEW r \in Requests, SaveVerified(r) PROVE AloneUser(u)'
  <2> DEFINE v == pk[r]
  <2>1. /\ Ids' = Ids /\ v \in Ids
        /\ users'[v] = [users[v] EXCEPT !.phone_verified = TRUE]
        /\ intended'[v] = [intended[v] EXCEPT !.phone_verified = TRUE]
        /\ \A x \in Ids \ {v} : users'[x] = users[x] /\ intended'[x] = intended[x]
        /\ Done(r) /\ overlapped' = overlapped
    BY <1>6, SaveVerifiedEffect
  <2>2. u \in Ids \ overlapped /\ users[u] = intended[u]
    BY <2>1 DEF AloneInv, AloneUser
  <2>3. QED
    BY <1>5, <2>1, <2>2
<1>7. ASSUME NEW r \in Requests, NEW e \in Emails \cup {Null}, NEW p \in Phones \cup {Null},
             SaveUser(r, e, p)
      PROVE  AloneUser(u)'
  <2> DEFINE v == pk[r]
  <2>1. /\ Ids' = Ids /\ v \in Ids
        /\ users'[v] = Edit(r, read[r], e, p) /\ intended'[v] = Edit(r, intended[v], e, p)
        /\ \A x \in Ids \ {v} : users'[x] = users[x] /\ intended'[x] = intended[x]
        /\ Done(r) /\ overlapped' = overlapped
    BY <1>7, SaveUserEffect
  <2>2. /\ u \in Ids \ overlapped /\ users[u] = intended[u]
        /\ pk[r] = u => read[r] = users[u]
    BY <2>1 DEF AloneInv, AloneUser
  <2>3. QED
    BY <1>5, <2>1, <2>2
<1>8. ASSUME NEW r \in Requests, Abort(r) PROVE AloneUser(u)'
  <2>1. u \in Ids \ overlapped /\ users[u] = intended[u] /\ UNCHANGED <<users, intended>>
    BY <1>8 DEF Abort, Ids, AloneInv, AloneUser
  <2>2. QED
    BY <1>5, <1>8, <2>1 DEF Abort
<1>9. CASE UNCHANGED vars
  BY <1>1, <1>9 DEF vars, Ids
<1>10. QED
  BY <1>2, <1>3, <1>4, <1>6, <1>7, <1>8, <1>9, NextCases

-----------------------------------------------------------------------------
\* Verified phones of users whose phone was never edited.

LEMMA ProvenGrows == ASSUME TypeOK, [Next]_vars PROVE proven \subseteq proven'
<1>1. ASSUME NEW r \in Requests, NEW e \in Emails \cup {Null}, NEW p \in Phones \cup {Null},
             SaveUser(r, e, p)
      PROVE  proven \subseteq proven'
  BY <1>1 DEF SaveUser
<1>2. QED
  BY <1>1, NextCases DEF IsInsert, IsSignIn, IsFind, SaveVerified, Abort, vars

LEMMA StepPhone == TypeOK /\ PhoneInv /\ [Next]_vars => PhoneInv'
<1> SUFFICES ASSUME TypeOK, PhoneInv, [Next]_vars, NEW u \in Ids', u \notin rephoned'
             PROVE  KeptPhone(u)'
  BY DEF PhoneInv
<1>0. proven \subseteq proven'
  BY ProvenGrows
<1>1. ASSUME u \in Ids \ rephoned, users'[u] = users[u],
             \A q \in Requests : pk'[q] = u => pk[q] = u /\ read'[q] = read[q] /\ pc'[q] = pc[q]
      PROVE  KeptPhone(u)'
  BY <1>0, <1>1 DEF PhoneInv, KeptPhone
<1>2. ASSUME NEW v \in Users, NEW row \in Row, IsInsert(v, row) PROVE KeptPhone(u)'
  <2>1. Insert(v, row)
    BY <1>2 DEF IsInsert
  <2>2. /\ Ids' = Ids \cup {v} /\ v \notin Ids
        /\ users'[v] = row
        /\ \A x \in Ids : users'[x] = users[x]
        /\ \A r \in Requests : pk[r] # v
        /\ UNCHANGED <<pc, pk, read, rephoned, overlapped>>
    BY <2>1, InsertEffect
  <2>3. CASE u = v
    <3>1. row.phone_verified => <<v, row.phone>> \in proven'
      BY <1>2 DEF IsInsert
    <3>2. QED
      BY <2>2, <2>3, <3>1 DEF KeptPhone
  <2>4. CASE u # v
    BY <1>1, <2>2, <2>4
  <2>5. QED
    BY <2>3, <2>4
<1>3. ASSUME NEW v \in Ids, IsSignIn(v) PROVE KeptPhone(u)'
  BY <1>1, <1>3 DEF IsSignIn, Ids
<1>4. ASSUME NEW r \in Requests, NEW v \in Ids, NEW next \in {"verify", "patch", "upgrade"},
             IsFind(r, v, next)
      PROVE  KeptPhone(u)'
  <2>1. Find(r, v, next) /\ UNCHANGED <<users, rephoned>> /\ u \in Ids \ rephoned
    BY <1>4 DEF IsFind, Ids
  <2>2. /\ pk'[r] = v /\ read'[r] = users[v] /\ pc'[r] = next
        /\ \A q \in Requests \ {r} : pk'[q] = pk[q] /\ read'[q] = read[q] /\ pc'[q] = pc[q]
    BY <2>1, FindEffect
  <2>3. CASE u = v
    <3>1. users[u].phone_verified \/ next = "verify" => <<u, users[u].phone>> \in proven'
      BY <1>0, <1>4, <2>1, <2>3 DEF IsFind, PhoneInv, KeptPhone
    <3>2. KeptPhone(u)
      BY <2>1 DEF PhoneInv
    <3>3. QED
      BY <1>0, <2>1, <2>2, <2>3, <3>1, <3>2 DEF KeptPhone
  <2>4. CASE u # v
    BY <1>1, <2>1, <2>2, <2>4
  <2>5. QED
    BY <2>3, <2>4
\* The end of a request that left phone and proof of u in order.
<1>5. ASSUME NEW r \in Requests, Done(r), u \in Ids \ rephoned,
             users'[u].phone = users[u].phone,
             users'[u].phone_verified => users[u].phone_verified
                \/ (pk[r] = u /\ (read[r].phone_verified \/ pc[r] = "verify"))
      PROVE  KeptPhone(u)'
  <2>1. /\ pk'[r] = Null /\ u # Null
        /\ \A q \in Requests \ {r} : pk'[q] = pk[q] /\ read'[q] = read[q] /\ pc'[q] = pc[q]
    BY <1>5, DoneEffect, NullAssumption DEF TypeOK
  <2>2. KeptPhone(u)
    BY <1>5 DEF PhoneInv
  <2>3. users'[u].phone_verified => <<u, users[u].phone>> \in proven'
    BY <1>0, <1>5, <2>2 DEF KeptPhone
  <2>4. QED
    BY <1>0, <1>5, <2>1, <2>2, <2>3 DEF KeptPhone
<1>6. ASSUME NEW r \in Requests, SaveVerified(r) PROVE KeptPhone(u)'
  <2> DEFINE v == pk[r]
  <2>1. /\ Ids' = Ids /\ v \in Ids /\ pc[r] = "verify"
        /\ users'[v] = [users[v] EXCEPT !.phone_verified = TRUE]
        /\ \A x \in Ids \ {v} : users'[x] = users[x]
        /\ Done(r) /\ rephoned' = rephoned
    BY <1>6, SaveVerifiedEffect
  <2>2. users[v] \in Row
    BY <2>1 DEF TypeOK
  <2>3. users'[v].phone = users[v].phone
    BY <2>1, <2>2 DEF Row
  <2>4. QED
    BY <1>5, <2>1, <2>3
<1>7. ASSUME NEW r \in Requests, NEW e \in Emails \cup {Null}, NEW p \in Phones \cup {Null},
             SaveUser(r, e, p)
      PROVE  KeptPhone(u)'
  <2> DEFINE v == pk[r]
             new == Edit(r, read[r], e, p)
  <2>1. /\ Ids' = Ids /\ v \in Ids
        /\ users'[v] = new
        /\ \A x \in Ids \ {v} : users'[x] = users[x]
        /\ rephoned' = IF p = Null THEN rephoned ELSE rephoned \cup {v}
        /\ Done(r)
    BY <1>7, SaveUserEffect
  <2>2. read[r] \in Row
    BY DEF TypeOK
  <2>3. /\ new.phone_verified = read[r].phone_verified
        /\ p = Null => new.phone = read[r].phone
    BY <2>2, EditType
  <2> HIDE DEF new
  <2>4. CASE u = v
    <3>1. p = Null /\ u \in Ids \ rephoned
      BY <2>1, <2>4
    <3>2. read[r].phone = users[u].phone
      BY <2>4, <3>1 DEF PhoneInv, KeptPhone
    <3>3. QED
      BY <1>5, <2>1, <2>3, <2>4, <3>1, <3>2
  <2>5. CASE u # v
    <3>1. u \in Ids \ rephoned /\ users'[u] = users[u]
      BY <2>1, <2>5
    <3>2. users'[u].phone_verified => users[u].phone_verified
      BY <3>1, Zenon
    <3>3. QED
      BY <1>5, <2>1, <3>1, <3>2
  <2>6. QED
    BY <2>4, <2>5
<1>8. ASSUME NEW r \in Requests, Abort(r) PROVE KeptPhone(u)'
  <2>1. Done(r) /\ UNCHANGED <<users, rephoned>> /\ u \in Ids \ rephoned
    BY <1>8 DEF Abort, Ids
  <2>2. users'[u] = users[u]
    BY <2>1
  <2>3. users'[u].phone_verified => users[u].phone_verified
    BY <2>2, Zenon
  <2>4. QED
    BY <1>5, <2>1, <2>2, <2>3
<1>9. CASE UNCHANGED vars
  BY <1>1, <1>9 DEF vars, Ids
<1>10. QED
  BY <1>2, <1>3, <1>4, <1>6, <1>7, <1>8, <1>9, NextCases

-----------------------------------------------------------------------------
\* Whoever is called verified has proven a phone.

LEMMA StepEarned == TypeOK /\ EarnedInv /\ [Next]_vars => EarnedInv'
<1> SUFFICES ASSUME TypeOK, EarnedInv, [Next]_vars PROVE EarnedInv'
  OBVIOUS
<1>0. \A u : Proved(u) => Proved(u)'
  BY ProvenGrows DEF Proved
\* What is read, held or signed comes from rows and reads that were in order.
<1>1. ASSUME \A u \in Ids' : users'[u].phone_verified => Proved(u)',
             \A r \in Requests : pc'[r] # "idle" =>
               \/ pc'[r] = pc[r] /\ pk'[r] = pk[r] /\ read'[r] = read[r]
               \/ read'[r].phone_verified \/ pc'[r] = "verify" => \E u : pk'[r] = u /\ Proved(u)',
             \A t \in tokens' \ tokens : t.phoneVerified => \E u : t.sub = u /\ Proved(u)'
      PROVE  EarnedInv'
  <2>1. \A r \in Requests : pc'[r] # "idle" /\ (read'[r].phone_verified \/ pc'[r] = "verify")
          => \E u : pk'[r] = u /\ Proved(u)'
    BY <1>0, <1>1 DEF EarnedInv
  <2>2. \A t \in tokens' : t.phoneVerified => \E u : t.sub = u /\ Proved(u)'
    BY <1>0, <1>1 DEF EarnedInv
  <2>3. QED
    BY <1>1, <2>1, <2>2 DEF EarnedInv, Proved
<1>2. ASSUME NEW v \in Users, NEW row \in Row, IsInsert(v, row) PROVE EarnedInv'
  <2>1. Insert(v, row)
    BY <1>2 DEF IsInsert
  <2>2. /\ Ids' = Ids \cup {v}
        /\ users'[v] = row
        /\ \A x \in Ids : users'[x] = users[x]
        /\ tokens' = tokens \cup {Claims(v, row)}
        /\ UNCHANGED <<pc, pk, read>>
    BY <2>1, InsertEffect
  <2>3. row.phone_verified => Proved(v)'
    BY <1>2 DEF IsInsert, Proved
  <2>4. \A u \in Ids' : users'[u].phone_verified => Proved(u)'
    BY <1>0, <2>2, <2>3 DEF EarnedInv
  <2>5. Claims(v, row).phoneVerified = row.phone_verified /\ Claims(v, row).sub = v
    BY DEF Claims
  <2>6. QED
    BY <1>1, <2>2, <2>3, <2>4, <2>5
<1>3. ASSUME NEW v \in Ids, IsSignIn(v) PROVE EarnedInv'
  <2>1. Claims(v, users[v]).phoneVerified = users[v].phone_verified /\ Claims(v, users[v]).sub = v
    BY DEF Claims
  <2>2. \A u \in Ids' : users'[u].phone_verified => Proved(u)'
    BY <1>0, <1>3 DEF IsSignIn, EarnedInv, Ids
  <2>3. \A t \in tokens' \ tokens : t.phoneVerified => t.sub = v /\ Proved(v)'
    BY <1>0, <1>3, <2>1 DEF IsSignIn, EarnedInv
  <2>4. UNCHANGED <<pc, pk, read>>
    BY <1>3 DEF IsSignIn
  <2>5. QED
    BY <1>1, <2>2, <2>3, <2>4
<1>4. ASSUME NEW r \in Requests, NEW v \in Ids, NEW next \in {"verify", "patch", "upgrade"},
             IsFind(r, v, next)
      PROVE  EarnedInv'
  <2>1. Find(r, v, next) /\ UNCHANGED <<users, tokens>>
    BY <1>4 DEF IsFind
  <2>2. /\ pk'[r] = v /\ read'[r] = users[v] /\ pc'[r] = next
        /\ \A q \in Requests \ {r} : pk'[q] = pk[q] /\ read'[q] = read[q] /\ pc'[q] = pc[q]
    BY <2>1, FindEffect
  <2>3. users[v].phone_verified \/ next = "verify" => Proved(v)'
    BY <1>0, <1>4 DEF IsFind, EarnedInv, Proved
  <2>4. \A u \in Ids' : users'[u].phone_verified => Proved(u)'
    BY <1>0, <2>1 DEF EarnedInv, Ids
  <2>5. QED
    BY <1>1, <2>1, <2>2, <2>3, <2>4
<1>5. ASSUME NEW r \in Requests, NEW v, v = pk[r], pc[r] # "idle", Done(r), Ids' = Ids,
             \A x \in Ids \ {v} : users'[x] = users[x],
             users'[v].phone_verified => users[v].phone_verified
               \/ read[r].phone_verified \/ pc[r] = "verify",
             \A t \in tokens' \ tokens : t.sub = v /\
               (t.phoneVerified => read[r].phone_verified \/ pc[r] = "verify")
      PROVE  EarnedInv'
  <2>1. read[r].phone_verified \/ pc[r] = "verify" => Proved(v)'
    <3>1. read[r].phone_verified \/ pc[r] = "verify" => Proved(v)
      BY <1>5 DEF EarnedInv, Proved
    <3>2. QED
      BY <1>0, <3>1
  <2>2. \A u \in Ids' : users'[u].phone_verified => Proved(u)'
    BY <1>0, <1>5, <2>1 DEF EarnedInv
  <2>3. \A t \in tokens' \ tokens : t.phoneVerified => \E u : t.sub = u /\ Proved(u)'
    BY <1>5, <2>1
  <2>4. /\ pc'[r] = "idle"
        /\ \A q \in Requests \ {r} : pk'[q] = pk[q] /\ read'[q] = read[q] /\ pc'[q] = pc[q]
    BY <1>5, DoneEffect
  <2>5. QED
    BY <1>1, <2>2, <2>3, <2>4
<1>6. ASSUME NEW r \in Requests, SaveVerified(r) PROVE EarnedInv'
  <2> DEFINE v == pk[r]
             signed == [read[r] EXCEPT !.phone_verified = TRUE]
  <2>1. /\ Ids' = Ids /\ pc[r] = "verify"
        /\ \A x \in Ids \ {v} : users'[x] = users[x]
        /\ tokens' = tokens \cup {Claims(v, signed)}
        /\ Done(r)
    BY <1>6, SaveVerifiedEffect
  <2>2. Claims(v, signed).sub = v
    BY DEF Claims
  <2>3. QED
    BY <1>5, <2>1, <2>2
<1>7. ASSUME NEW r \in Requests, NEW e \in Emails \cup {Null}, NEW p \in Phones \cup {Null},
             SaveUser(r, e, p)
      PROVE  EarnedInv'
  <2> DEFINE v == pk[r]
             new == Edit(r, read[r], e, p)
  <2>1. /\ Ids' = Ids /\ users'[v] = new
        /\ \A x \in Ids \ {v} : users'[x] = users[x]
        /\ tokens' \subseteq tokens \cup {Claims(v, new)}
        /\ Done(r)
    BY <1>7, SaveUserEffect
  <2>2. new.phone_verified = read[r].phone_verified
    BY EditType DEF TypeOK
  <2>3. Claims(v, new).sub = v /\ Claims(v, new).phoneVerified = new.phone_verified
    BY DEF Claims
  <2>4. pc[r] # "idle"
    BY <1>7 DEF SaveUser
  <2> HIDE DEF new
  <2>5. QED
    BY <1>5, <2>1, <2>2, <2>3, <2>4
<1>8. ASSUME NEW r \in Requests, Abort(r) PROVE EarnedInv'
  <2>1. Done(r) /\ UNCHANGED <<users, tokens>> /\ pc[r] # "idle" /\ Ids' = Ids
    BY <1>8 DEF Abort, Ids
  <2>2. QED
    BY <1>5, <2>1
<1>9. CASE UNCHANGED vars
  BY <1>9 DEF vars, Ids, EarnedInv, Proved
<1>10. QED
  BY <1>2, <1>3, <1>4, <1>6, <1>7, <1>8, <1>9, NextCases

-----------------------------------------------------------------------------
LEMMA StepInv == IInv /\ [Next]_vars => IInv'
  BY StepType, StepAlone, StepPhone, StepEarned DEF IInv

\* Every variable keeps its type, and whoever counts as a guest has a device.
THEOREM TypeCorrect == Spec => []TypeOK
<1>1. IInv => TypeOK
  BY DEF IInv
<1>2. QED
  BY <1>1, InitInv, StepInv, PTL DEF Spec

\* The row of a user whom one request at a time worked on is what those that
\* succeeded asked for.
THEOREM EditsKept == Spec => []EditsKeptUnlessOverlapped
<1>1. IInv => EditsKeptUnlessOverlapped
  BY DEF IInv, AloneInv, AloneUser, EditsKeptUnlessOverlapped
<1>2. QED
  BY <1>1, InitInv, StepInv, PTL DEF Spec

\* The phone of a verified user was proven, unless an upgrade or an edit set it,
\* whatever requests overlap.
THEOREM PhoneProven == Spec => []VerifiedPhoneIsProvenUnlessEdited
<1>1. IInv => VerifiedPhoneIsProvenUnlessEdited
  BY DEF IInv, PhoneInv, KeptPhone, VerifiedPhoneIsProvenUnlessEdited
<1>2. QED
  BY <1>1, InitInv, StepInv, PTL DEF Spec

\* Every token good for the actions of verified users belongs to one who proved
\* a phone.
THEOREM ClaimEarned == Spec => []VerifiedClaimIsEarned
<1>1. IInv => VerifiedClaimIsEarned
  BY DEF IInv, EarnedInv, Proved, VerifiedClaimIsEarned, IsVerifiedUser
<1>2. QED
  BY <1>1, InitInv, StepInv, PTL DEF Spec

-----------------------------------------------------------------------------
\* One phone proves one user.

\* A step that gives the user w the phone x, with no other row having it, keeps
\* phones apart.
LEMMA DifferKept ==
  ASSUME PhonesDiffer, NEW w, Ids' \subseteq Ids \cup {w},
         \A u \in Ids' \ {w} : users'[u].phone = users[u].phone,
         users'[w].phone = Null \/ \A u \in Ids' \ {w} : users'[u].phone # users'[w].phone
  PROVE  PhonesDiffer'
  BY DEF PhonesDiffer

LEMMA StepDiffer == TypeOK /\ PhonesDiffer /\ [Next]_vars => PhonesDiffer'
<1> SUFFICES ASSUME TypeOK, PhonesDiffer, [Next]_vars PROVE PhonesDiffer'
  OBVIOUS
<1>1. ASSUME users' = users PROVE PhonesDiffer'
  BY <1>1 DEF PhonesDiffer, Ids
<1>2. ASSUME NEW v \in Users, NEW row \in Row, IsInsert(v, row) PROVE PhonesDiffer'
  <2>1. Insert(v, row)
    BY <1>2 DEF IsInsert
  <2>2. /\ Ids' = Ids \cup {v} /\ v \notin Ids /\ users'[v] = row
        /\ \A u \in Ids : users'[u] = users[u]
    BY <2>1, InsertEffect
  <2>3. row.phone # Null => \A u \in Ids \ {v} : users[u].phone # row.phone
    BY <2>1 DEF Insert, Unique
  <2>4. QED
    BY <2>2, <2>3, DifferKept
<1>3. ASSUME NEW r \in Requests, SaveVerified(r) PROVE PhonesDiffer'
  <2> DEFINE v == pk[r]
  <2>1. /\ Ids' = Ids /\ v \in Ids
        /\ users'[v] = [users[v] EXCEPT !.phone_verified = TRUE]
        /\ \A u \in Ids \ {v} : users'[u] = users[u]
    BY <1>3, SaveVerifiedEffect
  <2>2. users[v] \in Row
    BY <2>1 DEF TypeOK
  <2>3. users'[v].phone = users[v].phone
    BY <2>1, <2>2 DEF Row
  <2>4. \A u \in Ids : users'[u].phone = users[u].phone
    BY <2>1, <2>3
  <2>5. QED
    BY <2>1, <2>4 DEF PhonesDiffer
<1>4. ASSUME NEW r \in Requests, NEW e \in Emails \cup {Null}, NEW p \in Phones \cup {Null},
             SaveUser(r, e, p)
      PROVE  PhonesDiffer'
  <2> DEFINE v == pk[r]
             new == Edit(r, read[r], e, p)
  <2>1. /\ Ids' = Ids /\ v \in Ids /\ users'[v] = new
        /\ \A u \in Ids \ {v} : users'[u] = users[u]
    BY <1>4, SaveUserEffect
  <2>2. Unique(v, new)
    BY <1>4 DEF SaveUser, Saved
  <2>3. new.phone # Null => \A u \in Ids \ {v} : users[u].phone # new.phone
    BY <2>2 DEF Unique
  <2> HIDE DEF new, v
  <2>4. QED
    BY <2>1, <2>3, DifferKept
<1>5. QED
  BY <1>1, <1>2, <1>3, <1>4, NextCases DEF IsSignIn, IsFind, Abort, vars

LEMMA StepHeld == TypeOK /\ PhoneInv /\ ProvenIsHeld /\ [Next]_vars => ProvenIsHeld'
<1> SUFFICES ASSUME TypeOK, PhoneInv, ProvenIsHeld, [Next]_vars,
                    NEW u \in Ids', u \notin rephoned', NEW p, <<u, p>> \in proven'
             PROVE  p = users'[u].phone
  BY DEF ProvenIsHeld
<1>1. ASSUME u \in Ids \ rephoned, users'[u].phone = users[u].phone,
             <<u, p>> \in proven \/ p = users[u].phone
      PROVE  p = users'[u].phone
  BY <1>1 DEF ProvenIsHeld
<1>2. ASSUME NEW v \in Users, NEW row \in Row, IsInsert(v, row) PROVE p = users'[u].phone
  <2>1. Insert(v, row)
    BY <1>2 DEF IsInsert
  <2>2. /\ Ids' = Ids \cup {v} /\ v \notin Ids /\ users'[v] = row
        /\ \A x \in Ids : users'[x] = users[x]
        /\ rephoned' = rephoned
    BY <2>1, InsertEffect
  <2>3. \A q : <<v, q>> \notin proven
    BY <2>2 DEF TypeOK
  <2>4. CASE u = v
    BY <1>2, <2>2, <2>3, <2>4 DEF IsInsert
  <2>5. CASE u # v
    <3>1. <<u, p>> \in proven
      BY <1>2, <2>5 DEF IsInsert
    <3>2. QED
      BY <1>1, <2>2, <2>5, <3>1
  <2>6. QED
    BY <2>4, <2>5
<1>3. ASSUME NEW v \in Ids, IsSignIn(v) PROVE p = users'[u].phone
  <2>1. /\ users' = users /\ rephoned' = rephoned
        /\ <<u, p>> \in proven \/ <<u, p>> = <<v, users[v].phone>>
    BY <1>3 DEF IsSignIn
  <2>2. QED
    BY <1>1, <2>1 DEF Ids
<1>4. ASSUME NEW r \in Requests, NEW v \in Ids, NEW next \in {"verify", "patch", "upgrade"},
             IsFind(r, v, next)
      PROVE  p = users'[u].phone
  <2>1. /\ users' = users /\ rephoned' = rephoned
        /\ <<u, p>> \in proven \/ <<u, p>> = <<v, users[v].phone>>
    BY <1>4 DEF IsFind
  <2>2. QED
    BY <1>1, <2>1 DEF Ids
<1>5. ASSUME NEW r \in Requests, SaveVerified(r) PROVE p = users'[u].phone
  <2> DEFINE v == pk[r]
  <2>1. /\ Ids' = Ids /\ v \in Ids /\ UNCHANGED <<proven, rephoned>>
        /\ users'[v] = [users[v] EXCEPT !.phone_verified = TRUE]
        /\ \A x \in Ids \ {v} : users'[x] = users[x]
    BY <1>5, SaveVerifiedEffect
  <2>2. users[v] \in Row
    BY <2>1 DEF TypeOK
  <2>3. users'[v].phone = users[v].phone
    BY <2>1, <2>2 DEF Row
  <2>4. QED
    BY <1>1, <2>1, <2>3
<1>6. ASSUME NEW r \in Requests, NEW e \in Emails \cup {Null}, NEW q \in Phones \cup {Null},
             SaveUser(r, e, q)
      PROVE  p = users'[u].phone
  <2> DEFINE v == pk[r]
             new == Edit(r, read[r], e, q)
  <2>1. /\ Ids' = Ids /\ v \in Ids /\ users'[v] = new /\ proven' = proven
        /\ \A x \in Ids \ {v} : users'[x] = users[x]
        /\ rephoned' = IF q = Null THEN rephoned ELSE rephoned \cup {v}
    BY <1>6, SaveUserEffect
  <2>2. q = Null => new.phone = read[r].phone
    BY EditType DEF TypeOK
  <2> HIDE DEF new
  <2>3. CASE u = v
    <3>1. q = Null /\ u \in Ids \ rephoned
      BY <2>1, <2>3
    <3>2. read[r].phone = users[u].phone
      BY <2>3, <3>1 DEF PhoneInv, KeptPhone
    <3>3. QED
      BY <1>1, <2>1, <2>2, <2>3, <3>1, <3>2
  <2>4. CASE u # v
    <3>1. u \in Ids \ rephoned /\ users'[u] = users[u]
      BY <2>1, <2>4
    <3>2. QED
      BY <1>1, <2>1, <3>1
  <2>5. QED
    BY <2>3, <2>4
<1>7. ASSUME UNCHANGED <<users, rephoned, proven>> PROVE p = users'[u].phone
  BY <1>1, <1>7 DEF Ids
<1>8. QED
  BY <1>2, <1>3, <1>4, <1>5, <1>6, <1>7, NextCases DEF Abort, vars

LEMMA ProvenOnce == Spec => [](ProvenApart /\ ProvenIsHeld)
<1> DEFINE Held == IInv /\ PhonesDiffer /\ ProvenIsHeld
<1>1. Init => Held
  BY InitInv DEF Init, Ids, PhonesDiffer, ProvenIsHeld
<1>2. Held /\ [Next]_vars => Held'
  BY StepInv, StepDiffer, StepHeld DEF IInv
<1>3. Held => ProvenApart /\ ProvenIsHeld
  <2> SUFFICES ASSUME Held, NEW u \in Ids \ rephoned, NEW v \in Ids \ rephoned, NEW p,
                      <<u, p>> \in proven, <<v, p>> \in proven
               PROVE  u = v
    BY DEF ProvenApart
  <2>1. p = users[u].phone /\ p = users[v].phone
    BY DEF ProvenIsHeld
  <2>2. p # Null
    BY NullAssumption DEF IInv, TypeOK
  <2>3. QED
    BY <2>1, <2>2 DEF PhonesDiffer
<1> HIDE DEF Held
<1>4. QED
  BY <1>1, <1>2, <1>3, PTL DEF Spec
=============================================================================
