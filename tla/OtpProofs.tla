----------------------------- MODULE OtpProofs -----------------------------
(***************************************************************************)
(* Proofs about Otp, for every set of phones, rows and requests and every  *)
(* limit and lifetime.                                                     *)
(***************************************************************************)
EXTENDS Otp, FiniteSetTheorems, TLAPS

\* Requests verifying row i.
Holds(r, i) == r \in Verifying /\ otp[r] = i

\* A row that no two requests ever held counts its misses right, signs nobody in
\* but by being consumed, and has one holder at most, who knows its attempts.
AloneRow(i) ==
  /\ otp_codes[i].attempts = otp_codes[i].misses
  /\ otp_codes[i].logins = IF otp_codes[i].consumed THEN 1 ELSE 0
  /\ \A q1, q2 \in Requests : Holds(q1, i) /\ Holds(q2, i) => q1 = q2
  /\ \A q \in Requests : Holds(q, i) =>
       /\ attempts[q] = otp_codes[i].attempts
       /\ attempts[q] < MaxAttempts
       /\ ~otp_codes[i].consumed
AloneInv == \A i \in Ids \ overlapped : AloneRow(i)

\* What a request read of a row was below the limit.
SeenInv == \A r \in Requests : pc[r] \in {"miss", "hit"} => attempts[r] < MaxAttempts

IInv == TypeOK /\ SeenInv /\ AloneInv

-----------------------------------------------------------------------------

LEMMA InitType == Init => TypeOK
  BY NobodyAssumption, TimeAssumption DEF Init, TypeOK, Ids, Row

LEMMA HolderRow ==
  ASSUME TypeOK, NEW r \in Requests, pc[r] \in {"send", "miss", "hit"}
  PROVE  otp[r] \in Ids
  BY DEF TypeOK

\* What FindOtp knows of the row it picks.
LEMMA FindEffect ==
  ASSUME TypeOK, NEW r \in Requests, NEW p \in Phones, FindOtp(r, p)
  PROVE  \E i \in Ids :
           /\ otp_codes[i].attempts < MaxAttempts
           /\ ~otp_codes[i].consumed
           /\ \E answer \in {"miss", "hit"} : pc' = [pc EXCEPT ![r] = answer]
           /\ otp' = [otp EXCEPT ![r] = i]
           /\ attempts' = [attempts EXCEPT ![r] = otp_codes[i].attempts]
           /\ overlapped' = IF \E q \in Verifying : otp[q] = i
                            THEN overlapped \cup {i} ELSE overlapped
<1>1. PICK i \in Newest(Candidates(p)) :
        /\ ~Locked(i)
        /\ \E answer \in {"miss", "hit"} : pc' = [pc EXCEPT ![r] = answer]
        /\ otp' = [otp EXCEPT ![r] = i]
        /\ attempts' = [attempts EXCEPT ![r] = otp_codes[i].attempts]
        /\ overlapped' = IF \E q \in Verifying : otp[q] = i
                         THEN overlapped \cup {i} ELSE overlapped
  BY DEF FindOtp
<1>2. i \in Ids /\ ~otp_codes[i].consumed
  BY DEF Newest, Candidates
<1>3. otp_codes[i].attempts < MaxAttempts
  BY <1>1, <1>2, LimitAssumption DEF Locked, TypeOK, Row
<1>4. QED
  BY <1>1, <1>2, <1>3

LEMMA StepType == TypeOK /\ SeenInv /\ [Next]_vars => TypeOK' /\ SeenInv'
<1> SUFFICES ASSUME TypeOK, SeenInv, [Next]_vars PROVE TypeOK' /\ SeenInv'
  OBVIOUS
<1> USE NobodyAssumption, LimitAssumption, TimeAssumption, ProductionAssumption
<1>1. ASSUME NEW r \in Requests, NEW p \in Phones, CountRecent(r, p)
      PROVE  TypeOK' /\ SeenInv'
  BY <1>1 DEF CountRecent, TypeOK, SeenInv, Ids
<1>2. ASSUME NEW r \in Requests, CreateOtp(r) PROVE TypeOK' /\ SeenInv'
  <2>1. PICK i \in Codes \ Ids :
          /\ otp_codes' =
               [x \in Ids \cup {i} |->
                 IF x = i THEN [phone |-> phone[r], created_at |-> now,
                                expires_at |-> now + OtpTTL, attempts |-> 0,
                                consumed |-> FALSE, failed |-> FALSE,
                                misses |-> 0, logins |-> 0]
                          ELSE otp_codes[x]]
          /\ otp' = [otp EXCEPT ![r] = i]
    BY <1>2 DEF CreateOtp
  <2>2. Ids' = Ids \cup {i}
    BY <2>1 DEF Ids
  <2>3. phone[r] \in Phones /\ pc[r] = "create"
    BY <1>2 DEF CreateOtp, TypeOK
  <2>4. /\ otp_codes' \in [Ids' -> Row]
        /\ \A x \in Ids' : otp_codes'[x].attempts <= MaxAttempts
    BY <2>1, <2>2, <2>3 DEF TypeOK, Row
  <2>5. otp' \in [Requests -> Ids' \cup {Nobody}]
    BY <2>1, <2>2 DEF TypeOK
  <2>6. \A q \in Requests : otp'[q] # Nobody <=> pc'[q] \in {"send", "miss", "hit"}
    BY <1>2, <2>1 DEF CreateOtp, TypeOK
  <2>7. \A q \in Requests : phone'[q] # Nobody <=> pc'[q] \in {"create", "send"}
    BY <1>2, <2>3 DEF CreateOtp, TypeOK
  <2>8. SeenInv'
    BY <1>2 DEF CreateOtp, TypeOK, SeenInv
  <2>9. QED
    BY <1>2, <2>2, <2>4, <2>5, <2>6, <2>7, <2>8 DEF CreateOtp, TypeOK
<1>3. ASSUME NEW r \in Requests, SendOtpSms(r) PROVE TypeOK' /\ SeenInv'
  <2>1. otp[r] \in Ids
    BY <1>3, HolderRow DEF SendOtpSms
  <2>2. /\ Ids' = Ids
        /\ otp_codes' \in [Ids -> Row]
        /\ \A i \in Ids : otp_codes'[i].attempts <= MaxAttempts
    BY <1>3, <2>1 DEF SendOtpSms, TypeOK, Ids, Row
  <2>3. QED
    BY <1>3, <2>2 DEF SendOtpSms, Done, TypeOK, SeenInv
<1>4. ASSUME NEW r \in Requests, NEW p \in Phones, FindOtp(r, p)
      PROVE  TypeOK' /\ SeenInv'
  <2>1. PICK i \in Ids :
          /\ otp_codes[i].attempts < MaxAttempts
          /\ \E answer \in {"miss", "hit"} : pc' = [pc EXCEPT ![r] = answer]
          /\ otp' = [otp EXCEPT ![r] = i]
          /\ attempts' = [attempts EXCEPT ![r] = otp_codes[i].attempts]
          /\ overlapped' = IF \E q \in Verifying : otp[q] = i
                           THEN overlapped \cup {i} ELSE overlapped
    BY <1>4, FindEffect
  <2>2. PICK answer \in {"miss", "hit"} : pc' = [pc EXCEPT ![r] = answer]
    BY <2>1
  <2>3. Ids' = Ids /\ otp_codes[i].attempts \in Nat
    BY <1>4 DEF FindOtp, Ids, TypeOK, Row
  <2>4. QED
    BY <1>4, <2>1, <2>2, <2>3 DEF FindOtp, TypeOK, SeenInv
<1>5. ASSUME NEW r \in Requests, SaveMiss(r) PROVE TypeOK' /\ SeenInv'
  <2>1. otp[r] \in Ids /\ attempts[r] \in Nat /\ attempts[r] < MaxAttempts
    BY <1>5, HolderRow DEF SaveMiss, TypeOK, SeenInv
  <2>2. /\ Ids' = Ids
        /\ otp_codes' \in [Ids -> Row]
        /\ \A i \in Ids : otp_codes'[i].attempts <= MaxAttempts
    BY <1>5, <2>1 DEF SaveMiss, TypeOK, Ids, Row
  <2>3. QED
    BY <1>5, <2>2 DEF SaveMiss, Done, TypeOK, SeenInv
<1>6. ASSUME NEW r \in Requests, SaveHit(r) PROVE TypeOK' /\ SeenInv'
  <2>1. otp[r] \in Ids
    BY <1>6, HolderRow DEF SaveHit
  <2>2. /\ Ids' = Ids
        /\ otp_codes' \in [Ids -> Row]
        /\ \A i \in Ids : otp_codes'[i].attempts <= MaxAttempts
    <3>1. /\ Ids' = Ids
          /\ \A i \in Ids \ {otp[r]} : otp_codes'[i] = otp_codes[i]
          /\ otp_codes'[otp[r]] = [otp_codes[otp[r]] EXCEPT !.consumed = TRUE,
                                                            !.logins = @ + 1]
      BY <1>6, <2>1 DEF SaveHit, TypeOK, Ids
    <3>2. \A i \in Ids : otp_codes[i] \in Row /\ otp_codes[i].attempts <= MaxAttempts
      BY DEF TypeOK
    <3>3. \A i \in Ids : otp_codes'[i] \in Row /\ otp_codes'[i].attempts <= MaxAttempts
      <4>1. otp_codes[otp[r]] \in Row /\ otp_codes[otp[r]].logins + 1 \in Nat
        BY <2>1, <3>2 DEF Row
      <4>2. [otp_codes[otp[r]] EXCEPT !.consumed = TRUE, !.logins = @ + 1] \in Row
        BY <4>1 DEF Row
      <4>3. [otp_codes[otp[r]] EXCEPT !.consumed = TRUE, !.logins = @ + 1].attempts
              = otp_codes[otp[r]].attempts
        BY <4>1 DEF Row
      <4>4. QED
        BY <2>1, <3>1, <3>2, <4>2, <4>3
    <3>4. otp_codes' \in [Ids -> Row]
      BY <1>6, <3>1, <3>3 DEF SaveHit, Ids, TypeOK
    <3>5. QED
      BY <3>1, <3>3, <3>4
  <2>3. QED
    BY <1>6, <2>2 DEF SaveHit, Done, TypeOK, SeenInv
<1>7. ASSUME NEW r \in Requests, Abort(r) PROVE TypeOK' /\ SeenInv'
  BY <1>7 DEF Abort, Done, TypeOK, SeenInv, Ids
<1>8. CASE Tick
  BY <1>8 DEF Tick, TypeOK, SeenInv, Ids
<1>9. CASE UNCHANGED vars
  BY <1>9 DEF vars, TypeOK, SeenInv, Ids
<1>10. QED
  BY <1>1, <1>2, <1>3, <1>4, <1>5, <1>6, <1>7, <1>8, <1>9 DEF Next

-----------------------------------------------------------------------------
\* Rows that were never verified by two requests at once.

\* A row keeps its facts when it does not change and nobody new holds it.
LEMMA AloneKept ==
  ASSUME NEW i \in Ids, AloneRow(i), i \in Ids',
         otp_codes'[i].attempts = otp_codes[i].attempts,
         otp_codes'[i].misses = otp_codes[i].misses,
         otp_codes'[i].logins = otp_codes[i].logins,
         otp_codes'[i].consumed = otp_codes[i].consumed,
         \A q \in Requests : Holds(q, i)' => Holds(q, i) /\ attempts'[q] = attempts[q]
  PROVE  AloneRow(i)'
  BY DEF AloneRow

LEMMA StepAlone ==
  TypeOK /\ SeenInv /\ AloneInv /\ [Next]_vars => AloneInv'
<1> SUFFICES ASSUME TypeOK, SeenInv, AloneInv, [Next]_vars,
                    NEW i \in Ids', i \notin overlapped'
             PROVE  AloneRow(i)'
  BY DEF AloneInv
<1>0. ASSUME i \in Ids, overlapped \subseteq overlapped' PROVE AloneRow(i)
  BY <1>0 DEF AloneInv
<1>1. ASSUME NEW r \in Requests, NEW p \in Phones, CountRecent(r, p) PROVE AloneRow(i)'
  <2>1. i \in Ids /\ otp_codes' = otp_codes /\ attempts' = attempts /\ overlapped' = overlapped
    BY <1>1 DEF CountRecent, Ids
  <2>2. \A q \in Requests : Holds(q, i)' => Holds(q, i)
    BY <1>1 DEF CountRecent, Holds, Verifying, TypeOK
  <2>3. QED
    BY <1>0, <2>1, <2>2, AloneKept
<1>2. ASSUME NEW r \in Requests, CreateOtp(r) PROVE AloneRow(i)'
  <2>1. PICK n \in Codes \ Ids :
          /\ otp_codes' =
               [x \in Ids \cup {n} |->
                 IF x = n THEN [phone |-> phone[r], created_at |-> now,
                                expires_at |-> now + OtpTTL, attempts |-> 0,
                                consumed |-> FALSE, failed |-> FALSE,
                                misses |-> 0, logins |-> 0]
                          ELSE otp_codes[x]]
          /\ otp' = [otp EXCEPT ![r] = n]
    BY <1>2 DEF CreateOtp
  <2>2. \A q \in Requests : q \in Verifying' =>
          q \in Verifying /\ otp'[q] = otp[q] /\ attempts'[q] = attempts[q]
    BY <1>2, <2>1 DEF CreateOtp, Verifying, TypeOK
  <2>3. \A q \in Verifying : otp[q] \in Ids
    BY HolderRow DEF Verifying
  <2>4. CASE i = n
    <3>1. \A q \in Requests : ~Holds(q, i)'
      BY <2>1, <2>2, <2>3, <2>4 DEF Holds
    <3>2. /\ otp_codes'[i].attempts = otp_codes'[i].misses
          /\ otp_codes'[i].logins = 0
          /\ otp_codes'[i].consumed = FALSE
      BY <2>1, <2>4
    <3>3. QED
      BY <3>1, <3>2 DEF AloneRow
  <2>5. CASE i # n
    <3>1. i \in Ids /\ otp_codes'[i] = otp_codes[i]
      BY <2>1, <2>5 DEF Ids
    <3>2. \A q \in Requests : Holds(q, i)' => Holds(q, i) /\ attempts'[q] = attempts[q]
      BY <2>2 DEF Holds
    <3>3. AloneRow(i)
      BY <1>2, <1>0, <3>1 DEF CreateOtp
    <3>4. QED
      BY <3>1, <3>2, <3>3, AloneKept
  <2>6. QED
    BY <2>4, <2>5
<1>3. ASSUME NEW r \in Requests, SendOtpSms(r) PROVE AloneRow(i)'
  <2>1. i \in Ids /\ overlapped' = overlapped /\ otp[r] \in Ids
    BY <1>3, HolderRow DEF SendOtpSms, Ids
  <2>2. /\ otp_codes'[i].attempts = otp_codes[i].attempts
        /\ otp_codes'[i].misses = otp_codes[i].misses
        /\ otp_codes'[i].logins = otp_codes[i].logins
        /\ otp_codes'[i].consumed = otp_codes[i].consumed
    BY <1>3, <2>1 DEF SendOtpSms, TypeOK, Row
  <2>3. \A q \in Requests : Holds(q, i)' => Holds(q, i) /\ attempts'[q] = attempts[q]
    BY <1>3 DEF SendOtpSms, Done, Holds, Verifying, TypeOK
  <2>4. QED
    BY <1>0, <2>1, <2>2, <2>3, AloneKept
<1>4. ASSUME NEW r \in Requests, NEW p \in Phones, FindOtp(r, p) PROVE AloneRow(i)'
  <2>1. PICK n \in Ids :
          /\ otp_codes[n].attempts < MaxAttempts
          /\ ~otp_codes[n].consumed
          /\ \E answer \in {"miss", "hit"} : pc' = [pc EXCEPT ![r] = answer]
          /\ otp' = [otp EXCEPT ![r] = n]
          /\ attempts' = [attempts EXCEPT ![r] = otp_codes[n].attempts]
          /\ overlapped' = IF \E q \in Verifying : otp[q] = n
                           THEN overlapped \cup {n} ELSE overlapped
    BY <1>4, FindEffect
  <2>2. i \in Ids /\ otp_codes' = otp_codes /\ AloneRow(i)
    BY <1>0, <1>4, <2>1 DEF FindOtp, Ids
  <2>3. \A q \in Requests \ {r} : Holds(q, i)' => Holds(q, i) /\ attempts'[q] = attempts[q]
    BY <2>1 DEF Holds, Verifying, TypeOK
  <2>4. CASE i = n
    <3>1. \A q \in Requests : ~Holds(q, i)
      BY <2>1, <2>4 DEF Holds
    <3>2. \A q \in Requests : Holds(q, i)' => q = r
      BY <2>3, <3>1
    <3>3. attempts'[r] = otp_codes[i].attempts
      BY <2>1, <2>4 DEF TypeOK
    <3>4. QED
      BY <2>1, <2>2, <2>4, <3>2, <3>3 DEF AloneRow
  <2>5. CASE i # n
    <3>1. ~Holds(r, i)'
      BY <2>1, <2>5 DEF Holds, TypeOK
    <3>2. QED
      BY <2>2, <2>3, <3>1, AloneKept
  <2>6. QED
    BY <2>4, <2>5
<1>5. ASSUME NEW r \in Requests, SaveMiss(r) PROVE AloneRow(i)'
  <2>1. i \in Ids /\ AloneRow(i) /\ otp[r] \in Ids /\ r \in Verifying
    BY <1>5, <1>0, HolderRow DEF SaveMiss, Ids, Verifying
  <2>2. \A q \in Requests : Holds(q, i)' =>
          Holds(q, i) /\ q # r /\ attempts'[q] = attempts[q]
    BY <1>5 DEF SaveMiss, Done, Holds, Verifying, TypeOK
  <2>3. CASE otp[r] = i
    <3>1. Holds(r, i)
      BY <2>1, <2>3 DEF Holds
    <3>2. \A q \in Requests : ~Holds(q, i)'
      BY <2>1, <2>2, <3>1 DEF AloneRow
    <3>3. /\ otp_codes'[i].attempts = attempts[r] + 1
          /\ otp_codes'[i].misses = otp_codes[i].misses + 1
          /\ otp_codes'[i].logins = otp_codes[i].logins
          /\ otp_codes'[i].consumed = otp_codes[i].consumed
      BY <1>5, <2>1, <2>3 DEF SaveMiss, TypeOK, Row
    <3>4. attempts[r] = otp_codes[i].misses
      BY <2>1, <3>1 DEF AloneRow
    <3>5. QED
      BY <2>1, <3>2, <3>3, <3>4 DEF AloneRow
  <2>4. CASE otp[r] # i
    <3>1. otp_codes'[i] = otp_codes[i]
      BY <1>5, <2>1, <2>4 DEF SaveMiss, TypeOK
    <3>2. i \in Ids'
      OBVIOUS
    <3>3. QED
      BY <2>1, <2>2, <3>1, AloneKept
  <2>5. QED
    BY <2>3, <2>4
<1>6. ASSUME NEW r \in Requests, SaveHit(r) PROVE AloneRow(i)'
  <2>1. i \in Ids /\ AloneRow(i) /\ otp[r] \in Ids /\ r \in Verifying
    BY <1>6, <1>0, HolderRow DEF SaveHit, Ids, Verifying
  <2>2. \A q \in Requests : Holds(q, i)' =>
          Holds(q, i) /\ q # r /\ attempts'[q] = attempts[q]
    BY <1>6 DEF SaveHit, Done, Holds, Verifying, TypeOK
  <2>3. CASE otp[r] = i
    <3>1. Holds(r, i)
      BY <2>1, <2>3 DEF Holds
    <3>2. \A q \in Requests : ~Holds(q, i)'
      BY <2>1, <2>2, <3>1 DEF AloneRow
    <3>3. /\ otp_codes'[i].attempts = otp_codes[i].attempts
          /\ otp_codes'[i].misses = otp_codes[i].misses
          /\ otp_codes'[i].logins = otp_codes[i].logins + 1
          /\ otp_codes'[i].consumed = TRUE
      BY <1>6, <2>1, <2>3 DEF SaveHit, TypeOK, Row
    <3>4. otp_codes[i].logins = 0
      BY <2>1, <3>1 DEF AloneRow
    <3>5. QED
      BY <2>1, <3>2, <3>3, <3>4 DEF AloneRow
  <2>4. CASE otp[r] # i
    <3>1. otp_codes'[i] = otp_codes[i]
      BY <1>6, <2>1, <2>4 DEF SaveHit, TypeOK
    <3>2. QED
      BY <2>1, <2>2, <3>1, AloneKept
  <2>5. QED
    BY <2>3, <2>4
<1>7. ASSUME NEW r \in Requests, Abort(r) PROVE AloneRow(i)'
  <2>1. i \in Ids /\ otp_codes' = otp_codes /\ overlapped' = overlapped
    BY <1>7 DEF Abort, Ids
  <2>2. \A q \in Requests : Holds(q, i)' => Holds(q, i) /\ attempts'[q] = attempts[q]
    BY <1>7 DEF Abort, Done, Holds, Verifying, TypeOK
  <2>3. QED
    BY <1>0, <2>1, <2>2, AloneKept
<1>8. ASSUME UNCHANGED <<otp_codes, pc, otp, attempts, overlapped>> PROVE AloneRow(i)'
  BY <1>8, <1>0, AloneKept DEF Ids, Holds, Verifying
<1>9. QED
  BY <1>1, <1>2, <1>3, <1>4, <1>5, <1>6, <1>7, <1>8 DEF Next, Tick, vars

-----------------------------------------------------------------------------

LEMMA InitInv == Init => IInv
<1> SUFFICES ASSUME Init PROVE IInv
  OBVIOUS
<1>1. TypeOK
  BY InitType
<1>2. SeenInv
  BY DEF Init, SeenInv
<1>3. AloneInv
  BY DEF Init, AloneInv, Ids
<1>4. QED
  BY <1>1, <1>2, <1>3 DEF IInv

LEMMA StepInv == IInv /\ [Next]_vars => IInv'
  BY StepType, StepAlone DEF IInv

\* Every variable keeps its type and no row counts more than MaxAttempts
\* attempts, however requests overlap.
THEOREM TypeCorrect == Spec => []TypeOK
<1>1. IInv => TypeOK
  BY DEF IInv
<1>2. QED
  BY <1>1, InitInv, StepInv, PTL DEF Spec

\* A code never verified by two requests at once is missed MaxAttempts times at
\* most.
THEOREM AttemptsLimited == Spec => []AttemptsLimitUnlessOverlapped
<1>1. IInv => AttemptsLimitUnlessOverlapped
  BY DEF IInv, TypeOK, AloneInv, AloneRow, AttemptsLimitUnlessOverlapped
<1>2. QED
  BY <1>1, InitInv, StepInv, PTL DEF Spec

-----------------------------------------------------------------------------
\* Who signs in on a code that requests verified at once.

\* As long as a row is not consumed nobody has signed in on it; afterwards only
\* those can that found it before.
LoginsRow(i) ==
  otp_codes[i].logins <=
    IF otp_codes[i].consumed THEN Cardinality(Requests) - Cardinality(Hitters(i)) ELSE 0
LoginsInv == \A i \in Ids : LoginsRow(i)

LEMMA HittersFinite ==
  ASSUME NEW i
  PROVE  /\ IsFiniteSet(Hitters(i)) /\ Cardinality(Hitters(i)) \in Nat
         /\ Cardinality(Hitters(i)) <= Cardinality(Requests)
         /\ Cardinality(Requests) \in Nat
<1>1. Hitters(i) \in SUBSET Requests
  BY DEF Hitters
<1>2. QED
  BY <1>1, RequestsAssumption, FS_Subset, FS_CardinalityType

\* A row with no new holder to hit it keeps its bound.
LEMMA LoginsKept ==
  ASSUME NEW i, LoginsRow(i), otp_codes[i] \in Row,
         otp_codes'[i].logins = otp_codes[i].logins,
         otp_codes'[i].consumed = otp_codes[i].consumed,
         ~otp_codes[i].consumed \/ Hitters(i)' \subseteq Hitters(i)
  PROVE  LoginsRow(i)'
<1>1. CASE ~otp_codes[i].consumed
  BY <1>1 DEF LoginsRow
<1>2. CASE otp_codes[i].consumed
  <2>1. Hitters(i)' \in SUBSET Hitters(i)
    BY <1>2
  <2>2. Cardinality(Hitters(i)') <= Cardinality(Hitters(i)) /\ Cardinality(Hitters(i)') \in Nat
    BY <2>1, HittersFinite, FS_Subset, FS_CardinalityType
  <2>3. otp_codes[i].logins \in Nat
    BY DEF Row
  <2>4. /\ otp_codes[i].logins <= Cardinality(Requests) - Cardinality(Hitters(i))
        /\ LoginsRow(i)' <=> otp_codes'[i].logins <= Cardinality(Requests) - Cardinality(Hitters(i)')
    BY <1>2 DEF LoginsRow
  <2>5. QED
    BY <2>2, <2>3, <2>4, HittersFinite
<1>3. QED
  BY <1>1, <1>2

LEMMA StepLogins == TypeOK /\ LoginsInv /\ [Next]_vars => LoginsInv'
<1> SUFFICES ASSUME TypeOK, LoginsInv, [Next]_vars, NEW i \in Ids'
             PROVE  LoginsRow(i)'
  BY DEF LoginsInv
<1>0. ASSUME i \in Ids PROVE LoginsRow(i) /\ otp_codes[i] \in Row
  BY <1>0 DEF LoginsInv, TypeOK
<1>1. ASSUME NEW r \in Requests, CreateOtp(r) PROVE LoginsRow(i)'
  <2>1. CASE i \in Ids
    <3>1. /\ otp_codes'[i] = otp_codes[i]
          /\ \A q \in Requests : pc'[q] = "hit" => pc[q] = "hit" /\ otp'[q] = otp[q]
      BY <1>1, <2>1 DEF CreateOtp, Ids, TypeOK
    <3>2. Hitters(i)' \subseteq Hitters(i)
      BY <3>1 DEF Hitters
    <3>3. QED
      BY <1>0, <2>1, <3>1, <3>2, LoginsKept
  <2>2. CASE i \notin Ids
    <3>1. otp_codes'[i].logins = 0 /\ otp_codes'[i].consumed = FALSE
      BY <1>1, <2>2 DEF CreateOtp, Ids
    <3>2. QED
      BY <3>1 DEF LoginsRow
  <2>3. QED
    BY <2>1, <2>2
<1>2. ASSUME NEW r \in Requests, NEW p \in Phones, FindOtp(r, p) PROVE LoginsRow(i)'
  <2>1. PICK j \in Ids : /\ ~otp_codes[j].consumed
                         /\ \E answer \in {"miss", "hit"} : pc' = [pc EXCEPT ![r] = answer]
                         /\ otp' = [otp EXCEPT ![r] = j]
    BY <1>2, FindEffect
  <2>2. otp_codes' = otp_codes /\ i \in Ids
    BY <1>2 DEF FindOtp, Ids
  <2>3. ASSUME otp_codes[i].consumed PROVE Hitters(i)' \subseteq Hitters(i)
    <3>1. \A q \in Requests : q # r => pc'[q] = pc[q] /\ otp'[q] = otp[q]
      BY <2>1 DEF TypeOK
    <3>2. otp'[r] # i
      BY <2>1, <2>3 DEF TypeOK
    <3>3. QED
      BY <3>1, <3>2 DEF Hitters
  <2>4. QED
    BY <1>0, <2>2, <2>3, LoginsKept
<1>3. ASSUME NEW r \in Requests, Done(r)
      PROVE  /\ Hitters(i)' \subseteq Hitters(i) /\ r \notin Hitters(i)'
             /\ pc[r] = "hit" /\ otp[r] # i => r \notin Hitters(i)
  BY <1>3 DEF Done, Hitters, TypeOK
<1>4. ASSUME NEW r \in Requests, SaveHit(r) PROVE LoginsRow(i)'
  <2>1. /\ otp[r] \in Ids /\ i \in Ids /\ pc[r] = "hit"
        /\ otp_codes[i] \in Row
    BY <1>4, HolderRow DEF SaveHit, Ids, TypeOK
  <2>2. CASE otp[r] # i
    <3>1. otp_codes'[i] = otp_codes[i]
      BY <1>4, <2>1, <2>2 DEF SaveHit, TypeOK
    <3>2. QED
      BY <1>0, <1>3, <1>4, <2>1, <3>1, LoginsKept DEF SaveHit
  <2>3. CASE otp[r] = i
    <3>1. /\ otp_codes'[i].consumed = TRUE
          /\ otp_codes'[i].logins = otp_codes[i].logins + 1
          /\ otp_codes[i].logins \in Nat
      BY <1>4, <2>1, <2>3 DEF SaveHit, TypeOK, Row, Ids
    <3>2. r \in Hitters(i) /\ Hitters(i)' \in SUBSET (Hitters(i) \ {r})
      BY <1>3, <1>4, <2>1, <2>3 DEF SaveHit, Hitters
    <3>3. /\ IsFiniteSet(Hitters(i) \ {r})
          /\ Cardinality(Hitters(i) \ {r}) = Cardinality(Hitters(i)) - 1
      BY <3>2, HittersFinite, FS_RemoveElement
    <3>4. /\ Cardinality(Hitters(i)') <= Cardinality(Hitters(i)) - 1
          /\ Cardinality(Hitters(i)') \in Nat
      BY <3>2, <3>3, FS_Subset, FS_CardinalityType
    <3>5. otp_codes[i].logins <= Cardinality(Requests) - Cardinality(Hitters(i))
      BY <1>0, <2>1, <3>1, HittersFinite DEF LoginsRow
    <3>6. LoginsRow(i)' <=> otp_codes'[i].logins <= Cardinality(Requests) - Cardinality(Hitters(i)')
      BY <3>1 DEF LoginsRow
    <3>7. QED
      BY <3>1, <3>4, <3>5, <3>6, HittersFinite
  <2>4. QED
    BY <2>2, <2>3
<1>5. ASSUME NEW r \in Requests, Done(r), i \in Ids,
             otp_codes'[i].logins = otp_codes[i].logins,
             otp_codes'[i].consumed = otp_codes[i].consumed
      PROVE  LoginsRow(i)'
  BY <1>0, <1>3, <1>5, LoginsKept
<1>6. ASSUME NEW r \in Requests, SaveMiss(r) \/ SendOtpSms(r) PROVE LoginsRow(i)'
  <2>1. otp[r] \in Ids /\ i \in Ids
    BY <1>6, HolderRow DEF SaveMiss, SendOtpSms, Ids, TypeOK
  <2>2. /\ otp_codes'[i].logins = otp_codes[i].logins
        /\ otp_codes'[i].consumed = otp_codes[i].consumed
    BY <1>6, <2>1 DEF SaveMiss, SendOtpSms, TypeOK, Row
  <2>3. QED
    BY <1>5, <1>6, <2>1, <2>2 DEF SaveMiss, SendOtpSms
<1>7. ASSUME NEW r \in Requests, Abort(r) PROVE LoginsRow(i)'
  BY <1>5, <1>7 DEF Abort, Ids
<1>8. CASE /\ UNCHANGED <<otp_codes, otp>>
           /\ \A q \in Requests : pc'[q] = "hit" => pc[q] = "hit"
  <2>1. Hitters(i)' \subseteq Hitters(i)
    BY <1>8 DEF Hitters
  <2>2. QED
    BY <1>0, <1>8, <2>1, LoginsKept DEF Ids
<1>9. ASSUME NEW r \in Requests, NEW p \in Phones, CountRecent(r, p) PROVE LoginsRow(i)'
  BY <1>8, <1>9 DEF CountRecent, TypeOK
<1>10. QED
  BY <1>1, <1>2, <1>4, <1>6, <1>7, <1>8, <1>9 DEF Next, Tick, vars

\* A code signs one caller in, or as many as verified it at once.
THEOREM OneLogin == Spec => []OneLoginPlusRaces
<1>1. Init => LoginsInv
  BY DEF Init, LoginsInv, Ids
<1>2. IInv /\ LoginsInv => OneLoginPlusRaces
  <2> SUFFICES ASSUME IInv, LoginsInv, NEW i \in Ids
               PROVE  otp_codes[i].logins <=
                        IF i \in overlapped THEN Cardinality(Requests) ELSE 1
    BY DEF OneLoginPlusRaces
  <2>1. CASE i \notin overlapped
    BY <2>1 DEF IInv, AloneInv, AloneRow
  <2>2. CASE i \in overlapped
    <3>1. otp_codes[i].logins \in Nat
      BY DEF IInv, TypeOK, Row
    <3>2. QED
      BY <2>2, <3>1, HittersFinite DEF LoginsInv, LoginsRow
  <2>3. QED
    BY <2>1, <2>2
<1>3. IInv => TypeOK
  BY DEF IInv
<1>4. QED
  BY <1>1, <1>2, <1>3, InitInv, StepInv, StepLogins, PTL DEF Spec

-----------------------------------------------------------------------------
\* A spent code stays spent.

\* Requests to come find no spent code.
LEMMA SpentNotFound ==
  ASSUME IInv, LoginsInv, NEW i \in Ids, Spent(i), NEW p \in Phones, i \in Candidates(p)
  PROVE  Locked(i)
<1>1. ~otp_codes[i].consumed /\ otp_codes[i].expires_at > now
  BY DEF Candidates
<1>2. otp_codes[i].logins = 0
  BY <1>1 DEF IInv, TypeOK, Row, LoginsInv, LoginsRow
<1>3. otp_codes[i].expires_at \in Nat /\ now \in Nat
  BY DEF IInv, TypeOK, Row
<1>4. i \notin overlapped /\ otp_codes[i].misses >= MaxAttempts
  BY <1>1, <1>2, <1>3 DEF Spent
<1>5. otp_codes[i].attempts = otp_codes[i].misses
  BY <1>4 DEF IInv, AloneInv, AloneRow
<1>6. QED
  BY <1>4, <1>5 DEF Locked

\* The row's columns that Spent reads go one way only.
LEMMA SpentKept ==
  ASSUME TypeOK, NEW i \in Ids, Spent(i), i \in Ids',
         now' \in Nat, now' >= now,
         otp_codes'[i].expires_at = otp_codes[i].expires_at,
         otp_codes'[i].logins \in Nat, otp_codes'[i].logins >= otp_codes[i].logins,
         otp_codes'[i].misses \in Nat, otp_codes'[i].misses >= otp_codes[i].misses,
         i \in overlapped' => i \in overlapped
  PROVE  Spent(i)'
<1>1. otp_codes[i] \in Row /\ now \in Nat
  BY DEF TypeOK
<1>2. QED
  BY <1>1, LimitAssumption DEF Spent, Row

\* Nobody new may sign in.
LEMMA ChancesKept ==
  ASSUME NEW i, otp_codes[i].logins \in Nat,
         otp_codes'[i].logins = otp_codes[i].logins, Hitters(i)' \subseteq Hitters(i)
  PROVE  Chances(i)' <= Chances(i)
<1>1. Hitters(i)' \in SUBSET Hitters(i)
  OBVIOUS
<1>2. Cardinality(Hitters(i)') <= Cardinality(Hitters(i)) /\ Cardinality(Hitters(i)') \in Nat
  BY <1>1, HittersFinite, FS_Subset, FS_CardinalityType
<1>3. Chances(i)' = otp_codes'[i].logins + Cardinality(Hitters(i)')
  BY DEF Chances
<1>4. QED
  BY <1>2, <1>3, HittersFinite DEF Chances

\* Whoever signs in uses up the chance it had.
LEMMA ChanceUsed ==
  ASSUME TypeOK, NEW r \in Requests, SaveHit(r), NEW i \in Ids, otp[r] = i
  PROVE  Chances(i)' <= Chances(i)
<1>1. otp_codes'[i].logins = otp_codes[i].logins + 1 /\ otp_codes[i].logins \in Nat
  BY DEF SaveHit, TypeOK, Row, Ids
<1>2. r \in Hitters(i) /\ Hitters(i)' \in SUBSET (Hitters(i) \ {r})
  BY DEF SaveHit, Done, Hitters, TypeOK
<1>3. /\ IsFiniteSet(Hitters(i) \ {r})
      /\ Cardinality(Hitters(i) \ {r}) = Cardinality(Hitters(i)) - 1
  BY <1>2, HittersFinite, FS_RemoveElement
<1>4. /\ Cardinality(Hitters(i)') <= Cardinality(Hitters(i)) - 1
      /\ Cardinality(Hitters(i)') \in Nat
  BY <1>2, <1>3, FS_Subset, FS_CardinalityType
<1>5. Chances(i)' = otp_codes'[i].logins + Cardinality(Hitters(i)')
  BY DEF Chances
<1>6. QED
  BY <1>1, <1>4, <1>5, HittersFinite DEF Chances

LEMMA SpentStep ==
  ASSUME IInv, LoginsInv, [Next]_vars, NEW i \in Ids, Spent(i)
  PROVE  Spent(i)' /\ Chances(i)' <= Chances(i)
<1> USE DEF IInv
<1>0. /\ otp_codes[i] \in Row /\ now \in Nat
      /\ otp_codes[i].logins \in Nat /\ otp_codes[i].misses \in Nat
  BY DEF TypeOK, Row
<1>1. ASSUME NEW r \in Requests, Done(r) PROVE Hitters(i)' \subseteq Hitters(i)
  BY <1>1 DEF Done, Hitters, TypeOK
<1>2. ASSUME NEW r \in Requests, SaveHit(r)
      PROVE  Spent(i)' /\ Chances(i)' <= Chances(i)
  <2>1. otp[r] \in Ids /\ UNCHANGED <<now, overlapped>> /\ i \in Ids'
    BY <1>2, HolderRow DEF SaveHit, Ids
  <2>2. /\ otp_codes'[i].expires_at = otp_codes[i].expires_at
        /\ otp_codes'[i].misses = otp_codes[i].misses
        /\ otp_codes'[i].logins = IF otp[r] = i THEN otp_codes[i].logins + 1
                                                ELSE otp_codes[i].logins
    BY <1>0, <1>2, <2>1 DEF SaveHit, TypeOK, Row, Ids
  <2>3. Spent(i)'
    BY <1>0, <2>1, <2>2, SpentKept
  <2>4. CASE otp[r] = i
    BY <1>2, <2>3, <2>4, ChanceUsed
  <2>5. CASE otp[r] # i
    BY <1>0, <1>1, <1>2, <2>2, <2>3, <2>5, ChancesKept DEF SaveHit
  <2>6. QED
    BY <2>4, <2>5
<1>3. ASSUME NEW r \in Requests, SaveMiss(r) \/ SendOtpSms(r)
      PROVE  Spent(i)' /\ Chances(i)' <= Chances(i)
  <2>1. otp[r] \in Ids /\ UNCHANGED <<now, overlapped>> /\ i \in Ids'
    BY <1>3, HolderRow DEF SaveMiss, SendOtpSms, Ids
  <2>2. /\ otp_codes'[i].expires_at = otp_codes[i].expires_at
        /\ otp_codes'[i].logins = otp_codes[i].logins
        /\ otp_codes'[i].misses \in {otp_codes[i].misses, otp_codes[i].misses + 1}
    BY <1>0, <1>3, <2>1 DEF SaveMiss, SendOtpSms, TypeOK, Row, Ids
  <2>3. Spent(i)'
    BY <1>0, <2>1, <2>2, SpentKept
  <2>4. QED
    BY <1>0, <1>1, <1>3, <2>2, <2>3, ChancesKept DEF SaveMiss, SendOtpSms
<1>4. ASSUME otp_codes'[i] = otp_codes[i], i \in Ids', now' \in Nat, now' >= now,
             i \in overlapped' => i \in overlapped, Hitters(i)' \subseteq Hitters(i)
      PROVE  Spent(i)' /\ Chances(i)' <= Chances(i)
  BY <1>0, <1>4, SpentKept, ChancesKept
<1>5. ASSUME NEW r \in Requests, CreateOtp(r)
      PROVE  Spent(i)' /\ Chances(i)' <= Chances(i)
  <2>1. otp_codes'[i] = otp_codes[i] /\ i \in Ids' /\ UNCHANGED <<now, overlapped>>
    BY <1>5 DEF CreateOtp, Ids
  <2>2. Hitters(i)' \subseteq Hitters(i)
    BY <1>5 DEF CreateOtp, Hitters, TypeOK
  <2>3. QED
    BY <1>0, <1>4, <2>1, <2>2
<1>6. ASSUME NEW r \in Requests, NEW p \in Phones, FindOtp(r, p)
      PROVE  Spent(i)' /\ Chances(i)' <= Chances(i)
  <2>1. PICK j \in Ids : /\ j \in Candidates(p) /\ ~Locked(j)
                         /\ \E answer \in {"miss", "hit"} : pc' = [pc EXCEPT ![r] = answer]
                         /\ otp' = [otp EXCEPT ![r] = j]
                         /\ overlapped' \in {overlapped, overlapped \cup {j}}
    BY <1>6 DEF FindOtp, Newest, Candidates
  <2>2. j # i
    BY <2>1, SpentNotFound
  <2>3. UNCHANGED <<otp_codes, now>>
    BY <1>6 DEF FindOtp
  <2>4. Hitters(i)' \subseteq Hitters(i)
    BY <2>1, <2>2 DEF Hitters, TypeOK
  <2>5. QED
    BY <1>0, <1>4, <2>1, <2>2, <2>3, <2>4 DEF Ids
<1>7. ASSUME NEW r \in Requests, Abort(r)
      PROVE  Spent(i)' /\ Chances(i)' <= Chances(i)
  BY <1>0, <1>1, <1>4, <1>7 DEF Abort, Ids
<1>8. ASSUME NEW r \in Requests, NEW p \in Phones, CountRecent(r, p)
      PROVE  Spent(i)' /\ Chances(i)' <= Chances(i)
  <2>1. Hitters(i)' \subseteq Hitters(i)
    BY <1>8 DEF CountRecent, Hitters, TypeOK
  <2>2. QED
    BY <1>0, <1>4, <1>8, <2>1 DEF CountRecent, Ids
<1>9. CASE Tick \/ UNCHANGED vars
  <2>1. Hitters(i)' = Hitters(i)
    BY <1>9 DEF Tick, vars, Hitters
  <2>2. now' \in Nat /\ now' >= now
    BY <1>0, <1>9 DEF Tick, vars
  <2>3. QED
    BY <1>0, <1>4, <1>9, <2>1, <2>2 DEF Tick, vars, Ids
<1>10. QED
  BY <1>2, <1>3, <1>5, <1>6, <1>7, <1>8, <1>9 DEF Next

\* A code that has signed somebody in, has expired or, if never verified by two
\* requests at once, is out of attempts, signs in nobody who finds it later.
THEOREM SpentIsFinal == Spec => SpentStaysSpent
<1>1. ASSUME IInv, LoginsInv, [Next]_vars
      PROVE  [\A i \in Ids : Spent(i) => Spent(i)' /\ Chances(i)' <= Chances(i)]_vars
  BY <1>1, SpentStep
<1>2. IInv => TypeOK
  BY DEF IInv
<1>3. Init => LoginsInv
  BY DEF Init, LoginsInv, Ids
<1>4. QED
  BY <1>1, <1>2, <1>3, InitInv, StepInv, StepLogins, PTL DEF Spec, SpentStaysSpent

-----------------------------------------------------------------------------
\* The hourly limit: each request under way adds one code at most.

HourInv == IsFiniteSet(Ids) /\ HourlyLimitPlusRaces

LEMMA RecentFinite ==
  ASSUME IsFiniteSet(Ids), NEW p
  PROVE  IsFiniteSet(Recent(p)) /\ Cardinality(Recent(p)) \in Nat
<1>1. Recent(p) \subseteq Ids
  BY DEF Recent
<1>2. QED
  BY <1>1, FS_Subset, FS_CardinalityType

LEMMA PendingFinite ==
  ASSUME NEW p
  PROVE  /\ IsFiniteSet(Pending(p)) /\ Cardinality(Pending(p)) \in Nat
         /\ Cardinality(Pending(p)) <= Cardinality(Requests)
         /\ Cardinality(Requests) \in Nat
<1>1. Pending(p) \subseteq Requests
  BY DEF Pending
<1>2. QED
  BY <1>1, RequestsAssumption, FS_Subset, FS_CardinalityType

\* What shrinks keeps the bound.
LEMMA HourKept ==
  ASSUME HourInv, IsFiniteSet(Ids'),
         \A p \in Phones : Recent(p)' \subseteq Recent(p) /\ Pending(p)' \subseteq Pending(p)
  PROVE  HourInv'
<1>1. ASSUME NEW p \in Phones
      PROVE  Cardinality(Recent(p)') + Cardinality(Pending(p)')
               < MaxPerHour + Cardinality(Requests)
  <2>1. /\ Cardinality(Recent(p)') <= Cardinality(Recent(p))
        /\ Cardinality(Recent(p)') \in Nat /\ Cardinality(Recent(p)) \in Nat
    BY RecentFinite, FS_Subset, FS_CardinalityType DEF HourInv
  <2>2. /\ Cardinality(Pending(p)') <= Cardinality(Pending(p))
        /\ Cardinality(Pending(p)') \in Nat /\ Cardinality(Pending(p)) \in Nat
        /\ Cardinality(Requests) \in Nat
    BY PendingFinite, FS_Subset, FS_CardinalityType
  <2>3. Cardinality(Recent(p)) + Cardinality(Pending(p)) < MaxPerHour + Cardinality(Requests)
    BY DEF HourInv, HourlyLimitPlusRaces
  <2>4. QED
    BY <2>1, <2>2, <2>3, LimitAssumption
<1>2. QED
  BY <1>1 DEF HourInv, HourlyLimitPlusRaces

LEMMA StepHour == IInv /\ HourInv /\ [Next]_vars => HourInv'
<1> SUFFICES ASSUME IInv, HourInv, [Next]_vars PROVE HourInv'
  OBVIOUS
<1>0. TypeOK
  BY DEF IInv
<1>1. ASSUME NEW r \in Requests, NEW o \in Phones, CountRecent(r, o) PROVE HourInv'
  <2>1. Ids' = Ids /\ \A p : Recent(p)' = Recent(p)
    BY <1>1 DEF CountRecent, Ids, Recent
  <2>2. \A p \in Phones \ {o} : Pending(p)' \subseteq Pending(p)
    BY <1>1, <1>0 DEF CountRecent, Pending, TypeOK
  <2>3. ASSUME NEW p \in Phones
        PROVE  Cardinality(Recent(p)') + Cardinality(Pending(p)')
                 < MaxPerHour + Cardinality(Requests)
    <3>1. CASE p = o
      <4>1. Cardinality(Recent(p)) < MaxPerHour
        BY <1>1, <3>1, RecentFinite, LimitAssumption DEF CountRecent, TooMany, HourInv
      <4>2. /\ Cardinality(Pending(p)') <= Cardinality(Requests)
            /\ Cardinality(Pending(p)') \in Nat /\ Cardinality(Requests) \in Nat
        <5>1. Pending(p)' \subseteq Requests
          BY DEF Pending
        <5>2. QED
          BY <5>1, RequestsAssumption, FS_Subset, FS_CardinalityType
      <4>3. Cardinality(Recent(p)) \in Nat
        BY RecentFinite DEF HourInv
      <4>4. QED
        BY <2>1, <4>1, <4>2, <4>3, LimitAssumption
    <3>2. CASE p # o
      <4>1. /\ Cardinality(Pending(p)') <= Cardinality(Pending(p))
            /\ Cardinality(Pending(p)') \in Nat
        BY <2>2, <3>2, PendingFinite, FS_Subset, FS_CardinalityType
      <4>2. Cardinality(Recent(p)) \in Nat
        BY RecentFinite DEF HourInv
      <4>3. Cardinality(Recent(p)) + Cardinality(Pending(p)) < MaxPerHour + Cardinality(Requests)
        BY DEF HourInv, HourlyLimitPlusRaces
      <4>4. QED
        BY <2>1, <4>1, <4>2, <4>3, PendingFinite, LimitAssumption
    <3>3. QED
      BY <3>1, <3>2
  <2>4. QED
    BY <2>1, <2>3 DEF HourInv, HourlyLimitPlusRaces
<1>2. ASSUME NEW r \in Requests, CreateOtp(r) PROVE HourInv'
  <2>1. PICK n \in Codes \ Ids :
          otp_codes' =
            [x \in Ids \cup {n} |->
              IF x = n THEN [phone |-> phone[r], created_at |-> now,
                             expires_at |-> now + OtpTTL, attempts |-> 0,
                             consumed |-> FALSE, failed |-> FALSE,
                             misses |-> 0, logins |-> 0]
                       ELSE otp_codes[x]]
    BY <1>2 DEF CreateOtp
  <2>2. Ids' = Ids \cup {n}
    BY <2>1 DEF Ids
  <2>3. IsFiniteSet(Ids')
    BY <2>2, FS_AddElement DEF HourInv
  <2>4. ASSUME NEW p \in Phones
        PROVE  Cardinality(Recent(p)') + Cardinality(Pending(p)')
                 < MaxPerHour + Cardinality(Requests)
    <3>1. Cardinality(Recent(p)) + Cardinality(Pending(p)) < MaxPerHour + Cardinality(Requests)
      BY DEF HourInv, HourlyLimitPlusRaces
    <3>2. now' = now /\ phone' = phone /\ pc[r] = "create" /\ pc' = [pc EXCEPT ![r] = "send"]
      BY <1>2 DEF CreateOtp
    <3>3. IsFiniteSet(Recent(p)) /\ Cardinality(Recent(p)) \in Nat
      BY RecentFinite DEF HourInv
    <3>4. IsFiniteSet(Pending(p)) /\ Cardinality(Pending(p)) \in Nat /\ Cardinality(Requests) \in Nat
      BY PendingFinite
    <3>5. CASE phone[r] = p
      <4>1. Recent(p)' \subseteq Recent(p) \cup {n}
        BY <2>1, <2>2, <3>2 DEF Recent
      <4>2. /\ Cardinality(Recent(p)') <= Cardinality(Recent(p)) + 1
            /\ Cardinality(Recent(p)') \in Nat
        <5>1. /\ IsFiniteSet(Recent(p) \cup {n})
              /\ Cardinality(Recent(p) \cup {n}) \in Nat
              /\ Cardinality(Recent(p) \cup {n}) <= Cardinality(Recent(p)) + 1
          <6>1. IsFiniteSet(Recent(p))
            BY <3>3
          <6>2. /\ IsFiniteSet(Recent(p) \cup {n})
                /\ Cardinality(Recent(p) \cup {n}) = IF n \in Recent(p)
                     THEN Cardinality(Recent(p)) ELSE Cardinality(Recent(p)) + 1
            BY <6>1, FS_AddElement, Zenon
          <6>3. QED
            BY <3>3, <6>2
        <5>2. /\ Cardinality(Recent(p)') <= Cardinality(Recent(p) \cup {n})
              /\ IsFiniteSet(Recent(p)')
          BY <4>1, <5>1, FS_Subset
        <5>3. Cardinality(Recent(p)') \in Nat
          BY <5>2, FS_CardinalityType
        <5>4. QED
          BY <3>3, <5>1, <5>2, <5>3
      <4>3. Pending(p)' = Pending(p) \ {r} /\ r \in Pending(p)
        BY <3>2, <3>5, <1>0 DEF Pending, TypeOK
      <4>4. Cardinality(Pending(p)') = Cardinality(Pending(p)) - 1
        BY <3>4, <4>3, FS_RemoveElement
      <4>5. QED
        BY <3>1, <3>3, <3>4, <4>2, <4>4, LimitAssumption
    <3>6. CASE phone[r] # p
      <4>1. Recent(p)' \subseteq Recent(p)
        BY <2>1, <2>2, <3>2, <3>6 DEF Recent
      <4>2. Pending(p)' \subseteq Pending(p)
        BY <3>2, <1>0 DEF Pending, TypeOK
      <4>3. /\ Cardinality(Recent(p)') <= Cardinality(Recent(p))
            /\ Cardinality(Recent(p)') \in Nat
        BY <3>3, <4>1, FS_Subset, FS_CardinalityType
      <4>4. /\ Cardinality(Pending(p)') <= Cardinality(Pending(p))
            /\ Cardinality(Pending(p)') \in Nat
        BY <3>4, <4>2, FS_Subset, FS_CardinalityType
      <4>5. QED
        BY <3>1, <3>3, <3>4, <4>3, <4>4, LimitAssumption
    <3>7. QED
      BY <3>5, <3>6
  <2>5. QED
    BY <2>3, <2>4 DEF HourInv, HourlyLimitPlusRaces
<1>3. ASSUME now' = now, Ids' = Ids,
             \A i \in Ids : /\ otp_codes'[i].phone = otp_codes[i].phone
                            /\ otp_codes'[i].created_at = otp_codes[i].created_at,
             \A p \in Phones : Pending(p)' \subseteq Pending(p)
      PROVE  HourInv'
  <2>1. \A p \in Phones : Recent(p)' \subseteq Recent(p)
    BY <1>3 DEF Recent
  <2>2. QED
    BY <1>3, <2>1, HourKept DEF HourInv
<1>4. ASSUME NEW r \in Requests, SendOtpSms(r) PROVE HourInv'
  <2>1. otp[r] \in Ids
    BY <1>4, <1>0, HolderRow DEF SendOtpSms
  <2>2. /\ now' = now /\ Ids' = Ids
        /\ \A i \in Ids : /\ otp_codes'[i].phone = otp_codes[i].phone
                          /\ otp_codes'[i].created_at = otp_codes[i].created_at
    BY <1>4, <1>0, <2>1 DEF SendOtpSms, Ids, TypeOK, Row
  <2>3. \A p \in Phones : Pending(p)' \subseteq Pending(p)
    BY <1>4, <1>0 DEF SendOtpSms, Done, Pending, TypeOK
  <2>4. QED
    BY <1>3, <2>2, <2>3
<1>5. ASSUME NEW r \in Requests, NEW p \in Phones, FindOtp(r, p) PROVE HourInv'
  <2>1. \A o \in Phones : Pending(o)' \subseteq Pending(o)
    BY <1>5, <1>0 DEF FindOtp, Pending, TypeOK
  <2>2. now' = now /\ otp_codes' = otp_codes
    BY <1>5 DEF FindOtp
  <2>3. QED
    BY <1>3, <2>1, <2>2 DEF Ids
<1>6. ASSUME NEW r \in Requests, SaveMiss(r) PROVE HourInv'
  <2>1. otp[r] \in Ids
    BY <1>6, <1>0, HolderRow DEF SaveMiss
  <2>2. /\ now' = now /\ Ids' = Ids
        /\ \A i \in Ids : /\ otp_codes'[i].phone = otp_codes[i].phone
                          /\ otp_codes'[i].created_at = otp_codes[i].created_at
    BY <1>6, <1>0, <2>1 DEF SaveMiss, Ids, TypeOK, Row
  <2>3. \A p \in Phones : Pending(p)' \subseteq Pending(p)
    BY <1>6, <1>0 DEF SaveMiss, Done, Pending, TypeOK
  <2>4. QED
    BY <1>3, <2>2, <2>3
<1>7. ASSUME NEW r \in Requests, SaveHit(r) PROVE HourInv'
  <2>1. otp[r] \in Ids
    BY <1>7, <1>0, HolderRow DEF SaveHit
  <2>2. /\ now' = now /\ Ids' = Ids
        /\ \A i \in Ids : /\ otp_codes'[i].phone = otp_codes[i].phone
                          /\ otp_codes'[i].created_at = otp_codes[i].created_at
    BY <1>7, <1>0, <2>1 DEF SaveHit, Ids, TypeOK, Row
  <2>3. \A p \in Phones : Pending(p)' \subseteq Pending(p)
    BY <1>7, <1>0 DEF SaveHit, Done, Pending, TypeOK
  <2>4. QED
    BY <1>3, <2>2, <2>3
<1>8. ASSUME NEW r \in Requests, Abort(r) PROVE HourInv'
  <2>1. \A p \in Phones : Pending(p)' \subseteq Pending(p)
    BY <1>8, <1>0 DEF Abort, Done, Pending, TypeOK
  <2>2. QED
    BY <1>8, <1>3, <2>1 DEF Abort, Ids
<1>9. CASE Tick
  <2>1. Ids' = Ids /\ otp_codes' = otp_codes /\ now' = now + 1
        /\ pc' = pc /\ phone' = phone
    BY <1>9 DEF Tick, Ids
  <2>2. ASSUME NEW p \in Phones PROVE Recent(p)' \subseteq Recent(p)
    <3>1. SUFFICES ASSUME NEW i \in Recent(p)' PROVE i \in Recent(p)
      OBVIOUS
    <3>2. i \in Ids /\ otp_codes[i].phone = p /\ otp_codes[i].created_at > (now + 1) - Hour
      <4>1. Recent(p)' = {x \in Ids' : /\ otp_codes'[x].phone = p
                                      /\ otp_codes'[x].created_at > now' - Hour}
        BY DEF Recent
      <4>2. /\ i \in Ids /\ otp_codes[i].phone = p
            /\ otp_codes[i].created_at > (now + 1) - Hour
        BY <2>1, <3>1, <4>1
      <4>3. QED
        BY <4>2
    <3>3. otp_codes[i].created_at \in Nat /\ now \in Nat
      BY <1>0, <3>2, TimeAssumption DEF TypeOK, Row
    <3>4. otp_codes[i].created_at > now - Hour
      BY <3>2, <3>3, TimeAssumption
    <3>5. QED
      BY <3>2, <3>4 DEF Recent
  <2>3. \A p \in Phones : Pending(p)' \subseteq Pending(p)
    BY <2>1 DEF Pending
  <2>4. QED
    BY <2>1, <2>2, <2>3, HourKept DEF HourInv
<1>10. CASE UNCHANGED vars
  <2>1. \A p \in Phones : Pending(p)' \subseteq Pending(p)
    BY <1>10 DEF vars, Pending
  <2>2. QED
    BY <1>10, <1>3, <2>1 DEF vars, Ids
<1>11. QED
  BY <1>1, <1>2, <1>4, <1>5, <1>6, <1>7, <1>8, <1>9, <1>10 DEF Next

LEMMA InitHour == Init => HourInv
<1> SUFFICES ASSUME Init PROVE HourInv
  OBVIOUS
<1>1. Ids = {}
  BY DEF Init, Ids
<1>2. IsFiniteSet(Ids)
  BY <1>1, FS_EmptySet
<1>3. ASSUME NEW p \in Phones
      PROVE  Cardinality(Recent(p)) + Cardinality(Pending(p))
               < MaxPerHour + Cardinality(Requests)
  <2>1. Recent(p) = {} /\ Pending(p) = {}
    BY <1>1 DEF Init, Recent, Pending
  <2>2. Cardinality(Recent(p)) = 0 /\ Cardinality(Pending(p)) = 0
    BY <2>1, FS_EmptySet
  <2>3. Cardinality(Requests) \in Nat
    BY RequestsAssumption, FS_CardinalityType
  <2>4. QED
    BY <2>2, <2>3, LimitAssumption
<1>4. QED
  BY <1>2, <1>3 DEF HourInv, HourlyLimitPlusRaces

\* However requests overlap and the window slides, an hour holds at most one
\* code beyond the limit for each further request under way.
THEOREM HourLimited == Spec => []HourlyLimitPlusRaces
<1>1. HourInv => HourlyLimitPlusRaces
  BY DEF HourInv
<1>2. QED
  BY <1>1, InitInv, StepInv, InitHour, StepHour, PTL DEF Spec
=============================================================================
