-------------------------------- MODULE Otp --------------------------------
(***************************************************************************)
(* One-time codes of the auth component: the otp_codes table with          *)
(* RequestOtpView and VerifyOtpView (accounts/views.py, accounts/otp.py).  *)
(*                                                                         *)
(* Each ORM call commits on its own.  RequestOtpView is COUNT              *)
(* (CountRecent), INSERT (CreateOtp) and the SMS (SendOtpSms);             *)
(* VerifyOtpView is SELECT (FindOtp) and one UPDATE of one column, with    *)
(* the value computed from the row read (SaveMiss, SaveHit).  What follows *)
(* a hit -- the user's row and the token pair -- is in Identity and        *)
(* Sessions.  Whether the code presented hashes to the stored one is a     *)
(* choice made when the row is read: neither can change afterwards.        *)
(* Requests refused before they write anything have no action.             *)
(***************************************************************************)
EXTENDS Integers, FiniteSets

CONSTANTS
  Phones,       \* phone numbers
  Codes,        \* ids of otp_codes rows
  Requests,     \* requests the server processes run side by side
  Nobody,       \* "no phone" and "no row" for an idle request
  MaxPerHour,   \* the 3 of RequestOtpView
  MaxAttempts,  \* settings.OTP_MAX_ATTEMPTS
  OtpTTL,       \* settings.OTP_TTL_MINUTES in ticks
  Hour,         \* the window of RequestOtpView in ticks
  Production,   \* settings.NODE_ENV = "production"
  MaxTries,     \* bound on the verifications answered per row
  MaxTime       \* bound on the clock

ASSUME NobodyAssumption == Nobody \notin Codes \cup Phones
ASSUME RequestsAssumption == IsFiniteSet(Requests)
ASSUME LimitAssumption == MaxPerHour \in Nat \ {0} /\ MaxAttempts \in Nat \ {0}
ASSUME TimeAssumption == OtpTTL \in Nat /\ Hour \in Nat /\ MaxTime \in Nat
ASSUME TriesAssumption == MaxTries \in Nat
ASSUME ProductionAssumption == Production \in BOOLEAN

VARIABLES
  now,         \* the clock, in ticks
  otp_codes,   \* rows by id; no code deletes one
  pc,          \* where each request is
  phone,       \* RequestOtpView: the number asked for
  otp,         \* VerifyOtpView: the row read ...
  attempts,    \* ... and its attempts column when read
  overlapped   \* history: rows that two verifications held at once

vars == <<now, otp_codes, pc, phone, otp, attempts, overlapped>>

\* History fields: failed, the SMS was not sent and the caller told so; misses
\* and logins, the verifications answered "Incorrect code" and those let in.
Row == [phone: Phones, created_at: Nat, expires_at: Nat, attempts: Nat,
        consumed: BOOLEAN, failed: BOOLEAN,
        misses: Nat, logins: Nat]

Ids == DOMAIN otp_codes

Recent(p) ==
  {i \in Ids : otp_codes[i].phone = p /\ otp_codes[i].created_at > now - Hour}

TooMany_OffByOne(p) == Cardinality(Recent(p)) > MaxPerHour
TooMany(p) == Cardinality(Recent(p)) >= MaxPerHour

Candidates_KeepsConsumed(p) ==
  {i \in Ids : otp_codes[i].phone = p /\ otp_codes[i].expires_at > now}
Candidates_KeepsExpired(p) ==
  {i \in Ids : otp_codes[i].phone = p /\ ~otp_codes[i].consumed}
Candidates(p) ==
  {i \in Ids : /\ otp_codes[i].phone = p
               /\ ~otp_codes[i].consumed
               /\ otp_codes[i].expires_at > now}

\* ORDER BY created_at DESC LIMIT 1: any of the newest, when they tie.
Newest(S) == {i \in S : \A j \in S : otp_codes[j].created_at <= otp_codes[i].created_at}

Locked_OffByOne(i) == otp_codes[i].attempts > MaxAttempts
Locked(i) == otp_codes[i].attempts >= MaxAttempts

Verifying == {r \in Requests : pc[r] \in {"miss", "hit"}}

-----------------------------------------------------------------------------

Init ==
  /\ now = 0
  /\ otp_codes = [i \in {} |-> i]
  /\ pc = [r \in Requests |-> "idle"]
  /\ phone = [r \in Requests |-> Nobody]
  /\ otp = [r \in Requests |-> Nobody]
  /\ attempts = [r \in Requests |-> 0]
  /\ overlapped = {}

Done(r) ==
  /\ pc' = [pc EXCEPT ![r] = "idle"]
  /\ phone' = [phone EXCEPT ![r] = Nobody]
  /\ otp' = [otp EXCEPT ![r] = Nobody]
  /\ attempts' = [attempts EXCEPT ![r] = 0]

\* RequestOtpView: count the phone's codes of the last hour.
CountRecent(r, p) ==
  /\ pc[r] = "idle"
  /\ ~TooMany(p)
  /\ pc' = [pc EXCEPT ![r] = "create"]
  /\ phone' = [phone EXCEPT ![r] = p]
  /\ UNCHANGED <<now, otp_codes, otp, attempts, overlapped>>

\* RequestOtpView: insert the new code; older ones stay as they are.
CreateOtp(r) ==
  /\ pc[r] = "create"
  /\ \E i \in Codes \ Ids :
       /\ otp_codes' =
            [x \in Ids \cup {i} |->
               IF x = i THEN [phone |-> phone[r], created_at |-> now,
                              expires_at |-> now + OtpTTL, attempts |-> 0,
                              consumed |-> FALSE, failed |-> FALSE,
                              misses |-> 0, logins |-> 0]
                        ELSE otp_codes[x]]
       /\ otp' = [otp EXCEPT ![r] = i]
  /\ pc' = [pc EXCEPT ![r] = "send"]
  /\ UNCHANGED <<now, phone, attempts, overlapped>>

\* send_otp_sms, the definition that is in force: printed in development,
\* RuntimeError in production, which RequestOtpView answers with a 502.
SendOtpSms(r) ==
  /\ pc[r] = "send"
  /\ otp_codes' = [otp_codes EXCEPT ![otp[r]].failed = Production]
  /\ Done(r)
  /\ UNCHANGED <<now, overlapped>>

\* VerifyOtpView: SELECT the newest usable code of the phone; a locked one is
\* refused on the spot, a right or a wrong one leads to an UPDATE.
FindOtp(r, p) ==
  /\ pc[r] = "idle"
  /\ \E i \in Newest(Candidates(p)) :
       /\ ~Locked(i)
       /\ otp_codes[i].misses + otp_codes[i].logins < MaxTries
       /\ \E answer \in {"miss", "hit"} : pc' = [pc EXCEPT ![r] = answer]
       /\ otp' = [otp EXCEPT ![r] = i]
       /\ attempts' = [attempts EXCEPT ![r] = otp_codes[i].attempts]
       /\ overlapped' = IF \E q \in Verifying : otp[q] = i
                        THEN overlapped \cup {i} ELSE overlapped
  /\ UNCHANGED <<now, otp_codes, phone>>

\* VerifyOtpView: write back the attempts read plus one, and answer 401.
SaveMiss(r) ==
  /\ pc[r] = "miss"
  /\ otp_codes' = [otp_codes EXCEPT ![otp[r]].attempts = attempts[r] + 1,
                                    ![otp[r]].misses = @ + 1]
  /\ Done(r)
  /\ UNCHANGED <<now, overlapped>>

\* VerifyOtpView: mark the row consumed and go on to sign the caller in.
SaveHit(r) ==
  /\ pc[r] = "hit"
  /\ otp_codes' = [otp_codes EXCEPT ![otp[r]].consumed = TRUE,
                                    ![otp[r]].logins = @ + 1]
  /\ Done(r)
  /\ UNCHANGED <<now, overlapped>>

\* The process dies or a statement raises.
Abort(r) ==
  /\ pc[r] # "idle"
  /\ Done(r)
  /\ UNCHANGED <<now, otp_codes, overlapped>>

Tick ==
  /\ now < MaxTime
  /\ now' = now + 1
  /\ UNCHANGED <<otp_codes, pc, phone, otp, attempts, overlapped>>

Next ==
  \/ \E r \in Requests, p \in Phones : CountRecent(r, p)
  \/ \E r \in Requests : CreateOtp(r)
  \/ \E r \in Requests : SendOtpSms(r)
  \/ \E r \in Requests, p \in Phones : FindOtp(r, p)
  \/ \E r \in Requests : SaveMiss(r)
  \/ \E r \in Requests : SaveHit(r)
  \/ \E r \in Requests : Abort(r)
  \/ Tick

Spec == Init /\ [][Next]_vars

-----------------------------------------------------------------------------
\* Types: a request holds a phone while it asks for a code and a row from the
\* INSERT or SELECT that gave it on; whatever races, no row counts more than
\* MaxAttempts attempts.
TypeOK ==
  /\ now \in 0..MaxTime
  /\ Ids \subseteq Codes
  /\ otp_codes \in [Ids -> Row]
  /\ \A i \in Ids : otp_codes[i].attempts <= MaxAttempts
  /\ pc \in [Requests -> {"idle", "create", "send", "miss", "hit"}]
  /\ phone \in [Requests -> Phones \cup {Nobody}]
  /\ \A r \in Requests : phone[r] # Nobody <=> pc[r] \in {"create", "send"}
  /\ otp \in [Requests -> Ids \cup {Nobody}]
  /\ \A r \in Requests : otp[r] # Nobody <=> pc[r] \in {"send", "miss", "hit"}
  /\ attempts \in [Requests -> Nat]
  /\ overlapped \subseteq Ids

\* "Too many incorrect attempts. Request a new code.": nobody is told
\* "Incorrect code" more than MaxAttempts times for a code, as long as it was
\* never verified by two requests at once, whatever the order of codes, misses,
\* expiries and requests that die half-way.
AttemptsLimitUnlessOverlapped ==
  \A i \in Ids \ overlapped : otp_codes[i].misses <= MaxAttempts

\* A code signs one caller in.  One that requests verified at once signs in those
\* that found it unconsumed, which are no more over its whole life than the server
\* runs side by side.  Older codes of the phone, usable again once it is consumed,
\* count on their own.
OneLoginPlusRaces ==
  \A i \in Ids :
    otp_codes[i].logins <= IF i \in overlapped THEN Cardinality(Requests) ELSE 1

\* "The real per-phone 3/hour check": requests that count before each other's
\* INSERT add one code each beyond MaxPerHour, and no more than that, however
\* the window slides meanwhile.
Pending(p) == {r \in Requests : pc[r] = "create" /\ phone[r] = p}
HourlyLimitPlusRaces ==
  \A p \in Phones :
    Cardinality(Recent(p)) + Cardinality(Pending(p))
      < MaxPerHour + Cardinality(Requests)

\* "Failed to send SMS. Please try again.": a phone none of whose codes of the
\* last hour could be sent may ask again.
FailedSmsMayRetry ==
  \A p \in Phones :
    TooMany(p) => \E i \in Recent(p) : ~otp_codes[i].failed

\* Once a code has signed somebody in, has expired or, if never verified by two
\* requests at once, is out of attempts, it stays so and requests to come get
\* nowhere with it: whoever is still signed in on it had found it before.
Spent(i) ==
  \/ otp_codes[i].logins > 0
  \/ otp_codes[i].expires_at <= now
  \/ i \notin overlapped /\ otp_codes[i].misses >= MaxAttempts
Hitters(i) == {r \in Requests : pc[r] = "hit" /\ otp[r] = i}
Chances(i) == otp_codes[i].logins + Cardinality(Hitters(i))
SpentStaysSpent ==
  [][\A i \in Ids : Spent(i) => Spent(i)' /\ Chances(i)' <= Chances(i)]_vars
=============================================================================
