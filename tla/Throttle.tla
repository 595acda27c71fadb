------------------------------ MODULE Throttle ------------------------------
(***************************************************************************)
(* Rate limits: the throttles of accounts/throttling.py on top of DRF's    *)
(* SimpleRateThrottle, whose log of requests is in the cache.              *)
(*                                                                         *)
(* allow_request gets the log (GetLog) and sets it (SetLog) in two calls   *)
(* to the cache, so server processes interleave between them.  Logs of     *)
(* different clients never meet; this is one client, signed in, whose logs *)
(* are keyed by user on every route but the one that sends a one-time      *)
(* code, which is keyed by address.  SetLog also gives the log a timeout   *)
(* of Duration; when it passes, all that is lost is what GetLog would trim *)
(* away.                                                                   *)
(***************************************************************************)
EXTENDS Integers, Sequences, FiniteSets

CONSTANTS
  Requests,   \* requests of the client the server processes run side by side
  Routes,     \* routes the client uses
  Limit,      \* num_requests of each throttle
  Duration,   \* duration_seconds of each throttle in ticks
  MaxPassed,  \* bound on the requests let through by their first throttle
  MaxTime     \* bound on the clock

Scopes == {"global", "otp_request", "incident_create", "vote"}

ASSUME RoutesAssumption == Routes \subseteq {"otp", "report", "vote", "other"}
ASSUME LimitAssumption ==
  /\ Limit \in [Scopes -> Nat \ {0}]
  /\ Duration \in [Scopes -> Nat \ {0}]
ASSUME BoundAssumption == MaxPassed \in Nat /\ MaxTime \in Nat

\* The throttles a request meets, in order.  RequestOtpView's own classes
\* replace the default; the two incident views call theirs from the handler.
Checks(route) ==
  CASE route = "otp"    -> <<"otp_request">>
    [] route = "report" -> <<"global", "incident_create">>
    [] route = "vote"   -> <<"global", "vote">>
    [] route = "other"  -> <<"global">>

VARIABLES
  now,      \* the clock, in ticks
  log,      \* the cached logs, newest first; nr is a history field
  pc,       \* where each request is
  route,    \* what it asks for
  check,    \* the check it is at
  history,  \* the log it read, trimmed
  stamp,    \* self.now of that check
  passed,   \* history: the requests each throttle let through
  raced     \* history: throttles two requests were inside of at once

vars == <<now, log, pc, route, check, history, stamp, passed, raced>>

Entry == [at: Nat, nr: Nat]

Scope(r) == Checks(route[r])[check[r]]
Inside(r) == pc[r] = "set"

\* while history[-1] <= now - duration: pop
Trim_KeepsBoundary(h, cutoff) ==
  SubSeq(h, 1, CHOOSE n \in 0..Len(h) :
                 /\ n > 0 => h[n].at >= cutoff
                 /\ \A i \in (n + 1)..Len(h) : h[i].at < cutoff)
Trim(h, cutoff) ==
  SubSeq(h, 1, CHOOSE n \in 0..Len(h) :
                 /\ n > 0 => h[n].at > cutoff
                 /\ \A i \in (n + 1)..Len(h) : h[i].at <= cutoff)

Live(s) == Trim(log[s], now - Duration[s])

Full_OffByOne(s) == Len(Live(s)) > Limit[s]
Full(s) == Len(Live(s)) >= Limit[s]

-----------------------------------------------------------------------------

Init ==
  /\ now = 0
  /\ log = [s \in Scopes |-> <<>>]
  /\ pc = [r \in Requests |-> "idle"]
  /\ route = [r \in Requests |-> "other"]
  /\ check = [r \in Requests |-> 1]
  /\ history = [r \in Requests |-> <<>>]
  /\ stamp = [r \in Requests |-> 0]
  /\ passed = [s \in Scopes |-> {}]
  /\ raced = {}

Done(r) ==
  /\ pc' = [pc EXCEPT ![r] = "idle"]
  /\ route' = [route EXCEPT ![r] = "other"]
  /\ check' = [check EXCEPT ![r] = 1]
  /\ history' = [history EXCEPT ![r] = <<>>]
  /\ stamp' = [stamp EXCEPT ![r] = 0]

\* check_throttles starts.
Begin(r, rt) ==
  /\ pc[r] = "idle"
  /\ Cardinality(passed["global"]) + Cardinality(passed["otp_request"]) < MaxPassed
  /\ pc' = [pc EXCEPT ![r] = "get"]
  /\ route' = [route EXCEPT ![r] = rt]
  /\ UNCHANGED <<now, log, check, history, stamp, passed, raced>>

\* allow_request up to its answer: get the log, trim it, count.  A full log
\* ends the request, by DRF's 429 or by the view's own.
GetLog(r) ==
  LET s == Scope(r)
  IN  /\ pc[r] = "get"
      /\ IF Full(s)
         THEN Done(r) /\ UNCHANGED raced
         ELSE /\ pc' = [pc EXCEPT ![r] = "set"]
              /\ history' = [history EXCEPT ![r] = Live(s)]
              /\ stamp' = [stamp EXCEPT ![r] = now]
              /\ raced' = IF \E q \in Requests \ {r} : Inside(q) /\ Scope(q) = s
                          THEN raced \cup {s} ELSE raced
              /\ UNCHANGED <<route, check>>
      /\ UNCHANGED <<now, log, passed>>

\* throttle_success: put the request in front of the log it read and set it.
Stamped(h, e) == <<e>> \o h

\* Then the next check, or the handler.
SetLog(r) ==
  LET s == Scope(r)
      entry == [at |-> stamp[r], nr |-> Cardinality(passed[s])]
  IN  /\ pc[r] = "set"
      /\ log' = [log EXCEPT ![s] = Stamped(history[r], entry)]
      /\ passed' = [passed EXCEPT ![s] = @ \cup {entry}]
      /\ IF check[r] < Len(Checks(route[r]))
         THEN /\ pc' = [pc EXCEPT ![r] = "get"]
              /\ check' = [check EXCEPT ![r] = @ + 1]
              /\ UNCHANGED <<route, history, stamp>>
         ELSE Done(r)
      /\ UNCHANGED <<now, raced>>

\* The process dies, or a permission or a validation ends the request.
Abort(r) ==
  /\ pc[r] # "idle"
  /\ Done(r)
  /\ UNCHANGED <<now, log, passed, raced>>

Tick ==
  /\ now < MaxTime
  /\ now' = now + 1
  /\ UNCHANGED <<log, pc, route, check, history, stamp, passed, raced>>

Next ==
  \/ \E r \in Requests, rt \in Routes : Begin(r, rt)
  \/ \E r \in Requests : GetLog(r)
  \/ \E r \in Requests : SetLog(r)
  \/ \E r \in Requests : Abort(r)
  \/ Tick

Spec == Init /\ [][Next]_vars

-----------------------------------------------------------------------------
\* Types: no log is longer than its limit, whatever races.
TypeOK ==
  /\ now \in 0..MaxTime
  /\ log \in [Scopes -> Seq(Entry)]
  /\ \A s \in Scopes : Len(log[s]) <= Limit[s]
  /\ pc \in [Requests -> {"idle", "get", "set"}]
  /\ route \in [Requests -> Routes \cup {"other"}]
  /\ check \in [Requests -> {1, 2}]
  /\ \A r \in Requests : check[r] <= IF pc[r] = "idle" THEN 1 ELSE Len(Checks(route[r]))
  /\ history \in [Requests -> Seq(Entry)]
  /\ stamp \in [Requests -> 0..now]
  /\ passed \in [Scopes -> SUBSET Entry]
  /\ raced \subseteq Scopes

\* Requests let through in the last Duration ticks.
PassedSince(s, t) == {e \in passed[s] : e.at > t}

\* No stretch of Duration ticks has more than Limit requests in it, if the
\* requests never meet inside the throttle.
LimitUnlessRaced ==
  \A s \in Scopes \ raced : \A t \in 0..MaxTime :
    Cardinality({e \in passed[s] : e.at \in (t - Duration[s] + 1)..t}) <= Limit[s]

\* No client is refused early: whatever races, requests about to be refused
\* follow Limit others that were let through within the last Duration ticks.
RefusedAtLimitOnly ==
  \A s \in Scopes :
    Full(s) => Cardinality(PassedSince(s, now - Duration[s])) >= Limit[s]
=============================================================================
