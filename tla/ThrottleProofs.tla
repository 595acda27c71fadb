--------------------------- MODULE ThrottleProofs ---------------------------
(***************************************************************************)
(* Proofs about Throttle, for every set of requests and every limits and   *)
(* durations.                                                              *)
(***************************************************************************)
EXTENDS Throttle, FiniteSetTheorems, WellFoundedInduction, TLAPS

\* Newest first.
Sorted(h) == \A i, j \in DOMAIN h : i < j => h[i].at >= h[j].at
Entries(h) == {h[i] : i \in DOMAIN h}
Distinct(h) == \A i, j \in DOMAIN h : h[i] = h[j] => i = j

\* A log of requests in P, each once, newest first.
LogIn(s, h, P) ==
  /\ h \in Seq(Entry)
  /\ Len(h) <= Limit[s]
  /\ Sorted(h)
  /\ Distinct(h)
  /\ Entries(h) \subseteq P

\* The requests P that were let through are numbered in the order they were.
Numbered(P, t) ==
  /\ IsFiniteSet(P)
  /\ P \subseteq Entry
  /\ \A e \in P : e.nr < Cardinality(P) /\ e.at <= t

\* All of P that was let through in the Duration before t is in h.
Complete(s, h, t, P) == \A e \in P : e.at > t - Duration[s] => e \in Entries(h)

Window(s, t, P) == {e \in P : e.at \in (t - Duration[s] + 1)..t}

LogsInv ==
  \A s \in Scopes : LogIn(s, log[s], passed[s]) /\ Numbered(passed[s], now)

InsideInv ==
  \A r \in Requests : Inside(r) =>
    /\ LogIn(Scope(r), history[r], passed[Scope(r)])
    /\ Len(history[r]) < Limit[Scope(r)]
    /\ \A i \in DOMAIN history[r] : history[r][i].at <= stamp[r]

\* In a throttle where requests never met, the one inside read a log without
\* gaps, and nobody wrote since.
Unraced(s) ==
  /\ Complete(s, log[s], now, passed[s])
  /\ \A r \in Requests :
       Inside(r) /\ Scope(r) = s => Complete(s, history[r], stamp[r], passed[s])
  /\ \A q, r \in Requests :
       Inside(q) /\ Inside(r) /\ Scope(q) = s /\ Scope(r) = s => q = r
  /\ \A t \in Nat : Cardinality(Window(s, t, passed[s])) <= Limit[s]
UnracedInv == \A s \in Scopes \ raced : Unraced(s)

IInv == TypeOK /\ LogsInv /\ InsideInv /\ UnracedInv

-----------------------------------------------------------------------------
\* What Trim keeps of a log.

\* Natural numbers are well founded.
LEMMA Least ==
  ASSUME NEW T \in SUBSET Nat, T # {}
  PROVE  \E x \in T : \A y \in T : x <= y
<1> DEFINE R == {ss \in Nat \X Nat : ss[1] < ss[2]}
<1>1. IsWellFoundedOn(R, Nat)
  BY NatLessThanWellFounded DEF OpToRel
<1>2. PICK x \in T : \A y \in T : ~(<<y, x>> \in R)
  <2> HIDE DEF R
  <2>1. QED
    BY <1>1, WFMin
<1>3. \A y \in T : x <= y
  <2>1. TAKE y \in T
  <2>2. x \in Nat /\ y \in Nat /\ ~(<<y, x>> \in R)
    BY <1>2
  <2>3. <<y, x>> \in Nat \X Nat
    BY <2>2
  <2>4. ~(y < x)
    BY <2>2, <2>3
  <2>5. QED
    BY <2>2, <2>4
<1>4. QED
  BY <1>3

\* Popping old entries off the end comes to a stop.
LEMMA TrimStops ==
  ASSUME NEW h \in Seq(Entry), NEW cutoff \in Int
  PROVE  \E n \in 0..Len(h) : /\ n > 0 => h[n].at > cutoff
                              /\ \A i \in (n + 1)..Len(h) : h[i].at <= cutoff
<1> DEFINE T == {n \in 0..Len(h) : \A i \in (n + 1)..Len(h) : h[i].at <= cutoff}
<1>1. Len(h) \in Nat /\ \A i \in 1..Len(h) : h[i] \in Entry
  OBVIOUS
<1>2. T \in SUBSET Nat /\ Len(h) \in T
  BY <1>1
<1>3. PICK n \in T : \A m \in T : n <= m
  BY <1>2, Least
<1>4. ASSUME n > 0 PROVE h[n].at > cutoff
  <2>1. n \in 1..Len(h) /\ n - 1 \in 0..Len(h) /\ ~(n - 1 \in T)
    BY <1>1, <1>3, <1>4
  <2>2. PICK i \in n..Len(h) : ~(h[i].at <= cutoff)
    BY <2>1
  <2>3. i = n
    BY <1>3, <2>1, <2>2
  <2>4. h[n] \in Entry
    BY <1>1, <2>1
  <2>5. QED
    BY <2>2, <2>3, <2>4 DEF Entry
<1>5. QED
  BY <1>3, <1>4

\* It keeps a prefix, and with it everything that is younger than the cutoff;
\* of a log that is newest first it keeps nothing else.
LEMMA TrimKeeps ==
  ASSUME NEW h \in Seq(Entry), NEW cutoff \in Int
  PROVE  \E n \in 0..Len(h) :
           /\ Trim(h, cutoff) = SubSeq(h, 1, n)
           /\ Trim(h, cutoff) \in Seq(Entry)
           /\ Len(Trim(h, cutoff)) = n
           /\ \A i \in 1..n : Trim(h, cutoff)[i] = h[i]
           /\ n > 0 => h[n].at > cutoff
           /\ \A i \in (n + 1)..Len(h) : h[i].at <= cutoff
<1> DEFINE P(n) == /\ n > 0 => h[n].at > cutoff
                   /\ \A i \in (n + 1)..Len(h) : h[i].at <= cutoff
<1> DEFINE n == CHOOSE m \in 0..Len(h) : P(m)
<1>1. n \in 0..Len(h) /\ P(n)
  <2>1. \E m \in 0..Len(h) : P(m)
    BY TrimStops
  <2> HIDE DEF P
  <2>2. QED
    BY <2>1
<1>2. Trim(h, cutoff) = SubSeq(h, 1, n)
  BY DEF Trim
<1> HIDE DEF n
<1>3. n \in Nat /\ n <= Len(h)
  BY <1>1
<1>4. /\ SubSeq(h, 1, n) \in Seq(Entry)
      /\ Len(SubSeq(h, 1, n)) = n
      /\ \A i \in 1..n : SubSeq(h, 1, n)[i] = h[i]
  BY <1>3
<1>5. QED
  BY <1>1, <1>2, <1>4

LEMMA TrimmedLog ==
  ASSUME NEW s \in Scopes, NEW P, NEW h, LogIn(s, h, P), NEW cutoff \in Int
  PROVE  /\ LogIn(s, Trim(h, cutoff), P)
         /\ \A i \in DOMAIN Trim(h, cutoff) : Trim(h, cutoff)[i].at > cutoff
         /\ \A e \in Entries(h) : e.at > cutoff => e \in Entries(Trim(h, cutoff))
<1> DEFINE g == Trim(h, cutoff)
<1>1. h \in Seq(Entry)
  BY DEF LogIn
<1>2. PICK n \in 0..Len(h) :
           /\ g \in Seq(Entry)
           /\ Len(g) = n
           /\ \A i \in 1..n : g[i] = h[i]
           /\ n > 0 => h[n].at > cutoff
           /\ \A i \in (n + 1)..Len(h) : h[i].at <= cutoff
  BY <1>1, TrimKeeps
<1> HIDE DEF g
<1>3. /\ DOMAIN g = 1..n /\ DOMAIN h = 1..Len(h) /\ Len(h) \in Nat /\ n \in Nat
      /\ \A i \in 1..n : i \in 1..Len(h)
  BY <1>1, <1>2
<1>4. \A i \in 1..Len(h) : h[i].at \in Nat
  <2>1. \A i \in 1..Len(h) : h[i] \in Entry
    BY <1>1
  <2>2. QED
    BY <2>1 DEF Entry
<1>5. Sorted(g) /\ Distinct(g)
  BY <1>2, <1>3 DEF LogIn, Sorted, Distinct
<1>6. Entries(g) \subseteq P
  BY <1>2, <1>3 DEF LogIn, Entries
<1>7. Len(g) <= Limit[s]
  BY <1>2, <1>3, LimitAssumption DEF LogIn
<1>8. ASSUME NEW i \in 1..n PROVE g[i].at > cutoff
  <2>1. h[n].at > cutoff /\ n \in 1..Len(h) /\ i <= n /\ i \in 1..Len(h)
    BY <1>2, <1>3, <1>8
  <2>2. h[i].at >= h[n].at
    <3>1. CASE i = n
      BY <1>4, <2>1, <3>1
    <3>2. CASE i < n
      BY <1>3, <2>1, <3>2 DEF LogIn, Sorted
    <3>3. QED
      BY <1>3, <2>1, <3>1, <3>2
  <2>3. h[i].at \in Nat /\ h[n].at \in Nat
    BY <1>4, <2>1
  <2>4. QED
    BY <1>2, <2>1, <2>2, <2>3
<1>9. ASSUME NEW e \in Entries(h), e.at > cutoff PROVE e \in Entries(g)
  <2>1. PICK i \in 1..Len(h) : e = h[i]
    BY <1>3 DEF Entries
  <2>2. h[i].at \in Nat
    BY <1>4
  <2>3. i \notin (n + 1)..Len(h)
    BY <1>2, <1>9, <2>1, <2>2
  <2>4. i \in 1..n
    BY <1>3, <2>3
  <2>5. QED
    BY <1>2, <1>3, <2>1, <2>4 DEF Entries
<1>10. LogIn(s, g, P)
  BY <1>2, <1>5, <1>6, <1>7 DEF LogIn
<1>11. QED
  BY <1>3, <1>8, <1>9, <1>10 DEF g

\* A request put in front of a log that has room.
AllBefore(h, e) == \A i \in DOMAIN h : h[i].at <= e.at

LEMMA StampedLog ==
  ASSUME NEW s \in Scopes, NEW P, NEW h, LogIn(s, h, P), Len(h) < Limit[s],
         NEW e \in Entry, e \notin P, AllBefore(h, e)
  PROVE  /\ LogIn(s, Stamped(h, e), P \cup {e})
         /\ Entries(Stamped(h, e)) = Entries(h) \cup {e}
<1> DEFINE g == Stamped(h, e)
<1>0. \A i \in DOMAIN h : h[i].at <= e.at
  BY DEF AllBefore
<1>1. h \in Seq(Entry) /\ Len(h) \in Nat /\ DOMAIN h = 1..Len(h)
  BY DEF LogIn
<1>2. /\ g \in Seq(Entry) /\ Len(g) = Len(h) + 1 /\ DOMAIN g = 1..(Len(h) + 1)
      /\ g[1] = e
      /\ \A i \in 2..(Len(h) + 1) : g[i] = h[i - 1] /\ i - 1 \in 1..Len(h)
  BY <1>1 DEF Stamped
<1> HIDE DEF g
<1>3. \A i \in 1..Len(h) : g[i + 1] = h[i] /\ i + 1 \in DOMAIN g
  BY <1>1, <1>2
<1>4. Entries(g) = Entries(h) \cup {e}
  <2>1. Entries(g) \subseteq Entries(h) \cup {e}
    <3>1. \A i \in DOMAIN g : i = 1 \/ i \in 2..(Len(h) + 1)
      BY <1>1, <1>2
    <3>2. QED
      BY <1>1, <1>2, <3>1 DEF Entries
  <2>2. e \in Entries(g)
    BY <1>1, <1>2 DEF Entries
  <2>3. Entries(h) \subseteq Entries(g)
    BY <1>1, <1>3 DEF Entries
  <2>4. QED
    BY <2>1, <2>2, <2>3
<1>5. Len(g) <= Limit[s]
  BY <1>1, <1>2, LimitAssumption
<1>6. Sorted(g)
  <2>1. SUFFICES ASSUME NEW i \in 1..(Len(h) + 1), NEW j \in 1..(Len(h) + 1), i < j
                 PROVE  g[i].at >= g[j].at
    BY <1>2 DEF Sorted
  <2>2. j \in 2..(Len(h) + 1)
    BY <1>1, <2>1
  <2>3. CASE i = 1
    BY <1>0, <1>1, <1>2, <2>2, <2>3 DEF Entry
  <2>4. CASE i # 1
    <3>1. i \in 2..(Len(h) + 1) /\ i - 1 < j - 1
      BY <1>1, <2>1, <2>4
    <3>2. QED
      BY <1>1, <1>2, <2>2, <3>1 DEF LogIn, Sorted
  <2>5. QED
    BY <2>3, <2>4
<1>7. Distinct(g)
  <2>1. SUFFICES ASSUME NEW i \in 1..(Len(h) + 1), NEW j \in 1..(Len(h) + 1),
                        g[i] = g[j], i < j
                 PROVE  FALSE
    BY <1>1, <1>2 DEF Distinct
  <2>2. j \in 2..(Len(h) + 1)
    BY <1>1, <2>1
  <2>3. CASE i = 1
    <3>1. e \in Entries(h)
      BY <1>1, <1>2, <2>1, <2>2, <2>3 DEF Entries
    <3>2. QED
      BY <3>1 DEF LogIn
  <2>4. CASE i # 1
    <3>1. i \in 2..(Len(h) + 1)
      BY <1>1, <2>1, <2>4
    <3>2. h[i - 1] = h[j - 1] /\ i - 1 \in DOMAIN h /\ j - 1 \in DOMAIN h
      BY <1>1, <1>2, <2>1, <2>2, <3>1
    <3>3. i - 1 = j - 1
      BY <3>2 DEF LogIn, Distinct
    <3>4. QED
      BY <2>1, <3>3
  <2>5. QED
    BY <2>3, <2>4
<1>8. LogIn(s, g, P \cup {e})
  BY <1>2, <1>4, <1>5, <1>6, <1>7 DEF LogIn
<1>9. QED
  BY <1>4, <1>8 DEF g

\* A log is as long as it has entries.
LEMMA LogSize ==
  ASSUME NEW s \in Scopes, NEW P, NEW h, LogIn(s, h, P)
  PROVE  IsFiniteSet(Entries(h)) /\ Cardinality(Entries(h)) = Len(h)
<1>1. h \in Seq(Entry) /\ Len(h) \in Nat /\ DOMAIN h = 1..Len(h)
  BY DEF LogIn
<1> DEFINE f == [i \in 1..Len(h) |-> h[i]]
<1>2. f \in Bijection(1..Len(h), Entries(h))
  BY <1>1 DEF Bijection, Injection, Surjection, Entries, LogIn, Distinct, IsInjective
<1>3. ExistsBijection(1..Len(h), Entries(h))
  BY <1>2 DEF ExistsBijection
<1>4. QED
  BY <1>1, <1>3, FS_NatBijection, FS_CountingElements

\* Letting one more request through.
LEMMA NextNumber ==
  ASSUME NEW P, NEW t \in Nat, NEW t2 \in Nat, Numbered(P, t), t <= t2, NEW at \in 0..t2,
         NEW e, e = [at |-> at, nr |-> Cardinality(P)]
  PROVE  e \in Entry /\ e \notin P /\ Numbered(P \cup {e}, t2)
<1>1. Cardinality(P) \in Nat
  BY FS_CardinalityType DEF Numbered
<1>2. e \in Entry /\ e \notin P
  BY <1>1 DEF Numbered, Entry
<1>3. IsFiniteSet(P \cup {e}) /\ Cardinality(P \cup {e}) = Cardinality(P) + 1
  BY <1>2, FS_AddElement DEF Numbered
<1>4. ASSUME NEW x \in P \cup {e}
      PROVE  x.nr < Cardinality(P \cup {e}) /\ x.at <= t2
  <2>1. CASE x \in P
    <3>1. x \in Entry /\ x.nr < Cardinality(P) /\ x.at <= t
      BY <2>1 DEF Numbered
    <3>2. x.nr \in Nat /\ x.at \in Nat
      BY <3>1 DEF Entry
    <3>3. QED
      BY <1>1, <1>3, <3>1, <3>2
  <2>2. CASE x = e
    BY <1>1, <1>3, <2>2
  <2>3. QED
    BY <2>1, <2>2
<1>5. P \cup {e} \subseteq Entry
  BY <1>2 DEF Numbered
<1>6. QED
  BY <1>2, <1>3, <1>4, <1>5 DEF Numbered

\* The windows after one more request, stamped at: it is let through on a log
\* without gaps that has room, so no window overflows.
LEMMA WindowBound ==
  ASSUME NEW s \in Scopes, NEW P, IsFiniteSet(P), P \subseteq Entry,
         NEW h, LogIn(s, h, P), Len(h) < Limit[s],
         NEW e \in Entry, Complete(s, h, e.at, P),
         \A t \in Nat : Cardinality(Window(s, t, P)) <= Limit[s]
  PROVE  \A t \in Nat : Cardinality(Window(s, t, P \cup {e})) <= Limit[s]
<1> SUFFICES ASSUME NEW t \in Nat
             PROVE  Cardinality(Window(s, t, P \cup {e})) <= Limit[s]
  OBVIOUS
<1>1. Duration[s] \in Nat \ {0} /\ Limit[s] \in Nat
  BY LimitAssumption
<1>2. CASE e.at \in (t - Duration[s] + 1)..t
  <2>1. Window(s, t, P \cup {e}) \subseteq Entries(h) \cup {e}
    <3>1. SUFFICES ASSUME NEW x \in P, x.at \in (t - Duration[s] + 1)..t
                   PROVE  x \in Entries(h)
      BY DEF Window
    <3>2. x.at \in Nat /\ e.at \in Nat
      BY DEF Entry
    <3>3. x.at > e.at - Duration[s]
      BY <1>1, <1>2, <3>1, <3>2
    <3>4. QED
      BY <3>3 DEF Complete
  <2>2. IsFiniteSet(Entries(h)) /\ Cardinality(Entries(h)) = Len(h)
    BY LogSize
  <2>3. /\ IsFiniteSet(Entries(h) \cup {e})
        /\ Cardinality(Entries(h) \cup {e}) <= Cardinality(Entries(h)) + 1
    <3>1. Cardinality(Entries(h)) \in Nat
      BY <2>2, FS_CardinalityType
    <3>2. Cardinality(Entries(h) \cup {e}) \in
            {Cardinality(Entries(h)), Cardinality(Entries(h)) + 1}
      BY <2>2, FS_AddElement
    <3>3. QED
      BY <2>2, <3>1, <3>2, FS_AddElement
  <2>4. Cardinality(Window(s, t, P \cup {e})) <= Cardinality(Entries(h) \cup {e})
    BY <2>1, <2>3, FS_Subset
  <2>5. Len(h) \in Nat
    BY DEF LogIn
  <2>6. /\ IsFiniteSet(Window(s, t, P \cup {e}))
        /\ Cardinality(Window(s, t, P \cup {e})) \in Nat
        /\ Cardinality(Entries(h) \cup {e}) \in Nat
    BY <2>1, <2>3, FS_Subset, FS_CardinalityType
  <2>7. QED
    BY <1>1, <2>2, <2>3, <2>4, <2>5, <2>6
<1>3. CASE e.at \notin (t - Duration[s] + 1)..t
  <2>1. Window(s, t, P \cup {e}) = Window(s, t, P)
    BY <1>3 DEF Window
  <2>2. QED
    BY <2>1
<1>4. QED
  BY <1>2, <1>3

-----------------------------------------------------------------------------

\* Every request is at one of the checks of its route.
LEMMA ScopeType ==
  ASSUME TypeOK, NEW r \in Requests
  PROVE  Scope(r) \in Scopes /\ Len(Checks(route[r])) \in {1, 2}
<1>1. /\ route[r] \in {"otp", "report", "vote", "other"} /\ check[r] \in {1, 2}
      /\ check[r] <= IF pc[r] = "idle" THEN 1 ELSE Len(Checks(route[r]))
  BY RoutesAssumption DEF TypeOK
<1>2. CASE route[r] \in {"otp", "other"}
  <2>1. Len(Checks(route[r])) = 1 /\ Checks(route[r])[1] \in Scopes
    BY <1>2 DEF Checks, Scopes
  <2>2. QED
    BY <1>1, <2>1 DEF Scope
<1>3. CASE route[r] \in {"report", "vote"}
  <2>1. Len(Checks(route[r])) = 2 /\ \A i \in {1, 2} : Checks(route[r])[i] \in Scopes
    BY <1>3 DEF Checks, Scopes
  <2>2. QED
    BY <1>1, <2>1 DEF Scope
<1>4. QED
  BY <1>1, <1>2, <1>3

\* Other requests keep their place when one moves.
OthersKept(r) ==
  \A q \in Requests \ {r} :
    /\ pc'[q] = pc[q] /\ route'[q] = route[q] /\ check'[q] = check[q]
    /\ history'[q] = history[q] /\ stamp'[q] = stamp[q]

LEMMA DoneKeeps ==
  ASSUME TypeOK, NEW r \in Requests, Done(r)
  PROVE  OthersKept(r) /\ ~Inside(r)'
  BY DEF TypeOK, Done, OthersKept, Inside

LEMMA InsideKept ==
  ASSUME NEW r \in Requests, OthersKept(r)
  PROVE  \A q \in Requests \ {r} :
           /\ Inside(q)' <=> Inside(q)
           /\ Scope(q)' = Scope(q)
  BY DEF OthersKept, Inside, Scope

\* What GetLog reads, if the log is not full.
LEMMA ReadLog ==
  ASSUME TypeOK, LogsInv, NEW s \in Scopes, ~Full(s)
  PROVE  /\ LogIn(s, Live(s), passed[s])
         /\ Len(Live(s)) < Limit[s]
         /\ \A i \in DOMAIN Live(s) : Live(s)[i].at <= now
         /\ Complete(s, log[s], now, passed[s]) => Complete(s, Live(s), now, passed[s])
<1>1. LogIn(s, log[s], passed[s]) /\ Numbered(passed[s], now)
  BY DEF LogsInv
<1>2. now \in Nat /\ Duration[s] \in Nat /\ Limit[s] \in Nat
  BY LimitAssumption DEF TypeOK
<1>3. now - Duration[s] \in Int
  BY <1>2
<1>4. /\ LogIn(s, Live(s), passed[s])
      /\ \A e \in Entries(log[s]) : e.at > now - Duration[s] => e \in Entries(Live(s))
  BY <1>1, <1>3, TrimmedLog DEF Live
<1>5. Len(Live(s)) < Limit[s]
  BY <1>2, <1>4 DEF Full, LogIn
<1>6. \A i \in DOMAIN Live(s) : Live(s)[i].at <= now
  BY <1>1, <1>4 DEF LogIn, Entries, Numbered
<1>7. QED
  BY <1>4, <1>5, <1>6 DEF Complete

\* What SetLog writes.
NextEntry(r) == [at |-> stamp[r], nr |-> Cardinality(passed[Scope(r)])]

LEMMA WriteLog ==
  ASSUME TypeOK, LogsInv, InsideInv, NEW r \in Requests, SetLog(r)
  PROVE  /\ Scope(r) \in Scopes /\ Inside(r)
         /\ LogIn(Scope(r), history[r], passed[Scope(r)])
         /\ Len(history[r]) < Limit[Scope(r)]
         /\ NextEntry(r) \in Entry /\ NextEntry(r).at = stamp[r]
         /\ log' = [log EXCEPT ![Scope(r)] = Stamped(history[r], NextEntry(r))]
         /\ passed' = [passed EXCEPT ![Scope(r)] = @ \cup {NextEntry(r)}]
         /\ passed'[Scope(r)] = passed[Scope(r)] \cup {NextEntry(r)}
         /\ Numbered(passed'[Scope(r)], now)
         /\ LogIn(Scope(r), log'[Scope(r)], passed'[Scope(r)])
         /\ Entries(log'[Scope(r)]) = Entries(history[r]) \cup {NextEntry(r)}
<1> DEFINE s == Scope(r)
           e == NextEntry(r)
<1>1. s \in Scopes /\ Inside(r)
  BY ScopeType DEF SetLog, Inside
<1>2. /\ log' = [log EXCEPT ![s] = Stamped(history[r], e)]
      /\ passed' = [passed EXCEPT ![s] = @ \cup {e}]
  BY DEF SetLog, NextEntry
<1>3. log'[s] = Stamped(history[r], e) /\ passed'[s] = passed[s] \cup {e}
  BY <1>1, <1>2 DEF TypeOK
<1>4. /\ LogIn(s, history[r], passed[s]) /\ Len(history[r]) < Limit[s]
      /\ \A i \in DOMAIN history[r] : history[r][i].at <= stamp[r]
  BY <1>1 DEF InsideInv
<1>5. now \in Nat /\ stamp[r] \in 0..now /\ now <= now /\ Numbered(passed[s], now)
  BY <1>1 DEF TypeOK, LogsInv
<1>6. e \in Entry /\ e \notin passed[s] /\ Numbered(passed[s] \cup {e}, now)
  <2>1. e = [at |-> stamp[r], nr |-> Cardinality(passed[s])]
    BY DEF NextEntry
  <2> HIDE DEF s, e
  <2>2. QED
    BY <1>5, <2>1, NextNumber
<1>7. e.at = stamp[r]
  BY DEF NextEntry
<1> HIDE DEF s, e
<1>8. \A i \in DOMAIN history[r] : history[r][i].at <= e.at
  BY <1>4, <1>7
<1>9. /\ LogIn(s, Stamped(history[r], e), passed[s] \cup {e})
      /\ Entries(Stamped(history[r], e)) = Entries(history[r]) \cup {e}
  <2> DEFINE P == passed[s]
             h == history[r]
  <2>1. /\ s \in Scopes /\ e \in Entry
        /\ LogIn(s, h, P) /\ Len(h) < Limit[s] /\ e \notin P
        /\ AllBefore(h, e)
    BY <1>1, <1>4, <1>6, <1>8 DEF AllBefore
  <2> HIDE DEF P, h
  <2>2. LogIn(s, Stamped(h, e), P \cup {e}) /\ Entries(Stamped(h, e)) = Entries(h) \cup {e}
    BY ONLY <2>1, StampedLog
  <2>3. QED
    BY <2>2 DEF P, h
<1>10. QED
  BY <1>1, <1>2, <1>3, <1>4, <1>6, <1>7, <1>9 DEF s, e

-----------------------------------------------------------------------------

LEMMA InitInv == Init => IInv
<1> SUFFICES ASSUME Init PROVE IInv
  OBVIOUS
<1>1. TypeOK
  BY BoundAssumption, LimitAssumption DEF Init, TypeOK, Checks
<1>2. LogsInv
  <2>1. SUFFICES ASSUME NEW s \in Scopes
                 PROVE  LogIn(s, log[s], passed[s]) /\ Numbered(passed[s], now)
    BY DEF LogsInv
  <2>2. log[s] = <<>> /\ passed[s] = {}
    BY DEF Init
  <2>3. LogIn(s, <<>>, {})
    BY LimitAssumption DEF LogIn, Sorted, Distinct, Entries
  <2>4. Numbered({}, now)
    BY FS_EmptySet DEF Numbered
  <2>5. QED
    BY <2>2, <2>3, <2>4
<1>3. InsideInv
  BY DEF Init, InsideInv, Inside
<1>4. UnracedInv
  <2>1. SUFFICES ASSUME NEW s \in Scopes PROVE Unraced(s)
    BY DEF UnracedInv
  <2>2. passed[s] = {}
    BY DEF Init
  <2>3. \A t \in Nat : Window(s, t, {}) = {}
    BY DEF Window
  <2>4. \A t \in Nat : Cardinality(Window(s, t, {})) <= Limit[s]
    BY <2>3, FS_EmptySet, LimitAssumption
  <2>5. QED
    BY <2>2, <2>4 DEF Unraced, Complete, Inside, Init
<1>5. QED
  BY <1>1, <1>2, <1>3, <1>4 DEF IInv

LEMMA StepType == TypeOK /\ LogsInv /\ InsideInv /\ [Next]_vars => TypeOK'
<1> SUFFICES ASSUME TypeOK, LogsInv, InsideInv, [Next]_vars PROVE TypeOK'
  OBVIOUS
<1>0. now \in Nat /\ Len(Checks("other")) = 1
  BY DEF TypeOK, Checks
<1>1. ASSUME NEW r \in Requests, Done(r), now' = now, log' = log, passed' = passed,
             raced' = raced
      PROVE  TypeOK'
  BY <1>0, <1>1 DEF Done, TypeOK
<1>2. ASSUME NEW r \in Requests, NEW rt \in Routes, Begin(r, rt) PROVE TypeOK'
  <2>1. check[r] = 1 /\ Len(Checks(rt)) >= 1
    <3>1. CASE rt \in {"otp", "other"}
      BY <1>2, <3>1 DEF Checks, Begin, TypeOK
    <3>2. CASE rt \in {"report", "vote"}
      BY <1>2, <3>2 DEF Checks, Begin, TypeOK
    <3>3. QED
      BY <3>1, <3>2, RoutesAssumption
  <2>2. QED
    BY <1>2, <2>1 DEF Begin, TypeOK
<1>3. ASSUME NEW r \in Requests, GetLog(r) PROVE TypeOK'
  <2>1. CASE Full(Scope(r))
    BY <1>1, <1>3, <2>1 DEF GetLog
  <2>2. CASE ~Full(Scope(r))
    <3>1. Scope(r) \in Scopes
      BY ScopeType
    <3>2. Live(Scope(r)) \in Seq(Entry)
      BY <2>2, <3>1, ReadLog DEF LogIn
    <3>3. /\ history' = [history EXCEPT ![r] = Live(Scope(r))]
          /\ stamp' = [stamp EXCEPT ![r] = now]
          /\ pc' = [pc EXCEPT ![r] = "set"] /\ pc[r] = "get"
          /\ UNCHANGED <<now, log, route, check, passed>>
          /\ raced' \subseteq raced \cup {Scope(r)}
      BY <1>3, <2>2 DEF GetLog
    <3>4. QED
      BY <1>0, <3>1, <3>2, <3>3 DEF TypeOK
  <2>3. QED
    BY <2>1, <2>2
<1>4. ASSUME NEW r \in Requests, SetLog(r) PROVE TypeOK'
  <2> DEFINE s == Scope(r)
             e == NextEntry(r)
  <2>1. /\ s \in Scopes /\ e \in Entry
        /\ log' = [log EXCEPT ![s] = Stamped(history[r], e)]
        /\ passed' = [passed EXCEPT ![s] = @ \cup {e}]
        /\ LogIn(s, log'[s], passed'[s])
    BY <1>4, WriteLog
  <2> HIDE DEF s, e
  <2>2. log' \in [Scopes -> Seq(Entry)] /\ \A x \in Scopes : Len(log'[x]) <= Limit[x]
    BY <2>1 DEF LogIn, TypeOK
  <2>3. passed' \in [Scopes -> SUBSET Entry]
    BY <2>1 DEF TypeOK
  <2>4. pc[r] = "set" /\ now' = now /\ raced' = raced
    BY <1>4 DEF SetLog
  <2>5. CASE check[r] < Len(Checks(route[r]))
    <3>1. /\ pc' = [pc EXCEPT ![r] = "get"]
          /\ check' = [check EXCEPT ![r] = @ + 1]
          /\ UNCHANGED <<route, history, stamp>>
      BY <1>4, <2>5 DEF SetLog
    <3>2. check'[r] \in {1, 2} /\ check'[r] <= Len(Checks(route[r]))
      <4>1. check[r] = 1 /\ Len(Checks(route[r])) = 2
        <5> DEFINE c == check[r]
                   n == Len(Checks(route[r]))
        <5>1. c \in {1, 2} /\ n \in {1, 2} /\ c < n
          BY <2>5, ScopeType DEF TypeOK
        <5> HIDE DEF c, n
        <5>2. c = 1 /\ n = 2
          BY <5>1
        <5>3. QED
          BY <5>2 DEF c, n
      <4>2. QED
        BY <3>1, <4>1 DEF TypeOK
    <3>3. QED
      BY <1>0, <2>2, <2>3, <2>4, <3>1, <3>2 DEF TypeOK
  <2>6. CASE ~(check[r] < Len(Checks(route[r])))
    <3>1. Done(r)
      BY <1>4, <2>6 DEF SetLog
    <3>2. QED
      BY <1>0, <2>2, <2>3, <2>4, <3>1 DEF Done, TypeOK
  <2>7. QED
    BY <2>5, <2>6
<1>5. ASSUME NEW r \in Requests, Abort(r) PROVE TypeOK'
  BY <1>1, <1>5 DEF Abort
<1>6. CASE Tick
  BY <1>0, <1>6, BoundAssumption DEF Tick, TypeOK
<1>7. CASE UNCHANGED vars
  BY <1>7 DEF vars, TypeOK
<1>8. QED
  BY <1>2, <1>3, <1>4, <1>5, <1>6, <1>7 DEF Next

LEMMA StepLogs == TypeOK /\ LogsInv /\ InsideInv /\ [Next]_vars => LogsInv'
<1> SUFFICES ASSUME TypeOK, LogsInv, InsideInv, [Next]_vars PROVE LogsInv'
  OBVIOUS
<1>1. ASSUME NEW r \in Requests, SetLog(r) PROVE LogsInv'
  <2> DEFINE s == Scope(r)
             e == NextEntry(r)
  <2>1. /\ s \in Scopes
        /\ log' = [log EXCEPT ![s] = Stamped(history[r], e)]
        /\ passed' = [passed EXCEPT ![s] = @ \cup {e}]
        /\ LogIn(s, log'[s], passed'[s])
        /\ Numbered(passed'[s], now)
    BY <1>1, WriteLog
  <2> HIDE DEF s, e
  <2>2. now' = now
    BY <1>1 DEF SetLog
  <2>3. \A x \in Scopes \ {s} : log'[x] = log[x] /\ passed'[x] = passed[x]
    BY <2>1 DEF TypeOK
  <2>4. QED
    BY <2>1, <2>2, <2>3 DEF LogsInv
<1>2. CASE Tick
  <2>1. now \in Nat /\ now' = now + 1 /\ log' = log /\ passed' = passed
    BY <1>2 DEF Tick, TypeOK
  <2>2. ASSUME NEW s \in Scopes PROVE Numbered(passed[s], now')
    <3>1. Numbered(passed[s], now)
      BY DEF LogsInv
    <3>2. QED
      BY <2>1, <3>1 DEF Numbered, Entry
  <2>3. QED
    BY <2>1, <2>2 DEF LogsInv
<1>3. CASE UNCHANGED <<now, log, passed>>
  BY <1>3 DEF LogsInv
<1>4. QED
  BY <1>1, <1>2, <1>3 DEF Next, Begin, GetLog, Abort, vars

\* The log a request holds stays a log of requests let through.
LEMMA StepInside == TypeOK /\ LogsInv /\ InsideInv /\ [Next]_vars => InsideInv'
<1> SUFFICES ASSUME TypeOK, LogsInv, InsideInv, [Next]_vars,
                    NEW q \in Requests, Inside(q)'
             PROVE  /\ LogIn(Scope(q), history[q], passed[Scope(q)])'
                    /\ (Len(history[q]) < Limit[Scope(q)])'
                    /\ (\A i \in DOMAIN history[q] : history[q][i].at <= stamp[q])'
  BY DEF InsideInv
<1>1. ASSUME Inside(q), Scope(q)' = Scope(q), history'[q] = history[q],
             stamp'[q] = stamp[q], passed[Scope(q)] \subseteq passed'[Scope(q)]
      PROVE  /\ LogIn(Scope(q), history[q], passed[Scope(q)])'
             /\ (Len(history[q]) < Limit[Scope(q)])'
             /\ (\A i \in DOMAIN history[q] : history[q][i].at <= stamp[q])'
  <2>1. /\ LogIn(Scope(q), history[q], passed[Scope(q)])
        /\ Len(history[q]) < Limit[Scope(q)]
        /\ \A i \in DOMAIN history[q] : history[q][i].at <= stamp[q]
    BY <1>1 DEF InsideInv
  <2>2. LogIn(Scope(q), history[q], passed'[Scope(q)])
    BY <1>1, <2>1 DEF LogIn
  <2>3. QED
    BY <1>1, <2>1, <2>2
<1>2. ASSUME NEW r \in Requests, NEW rt \in Routes, Begin(r, rt)
      PROVE  /\ q # r /\ OthersKept(r) /\ passed' = passed
  BY <1>2 DEF Begin, OthersKept, Inside, TypeOK
<1>3. ASSUME NEW r \in Requests, GetLog(r), q = r
      PROVE  /\ LogIn(Scope(q), history[q], passed[Scope(q)])'
             /\ (Len(history[q]) < Limit[Scope(q)])'
             /\ (\A i \in DOMAIN history[q] : history[q][i].at <= stamp[q])'
  <2>1. CASE Full(Scope(r))
    BY <1>3, <2>1, DoneKeeps DEF GetLog
  <2>2. CASE ~Full(Scope(r))
    <3>1. /\ history'[r] = Live(Scope(r)) /\ stamp'[r] = now
          /\ Scope(r)' = Scope(r) /\ passed' = passed
      BY <1>3, <2>2 DEF GetLog, TypeOK, Scope
    <3>2. Scope(r) \in Scopes
      BY ScopeType
    <3>3. QED
      BY <1>3, <2>2, <3>1, <3>2, ReadLog
  <2>3. QED
    BY <2>1, <2>2
<1>4. ASSUME NEW r \in Requests, GetLog(r) PROVE OthersKept(r) /\ passed' = passed
  BY <1>4, DoneKeeps DEF GetLog, OthersKept, TypeOK
<1>5. ASSUME NEW r \in Requests, SetLog(r)
      PROVE  /\ q # r /\ OthersKept(r)
             /\ \A s \in Scopes : passed[s] \subseteq passed'[s]
  <2>1. OthersKept(r) /\ ~Inside(r)'
    BY <1>5, DoneKeeps DEF SetLog, OthersKept, Inside, TypeOK
  <2>2. \A s \in Scopes : passed[s] \subseteq passed'[s]
    BY <1>5, WriteLog DEF TypeOK
  <2>3. QED
    BY <2>1, <2>2
<1>6. ASSUME NEW r \in Requests, Abort(r) PROVE q # r /\ OthersKept(r) /\ passed' = passed
  BY <1>6, DoneKeeps DEF Abort
<1>7. ASSUME NEW r \in Requests, q # r, OthersKept(r),
             \A s \in Scopes : passed[s] \subseteq passed'[s]
      PROVE  /\ LogIn(Scope(q), history[q], passed[Scope(q)])'
             /\ (Len(history[q]) < Limit[Scope(q)])'
             /\ (\A i \in DOMAIN history[q] : history[q][i].at <= stamp[q])'
  BY <1>1, <1>7, InsideKept, ScopeType DEF OthersKept
<1>8. CASE UNCHANGED <<pc, route, check, history, stamp, passed>>
  BY <1>1, <1>8 DEF Inside, Scope
<1>9. QED
  BY <1>2, <1>3, <1>4, <1>5, <1>6, <1>7, <1>8 DEF Next, Tick, vars

\* Nobody writes the log of s or enters its throttle: nothing is lost.
LEMMA UnracedKept ==
  ASSUME TypeOK, LogsInv, NEW s \in Scopes, Unraced(s),
         now' \in Nat, now' >= now, log'[s] = log[s], passed'[s] = passed[s],
         \A q \in Requests : Inside(q)' /\ Scope(q)' = s =>
           /\ Inside(q) /\ Scope(q) = s
           /\ history'[q] = history[q] /\ stamp'[q] = stamp[q]
  PROVE  Unraced(s)'
<1>1. Complete(s, log[s], now', passed[s])
  <2>1. now \in Nat /\ Duration[s] \in Nat
    BY LimitAssumption DEF TypeOK
  <2>2. \A e \in passed[s] : e.at \in Nat
    BY DEF LogsInv, Numbered, Entry
  <2>3. QED
    BY <2>1, <2>2 DEF Unraced, Complete
<1>2. \A r \in Requests :
        Inside(r)' /\ Scope(r)' = s => Complete(s, history'[r], stamp'[r], passed'[s])
  BY DEF Unraced
<1>3. \A q, r \in Requests :
        Inside(q)' /\ Inside(r)' /\ Scope(q)' = s /\ Scope(r)' = s => q = r
  BY DEF Unraced
<1>4. QED
  BY <1>1, <1>2, <1>3 DEF Unraced

LEMMA StepUnraced ==
  TypeOK /\ LogsInv /\ InsideInv /\ UnracedInv /\ [Next]_vars => UnracedInv'
<1> SUFFICES ASSUME TypeOK, LogsInv, InsideInv, UnracedInv, [Next]_vars,
                    NEW s \in Scopes, s \notin raced'
             PROVE  Unraced(s)'
  BY DEF UnracedInv
<1>0. now \in Nat /\ (raced \subseteq raced' => Unraced(s))
  BY DEF UnracedInv, TypeOK
<1>1. ASSUME NEW r \in Requests, OthersKept(r), ~Inside(r)' \/ Scope(r)' # s,
             raced' = raced, now' = now, log'[s] = log[s], passed'[s] = passed[s]
      PROVE  Unraced(s)'
  BY <1>0, <1>1, InsideKept, UnracedKept DEF OthersKept
<1>2. ASSUME NEW r \in Requests, NEW rt \in Routes, Begin(r, rt) PROVE Unraced(s)'
  BY <1>1, <1>2 DEF Begin, OthersKept, Inside, TypeOK
<1>3. ASSUME NEW r \in Requests, GetLog(r) PROVE Unraced(s)'
  <2>1. CASE Full(Scope(r))
    BY <1>1, <1>3, <2>1, DoneKeeps DEF GetLog
  <2>2. CASE ~Full(Scope(r))
    <3>1. /\ Scope(r) \in Scopes /\ Scope(r)' = Scope(r) /\ OthersKept(r)
          /\ history'[r] = Live(Scope(r)) /\ stamp'[r] = now
          /\ UNCHANGED <<now, log, passed>>
          /\ raced' = IF \E q \in Requests \ {r} : Inside(q) /\ Scope(q) = Scope(r)
                      THEN raced \cup {Scope(r)} ELSE raced
      BY <1>3, <2>2, ScopeType DEF GetLog, TypeOK, Scope, OthersKept
    <3>2. Unraced(s)
      BY <1>0, <3>1
    <3>3. CASE Scope(r) # s
      <4>1. \A q \in Requests : Inside(q)' /\ Scope(q)' = s =>
              /\ Inside(q) /\ Scope(q) = s
              /\ history'[q] = history[q] /\ stamp'[q] = stamp[q]
        BY <3>1, <3>3, InsideKept DEF OthersKept
      <4>2. QED
        BY <1>0, <3>1, <3>2, <4>1, UnracedKept
    <3>4. CASE Scope(r) = s
      <4>1. \A q \in Requests \ {r} : ~(Inside(q)' /\ Scope(q)' = s)
        BY <3>1, <3>4, InsideKept
      <4>2. Complete(s, log[s], now, passed[s])
        BY <3>2 DEF Unraced
      <4>3. Complete(s, Live(s), now, passed[s])
        BY <2>2, <3>4, <4>2, ReadLog
      <4>4. \A q \in Requests : Inside(q)' /\ Scope(q)' = s => q = r
        BY <4>1
      <4>5. \A q \in Requests :
              Inside(q)' /\ Scope(q)' = s => Complete(s, history'[q], stamp'[q], passed'[s])
        BY <3>1, <3>4, <4>3, <4>4
      <4>6. QED
        BY <3>1, <3>2, <4>2, <4>4, <4>5 DEF Unraced
    <3>5. QED
      BY <3>3, <3>4
  <2>3. QED
    BY <2>1, <2>2
<1>4. ASSUME NEW r \in Requests, SetLog(r) PROVE Unraced(s)'
  <2>1. /\ raced' = raced /\ now' = now /\ Inside(r) /\ OthersKept(r) /\ ~Inside(r)'
    BY <1>4, DoneKeeps DEF SetLog, OthersKept, Inside, TypeOK
  <2>2. CASE Scope(r) # s
    <3>1. log'[s] = log[s] /\ passed'[s] = passed[s]
      BY <1>4, <2>2, WriteLog DEF TypeOK
    <3>2. QED
      BY <1>1, <2>1, <3>1
  <2>3. CASE Scope(r) = s
    <3> DEFINE e == NextEntry(r)
               P == passed[s]
               h == history[r]
    <3>1. /\ LogIn(s, h, P) /\ Len(h) < Limit[s]
          /\ e \in Entry /\ e.at = stamp[r]
          /\ passed'[s] = P \cup {e}
          /\ Entries(log'[s]) = Entries(h) \cup {e}
      BY <1>4, <2>3, WriteLog
    <3>2. Unraced(s)
      BY <1>0, <2>1
    <3>3. Complete(s, h, e.at, P)
      BY <2>1, <2>3, <3>1, <3>2 DEF Unraced
    <3>4. \A t \in Nat : Cardinality(Window(s, t, P)) <= Limit[s]
      BY <3>2 DEF Unraced
    <3>5. IsFiniteSet(P) /\ P \subseteq Entry
      BY DEF LogsInv, Numbered
    <3>6. stamp[r] \in Nat /\ stamp[r] <= now /\ Duration[s] \in Nat
      BY LimitAssumption DEF TypeOK
    <3> HIDE DEF e, P, h
    <3>7. \A t \in Nat : Cardinality(Window(s, t, P \cup {e})) <= Limit[s]
      BY <3>1, <3>3, <3>4, <3>5, WindowBound
    <3>8. Complete(s, log'[s], now, P \cup {e})
      <4>1. ASSUME NEW x \in P, x.at > now - Duration[s] PROVE x \in Entries(h)
        <5>1. x.at \in Nat
          BY <3>5 DEF Entry
        <5>2. x.at > e.at - Duration[s]
          BY <1>0, <3>1, <3>6, <4>1, <5>1
        <5>3. QED
          BY <3>3, <5>2 DEF Complete
      <4>2. QED
        BY <3>1, <4>1 DEF Complete
    <3>9. \A q \in Requests : ~(Inside(q)' /\ Scope(q)' = s)
      <4>1. SUFFICES ASSUME NEW q \in Requests, Inside(q)', Scope(q)' = s PROVE FALSE
        OBVIOUS
      <4>2. q # r /\ Inside(q) /\ Scope(q) = s
        BY <2>1, <4>1, InsideKept
      <4>3. QED
        BY <2>1, <2>3, <3>2, <4>2 DEF Unraced
    <3>10. QED
      BY <2>1, <3>1, <3>7, <3>8, <3>9 DEF Unraced
  <2>4. QED
    BY <2>2, <2>3
<1>5. ASSUME NEW r \in Requests, Abort(r) PROVE Unraced(s)'
  BY <1>1, <1>5, DoneKeeps DEF Abort
<1>6. CASE Tick
  BY <1>0, <1>6, UnracedKept DEF Tick, Inside, Scope
<1>7. CASE UNCHANGED vars
  BY <1>0, <1>7, UnracedKept DEF vars, Inside, Scope
<1>8. QED
  BY <1>2, <1>3, <1>4, <1>5, <1>6, <1>7 DEF Next

LEMMA StepInv == IInv /\ [Next]_vars => IInv'
  BY StepType, StepLogs, StepInside, StepUnraced DEF IInv

-----------------------------------------------------------------------------

\* No log outgrows its limit, however requests overwrite each other's entries.
THEOREM TypeCorrect == Spec => []TypeOK
  BY InitInv, StepInv, PTL DEF Spec, IInv

\* Trimming from the old end is enough: a log is newest first, although racing
\* requests write back logs they read at different times.
LogNewestFirst ==
  \A s \in Scopes : \A i, j \in DOMAIN log[s] : i < j => log[s][i].at >= log[s][j].at

\* A log stays newest first, however requests race.
THEOREM NewestFirst == Spec => []LogNewestFirst
<1>1. IInv => LogNewestFirst
  BY DEF IInv, LogsInv, LogIn, Sorted, LogNewestFirst
<1>2. QED
  BY <1>1, InitInv, StepInv, PTL DEF Spec

\* Whatever races, a client is refused only after Limit requests of it were let
\* through within the last Duration.
THEOREM RefusedAtLimit == Spec => []RefusedAtLimitOnly
<1>1. IInv => RefusedAtLimitOnly
  <2>1. SUFFICES ASSUME TypeOK, LogsInv, NEW s \in Scopes, Full(s)
                 PROVE  Cardinality(PassedSince(s, now - Duration[s])) >= Limit[s]
    BY DEF IInv, RefusedAtLimitOnly
  <2> DEFINE P == PassedSince(s, now - Duration[s])
  <2>2. now - Duration[s] \in Int /\ Limit[s] \in Nat
    <3>1. now \in Nat /\ Duration[s] \in Nat /\ Limit[s] \in Nat
      BY <2>1, LimitAssumption DEF TypeOK
    <3>2. QED
      BY <3>1
  <2>3. /\ LogIn(s, Live(s), passed[s])
        /\ \A i \in DOMAIN Live(s) : Live(s)[i].at > now - Duration[s]
    BY <2>1, <2>2, TrimmedLog DEF LogsInv, Live
  <2>4. Entries(Live(s)) \subseteq P
    BY <2>3 DEF LogIn, Entries, PassedSince
  <2>5. IsFiniteSet(P)
    <3>1. IsFiniteSet(passed[s]) /\ P \subseteq passed[s]
      BY <2>1 DEF LogsInv, Numbered, PassedSince
    <3>2. QED
      BY <3>1, FS_Subset
  <2>6. IsFiniteSet(Entries(Live(s))) /\ Cardinality(Entries(Live(s))) = Len(Live(s))
    BY <2>3, LogSize
  <2>7. Cardinality(Entries(Live(s))) <= Cardinality(P)
    BY <2>4, <2>5, FS_Subset
  <2>8. Len(Live(s)) \in Nat /\ Len(Live(s)) >= Limit[s] /\ Cardinality(P) \in Nat
    BY <2>1, <2>3, <2>5, FS_CardinalityType DEF Full, LogIn
  <2>9. QED
    BY <2>2, <2>6, <2>7, <2>8
<1>2. QED
  BY <1>1, InitInv, StepInv, PTL DEF Spec

\* Requests that never met inside a throttle are let through Limit times at
\* most in any stretch of Duration.
THEOREM Limited == Spec => []LimitUnlessRaced
<1>1. IInv => LimitUnlessRaced
  BY BoundAssumption DEF IInv, UnracedInv, Unraced, Window, LimitUnlessRaced
<1>2. QED
  BY <1>1, InitInv, StepInv, PTL DEF Spec
=============================================================================
