---------------------------- MODULE TrafficProofs ----------------------------
(***************************************************************************)
(* Proofs about Traffic, for every length of the hour, every set of        *)
(* segments and workers and every level of congestion a reading may have.  *)
(* The donut rests on the sum of a set of readings, a recursive function:  *)
(* that it exists and how large it is follows from Nat being well founded. *)
(***************************************************************************)
EXTENDS Traffic, FiniteSetTheorems, WellFoundedInduction, TLAPS

FiniteInv == IsFiniteSet(traffic_readings) /\ IsFiniteSet(DOMAIN agg)

\* Hours that begin on the hour; an hour that was read or written is over.
HourMark(b) == b \in Nat /\ Trunc(b) = b
HoursInv ==
  /\ \A w \in Workers : pc[w] = "write" => HourMark(bucket[w]) /\ bucket[w] + Hour <= now
  /\ \A b \in done : b + Hour <= now

OfHour(rs, b) == {r \in rs : Trunc(r.recorded_at) = b}
OnTime(b) == {r \in OfHour(traffic_readings, b) : ~r.late}

\* A run at work holds readings of its hour, all that were on time among them.
FoundInv ==
  \A w \in Workers : pc[w] = "write" =>
    /\ \A r \in found[w] : Trunc(r.recorded_at) = bucket[w]
    /\ OnTime(bucket[w]) \subseteq found[w]

\* Of an hour that no two runs worked on at once, one run is at work at most,
\* and it holds what earlier ones averaged.
SeenInv ==
  \A w \in Workers : pc[w] = "write" /\ bucket[w] \notin raced =>
    /\ OfHour(seen, bucket[w]) \subseteq found[w]
    /\ \A v \in Workers : pc[v] = "write" /\ bucket[v] = bucket[w] => v = w

\* The hours of the trend in one band.
Band(b) == {k \in Recent(since) : InBand(agg[k], b)}

\* A dashboard that no run has crossed has counted the bands as they are.
DonutInv ==
  /\ dash = "idle" => donut = <<>>
  /\ ~torn => \A b \in 1..Len(donut) : donut[b] = Cardinality(Band(b))

IInv ==
  /\ TypeOK /\ FiniteInv /\ HoursInv /\ FoundInv /\ SeenInv
  /\ OnTimeIsCounted /\ SeenStaysCounted /\ DonutInv

-----------------------------------------------------------------------------
\* date_trunc.

LEMMA TruncBounds ==
  ASSUME NEW t \in Nat
  PROVE  /\ Trunc(t) \in Nat /\ Trunc(t) <= t /\ t < Trunc(t) + Hour
         /\ \E q \in Nat : Trunc(t) = Hour * q
<1>1. t % Hour \in 0..(Hour - 1)
  BY TimeAssumption, SMT
<1>2. t = Hour * (t \div Hour) + (t % Hour) /\ t \div Hour \in Nat
  BY TimeAssumption, SMT
<1>3. Trunc(t) = Hour * (t \div Hour)
  BY <1>1, <1>2, TimeAssumption DEF Trunc
<1>4. Trunc(t) \in Nat /\ Trunc(t) <= t /\ t < Trunc(t) + Hour
  BY TimeAssumption, SMT DEF Trunc
<1>5. QED
  BY <1>2, <1>3, <1>4

LEMMA TruncUnique ==
  ASSUME NEW q \in Nat, NEW t \in Nat, Hour * q <= t, t < Hour * q + Hour
  PROVE  Trunc(t) = Hour * q
<1>1. Hour * q \in Nat
  BY TimeAssumption
<1>2. t - Hour * q \in 0..(Hour - 1)
  BY <1>1, TimeAssumption
<1>3. t = Hour * q + (t - Hour * q)
  BY <1>1
<1>4. ASSUME NEW r \in 0..(Hour - 1), t = Hour * q + r PROVE t % Hour = r
  BY <1>4, TimeAssumption, SMT
<1>5. t % Hour = t - Hour * q
  BY <1>2, <1>3, <1>4
<1>6. QED
  BY <1>1, <1>5 DEF Trunc

\* The hour before t's is the one that the rollup reads.
LEMMA TruncBefore ==
  ASSUME NEW t \in Nat, t >= Hour
  PROVE  /\ t - Hour \in Nat
         /\ Trunc(t - Hour) \in Nat /\ Trunc(t - Hour) + Hour = Trunc(t)
         /\ Trunc(Trunc(t - Hour)) = Trunc(t - Hour)
<1>1. t - Hour \in Nat /\ Hour \in Nat /\ Hour > 0
  BY TimeAssumption
<1>2. PICK q \in Nat : Trunc(t - Hour) = Hour * q
  BY <1>1, TruncBounds
<1>3. Hour * q \in Nat /\ Hour * q <= t - Hour /\ t - Hour < Hour * q + Hour
  BY <1>1, <1>2, TruncBounds
<1>4. Hour * (q + 1) = Hour * q + Hour
  BY <1>1
<1>5. Trunc(t) = Hour * (q + 1)
  <2>1. q + 1 \in Nat /\ Hour * (q + 1) <= t /\ t < Hour * (q + 1) + Hour
    BY <1>1, <1>3, <1>4
  <2>2. QED
    BY <2>1, TruncUnique
<1>6. Trunc(Hour * q) = Hour * q
  BY <1>1, <1>3, TruncUnique
<1>7. QED
  BY <1>1, <1>2, <1>3, <1>4, <1>5, <1>6

\* WHERE selects the readings of one hour, both ends right.
LEMMA LastHourIsHour ==
  ASSUME TypeOK, NEW t \in Nat, t >= Hour
  PROVE  LastHour(t) = OfHour(traffic_readings, Trunc(t - Hour))
<1> DEFINE b == Trunc(t - Hour)
<1>1. b \in Nat /\ b + Hour = Trunc(t) /\ t - Hour \in Nat
  BY TruncBefore
<1>2. PICK q \in Nat : b = Hour * q
  BY <1>1, TruncBounds
<1> HIDE DEF b
<1>3. ASSUME NEW r \in traffic_readings
      PROVE  Trunc(r.recorded_at) = b <=> b <= r.recorded_at /\ r.recorded_at < b + Hour
  <2>1. r.recorded_at \in Nat
    BY TimeAssumption DEF TypeOK, Reading
  <2>2. ASSUME b <= r.recorded_at, r.recorded_at < b + Hour PROVE Trunc(r.recorded_at) = b
    BY <1>2, <2>1, <2>2, TruncUnique
  <2>3. QED
    BY <2>1, <2>2, TruncBounds
<1>4. LastHour(t) = {r \in traffic_readings : b <= r.recorded_at /\ r.recorded_at < b + Hour}
  BY <1>1 DEF LastHour, b
<1>5. QED
  BY <1>3, <1>4 DEF OfHour, b

\* What a run writes: of every segment its group, where it has one.
Keys(rs) == {Key(r) : r \in rs}

LEMMA WriteEffect ==
  ASSUME TypeOK, FiniteInv, HoursInv, FoundInv, NEW w \in Workers, RollupWrite(w)
  PROVE  /\ DOMAIN agg' = DOMAIN agg \cup Keys(found[w])
         /\ IsFiniteSet(DOMAIN agg')
         /\ \A k \in Keys(found[w]) :
              /\ agg'[k] = Group(found[w], k) /\ agg'[k] # {}
              /\ k \in Segments \X (0..MaxTime) /\ k[2] = bucket[w]
         /\ \A k \in DOMAIN agg \ Keys(found[w]) : agg'[k] = agg[k]
<1> DEFINE rs == found[w]
<1>1. /\ agg' = Upsert(agg, rs) /\ pc[w] = "write"
      /\ rs \subseteq traffic_readings
      /\ \A r \in rs : Trunc(r.recorded_at) = bucket[w]
  BY DEF RollupWrite, FoundInv, TypeOK, agg
<1> HIDE DEF rs
<1>2. DOMAIN agg' = DOMAIN agg \cup Keys(rs)
  BY <1>1 DEF Upsert, Keys
<1>3. IsFiniteSet(Keys(rs))
  <2> DEFINE f == [r \in rs |-> Key(r)]
  <2>1. f \in Surjection(rs, Keys(rs))
    BY DEF Surjection, Keys
  <2>2. IsFiniteSet(rs)
    BY <1>1, FS_Subset DEF FiniteInv
  <2>3. QED
    BY <2>1, <2>2, FS_Surjection
<1>4. IsFiniteSet(DOMAIN agg')
  BY <1>2, <1>3, FS_Union DEF FiniteInv
<1>5. ASSUME NEW k \in Keys(rs)
      PROVE  /\ agg'[k] = Group(rs, k) /\ agg'[k] # {}
             /\ k \in Segments \X (0..MaxTime) /\ k[2] = bucket[w]
  <2>1. PICK r \in rs : k = Key(r)
    BY DEF Keys
  <2>2. r \in Group(rs, k)
    BY <2>1 DEF Group
  <2>3. r \in Reading /\ Trunc(r.recorded_at) = bucket[w] /\ bucket[w] \in 0..MaxTime
    BY <1>1 DEF TypeOK
  <2>4. k \in Segments \X (0..MaxTime) /\ k[2] = bucket[w]
    BY <2>1, <2>3 DEF Key, Reading
  <2>5. agg'[k] = Group(rs, k)
    BY <1>1, <1>2, <2>2 DEF Upsert, Keys
  <2>6. QED
    BY <2>2, <2>4, <2>5
<1>6. ASSUME NEW k \in DOMAIN agg \ Keys(rs) PROVE agg'[k] = agg[k]
  <2>1. Group(rs, k) = {}
    BY DEF Group, Keys
  <2>2. QED
    BY <1>1, <1>6, <2>1 DEF Upsert, Keys
<1>7. QED
  BY <1>2, <1>4, <1>5, <1>6 DEF rs

\* What a run reads: its whole hour.
LEMMA ReadEffect ==
  ASSUME TypeOK, NEW w \in Workers, RollupRead(w)
  PROVE  LET b == Trunc(now - Hour)
         IN  /\ HourMark(b) /\ b \in 0..MaxTime /\ b + Hour <= now
             /\ pc' = [pc EXCEPT ![w] = "write"]
             /\ bucket' = [bucket EXCEPT ![w] = b]
             /\ found' = [found EXCEPT ![w] = OfHour(traffic_readings, b)]
             /\ UNCHANGED <<now, traffic_readings, agg, dash, since, donut, done, seen, torn>>
<1> DEFINE b == Trunc(now - Hour)
<1>1. now \in Nat /\ now <= MaxTime /\ now >= Hour /\ Hour \in Nat
  BY TimeAssumption DEF RollupRead, TypeOK
<1>2. b \in Nat /\ b + Hour = Trunc(now) /\ Trunc(b) = b /\ Trunc(now) <= now
  BY <1>1, TruncBefore, TruncBounds
<1>3. LastHour(now) = OfHour(traffic_readings, b)
  BY <1>1, LastHourIsHour
<1> HIDE DEF b
<1>4. HourMark(b) /\ b \in 0..MaxTime /\ b + Hour <= now
  BY <1>1, <1>2, TimeAssumption DEF HourMark
<1>5. /\ pc' = [pc EXCEPT ![w] = "write"]
      /\ bucket' = [bucket EXCEPT ![w] = b]
      /\ found' = [found EXCEPT ![w] = OfHour(traffic_readings, b)]
      /\ UNCHANGED <<now, traffic_readings, agg, dash, since, donut, done, seen, torn>>
  BY <1>3 DEF RollupRead, b
<1>6. QED
  BY <1>4, <1>5 DEF b

\* Who stores a reading stores it behind the others.
LEMMA StoreEffect ==
  ASSUME TypeOK, FiniteInv, NEW s \in Segments, NEW t \in 0..MaxTime,
         NEW sample \in Samples, StoreReading(s, t, sample)
  PROVE  /\ \E r \in Reading :
              /\ traffic_readings' = traffic_readings \cup {r}
              /\ r.segment_id = s /\ r.recorded_at = t /\ t <= now
              /\ r.late <=> Trunc(t) # Trunc(now)
         /\ FiniteInv'
         /\ UNCHANGED <<now, agg, pc, bucket, found, dash, since, donut, done, seen, raced, torn>>
<1> DEFINE r == [nr |-> Cardinality(traffic_readings) + 1, segment_id |-> s, recorded_at |-> t,
                 congestion_level |-> sample.congestion_level, inside |-> sample.inside,
                 late |-> Trunc(t) # Trunc(now)]
<1>1. /\ traffic_readings' = traffic_readings \cup {r} /\ t <= now
      /\ UNCHANGED <<now, agg, pc, bucket, found, dash, since, donut, done, seen, raced, torn>>
  BY DEF StoreReading
<1>2. Cardinality(traffic_readings) \in Nat
  BY FS_CardinalityType DEF FiniteInv
<1>3. sample.congestion_level \in 0..100 /\ sample.inside \in BOOLEAN
  BY SamplesAssumption
<1>4. r \in Reading
  BY <1>2, <1>3 DEF Reading
<1>5. FiniteInv'
  BY <1>1, FS_AddElement DEF FiniteInv
<1>6. QED
  BY <1>1, <1>4, <1>5

-----------------------------------------------------------------------------

LEMMA InitInv == Init => IInv
<1> SUFFICES ASSUME Init PROVE IInv
  OBVIOUS
<1>1. TypeOK
  <2>1. DOMAIN agg = {} /\ now = 0 /\ since = 0 /\ torn = FALSE
    BY DEF Init, agg
  <2>2. donut \in Seq(Nat) /\ Len(donut) <= 3
    BY DEF Init
  <2>3. /\ now \in 0..MaxTime
        /\ pc \in [Workers -> {"idle", "write"}]
        /\ bucket \in [Workers -> 0..MaxTime]
        /\ found \in [Workers -> SUBSET traffic_readings]
    BY TimeAssumption DEF Init
  <2>4. /\ traffic_readings = {} /\ seen = {} /\ done = {} /\ raced = {}
        /\ dash \in {"idle", "count"}
    BY DEF Init
  <2>5. /\ traffic_readings \subseteq Reading
        /\ \A r \in traffic_readings : r.recorded_at <= now
        /\ done \subseteq 0..MaxTime /\ raced \subseteq 0..MaxTime
        /\ seen \subseteq traffic_readings
    BY <2>4
  <2>6. /\ DOMAIN agg \subseteq Segments \X (0..MaxTime)
        /\ \A k \in DOMAIN agg : /\ agg[k] # {}
                                 /\ agg[k] \subseteq Group(traffic_readings, k)
                                 /\ k[2] + Hour <= now
    BY <2>1
  <2>7. since \in Int /\ torn \in BOOLEAN
    <3>1. since \in Int
      BY <2>1
    <3>2. torn \in BOOLEAN
      BY <2>1
    <3>3. QED
      BY <3>1, <3>2
  <2>8. QED
    BY <2>2, <2>3, <2>4, <2>5, <2>6, <2>7, Zenon DEF TypeOK
<1>2. FiniteInv
  BY FS_EmptySet DEF Init, FiniteInv, agg
<1>3. HoursInv /\ FoundInv /\ SeenInv
  BY DEF Init, HoursInv, FoundInv, SeenInv
<1>4. OnTimeIsCounted /\ SeenStaysCounted
  BY DEF Init, OnTimeIsCounted, SeenStaysCounted
<1>5. DonutInv
  BY DEF Init, DonutInv
<1>6. QED
  BY <1>1, <1>2, <1>3, <1>4, <1>5 DEF IInv

\* A step of the dashboard leaves the rest alone.
DashStep == DashBegin \/ DashCount \/ DashEnd
LEMMA DashEffect ==
  ASSUME TypeOK, FiniteInv, DashStep
  PROVE  /\ UNCHANGED <<now, traffic_readings, agg, pc, bucket, found, done, seen, raced>>
         /\ TypeOK'
<1>1. UNCHANGED <<now, traffic_readings, agg, pc, bucket, found, done, seen, raced>>
  BY DEF DashStep, DashBegin, DashCount, DashEnd
<1>2. dash' \in {"idle", "count"} /\ since' \in Int /\ torn' \in BOOLEAN
  <2>1. dash' \in {"idle", "count"} /\ torn' \in BOOLEAN
    BY DEF DashStep, DashBegin, DashCount, DashEnd, TypeOK
  <2>2. now - TrendHours * Hour \in Int
    BY TimeAssumption DEF TypeOK
  <2>3. since' \in Int
    BY <2>2 DEF DashStep, DashBegin, DashCount, DashEnd, TypeOK
  <2>4. QED
    BY <2>1, <2>3
<1>3. donut' \in Seq(Nat) /\ Len(donut') <= 3
  <2>1. CASE DashCount
    <3> DEFINE S == {k \in Recent(since) : InBand(agg[k], Len(donut) + 1)}
    <3>1. Cardinality(S) \in Nat
      <4>1. S \subseteq DOMAIN agg
        BY DEF Recent
      <4>2. QED
        BY <4>1, FS_Subset, FS_CardinalityType DEF FiniteInv
    <3>2. Len(CONGESTION_BUCKETS) = 3
      BY DEF CONGESTION_BUCKETS
    <3>3. donut' = Append(donut, Cardinality(S)) /\ Len(donut) < 3
      BY <2>1, <3>2 DEF DashCount
    <3> HIDE DEF S
    <3>4. QED
      BY <3>1, <3>3 DEF TypeOK
  <2>2. CASE ~DashCount
    <3>1. donut' = donut \/ donut' = <<>>
      BY <2>2 DEF DashStep, DashBegin, DashEnd
    <3>2. <<>> \in Seq(Nat) /\ Len(<<>>) <= 3
      OBVIOUS
    <3>3. QED
      BY <3>1, <3>2 DEF TypeOK
  <2>3. QED
    BY <2>1, <2>2
<1>4. QED
  BY <1>1, <1>2, <1>3 DEF TypeOK

LEMMA StepType ==
  TypeOK /\ FiniteInv /\ HoursInv /\ FoundInv /\ [Next]_vars => TypeOK' /\ FiniteInv'
<1> SUFFICES ASSUME TypeOK, FiniteInv, HoursInv, FoundInv, [Next]_vars
             PROVE  TypeOK' /\ FiniteInv'
  OBVIOUS
<1>0. now \in Nat /\ Hour \in Nat /\ MaxTime \in Nat
  BY TimeAssumption DEF TypeOK
<1>1. ASSUME NEW s \in Segments, NEW t \in 0..MaxTime, NEW sample \in Samples,
             StoreReading(s, t, sample)
      PROVE  TypeOK' /\ FiniteInv'
  <2>1. PICK r \in Reading : /\ traffic_readings' = traffic_readings \cup {r}
                             /\ r.recorded_at <= now
    BY <1>1, StoreEffect
  <2>2. /\ UNCHANGED <<now, agg, pc, bucket, found, dash, since, donut, done, seen, raced, torn>>
        /\ FiniteInv'
    BY <1>1, StoreEffect
  <2>3. \A k \in DOMAIN agg : Group(traffic_readings, k) \subseteq Group(traffic_readings', k)
    BY <2>1 DEF Group
  <2>4. QED
    BY <2>1, <2>2, <2>3 DEF TypeOK
<1>2. ASSUME NEW w \in Workers, RollupRead(w) PROVE TypeOK' /\ FiniteInv'
  <2> DEFINE b == Trunc(now - Hour)
  <2>1. /\ HourMark(b) /\ b \in 0..MaxTime
        /\ pc' = [pc EXCEPT ![w] = "write"]
        /\ bucket' = [bucket EXCEPT ![w] = b]
        /\ found' = [found EXCEPT ![w] = OfHour(traffic_readings, b)]
        /\ UNCHANGED <<now, traffic_readings, agg, dash, since, donut, done, seen, torn>>
    BY <1>2, ReadEffect
  <2>2. raced' \subseteq raced \cup {b}
    BY <1>2 DEF RollupRead
  <2> HIDE DEF b
  <2>3. found' \in [Workers -> SUBSET traffic_readings]
    BY <2>1 DEF OfHour, TypeOK
  <2>4. QED
    BY <2>1, <2>2, <2>3 DEF TypeOK, FiniteInv
<1>3. ASSUME NEW w \in Workers, RollupWrite(w) PROVE TypeOK' /\ FiniteInv'
  <2>1. /\ DOMAIN agg' = DOMAIN agg \cup Keys(found[w])
        /\ IsFiniteSet(DOMAIN agg')
        /\ \A k \in Keys(found[w]) :
             /\ agg'[k] = Group(found[w], k) /\ agg'[k] # {}
             /\ k \in Segments \X (0..MaxTime) /\ k[2] = bucket[w]
        /\ \A k \in DOMAIN agg \ Keys(found[w]) : agg'[k] = agg[k]
    BY <1>3, WriteEffect
  <2>2. /\ pc' = [pc EXCEPT ![w] = "idle"]
        /\ bucket' = [bucket EXCEPT ![w] = 0]
        /\ found' = [found EXCEPT ![w] = {}]
        /\ done' = done \cup {bucket[w]} /\ seen' = seen \cup found[w]
        /\ torn' = (torn \/ dash = "count")
        /\ UNCHANGED <<now, traffic_readings, dash, since, donut, raced>>
    BY <1>3 DEF RollupWrite, RollupEnd
  <2>3. bucket[w] + Hour <= now /\ bucket[w] \in 0..MaxTime /\ found[w] \subseteq traffic_readings
    BY <1>3 DEF RollupWrite, HoursInv, TypeOK
  <2>4. \A k \in DOMAIN agg' :
          /\ k \in Segments \X (0..MaxTime) /\ agg'[k] # {}
          /\ agg'[k] \subseteq Group(traffic_readings', k) /\ k[2] + Hour <= now'
    <3>1. TAKE k \in DOMAIN agg'
    <3>2. CASE k \in Keys(found[w])
      BY <2>1, <2>2, <2>3, <3>2 DEF Group
    <3>3. CASE k \notin Keys(found[w])
      BY <2>1, <2>2, <3>3 DEF TypeOK
    <3>4. QED
      BY <3>2, <3>3
  <2>5. found' \in [Workers -> SUBSET traffic_readings']
    BY <2>2 DEF TypeOK
  <2>6. torn' \in BOOLEAN
    BY <2>2
  <2>7. DOMAIN agg' \subseteq Segments \X (0..MaxTime)
    BY <2>4
  <2>8. /\ pc' \in [Workers -> {"idle", "write"}]
        /\ bucket' \in [Workers -> 0..MaxTime]
        /\ done' \subseteq 0..MaxTime /\ seen' \subseteq traffic_readings'
    <3>1. 0 \in 0..MaxTime
      BY <1>0
    <3>2. bucket' \in [Workers -> 0..MaxTime]
      BY <2>2, <3>1 DEF TypeOK
    <3>3. QED
      BY <2>2, <2>3, <3>2 DEF TypeOK
  <2>9. QED
    BY <2>1, <2>2, <2>4, <2>5, <2>6, <2>7, <2>8 DEF TypeOK, FiniteInv
<1>4. ASSUME NEW w \in Workers, RollupAbort(w) PROVE TypeOK' /\ FiniteInv'
  <2>1. /\ pc' = [pc EXCEPT ![w] = "idle"]
        /\ bucket' = [bucket EXCEPT ![w] = 0]
        /\ found' = [found EXCEPT ![w] = {}]
        /\ UNCHANGED <<now, traffic_readings, agg, dash, since, donut, done, seen, raced, torn>>
    BY <1>4 DEF RollupAbort, RollupEnd
  <2>2. found' \in [Workers -> SUBSET traffic_readings']
    BY <2>1 DEF TypeOK
  <2>3. QED
    BY <1>0, <2>1, <2>2 DEF TypeOK, FiniteInv
<1>5. CASE DashStep
  BY <1>5, DashEffect DEF FiniteInv
<1>6. CASE Tick
  <2>1. /\ now' = now + 1 /\ now' \in 0..MaxTime
        /\ UNCHANGED <<traffic_readings, agg, pc, bucket, found, dash, since, donut, done, seen, raced, torn>>
    BY <1>0, <1>6 DEF Tick, TypeOK
  <2>2. \A r \in traffic_readings : r.recorded_at <= now'
    BY <1>0, <2>1 DEF TypeOK, Reading
  <2>3. \A k \in DOMAIN agg : k[2] + Hour <= now'
    <3>1. TAKE k \in DOMAIN agg
    <3>2. k[2] \in Nat /\ k[2] + Hour <= now
      BY <1>0 DEF TypeOK
    <3>3. QED
      BY <1>0, <2>1, <3>2
  <2>4. QED
    BY <2>1, <2>2, <2>3 DEF TypeOK, FiniteInv
<1>7. CASE UNCHANGED vars
  <2>1. UNCHANGED <<now, traffic_readings, agg, pc, bucket, found, dash, since, donut, done, seen, raced, torn>>
    BY <1>7 DEF vars
  <2>2. QED
    BY <2>1 DEF TypeOK, FiniteInv
<1>8. QED
  BY <1>1, <1>2, <1>3, <1>4, <1>5, <1>6, <1>7 DEF Next, DashStep

-----------------------------------------------------------------------------
\* Hours and the runs at work on them.

LEMMA StepRuns ==
  /\ TypeOK /\ FiniteInv /\ HoursInv /\ FoundInv /\ SeenInv /\ [Next]_vars
  => HoursInv' /\ FoundInv' /\ SeenInv'
<1> SUFFICES ASSUME TypeOK, FiniteInv, HoursInv, FoundInv, SeenInv, [Next]_vars
             PROVE  HoursInv' /\ FoundInv' /\ SeenInv'
  OBVIOUS
<1>0. now \in Nat /\ Hour \in Nat \ {0} /\ MaxTime \in Nat
  BY TimeAssumption DEF TypeOK
\* A reading of an hour that is over comes late.
<1>1. ASSUME NEW s \in Segments, NEW t \in 0..MaxTime, NEW sample \in Samples,
             StoreReading(s, t, sample)
      PROVE  HoursInv' /\ FoundInv' /\ SeenInv'
  <2>1. PICK r \in Reading : /\ traffic_readings' = traffic_readings \cup {r}
                             /\ r.recorded_at = t
                             /\ r.late <=> Trunc(t) # Trunc(now)
    BY <1>1, StoreEffect
  <2>2. UNCHANGED <<now, agg, pc, bucket, found, done, seen, raced>>
    BY <1>1, StoreEffect
  <2>3. ASSUME NEW b \in Nat, b + Hour <= now
        PROVE  OnTime(b)' = OnTime(b)
    <3>1. Trunc(now) # b
      BY <1>0, <2>3, TruncBounds
    <3>2. r \notin OnTime(b)'
      BY <2>1, <3>1 DEF OnTime, OfHour
    <3>3. QED
      BY <2>1, <3>2 DEF OnTime, OfHour
  <2>4. FoundInv'
    BY <2>2, <2>3 DEF FoundInv, HoursInv, HourMark
  <2>5. HoursInv' /\ SeenInv'
    BY <2>2 DEF HoursInv, HourMark, SeenInv, OfHour
  <2>6. QED
    BY <2>4, <2>5
<1>2. ASSUME NEW w \in Workers, RollupRead(w) PROVE HoursInv' /\ FoundInv' /\ SeenInv'
  <2> DEFINE b == Trunc(now - Hour)
  <2>1. /\ HourMark(b) /\ b + Hour <= now
        /\ pc' = [pc EXCEPT ![w] = "write"]
        /\ bucket' = [bucket EXCEPT ![w] = b]
        /\ found' = [found EXCEPT ![w] = OfHour(traffic_readings, b)]
        /\ UNCHANGED <<now, traffic_readings, done, seen>>
    BY <1>2, ReadEffect
  <2>2. /\ pc[w] = "idle"
        /\ raced' = IF \E v \in Workers : pc[v] = "write" /\ bucket[v] = b
                    THEN raced \cup {b} ELSE raced
    BY <1>2 DEF RollupRead
  <2> HIDE DEF b
  <2>3. /\ pc'[w] = "write" /\ bucket'[w] = b /\ found'[w] = OfHour(traffic_readings, b)
        /\ \A v \in Workers \ {w} :
             pc'[v] = pc[v] /\ bucket'[v] = bucket[v]
    BY <2>1 DEF TypeOK
  <2>4. \A v \in Workers \ {w} : found'[v] = found[v]
    BY <2>1 DEF TypeOK
  <2>5. HoursInv'
    BY <2>1, <2>3 DEF HoursInv, HourMark
  <2>6. FoundInv'
    BY <2>1, <2>3, <2>4 DEF FoundInv, OnTime, OfHour
  <2>7. SeenInv'
    <3>1. OfHour(seen, b) \subseteq found'[w]
      BY <2>3 DEF OfHour, TypeOK
    <3>2. SUFFICES ASSUME NEW x \in Workers, pc'[x] = "write", bucket'[x] \notin raced'
                   PROVE  /\ OfHour(seen, bucket'[x]) \subseteq found'[x]
                          /\ \A v \in Workers : pc'[v] = "write" /\ bucket'[v] = bucket'[x] => v = x
      BY <2>1 DEF SeenInv, OfHour
    <3>3. bucket'[x] \notin raced
      BY <2>2, <3>2
    <3>4. CASE x = w
      BY <2>2, <2>3, <3>1, <3>2, <3>4
    <3>5. CASE x # w
      <4>1. pc[x] = "write" /\ bucket[x] = bucket'[x] /\ found'[x] = found[x]
        BY <2>3, <2>4, <3>2, <3>5
      <4>2. bucket[x] # b
        BY <2>2, <2>3, <3>2, <4>1
      <4>3. QED
        BY <2>3, <3>3, <4>1, <4>2 DEF SeenInv
    <3>6. QED
      BY <3>4, <3>5
  <2>8. QED
    BY <2>5, <2>6, <2>7
<1>3. ASSUME NEW w \in Workers, RollupEnd(w), pc[w] = "write",
             seen' \in {seen, seen \cup found[w]}, done' \in {done, done \cup {bucket[w]}}
      PROVE  HoursInv' /\ FoundInv' /\ SeenInv'
  <2>1. UNCHANGED <<now, traffic_readings, raced>> /\ pc'[w] = "idle"
    BY <1>3 DEF RollupEnd, TypeOK
  <2>2. \A v \in Workers : pc'[v] = "write" =>
          v # w /\ pc[v] = "write" /\ bucket'[v] = bucket[v] /\ found'[v] = found[v]
    BY <1>3, <2>1 DEF RollupEnd, TypeOK
  <2>3. HoursInv'
    BY <1>3, <2>1, <2>2 DEF HoursInv, HourMark
  <2>4. FoundInv'
    BY <2>1, <2>2 DEF FoundInv, OnTime, OfHour
  <2>5. SeenInv'
    <3>1. SUFFICES ASSUME NEW x \in Workers, x # w, pc[x] = "write", bucket[x] \notin raced
                   PROVE  /\ OfHour(seen', bucket[x]) \subseteq found[x]
                          /\ \A v \in Workers : pc'[v] = "write" /\ bucket[v] = bucket[x] => v = x
      BY <2>1, <2>2 DEF SeenInv, OfHour
    <3>2. bucket[w] # bucket[x]
      BY <1>3, <3>1 DEF SeenInv
    <3>3. OfHour(seen', bucket[x]) = OfHour(seen, bucket[x])
      BY <1>3, <3>2 DEF OfHour, FoundInv
    <3>4. QED
      BY <2>2, <3>1, <3>3 DEF SeenInv
  <2>6. QED
    BY <2>3, <2>4, <2>5
<1>4. CASE DashStep
  <2>1. UNCHANGED <<now, traffic_readings, pc, bucket, found, done, seen, raced>>
    BY <1>4, DashEffect
  <2>2. QED
    BY <2>1 DEF HoursInv, HourMark, FoundInv, OnTime, OfHour, SeenInv
<1>5. CASE Tick
  <2>1. now' = now + 1 /\ UNCHANGED <<traffic_readings, pc, bucket, found, done, seen, raced>>
    BY <1>5 DEF Tick
  <2>2. HoursInv'
    BY <1>0, <2>1 DEF HoursInv, HourMark, TypeOK
  <2>3. QED
    BY <2>1, <2>2 DEF FoundInv, OnTime, OfHour, SeenInv
<1>6. CASE UNCHANGED vars
  <2>1. UNCHANGED <<now, traffic_readings, pc, bucket, found, done, seen, raced>>
    BY <1>6 DEF vars
  <2>2. QED
    BY <2>1 DEF HoursInv, HourMark, FoundInv, OnTime, OfHour, SeenInv
<1>7. QED
  BY <1>1, <1>2, <1>3, <1>4, <1>5, <1>6 DEF Next, DashStep, RollupWrite, RollupAbort

-----------------------------------------------------------------------------
\* What the aggregates keep.

LEMMA StepCounted ==
  /\ TypeOK /\ FiniteInv /\ HoursInv /\ FoundInv /\ SeenInv
  /\ OnTimeIsCounted /\ SeenStaysCounted /\ [Next]_vars
  => OnTimeIsCounted' /\ SeenStaysCounted'
<1> SUFFICES ASSUME TypeOK, FiniteInv, HoursInv, FoundInv, SeenInv,
                    OnTimeIsCounted, SeenStaysCounted, [Next]_vars
             PROVE  OnTimeIsCounted' /\ SeenStaysCounted'
  OBVIOUS
<1>0. now \in Nat /\ Hour \in Nat \ {0} /\ MaxTime \in Nat
  BY TimeAssumption DEF TypeOK
<1>1. ASSUME NEW s \in Segments, NEW t \in 0..MaxTime, NEW sample \in Samples,
             StoreReading(s, t, sample)
      PROVE  OnTimeIsCounted' /\ SeenStaysCounted'
  <2>1. PICK r \in Reading : /\ traffic_readings' = traffic_readings \cup {r}
                             /\ r.recorded_at = t
                             /\ r.late <=> Trunc(t) # Trunc(now)
    BY <1>1, StoreEffect
  <2>2. UNCHANGED <<now, agg, done, seen, raced>>
    BY <1>1, StoreEffect
  <2>3. r.late \/ Trunc(t) \notin done
    <3>1. ASSUME Trunc(now) \in done PROVE FALSE
      BY <1>0, <3>1, TruncBounds DEF HoursInv
    <3>2. QED
      BY <2>1, <3>1
  <2>4. OnTimeIsCounted'
    BY <2>1, <2>2, <2>3 DEF OnTimeIsCounted
  <2>5. SeenStaysCounted'
    BY <2>2 DEF SeenStaysCounted
  <2>6. QED
    BY <2>4, <2>5
<1>2. ASSUME NEW w \in Workers, RollupWrite(w)
      PROVE  OnTimeIsCounted' /\ SeenStaysCounted'
  <2> DEFINE b == bucket[w]
             K == Keys(found[w])
  <2>1. /\ DOMAIN agg' = DOMAIN agg \cup K
        /\ \A k \in K : agg'[k] = Group(found[w], k) /\ k[2] = b
        /\ \A k \in DOMAIN agg \ K : agg'[k] = agg[k]
    BY <1>2, WriteEffect
  <2>2. /\ pc[w] = "write" /\ UNCHANGED <<traffic_readings, raced>>
        /\ done' = done \cup {b} /\ seen' = seen \cup found[w]
    BY <1>2 DEF RollupWrite, RollupEnd
  <2>3. \A r \in found[w] : Key(r) \in DOMAIN agg' /\ r \in agg'[Key(r)]
    BY <2>1 DEF Keys, Group
  <2> HIDE DEF b, K
  <2>4. \A r : Key(r)[2] = Trunc(r.recorded_at)
    BY DEF Key
  <2>5. ASSUME NEW r, Trunc(r.recorded_at) # b,
               Key(r) \in DOMAIN agg, r \in agg[Key(r)]
        PROVE  Key(r) \in DOMAIN agg' /\ r \in agg'[Key(r)]
    <3>1. Key(r) \notin K
      BY <2>1, <2>4, <2>5
    <3>2. QED
      BY <2>1, <2>5, <3>1
  <2>6. ASSUME NEW r \in traffic_readings, ~r.late, Trunc(r.recorded_at) \in done'
        PROVE  Key(r) \in DOMAIN agg' /\ r \in agg'[Key(r)]
    <3>1. CASE Trunc(r.recorded_at) = b
      <4>1. r \in found[w]
        BY <2>2, <2>6, <3>1 DEF FoundInv, OnTime, OfHour, b
      <4>2. QED
        BY <2>3, <4>1
    <3>2. CASE Trunc(r.recorded_at) # b
      BY <2>2, <2>5, <2>6, <3>2 DEF OnTimeIsCounted
    <3>3. QED
      BY <3>1, <3>2
  <2>7. ASSUME NEW r \in seen', Trunc(r.recorded_at) \notin raced
        PROVE  Key(r) \in DOMAIN agg' /\ r \in agg'[Key(r)]
    <3>1. CASE r \in found[w]
      BY <2>3, <3>1
    <3>2. CASE r \notin found[w]
      <4>1. r \in seen /\ Key(r) \in DOMAIN agg /\ r \in agg[Key(r)]
        BY <2>2, <2>7, <3>2 DEF SeenStaysCounted
      <4>2. Trunc(r.recorded_at) # b
        BY <2>2, <2>7, <3>2, <4>1 DEF SeenInv, OfHour, b
      <4>3. QED
        BY <2>5, <4>1, <4>2
    <3>3. QED
      BY <3>1, <3>2
  <2>8. QED
    BY <2>2, <2>6, <2>7 DEF OnTimeIsCounted, SeenStaysCounted
<1>3. ASSUME NEW w \in Workers, RollupRead(w) PROVE OnTimeIsCounted' /\ SeenStaysCounted'
  <2>1. UNCHANGED <<traffic_readings, agg, done, seen>> /\ raced \subseteq raced'
    BY <1>3 DEF RollupRead
  <2>2. QED
    BY <2>1 DEF OnTimeIsCounted, SeenStaysCounted
<1>4. ASSUME UNCHANGED <<traffic_readings, agg, done, seen, raced>>
      PROVE  OnTimeIsCounted' /\ SeenStaysCounted'
  BY <1>4 DEF OnTimeIsCounted, SeenStaysCounted
<1>5. QED
  BY <1>1, <1>2, <1>3, <1>4
     DEF Next, RollupAbort, RollupEnd, DashBegin, DashCount, DashEnd, Tick, vars

-----------------------------------------------------------------------------
\* Natural numbers are well founded.
LEMMA Least ==
  ASSUME NEW T \in SUBSET Nat, T # {}
  PROVE  \E x \in T : \A y \in T : x <= y
<1> DEFINE R == {ss \in Nat \X Nat : ss[1] < ss[2]}
<1>1. IsWellFoundedOn(R, Nat)
  BY NatLessThanWellFounded DEF OpToRel
<1>2. PICK x \in T : \A y \in T : ~(<<y, x>> \in R)
  <2> HIDE DEF R
  <2>1. QED
    BY <1>1, WFMin
<1>3. \A y \in T : x <= y
  <2>1. TAKE y \in T
  <2>2. x \in Nat /\ y \in Nat /\ ~(<<y, x>> \in R)
    BY <1>2
  <2>3. <<y, x>> \in Nat \X Nat
    BY <2>2
  <2>4. ~(y < x)
    BY <2>2, <2>3
  <2>5. QED
    BY <2>2, <2>4
<1>4. QED
  BY <1>3

-----------------------------------------------------------------------------
\* avg(): what a sum over a set of readings is.

Any(s) == CHOOSE x \in s : TRUE
Term(f, s) == IF s = {} THEN 0 ELSE Any(s).congestion_level + f[s \ {Any(s)}]
Adds(f, sets) == f = [s \in sets |-> Term(f, s)]

LEMMA TotalUnfold ==
  ASSUME NEW rs
  PROVE  Total(rs) = (CHOOSE f : Adds(f, SUBSET rs))[rs]
BY DEF Total, MapThenSumSet, MapThenFoldSet, Adds, Term, Any

LEMMA AnyOne ==
  ASSUME NEW s, s # {}
  PROVE  Any(s) \in s
BY DEF Any

\* The subsets of at most n readings.
Small(rs, n) == {s \in SUBSET rs : Cardinality(s) <= n}

LEMMA SmallStep ==
  ASSUME NEW rs, IsFiniteSet(rs), NEW n \in Nat, NEW s \in Small(rs, n), s # {}
  PROVE  /\ s \ {Any(s)} \in Small(rs, n - 1)
         /\ n > 0
         /\ Cardinality(s) \in Nat
         /\ Cardinality(s \ {Any(s)}) = Cardinality(s) - 1
<1>1. s \in SUBSET rs /\ IsFiniteSet(s) /\ Any(s) \in s
  BY FS_Subset, AnyOne DEF Small
<1>2. Cardinality(s) \in Nat /\ Cardinality(s) <= n
  BY <1>1, FS_CardinalityType DEF Small
<1>3. Cardinality(s \ {Any(s)}) = Cardinality(s) - 1
  BY <1>1, FS_RemoveElement
<1>4. IsFiniteSet(s \ {Any(s)}) /\ Cardinality(s \ {Any(s)}) \in Nat
  BY <1>1, FS_RemoveElement, FS_CardinalityType
<1>5. QED
  BY <1>1, <1>2, <1>3, <1>4 DEF Small

\* The sum is defined: a function that adds up the sets of n readings gives one
\* for the sets of n + 1.
LEMMA SumExists ==
  ASSUME NEW rs, IsFiniteSet(rs)
  PROVE  \E f : Adds(f, SUBSET rs)
<1> DEFINE Defined(n) == \E f : Adds(f, Small(rs, n))
           Missing == {n \in Nat : ~Defined(n)}
<1>1. Defined(0)
  <2> DEFINE f == [s \in Small(rs, 0) |-> 0]
  <2>1. \A s \in Small(rs, 0) : s = {}
    <3>1. SUFFICES ASSUME NEW s \in Small(rs, 0), s # {} PROVE FALSE
      OBVIOUS
    <3>2. 0 > 0
      BY <3>1, SmallStep
    <3>3. QED
      BY <3>2
  <2>2. \A s \in Small(rs, 0) : Term(f, s) = 0
    BY <2>1 DEF Term
  <2>3. Adds(f, Small(rs, 0))
    BY <2>2 DEF Adds
  <2>4. QED
    BY <2>3
<1>2. ASSUME NEW n \in Nat, n > 0, Defined(n - 1) PROVE Defined(n)
  <2>1. PICK f : Adds(f, Small(rs, n - 1))
    BY <1>2
  <2> DEFINE g == [s \in Small(rs, n) |-> Term(f, s)]
  <2>2. ASSUME NEW s \in Small(rs, n) PROVE Term(g, s) = Term(f, s)
    <3>1. CASE s = {}
      BY <3>1 DEF Term
    <3>2. CASE s # {}
      <4> DEFINE t == s \ {Any(s)}
      <4>1. t \in Small(rs, n - 1) /\ t \in Small(rs, n)
        <5>1. t \in Small(rs, n - 1)
          BY <3>2, SmallStep
        <5>2. IsFiniteSet(t)
          BY <5>1, FS_Subset DEF Small
        <5>3. Cardinality(t) \in Nat
          BY <5>2, FS_CardinalityType
        <5>4. QED
          BY <5>1, <5>3 DEF Small
      <4>2. f[t] = Term(f, t)
        BY <2>1, <4>1, Zenon DEF Adds
      <4>3. g[t] = f[t]
        BY <4>1, <4>2
      <4>4. QED
        BY <3>2, <4>3 DEF Term
    <3>3. QED
      BY <3>1, <3>2
  <2>3. Adds(g, Small(rs, n))
    BY <2>2 DEF Adds
  <2>4. QED
    BY <2>3
<1>3. Missing = {}
  <2> SUFFICES ASSUME Missing # {} PROVE FALSE
    OBVIOUS
  <2>1. Missing \in SUBSET Nat
    OBVIOUS
  <2> HIDE DEF Missing
  <2>2. PICK n \in Missing : \A k \in Missing : n <= k
    BY <2>1, Least
  <2> HIDE DEF Defined
  <2>3. n \in Nat /\ ~Defined(n)
    BY DEF Missing
  <2>4. n > 0
    BY <1>1, <2>3
  <2>5. n - 1 \in Nat /\ n - 1 \notin Missing
    BY <2>1, <2>2, <2>3, <2>4
  <2>6. Defined(n - 1)
    BY <2>5 DEF Missing
  <2>7. QED
    BY <1>2, <2>3, <2>4, <2>6
<1>4. Defined(Cardinality(rs))
  BY <1>3, FS_CardinalityType
<1>5. Small(rs, Cardinality(rs)) = SUBSET rs
  BY FS_Subset DEF Small
<1>6. QED
  BY <1>4, <1>5

\* An average lies between 0 and 100 percent.
LEMMA TotalBounds ==
  ASSUME NEW rs, IsFiniteSet(rs), \A r \in rs : r.congestion_level \in 0..100
  PROVE  Total(rs) \in 0..(100 * Cardinality(rs))
<1> DEFINE f == CHOOSE g : Adds(g, SUBSET rs)
           Wrong == {n \in Nat : \E s \in SUBSET rs : Cardinality(s) = n /\ f[s] \notin 0..(100 * n)}
<1>1. Adds(f, SUBSET rs)
  BY SumExists
<1> HIDE DEF f
<1>2. ASSUME NEW s \in SUBSET rs PROVE f[s] = Term(f, s)
  BY <1>1, Zenon DEF Adds
<1>3. Wrong = {}
  <2> SUFFICES ASSUME Wrong # {} PROVE FALSE
    OBVIOUS
  <2>1. Wrong \in SUBSET Nat
    OBVIOUS
  <2> HIDE DEF Wrong
  <2>2. PICK n \in Wrong : \A k \in Wrong : n <= k
    BY <2>1, Least
  <2>3. PICK s \in SUBSET rs : Cardinality(s) = n /\ f[s] \notin 0..(100 * n)
    BY DEF Wrong
  <2>4. n \in Nat /\ s \in Small(rs, n)
    BY <2>1, <2>3 DEF Small
  <2>5. s # {}
    BY <1>2, <2>3, <2>4, FS_EmptySet DEF Term
  <2> DEFINE t == s \ {Any(s)}
  <2>6. t \in SUBSET rs /\ n > 0 /\ Cardinality(t) = n - 1
    BY <2>3, <2>4, <2>5, SmallStep
  <2>7. f[t] \in 0..(100 * (n - 1))
    <3>1. n - 1 \in Nat /\ n - 1 \notin Wrong
      BY <2>1, <2>2, <2>4, <2>6
    <3>2. QED
      BY <2>6, <3>1 DEF Wrong
  <2>8. Any(s).congestion_level \in 0..100
    BY <2>5, AnyOne
  <2>9. f[s] = Any(s).congestion_level + f[t]
    BY <1>2, <2>5 DEF Term
  <2> HIDE DEF t
  <2>10. f[s] \in 0..(100 * n)
    BY <2>4, <2>6, <2>7, <2>8, <2>9
  <2>11. QED
    BY <2>3, <2>10
<1>4. Cardinality(rs) \in Nat
  BY FS_CardinalityType
<1>5. f[rs] \in 0..(100 * Cardinality(rs))
  BY <1>3, <1>4
<1>6. QED
  BY <1>5, TotalUnfold DEF f

-----------------------------------------------------------------------------
\* The three counts of the dashboard.

\* The bands are 0-33, 34-66 and 67-100 percent: every average is in one.
LEMMA OneBand ==
  ASSUME NEW rs, IsFiniteSet(rs), rs # {}, \A r \in rs : r.congestion_level \in 0..100
  PROVE  /\ \E b \in 1..3 : InBand(rs, b)
         /\ \A b, c \in 1..3 : InBand(rs, b) /\ InBand(rs, c) => b = c
<1>1. Cardinality(rs) \in Nat /\ Cardinality(rs) > 0
  BY FS_CardinalityType, FS_EmptySet
<1>2. Total(rs) \in 0..(100 * Cardinality(rs))
  BY TotalBounds
<1>3. /\ InBand(rs, 1) <=> 0 * Cardinality(rs) <= Total(rs) /\ Total(rs) < 34 * Cardinality(rs)
      /\ InBand(rs, 2) <=> 34 * Cardinality(rs) <= Total(rs) /\ Total(rs) < 67 * Cardinality(rs)
      /\ InBand(rs, 3) <=> 67 * Cardinality(rs) <= Total(rs) /\ Total(rs) < 101 * Cardinality(rs)
  BY DEF InBand, CONGESTION_BUCKETS
<1>4. InBand(rs, 1) \/ InBand(rs, 2) \/ InBand(rs, 3)
  BY <1>1, <1>2, <1>3
<1>5. /\ ~(InBand(rs, 1) /\ InBand(rs, 2))
      /\ ~(InBand(rs, 1) /\ InBand(rs, 3))
      /\ ~(InBand(rs, 2) /\ InBand(rs, 3))
  BY <1>1, <1>2, <1>3
<1>6. \A b \in 1..3 : b = 1 \/ b = 2 \/ b = 3
  OBVIOUS
<1>7. QED
  BY <1>4, <1>5, <1>6

LEMMA StepDonut == TypeOK /\ DonutInv /\ [Next]_vars => DonutInv'
<1> SUFFICES ASSUME TypeOK, DonutInv, [Next]_vars PROVE DonutInv'
  OBVIOUS
<1>1. CASE UNCHANGED <<agg, dash, since, donut, torn>>
  BY <1>1 DEF DonutInv, Band, Recent
<1>2. ASSUME NEW w \in Workers, RollupWrite(w) PROVE DonutInv'
  <2>1. UNCHANGED <<dash, since, donut>> /\ (torn' <=> torn \/ dash = "count")
    BY <1>2 DEF RollupWrite, RollupEnd
  <2>2. CASE dash = "count"
    BY <2>1, <2>2 DEF DonutInv
  <2>3. CASE dash = "idle"
    BY <2>1, <2>3 DEF DonutInv
  <2>4. QED
    BY <2>2, <2>3 DEF TypeOK
<1>3. CASE DashBegin
  BY <1>3 DEF DashBegin, DonutInv
<1>4. CASE DashCount
  <2>1. /\ dash = "count" /\ UNCHANGED <<agg, dash, since, torn>>
        /\ donut' = Append(donut, Cardinality(Band(Len(donut) + 1)))
    BY <1>4 DEF DashCount, Band
  <2>2. donut \in Seq(Nat)
    BY DEF TypeOK
  <2>3. \A b : Band(b)' = Band(b)
    BY <2>1 DEF Band, Recent
  <2>4. /\ Len(donut') = Len(donut) + 1
        /\ \A b \in 1..Len(donut) : donut'[b] = donut[b]
        /\ donut'[Len(donut) + 1] = Cardinality(Band(Len(donut) + 1))
    BY <2>1, <2>2
  <2>5. ASSUME ~torn, NEW b \in 1..Len(donut') PROVE donut'[b] = Cardinality(Band(b))
    BY <2>2, <2>4, <2>5 DEF DonutInv
  <2>6. QED
    BY <2>1, <2>3, <2>5 DEF DonutInv
<1>5. CASE DashEnd
  BY <1>5 DEF DashEnd, DonutInv
<1>6. QED
  BY <1>1, <1>2, <1>3, <1>4, <1>5
     DEF Next, StoreReading, RollupRead, RollupAbort, RollupEnd, Tick, vars

LEMMA DisjointUnion ==
  ASSUME NEW A, NEW B, IsFiniteSet(A), IsFiniteSet(B), A \cap B = {}
  PROVE  /\ IsFiniteSet(A \cup B)
         /\ Cardinality(A \cup B) = Cardinality(A) + Cardinality(B)
<1>1. Cardinality(A) \in Nat /\ Cardinality(B) \in Nat /\ Cardinality({}) = 0
  BY FS_CardinalityType, FS_EmptySet
<1>2. /\ IsFiniteSet(A \cup B)
      /\ Cardinality(A \cup B) = Cardinality(A) + Cardinality(B) - Cardinality(A \cap B)
  BY FS_Union
<1>3. Cardinality(A \cap B) = 0
  BY <1>1
<1>4. QED
  BY <1>1, <1>2, <1>3

\* Every hour of the trend is in one band: three right counts make all of them.
LEMMA CountsAddUp == TypeOK /\ FiniteInv /\ DonutInv => DonutPartitions
<1> SUFFICES ASSUME TypeOK, FiniteInv, DonutInv, Len(donut) = 3, ~torn
             PROVE  donut[1] + donut[2] + donut[3] = Cardinality(Recent(since))
  BY DEF DonutPartitions
<1> DEFINE H == Recent(since)
<1>1. IsFiniteSet(H) /\ H \subseteq DOMAIN agg
  <2>1. H \subseteq DOMAIN agg
    BY DEF Recent
  <2>2. QED
    BY <2>1, FS_Subset DEF FiniteInv
<1>2. ASSUME NEW k \in H
      PROVE  /\ \E b \in 1..3 : InBand(agg[k], b)
             /\ \A b, c \in 1..3 : InBand(agg[k], b) /\ InBand(agg[k], c) => b = c
  <2>1. /\ agg[k] # {} /\ agg[k] \subseteq traffic_readings
        /\ traffic_readings \subseteq Reading
    BY <1>1 DEF TypeOK, Group
  <2>2. IsFiniteSet(agg[k])
    BY <2>1, FS_Subset DEF FiniteInv
  <2>3. \A r \in agg[k] : r.congestion_level \in 0..100
    BY <2>1 DEF Reading
  <2> DEFINE rs == agg[k]
  <2> HIDE DEF rs
  <2>4. QED
    BY <2>1, <2>2, <2>3, OneBand DEF rs
<1>3. H = Band(1) \cup Band(2) \cup Band(3)
  <2>1. ASSUME NEW k \in H PROVE k \in Band(1) \cup Band(2) \cup Band(3)
    <3>1. PICK b \in 1..3 : InBand(agg[k], b)
      BY <1>2
    <3>2. b = 1 \/ b = 2 \/ b = 3
      OBVIOUS
    <3>3. QED
      BY <3>1, <3>2 DEF Band
  <2>2. QED
    BY <2>1 DEF Band
<1>4. /\ Band(1) \cap Band(2) = {}
      /\ (Band(1) \cup Band(2)) \cap Band(3) = {}
  <2>1. ASSUME NEW b \in 1..3, NEW c \in 1..3, b # c PROVE Band(b) \cap Band(c) = {}
    BY <1>2, <2>1 DEF Band
  <2>2. QED
    BY <2>1
<1>5. \A b \in 1..3 : IsFiniteSet(Band(b)) /\ Cardinality(Band(b)) \in Nat
  <2>1. \A b : Band(b) \in SUBSET H
    BY DEF Band
  <2>2. QED
    BY <1>1, <2>1, FS_Subset, FS_CardinalityType
<1>6. /\ IsFiniteSet(Band(1) \cup Band(2))
      /\ Cardinality(Band(1) \cup Band(2)) = Cardinality(Band(1)) + Cardinality(Band(2))
  BY <1>4, <1>5, DisjointUnion
<1>7. Cardinality(H) = Cardinality(Band(1) \cup Band(2)) + Cardinality(Band(3))
  <2> HIDE DEF H
  <2>1. IsFiniteSet(Band(3))
    BY <1>5
  <2>2. Cardinality((Band(1) \cup Band(2)) \cup Band(3))
        = Cardinality(Band(1) \cup Band(2)) + Cardinality(Band(3))
    BY <1>4, <1>6, <2>1, DisjointUnion
  <2>3. QED
    BY <1>3, <2>2
<1>8. /\ donut[1] = Cardinality(Band(1))
      /\ donut[2] = Cardinality(Band(2))
      /\ donut[3] = Cardinality(Band(3))
  BY DEF DonutInv
<1>9. QED
  BY <1>5, <1>6, <1>7, <1>8

-----------------------------------------------------------------------------

LEMMA StepInv == IInv /\ [Next]_vars => IInv'
  BY StepType, StepRuns, StepCounted, StepDonut DEF IInv

-----------------------------------------------------------------------------

\* Only hours that are over are aggregated, each of readings of its own.
THEOREM TypeCorrect == Spec => []TypeOK
  BY InitInv, StepInv, PTL DEF Spec, IInv

\* A reading stored within its hour counts in the averages of that hour, however
\* late or often the rollup ran, and however its runs overlap.
THEOREM OnTimeCounted == Spec => []OnTimeIsCounted
  BY InitInv, StepInv, PTL DEF Spec, IInv

\* Repeated runs lose nothing, unless runs of one hour overlap.
THEOREM SeenCounted == Spec => []SeenStaysCounted
  BY InitInv, StepInv, PTL DEF Spec, IInv

\* The three counts of the donut add up to the hours of the trend, whatever the
\* averages are, unless a run wrote between them.
THEOREM DonutAddsUp == Spec => []DonutPartitions
  BY InitInv, StepInv, CountsAddUp, PTL DEF Spec, IInv

\* No poll of a viewport sees a segment go back in time or vanish.
THEOREM NeverGoesBack == Spec => SnapshotNeverGoesBack
<1>1. TypeOK /\ FiniteInv /\ [Next]_vars =>
        [\A boxed \in BOOLEAN, s \in Segments : \A r \in Latest(s, InView(boxed)) :
           /\ Latest(s, InView(boxed))' # {}
           /\ \A q \in Latest(s, InView(boxed))' : q.recorded_at >= r.recorded_at]_vars
  <2>1. SUFFICES ASSUME TypeOK, FiniteInv, [Next]_vars, NEW boxed \in BOOLEAN,
                        NEW s \in Segments, NEW r \in Latest(s, InView(boxed))
                 PROVE  /\ Latest(s, InView(boxed))' # {}
                        /\ \A q \in Latest(s, InView(boxed))' : q.recorded_at >= r.recorded_at
    OBVIOUS
  <2> DEFINE V == InView(boxed)
             W == InView(boxed)'
  <2>2. /\ r \in V /\ r.segment_id = s
        /\ \A q \in V : q.segment_id = s => q.recorded_at <= r.recorded_at
        /\ \A q \in V : q.recorded_at \in Nat
    <3>1. \A q \in traffic_readings : q.recorded_at \in Nat
      BY <2>1, TimeAssumption DEF TypeOK, Reading
    <3>2. \A q \in V : q.recorded_at \in Nat
      BY <3>1 DEF InView
    <3>3. /\ r \in V /\ r.segment_id = s
          /\ \A q \in V : q.segment_id = s => q.recorded_at <= r.recorded_at
      BY <2>1, Zenon DEF Latest
    <3>4. QED
      BY <3>2, <3>3
  <2>3. Latest(s, InView(boxed))' = Latest(s, W)
    BY DEF Latest
  <2>4. CASE W = V
    BY <2>1, <2>2, <2>3, <2>4 DEF Latest
  <2>5. ASSUME NEW n \in Reading, W = V \cup {n}
        PROVE  /\ Latest(s, W) # {}
               /\ \A q \in Latest(s, W) : q.recorded_at >= r.recorded_at
    <3>1. n.recorded_at \in Nat /\ r.recorded_at \in Nat
      BY <2>2, TimeAssumption DEF Reading
    <3> HIDE DEF V, W
    <3>2. r \in W
      BY <2>2, <2>5
    <3>3. CASE n.segment_id # s \/ n.recorded_at <= r.recorded_at
      <4>1. r \in Latest(s, W)
        BY <2>2, <2>5, <3>2, <3>3 DEF Latest
      <4>2. QED
        BY <2>2, <3>2, <4>1 DEF Latest
    <3>4. CASE n.segment_id = s /\ n.recorded_at > r.recorded_at
      <4>1. \A q \in W : q.segment_id = s => q.recorded_at <= n.recorded_at
        BY <2>2, <2>5, <3>1, <3>4
      <4>2. n \in Latest(s, W)
        BY <2>5, <3>4, <4>1 DEF Latest
      <4>3. QED
        BY <2>2, <3>2, <4>2 DEF Latest
    <3>5. QED
      BY <3>1, <3>3, <3>4
  <2>6. CASE traffic_readings' = traffic_readings
    BY <2>3, <2>4, <2>6 DEF InView
  <2>7. ASSUME NEW x \in Segments, NEW t \in 0..MaxTime, NEW sample \in Samples,
               StoreReading(x, t, sample)
        PROVE  W = V \/ \E n \in Reading : W = V \cup {n}
    <3>1. PICK n \in Reading : traffic_readings' = traffic_readings \cup {n}
      BY <2>1, <2>7, StoreEffect
    <3>2. CASE boxed => n.inside
      BY <3>1, <3>2 DEF InView
    <3>3. CASE ~(boxed => n.inside)
      BY <3>1, <3>3 DEF InView
    <3>4. QED
      BY <3>2, <3>3
  <2>8. QED
    BY <2>1, <2>3, <2>4, <2>5, <2>6, <2>7
       DEF Next, RollupRead, RollupWrite, RollupAbort, RollupEnd, DashBegin, DashCount,
           DashEnd, Tick, vars
<1>2. Spec => [](TypeOK /\ FiniteInv)
  BY InitInv, StepInv, PTL DEF Spec, IInv
<1>3. QED
  BY <1>1, <1>2, PTL DEF Spec, SnapshotNeverGoesBack
=============================================================================
