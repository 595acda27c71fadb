------------------------------ MODULE Traffic ------------------------------
(***************************************************************************)
(* traffic_readings and what is made of it: the latest snapshot            *)
(* (traffic/views.py), the hourly rollup (analytics/tasks.py) and the      *)
(* congestion donut of the dashboard (analytics/views.py).                 *)
(*                                                                         *)
(* The rollup is one SQL statement under READ COMMITTED: it computes its   *)
(* rows from the snapshot it starts with (RollupRead) and upserts them     *)
(* when that is done, over what others have committed meanwhile            *)
(* (RollupWrite).  A task that waits for a worker rolls up the hour before *)
(* it starts, not the one it was sent for, and tasks that waited together  *)
(* run at once.  The donut is one COUNT per band.  Who stores readings is  *)
(* not written yet; recorded_at is a column like any other, so a reading   *)
(* may be stored late.  An aggregate is kept as the set of readings that   *)
(* its averages are taken over.                                            *)
(***************************************************************************)
EXTENDS Integers, Sequences, FiniteSets, FiniteSetsExt

CONSTANTS
  Segments,     \* segment_id values
  Samples,      \* what a reading may say: congestion in percent, in the viewport or not
  Workers,      \* Celery worker processes
  Hour,         \* ticks in an hour
  TrendHours,   \* TREND_HOURS
  MaxReadings,  \* bound on the readings stored
  MaxTime       \* bound on the clock

ASSUME SamplesAssumption ==
  Samples \subseteq [congestion_level: 0..100, inside: BOOLEAN]
ASSUME TimeAssumption ==
  Hour \in Nat \ {0} /\ TrendHours \in Nat /\ MaxReadings \in Nat /\ MaxTime \in Nat

VARIABLES
  now,                    \* the clock, in ticks
  traffic_readings,       \* rows; nr is their id, late a history field
  congestion_hourly_agg,  \* readings averaged, by <<segment_id, hour_bucket>>
  pc,                     \* where each worker is
  bucket,                 \* the hour it rolls up ...
  found,                  \* ... and the readings it averages
  dash,                   \* where the dashboard request is
  since,                  \* its oldest hour ...
  donut,                  \* ... and its counts so far
  done,                   \* history: hours that a run has written
  seen,                   \* history: readings such runs averaged
  raced,                  \* history: hours two runs worked on at once
  torn                    \* history: a run wrote between the counts

agg == congestion_hourly_agg
vars == <<now, traffic_readings, agg, pc, bucket, found, dash, since, donut,
          done, seen, raced, torn>>

Trunc(t) == t - (t % Hour)
Key(r) == <<r.segment_id, Trunc(r.recorded_at)>>

\* WHERE: the last complete hour.
LastHour_ToNow(t) ==
  {r \in traffic_readings : Trunc(t - Hour) <= r.recorded_at /\ r.recorded_at <= Trunc(t)}
LastHour_AfterStart(t) ==
  {r \in traffic_readings : Trunc(t - Hour) < r.recorded_at /\ r.recorded_at < Trunc(t)}
LastHour(t) ==
  {r \in traffic_readings : Trunc(t - Hour) <= r.recorded_at /\ r.recorded_at < Trunc(t)}

\* GROUP BY.
Group(rs, k) == {r \in rs : Key(r) = k}

\* ON CONFLICT DO UPDATE.
Upsert_DoNothing(table, rs) ==
  [k \in DOMAIN table \cup {Key(r) : r \in rs} |->
     IF k \in DOMAIN table THEN table[k] ELSE Group(rs, k)]
Upsert(table, rs) ==
  [k \in DOMAIN table \cup {Key(r) : r \in rs} |->
     IF Group(rs, k) # {} THEN Group(rs, k) ELSE table[k]]

\* CONGESTION_BUCKETS in percent; the average is compared by its sum.
CONGESTION_BUCKETS_Gap == <<[lo |-> 0, hi |-> 33], [lo |-> 34, hi |-> 67], [lo |-> 67, hi |-> 101]>>
CONGESTION_BUCKETS == <<[lo |-> 0, hi |-> 34], [lo |-> 34, hi |-> 67], [lo |-> 67, hi |-> 101]>>
Total(rs) == MapThenSumSet(LAMBDA r : r.congestion_level, rs)
InBand(rs, b) ==
  /\ CONGESTION_BUCKETS[b].lo * Cardinality(rs) <= Total(rs)
  /\ Total(rs) < CONGESTION_BUCKETS[b].hi * Cardinality(rs)
Recent(t) == {k \in DOMAIN agg : k[2] >= t}

\* LatestSnapshotView: filter to the viewport, then DISTINCT ON (segment_id).
\* Of readings with one recorded_at any may be returned.
InView(boxed) == {r \in traffic_readings : boxed => r.inside}
Latest_Stored(s, rs) ==
  {r \in rs : r.segment_id = s /\ \A q \in rs : q.segment_id = s => q.nr <= r.nr}
Latest(s, rs) ==
  {r \in rs : r.segment_id = s /\ \A q \in rs : q.segment_id = s => q.recorded_at <= r.recorded_at}

-----------------------------------------------------------------------------

Init ==
  /\ now = 0
  /\ traffic_readings = {}
  /\ congestion_hourly_agg = [k \in {} |-> {}]
  /\ pc = [w \in Workers |-> "idle"]
  /\ bucket = [w \in Workers |-> 0]
  /\ found = [w \in Workers |-> {}]
  /\ dash = "idle"
  /\ since = 0
  /\ donut = <<>>
  /\ done = {}
  /\ seen = {}
  /\ raced = {}
  /\ torn = FALSE

\* A reading is stored, some time after it was taken.
StoreReading(s, t, sample) ==
  /\ Cardinality(traffic_readings) < MaxReadings
  /\ t <= now
  /\ traffic_readings' = traffic_readings \cup
       {[nr |-> Cardinality(traffic_readings) + 1, segment_id |-> s, recorded_at |-> t,
         congestion_level |-> sample.congestion_level, inside |-> sample.inside,
         late |-> Trunc(t) # Trunc(now)]}
  /\ UNCHANGED <<now, agg, pc, bucket, found, dash, since, donut, done, seen, raced, torn>>

\* aggregate_past_hour, up to the rows it has to upsert.
RollupRead(w) ==
  /\ pc[w] = "idle"
  /\ now >= Hour  \* before, there is no complete hour
  /\ pc' = [pc EXCEPT ![w] = "write"]
  /\ bucket' = [bucket EXCEPT ![w] = Trunc(now - Hour)]
  /\ found' = [found EXCEPT ![w] = LastHour(now)]
  /\ raced' = IF \E v \in Workers : pc[v] = "write" /\ bucket[v] = Trunc(now - Hour)
              THEN raced \cup {Trunc(now - Hour)} ELSE raced
  /\ UNCHANGED <<now, traffic_readings, agg, dash, since, donut, done, seen, torn>>

RollupEnd(w) ==
  /\ pc' = [pc EXCEPT ![w] = "idle"]
  /\ bucket' = [bucket EXCEPT ![w] = 0]
  /\ found' = [found EXCEPT ![w] = {}]
  /\ UNCHANGED <<now, traffic_readings, dash, since, donut, raced>>

RollupWrite(w) ==
  /\ pc[w] = "write"
  /\ congestion_hourly_agg' = Upsert(agg, found[w])
  /\ done' = done \cup {bucket[w]}
  /\ seen' = seen \cup found[w]
  /\ torn' = (torn \/ dash = "count")
  /\ RollupEnd(w)

\* The worker dies: nothing of the statement stays.
RollupAbort(w) ==
  /\ pc[w] = "write"
  /\ RollupEnd(w)
  /\ UNCHANGED <<agg, done, seen, torn>>

\* DashboardSummaryView.
DashBegin ==
  /\ dash = "idle"
  /\ dash' = "count"
  /\ since' = now - TrendHours * Hour
  /\ UNCHANGED <<now, traffic_readings, agg, pc, bucket, found, donut, done, seen, raced, torn>>

DashCount ==
  /\ dash = "count"
  /\ Len(donut) < Len(CONGESTION_BUCKETS)
  /\ donut' = Append(donut, Cardinality({k \in Recent(since) : InBand(agg[k], Len(donut) + 1)}))
  /\ UNCHANGED <<now, traffic_readings, agg, pc, bucket, found, dash, since, done, seen, raced, torn>>

\* It answers.  One that dies changes nothing and is not modelled.
DashEnd ==
  /\ Len(donut) = Len(CONGESTION_BUCKETS)
  /\ dash' = "idle"
  /\ since' = 0
  /\ donut' = <<>>
  /\ torn' = FALSE
  /\ UNCHANGED <<now, traffic_readings, agg, pc, bucket, found, done, seen, raced>>

Tick ==
  /\ now < MaxTime
  /\ now' = now + 1
  /\ UNCHANGED <<traffic_readings, agg, pc, bucket, found, dash, since, donut, done, seen, raced, torn>>

Next ==
  \/ \E s \in Segments, t \in 0..MaxTime, sample \in Samples : StoreReading(s, t, sample)
  \/ \E w \in Workers : RollupRead(w)
  \/ \E w \in Workers : RollupWrite(w)
  \/ \E w \in Workers : RollupAbort(w)
  \/ DashBegin
  \/ DashCount
  \/ DashEnd
  \/ Tick

Spec == Init /\ [][Next]_vars

-----------------------------------------------------------------------------
Reading == [nr: Nat, segment_id: Segments, recorded_at: 0..MaxTime,
            congestion_level: 0..100, inside: BOOLEAN, late: BOOLEAN]

\* Types: an aggregate is of readings of its own segment and hour, and only of
\* an hour that is over, so no half-filled hour ever reaches the dashboard.
TypeOK ==
  /\ now \in 0..MaxTime
  /\ traffic_readings \subseteq Reading
  /\ \A r \in traffic_readings : r.recorded_at <= now
  /\ DOMAIN agg \subseteq Segments \X (0..MaxTime)
  /\ \A k \in DOMAIN agg :
       /\ agg[k] # {}
       /\ agg[k] \subseteq Group(traffic_readings, k)
       /\ k[2] + Hour <= now
  /\ pc \in [Workers -> {"idle", "write"}]
  /\ bucket \in [Workers -> 0..MaxTime]
  /\ found \in [Workers -> SUBSET traffic_readings]
  /\ dash \in {"idle", "count"}
  /\ since \in Int
  /\ donut \in Seq(Nat) /\ Len(donut) <= 3
  /\ done \subseteq 0..MaxTime /\ raced \subseteq 0..MaxTime
  /\ seen \subseteq traffic_readings
  /\ torn \in BOOLEAN

\* Every reading stored within its hour is in the averages of that hour once
\* any run has rolled it up, however late or often it ran and whatever overlaps.
OnTimeIsCounted ==
  \A r \in traffic_readings :
    ~r.late /\ Trunc(r.recorded_at) \in done =>
      Key(r) \in DOMAIN agg /\ r \in agg[Key(r)]

\* What a run has averaged stays averaged: a repeated run adds the readings
\* that came late and drops none, unless runs of one hour overlap.
SeenStaysCounted ==
  \A r \in seen :
    Trunc(r.recorded_at) \notin raced => Key(r) \in DOMAIN agg /\ r \in agg[Key(r)]

\* "how many hourly-segment buckets fall into each congestion band": the three
\* counts put every hour of the trend into one band, unless a run wrote
\* between them.
DonutPartitions ==
  Len(donut) = 3 /\ ~torn =>
    donut[1] + donut[2] + donut[3] = Cardinality(Recent(since))

\* A map that polls one viewport never sees a segment go back in time or
\* vanish, even when readings are stored out of order.
SnapshotNeverGoesBack ==
  [][\A boxed \in BOOLEAN, s \in Segments : \A r \in Latest(s, InView(boxed)) :
       /\ Latest(s, InView(boxed))' # {}
       /\ \A q \in Latest(s, InView(boxed))' : q.recorded_at >= r.recorded_at]_vars
=============================================================================
