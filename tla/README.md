# TLA+ models of the SadakSathi backend

SadakSathi is a Django/DRF service: accounts and sessions, crowd-sourced
incident reports with votes, live traffic over WebSockets, hourly analytics.
Its state is in PostgreSQL tables, in a Redis cache (rate limits) and in a Redis
channel layer (socket groups). No view opens a transaction and no setting turns
`ATOMIC_REQUESTS` on, so **every ORM call commits on its own** and requests of
different server processes interleave between calls. That is the grain of
every module here: one action per statement, plus the process dying between two
statements (`Abort`).

## Inventory

| Component | State | Operations | What is hard | What makes it correct |
|---|---|---|---|---|
| Sessions (`accounts/views.py` 32-36, 191-234, `tokens.py`, `authentication.py`) | `refresh_tokens`; access JWTs, stateless | issue, refresh (rotate), logout, logout-all, authenticate | refresh is SELECT / UPDATE / INSERT; access tokens cannot be revoked | logout-all is final; one live token per sign-in; access dies in `JWT_ACCESS_TTL` |
| One-time codes (`views.py` 78-138, `otp.py`) | `otp_codes` | request (COUNT / INSERT / SMS), verify (SELECT / UPDATE) | lost updates of `attempts`, codes redeemed twice, SMS fails after the row is stored, several codes alive at once | attempts limit, hourly limit, one login per code |
| Identities (`views.py` 39-75, 130-188, 237-271, `models.py`, `permissions.py`) | `users`; claims in tokens | register, login, guest login, upgrade, profile edit, verification | full-row saves of stale rows; claims older than the row; columns that depend on each other | no edit lost; upgraded stays upgraded; a verified phone was proven |
| Incident board (`incidents/`) | `incidents`, `incident_votes` | report, list, detail, vote, expire (Celery) | vote is SELECT / upsert / SUM / UPDATE; the task runs meanwhile | score = sum of votes; expired is final; overdue expires |
| Rate limits (`accounts/throttling.py`) | request logs in the cache | allow_request | get and set of the log are two calls; sliding log where the docs say fixed window | at most n requests a window; no refusal before n |
| Traffic socket (`traffic/consumers.py`) | channel-layer groups; `subscribed_tiles` | connect, subscribe, unsubscribe, deliver, disconnect | updates queued across an unsubscribe; set and layer are changed by two awaits and disagree on equality; full channels; a consumer that dies | set and layer agree between frames; what was owed is sent, nothing else; no group outlives a clean close |
| Readings and snapshot (`traffic/models.py`, `views.py`) | `traffic_readings` | latest per segment in a viewport | readings stored out of order; filter before DISTINCT ON | a polled viewport never goes back in time |
| Ingest (`traffic/tasks.py`) | - | two tasks under one name: one raises before it does anything (`os` is not imported), one is a stub that logs | - | - |
| Rollup and dashboard (`analytics/`) | `congestion_hourly_agg` | upsert of the last hour; three counts of the donut | late, repeated and overlapping runs, late readings, band limits, a rollup between the counts | an hour rolled up counts every reading stored in it; averages lose nothing; the bands partition |
| Search, routing | - | one read-only query; a stub | - | - |
| Schedule and boot (`sadaksathi/`) | Beat's schedule | periodic tasks | `django_celery_beat` is the scheduler and is not in `INSTALLED_APPS` | tasks run |

How they interact: every sign-in view ends in `_issue_token_pair` (Sessions) with
a row that Identity made or changed; a right one-time code (Otp) leads into
Identity; the claims of Identity decide who may vote (Incidents); throttles run
before handlers; Celery tasks share the tables with the views and nothing else; the
socket meets the rest only in the token it checks at `connect`.

## Modules

| Module | Models | State |
|---|---|---|
| `Sessions` | the life of refresh and access tokens | `refresh_tokens` as a partial function from tokens, `access_tokens` as the set signed so far, per refresh request `pc` and the row `stored` |
| `Otp` | the life of one-time codes | `otp_codes` as a partial function from row ids; per request `pc`, `phone`, `otp`, `attempts` (the value read) |
| `Identity` | users rows and claims | `users`, `tokens` (claims), per request `pc`, `pk`, `read` (the row in memory) |
| `Incidents` | reports, votes, score, expiry | `incidents`, `incident_votes` by (incident, user), per request `pc`, `target`, `seen`, `total` |
| `Throttle` | one client's request logs under DRF's sliding-log throttle | `log` by throttle, per request `pc`, `route`, `check` (which throttle of the route), `history` and `stamp` |
| `Traffic` | readings, latest snapshot, hourly rollup, donut | `traffic_readings`; `congestion_hourly_agg`, an aggregate kept as the set of readings averaged; per worker `pc`, `bucket`, `found` (the rows its statement computed); the dashboard's `since` and `donut` |
| `TileSocket` | the consumer between its client and the channel layer | per socket `pc`, `subscribed_tiles`, `geohash` and `left` (what a handler is about), `queue` (its channel); `groups` of the layer |
| `Voting` | `Identity` and `Incidents` composed: who may vote | the variables of both, by INSTANCE, and `caller`, the user of each vote request |
| `SessionRegistry` | abstract: sessions are opened once and stay closed | `owner`, `open` |
| `ScoreBoard` | abstract: a ballot a voter, a score settled once per ballot, expiry | `ballots`, `score` (of the incidents where it is settled), `posted`, `expired` |
| `SessionsProofs`, `OtpProofs`, `IncidentsProofs`, `IdentityProofs`, `ThrottleProofs`, `TrafficProofs`, `TileSocketProofs`, `VotingProofs` | theorems | |
| `MC*` | instances for TLC: values, symmetry sets | |

Actions carry the name of the statement or the view they stand for; `map` in
PROJECT.json gives the lines. History variables and fields are declared as such:
no action of the code reads them.

Data is abstracted to what the properties tell apart. A token, a row id, a
phone, an e-mail address is a model value. Whether a one-time code is right is a
choice (it depends on the digits only, which nothing changes). `password_hash` is
left out: it is a column like `email` for everything modelled. Time is a bounded
counter; the lifetimes keep their order, not their ratios. Requests refused
before they write anything change nothing and have no action.

Deliberate orderings: "newest code" may be any of those created in the same
tick, so that nothing depends on the clocks of two processes agreeing. A token's
claims are recorded with the statement that read or wrote the row they come from.
The unique constraints, not the `exists()` checks before them, decide inserts and
updates in Identity. A SQL statement under READ COMMITTED is two actions where it
matters: the rollup computes its rows from the snapshot it starts with and
upserts over what others have committed since. A handler of the socket is one
action per await, and what Python's `==` and `str` make of a JSON value is a
constant each (`Tile`, `Group`), since the set goes by one and the layer by the
other.

**Composition.** `Voting` adds no copy of either component: its actions are
actions of `Identity` and `Incidents` with the other's variables unchanged, except
that a vote starts only for a user with a token whose claims pass the permissions
(`MayVote`) and is cast for that user. A token is never thrown away there, so the
claims may be as old as they like.

**Refinement.** `Sessions` implements `SessionRegistry` (`ImplementsRegistry`): a
session is a sign-in, named by its first token; it is open while a row of it is
live or a refresh is between the UPDATE that revoked the old row and the INSERT of
the new one. So the refresh in flight is no gap in the session, and no
interleaving of refreshes, logouts, expiry and deaths opens a closed session or
hands one to another user.

`Incidents` implements `ScoreBoard` (`ImplementsScoreBoard`): the table of votes is
the ballots, and a score counts as settled (`SettledScore`) while the incident is not
`dirty` and no request on it has voted yet. The four statements of a vote then amount
to two steps: UPSERT casts the ballot and unsettles the score, and the save of a
request that met no other settles it, as the sum of the ballots. A save after a race,
a death and the other two statements change nothing a reader of the board may trust.
`Voting` keeps the same promise, since it implements `Incidents`.

## Runs

| Run | Bounds | Shows |
|---|---|---|
| `sessions` | 2 users, 3 tokens, 2 refreshes, AccessTTL 1, RefreshTTL 2, clock to 2 | types; a logout-all that meets no refresh of the user is final; access dies AccessTTL later; a sign-in that never forked has one live token; implements `SessionRegistry` |
| `sessions_logout_all` | same | **violated**: a refresh under way survives logout-all |
| `otp` | 1 phone, 3 codes, 2 requests, 2 attempts, 2 per hour, hour and code lifetime 2, clock to 2, 3 verifications a code | limits and single use for codes verified by one request at a time; a code raced for signs in no more callers than requests run side by side; a code once used, expired or out of attempts signs in only those who had read it before; the hour exceeds its limit by the number of racing requests at most |
| `otp_failed_sms` | same, production | **violated**: failed messages use up the hour |
| `incidents` | 1 report, 2 voters, 2 votes under way, TTL 0, clock to 2; no symmetry (liveness) | score repaired by any lone vote, within the votes cast; expired is final; implements `ScoreBoard`; every overdue report is expired in the end |
| `incidents_score` | 2 reports, otherwise the same | **violated**: score = sum of votes once nothing runs |
| `identity` | 2 users, 1 e-mail, 1 phone, 1 device, 2 requests | edits survive unless requests overlap; verified phone proven unless edited; verified claims earned; the unique columns contended for |
| `identity_phone` | 1 user, 2 phones, otherwise the same | **violated**: see Findings |
| `throttle` | 2 requests, routes that are checked once and twice, global limit 2, other limits 1, windows of 2 ticks, clock to 3, 4 requests let through | the limit holds in any window unless requests race in the throttle; nobody is refused before the limit |
| `traffic` | 2 segments, 2 readings (0 per cent in the viewport, or 67 per cent outside it), 2 workers, an hour of 2 ticks, a trend of 1 hour, clock to 3 | an hour once rolled up counts what was stored in it; averages lose nothing unless runs overlap; bands partition; a viewport never goes back |
| `tiles` | 1 socket, 4 JSON values (two equal, two that print alike), capacity 1, 2 updates; no symmetry (liveness) | set and layer agree, and a clean close leaves no group, but for groups that confusing values touched; a client that named none is sent what it is owed, in the end |
| `voting` | 2 users, 2 phones, 1 e-mail, 1 device, 1 auth request, 1 vote request, 1 report, TTL 0, clock to 1 | votes are of users who proved a phone; a score counts phones, but for edited users |

Why the bounds are enough. Two requests give every pairwise race; three tokens a
sign-in, its rotation and a fork or a second sign-in; the clock passes every
lifetime once with one tick to spare. Two attempts and two codes an hour put both
limits within reach of one request more than they allow; three codes let the
window slide over a limit that was reached. `MaxTries` lets a code be verified
once more than `MaxAttempts`, so an off-by-one shows. Handlers of one phone never
read rows of another, so one phone is enough. Two users for one phone let them
contend; two phones for one user, in the violated run, let a verified number be
replaced (two of each are beyond five minutes; the theorems cover every number).
A report due at once leaves two ticks for votes before, during and after its
expiry. A window of two ticks on a clock of four slides past its first requests,
and a limit of one other request is within reach of a race of two. Three ticks
leave one after an hour's end for a run that is late or repeated while readings
of that hour still come in, and two readings are a pair on time and late, of one
segment or two, at the low end of the bands and on the border of two. Sockets meet in
nothing but the layer, so one is enough for TLC; two updates fill a channel of one
and overflow it. In `voting` two users and two phones let a number pass from one
user to the other; one auth request and one vote request, each of several
statements, race with every one-statement view; votes that race each other are in
`incidents`.

Deadlock is checked except in the `otp` runs, `throttle` and `tiles`, where
everything does stop: once the bounded clock is at its end, the hour is full and no
code is usable, every request is refused; once the bounded clock and the bound on
requests let through are reached, none is begun; a socket that is closed and in no
group does nothing more.

Fairness. `OverdueExpires` assumes weak fairness of `ExpireStaleIncidents` alone:
`sadaksathi/celery.py` sends the task every five minutes for ever. (That is about a
deployment whose Beat runs; with the settings as they are, the scheduler class named
at `settings.py:169` belongs to an app that is not installed.) Requests are never
assumed to finish. `QueuedIsSent` assumes, for each socket, weak fairness of the
steps that end a handler (the event loop runs it to its end; its awaits are on the
layer) and strong fairness of `TrafficUpdate`: `await_many_dispatch` waits for frames
and channel messages together and turns to both in every round, so a message that is
there each time no handler runs is taken. Weak fairness would not do, because every
handler disables `TrafficUpdate` for as long as it runs. Frames, `disconnect`, updates
and expiry of memberships are not assumed to happen.

## Findings

Each violated run states what the code or its documentation says, and each has a
passing counterpart that says how much of it the code does guarantee.

- `sessions_logout_all`: "All sessions revoked" is answered while a refresh that
  already read its row goes on to insert an unrevoked one. Guaranteed:
  `LogoutAllIsFinal`.
- `otp_failed_sms`: `otp.py` defines `send_otp_sms` twice; the second definition
  is in force and raises in production, after the row is stored and counts.
- `incidents_score`: the score is summed and saved in two statements after the
  vote. Guaranteed: `ScoreIsSumUnlessDirty`, `ScoreWithinVotes`.
- `identity_phone`: `phone_verified` survives a change of phone. Guaranteed:
  `VerifiedPhoneIsProvenUnlessEdited`, `VerifiedClaimIsEarned`.

More disagreements show in the models and have no run of their own.

- Two refreshes that present one token before either saves it both get a pair:
  "rotate" forks the session (`OneTokenUnlessForked` says when it cannot).
- `attempts` of a one-time code is read, incremented in memory and written back, so
  misses that overlap count once and more than `OTP_MAX_ATTEMPTS` are answered
  (`AttemptsLimitUnlessOverlapped`). Requests that count before each other's insert
  exceed the three codes an hour (`HourlyLimitPlusRaces` says by how many).
- `user.save()` writes every column back: a profile edit that read the row before an
  upgrade undoes it (`EditsKeptUnlessOverlapped`). The guest check of
  `UpgradeGuestView` reads the token and not the row, so a token signed before an
  upgrade gets in a second time.
- A phone that one user proved and then edited away may be proved by the next: one
  phone stands behind two verified votes (`ScoreCountsPhones` bounds it by the users
  whose phone was edited).
- The throttles are called fixed windows (`throttling.py`, the repository's README)
  and are a sliding log, requests that race between get and set are admitted past the
  limit (`LimitUnlessRaced`), and the global limiter does not apply to
  `RequestOtpView`, whose `throttle_classes` replace it (`Checks`).
- "They only receive updates for map tiles they're viewing" (`consumers.py`) holds of
  what is broadcast and not of what is sent: updates queued before an unsubscribe
  still arrive after it (`SentWhatIsOwed` counts them as owed). Geohashes are not
  checked to be strings: `1` and `"1"` share a group and are two tiles, `1` and `1.0`
  are one tile in two groups, so set and layer part ways. They do so on the groups of
  such values and no others (`Clean` in `TilesMatchGroups`); `SentWhatIsOwed` is about
  sockets that named none (`Plain`).
- The dashboard's bands are counted by one query each: a rollup between two of them
  may show an hour twice or not at all (`torn` in `DonutPartitions`). An hour in which
  no run of the rollup starts is never rolled up.
- Two tasks of `traffic/tasks.py` have the name `traffic.tasks.poll_traffic_provider`;
  the first uses `os` without importing it, the second is a stub. The first would also
  broadcast to a group and with a type that the consumer does not know, and create readings with a field the model does not have.
- `LatestSnapshotView` filters by viewport before `DISTINCT ON`: a segment whose
  latest reading is outside shows an older one from inside.

## Proofs

The theorems hold for all sets of users, phones, tokens, rows and requests and all
lifetimes and limits; they assume what the `ASSUME`s of the modules say (numbers
are naturals, limits positive, NULL and "nobody" are nobody, finitely many
voters, readings with a congestion between 0 and 100 per cent, and for one-time codes
that finitely many requests run at once); two liveness results assume fairness. TLC
checked each strengthened invariant before it was proved.

`Sessions`. None of the properties is inductive: each speaks of the table, and
what breaks it is a request that already read a row. `IInv` adds, for every user
who logged out cleanly, that no request in flight holds a row of that user and
that no access token of theirs outlives the logout by more than `AccessTTL`
(`CleanLogoutInv`); for every sign-in that never forked, that it has one
unrevoked row and one holder at most, a holder about to revoke holding that row
and a holder about to issue having left none (`UnforkedInv`); and that the
sign-in a row is traced to is in the table (`RootedInv`). From it:

| Theorem | States |
|---|---|
| `TypeCorrect` | `Spec => []TypeOK` |
| `LogoutAllFinal` | `Spec => []LogoutAllIsFinal` |
| `AccessDies` | `Spec => []AccessDiesAfterLogoutAll` |
| `OneToken` | `Spec => []OneTokenUnlessForked` |
| `Implements` | `Spec => ImplementsRegistry` |

The last maps every step to one of the registry: `SignIn` opens a session, the
UPDATE and INSERT of a refresh leave the open sessions as they are, and everything
else closes some, possibly none. It rests on `RootedInv`, by which a token belongs to
a session that has an owner, and on what a request in flight holds being of its user.

`Otp`. `SeenInv` says what a verification read was below the limit, and is what
keeps a late write below it too. `AloneInv` is about rows never verified twice at
once: the column `attempts` equals the misses answered, the column `consumed`
says whether there was a login, at most one request holds the row, and what it
read is what the row still says. For the rows two requests did verify at once,
`LoginsInv` counts: a login adds one to a row that is consumed by then, requests that
may still sign in (`Hitters`) read it before that, and no new one appears, so logins
and hitters together (`Chances`) never exceed the number of requests. `SpentIsFinal`
says the same of every code that is used, expired or out of attempts: it is not found
again (`SpentNotFound`), so its chances only fall. The hourly limit is its own induction
(`HourInv`): the codes of the hour and the requests between their count and
their insert together stay below the limit plus the number of requests, because
a request that passes the count finds the first term below the limit.

| Theorem | States |
|---|---|
| `TypeCorrect` | `Spec => []TypeOK`, with `attempts <= MaxAttempts` |
| `AttemptsLimited` | `Spec => []AttemptsLimitUnlessOverlapped` |
| `OneLogin` | `Spec => []OneLoginPlusRaces` |
| `SpentIsFinal` | `Spec => SpentStaysSpent` |
| `HourLimited` | `Spec => []HourlyLimitPlusRaces` |

`Incidents`. `ScoreIsSumUnlessDirty` speaks of quiet incidents only; what makes it
inductive is what holds while a vote runs. `AloneInv`: a request that is not
`crowded` is alone on its incident. `SumInv`: the sum such a request is about to
save is still the sum. `ScoreInv`: the score of a clean incident stays right until
a request on it votes. The votes of one incident do not enter the sum of another
(`TotalElsewhere`). `ScoreBounded` is an induction of its own: the voters of an
incident only grow, so a sum, however old when it is saved, stays in bounds.
`Implements` maps every step to one of `ScoreBoard`; that a save may settle the score
is `SumInv` for the request that was alone, and that a sum of `Incidents` is one of
`ScoreBoard` is `SumIsTotal`.

`TaskExpires` is liveness. The prover has no rules for ENABLED, so the fairness is
written out (`TaskRuns`): the task runs infinitely often, or infinitely often there
is nothing for it to do. This is WF of `ExpireStaleIncidents`, whose enabling condition
is its one guard, because each row it finds changes; that last step is not
machine-checked. What is: a late report stays late until it is expired, through
votes and whatever they save (`LateKept`), and one run expires it (`LateGoes`).

| Theorem | States |
|---|---|
| `TypeCorrect` | `Spec => []TypeOK` |
| `ScoreIsSum` | `Spec => []ScoreIsSumUnlessDirty` |
| `ScoreBounded` | `Spec => []ScoreWithinVotes` |
| `ExpiredFinal` | `Spec => ExpiredIsFinal` |
| `Implements` | `Spec => ImplementsScoreBoard` |
| `TaskExpires` | `Spec /\ TaskRuns => OverdueExpires` |

`Identity`. The danger is the copy of a row in a request's memory, so the
strengthening says of copies what the properties say of rows: of a user nobody
overlapped on, that there is one copy and it equals the row (`AloneInv`); of a
user never given another phone, that a copy has the row's phone and is verified
only if it was proven (`PhoneInv`); of any user that a copy, a row or a token says
is verified, or a request is about to, that some phone was proven (`EarnedInv`);
and that a guest's copy has a device (`ReadInv`, for the types).

| Theorem | States |
|---|---|
| `TypeCorrect` | `Spec => []TypeOK` |
| `EditsKept` | `Spec => []EditsKeptUnlessOverlapped` |
| `PhoneProven` | `Spec => []VerifiedPhoneIsProvenUnlessEdited` |
| `ClaimEarned` | `Spec => []VerifiedClaimIsEarned` |

One more result is kept for `Voting`: two users of whom no phone was edited never
proved the same one (`ProvenOnce`), because rows never share a phone and what such a
user has proven is the phone in the row.

`Throttle`. Requests write back logs they read at different times, so the cached log
may lack requests that were let through; what is inductive is that whatever log is
cached or held consists of requests let through, newest first and each once
(`LogsInv`, `InsideInv`), which gives `NewestFirst` and, with the numbering of the
requests, `RefusedAtLimit`: a full log shows that many distinct requests of the
window. In a throttle nobody raced in (`UnracedInv`), one request is inside at most,
the log lacks nothing the window still counts, and every window holds `Limit` at most.

| Theorem | States |
|---|---|
| `TypeCorrect` | `Spec => []TypeOK`, no log longer than its limit |
| `NewestFirst` | `Spec => []LogNewestFirst` |
| `RefusedAtLimit` | `Spec => []RefusedAtLimitOnly` |
| `Limited` | `Spec => []LimitUnlessRaced` |

`Traffic`. A run writes what it read earlier, so the invariant is about what it holds:
readings of its hour, all those stored on time among them, because the hour was over
when it read and an on-time reading is stored before that (`HoursInv`, `FoundInv`);
and, in an hour that no two runs worked on at once, all that earlier runs averaged
(`SeenInv`). `SnapshotNeverGoesBack` needs that readings are finitely many
(`FiniteInv`), for the latest to exist.

`DonutAddsUp` is about averages, and so about sums over sets that are defined
recursively. What the definition gives is a relation between a set and the set
without one of its elements; the induction that makes a fact of it for every finite
set is done by hand, on the least cardinality of a counterexample (`Least`, from the
well-foundedness of the naturals). It yields that a sum exists and lies between 0 and
100 per reading (`TotalBounds`), so that an average lies in one band and in no other
(`OneBand`). `DonutInv` then says of each count what it counted, and three disjoint
sets that cover the hours have their cardinalities add up (`CountsAddUp`).

| Theorem | States |
|---|---|
| `TypeCorrect` | `Spec => []TypeOK`, no aggregate of an hour that is not over |
| `OnTimeCounted` | `Spec => []OnTimeIsCounted` |
| `SeenCounted` | `Spec => []SeenStaysCounted` |
| `NeverGoesBack` | `Spec => SnapshotNeverGoesBack` |
| `DonutAddsUp` | `Spec => []DonutPartitions` |

`TileSocket`. `Expected` gives the groups a socket should be in at each point of its
handlers; it is in no other while it lives (`InNoOther`), and in all of them while it
serves frames and no membership expired (`InAll`). Both are about one group at a time
and inductive for those that are `Clean`, whose values are equal to each other and to
no others the socket named: such a group comes and goes with the tiles that name it
(`AddedGroups`, `DiscardedGroups`), and everything a socket is about was named by a
frame (`NamedInv`). On a socket with clean groups only (`PlainClean`) an update is
then queued exactly when it is owed, but for those broadcast amid a handler.

`QueueMoves` is the step of `QueuedIsSent`: an update in any place of the channel of a
socket that serves frames gets one place further, or is sent if it is the first, or
the socket closes. The fairness is written out as for `TaskExpires` (`LoopRuns`), and
nothing less will do: without weak fairness of `SubscribeTile`, or with weak in place
of strong fairness of `TrafficUpdate`, the last step of the proof fails.

| Theorem | States |
|---|---|
| `TypeCorrect` | `Spec => []TypeOK`, no channel beyond the capacity |
| `TilesMatch` | `Spec => []TilesMatchGroups` |
| `ClosedLeaves` | `Spec => []ClosedLeavesNothing` |
| `SentOwed` | `Spec => []SentWhatIsOwed` |
| `QueueMoves` | `Spec /\ LoopRuns(c) => \A nr, k \in Nat : Waits(c, nr, k) ~> Moves(c, nr, k)` |

`Voting`. Nothing of the components is proved again: a behaviour of `Voting` is one
of `Identity` (`AccountsSpec`) and one of `Incidents` (`BoardSpec`), so their theorems
hold of it. New is `CallerInv`, that the user of a running vote request has proved a
phone: at the start by `ClaimEarned`, and from then on because nothing unproves one.
`BoardSpec` needs it as well, since a vote is a step of `Incidents` only if it has a
voter. `ScoreCounted` joins `ScoreBounded` with `ProvenOnce`: voters of whom no phone
was edited are in bijection with the phones they proved. With the same step lemmas
`Voting` is shown to implement both components as they stand and, through `Incidents`,
`ScoreBoard`.

| Theorem | States |
|---|---|
| `TypeCorrect` | `Spec => []TypeOK` |
| `Earned` | `Spec => []VotesAreEarned` |
| `ScoreCounted` | `Spec => []ScoreCountsPhones` |
| `ImplementsAccounts` | `Spec => Accounts!Spec` |
| `ImplementsBoard` | `Spec => Board!Spec` |
| `ImplementsScores` | `Spec => Board!ImplementsScoreBoard` |

Model-checked only: `QueuedIsSent`. It follows from `QueueMoves` by induction over the
place of an update, but the induction is over temporal formulas, for which the prover
has no rule. `OverdueExpires` is proved from `TaskRuns` and checked from `FairSpec`;
that the two say the same is a matter of ENABLED, as explained above. The violated
runs are counterexamples of TLC.

## Plan

Done: all the components with state, their proofs, two refinements, one composition.
What would come next:

1. What `Identity` promises about a row that nobody overlaps on, as an abstract
   specification of accounts whose edits are atomic.
2. `Otp` composed with `Identity` and `Sessions`: a right code leads to one session of
   the phone's owner.
3. The ingest worker and its broadcasts, once there is one.

## Not modelled

Passwords and their hashes, the wording and status codes of answers, uploads,
serializers, search and the other read-only queries (the listings, the dashboard's
trend, report counts and recent reports: one query each, nothing to interleave), the
routing stub, the ingest tasks (neither changes state), configuration but for what
enters as a constant. Deletion of users is external (no code does it) and appears in
`Sessions` only, where `RefreshView` provides for it. The producer of traffic updates
is not written; `GroupSend` is the one the consumer's docstring asks for. The channel
layer, DRF's throttle and Celery are modelled from how the code uses them.
