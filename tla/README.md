# Live-server: models, checks and proofs

TLA+ models of the parts of Live-server in which several processes, timers and requests
meet: durable timers on Redis, the life of a video call, its per-minute billing, the live streams
of a host and the monitor that ends those whose host is lost, the room of a stream, gifts, and the
services around them (access, rate limits, leader lock, circuit breaker, failure log). TLC checks them on small instances; TLAPS proves the main results for every value of the constants.
Source paths below are relative to the repository (`src/...` is its `src` directory).

## 1. Inventory

The program is a Node.js server, run as several nodes that share one PostgreSQL database
(Prisma), one Redis and one *ledger* (another service, `ol-node-rest`, that moves coins).
JavaScript runs one callback at a time, so code between two `await`s is atomic on its node;
what interleaves is everything separated by an `await`, on one node or several.

| Component | State | Operations | What is hard, and what makes it correct |
|---|---|---|---|
| Durable timers (`services/cluster.service.js`) | Redis ZSET of deadlines, hash of payloads; per node `localTimers` | `scheduleDurable`, `cancelDurable`, `fire`, the 5 s sweep | local timers and sweeps of all nodes race for one entry; a node dies; Redis fails half-way. A deadline runs at most once, and is not forgotten |
| Leader lock, shutdown (same file) | key `live:leader:<name>` | `isLeader`, `releaseLeaderLocks` | a tick that outlasts the lease; lost answers; late releases. Two leaders only where a lease really ended under a tick |
| Video calls (`modules/videoCall/service.js`) | `video_call_session` rows, initiate locks in Redis | `initiateCall`, `acceptCall`, `rejectCall`, `endCall`, the sweep of ringing calls | double taps, cross calls, accept against reject against time-out. One live call per user; one ending; no billed call becomes "missed" |
| Call billing (same file) | `minsCharged` of the row, deadlines `vc_bill` and `vc_lowcoin` | `billDueMinutes`, `scheduleNextBilling`, `scheduleLowCoinDisconnect`, the sweep | timers and sweep bill from rows of different age; lost answers; top-ups. a rescheduled timer that still fires; a node without Redis. No minute early, none twice, none forgotten |
| Call sockets (`modules/videoCall/socket.js`) | `call:disconnect` keys, deadline `vc_disconnect` | `connection`, `disconnect`, the grace handler | closes noticed late and out of order. No end for a user who is online, no charge in the grace |
| Ledger client (`services/ledgerClient.js`) | request ids | post with retries, a time-out per attempt and a total budget | an attempt that commits although it timed out |
| Live streams (`routes/service/serviceLive.js`, `services/liveHostStatus.service.js`) | `liveStream` rows, marker `user:active_stream`, room keys in Redis | go live, end (claimed), marker reconciler | two go-lives, ends from five places, a late end of an old stream, callers that announce whether they won or not. One live stream per host, one claimed end, markers follow the rows |
| Host presence (`routes/service/serviceHeartbeat.js`, `routes/service/socket-live-service.js`) | heartbeats, `host:disconnect_timer`, `host:return_timer` | heartbeat monitor, grace handlers, pause for a call | keys that expire when their deadline is due; a paused host. A host who stays away loses the stream, one who is back does not |
| Live room (`socket-live-service.js`, `serviceLive.js`, `serviceMessage.js`, `serviceAdmin.js`) | seat hash, mutes, restrictions, admins, permissions, chats, viewer set | join, leave, sheet requests, mute, kick, restrict, chat, clear | seats are read and written back without a lock; caches are filled late; list, table and clear time are read apart. Who was removed stays away, who is there is counted, what was cleared stays cleared |
| Gifts (`serviceLive.js`, `serviceLuckyGift.js`, `modules/luckyGift`) | wallets (ledger), reserve pool, event de-duplication, gallery progress | gift, lucky gift, global message, gallery | retries of the client and of the ledger client, loaders that race. A gift happens once, what is shown is what was paid, the draw follows the pool |
| Guards (`utils/circuitBreaker.js`, `utils/tokenBucket.js`, `socket/eventGuard.js`, billing slots) | counters | `exec`, `take`, `withBillingSlot` | late answers during a trial; buckets dropped and refilled; waiters passed over |
| Access (`services/session.service.js`, `socket/socketAuth.js`, auth middlewares) | none; keys and rows of `ol-node-rest` | `checkAccessPayload`, `socketAuth`, `authenticateAdmin` | keys and rows disagree, Redis comes and goes. Who was logged out is refused, a refresh throws nobody out |
| Moderation, failure log (`serviceLive.js`, `services/liveFailureLog.service.js`) | bans and restrictions, keys; client events | `verifyStreamFrameService`, `banHostForModerationService`; `reportClientEvents` | a ban in five places against a go-live under way; events sent again |
| Statistics (`serviceLive.js`) | none | `getHostStatsService` | a day that turns at 23:30 IST |
| HLS, LiveKit events, agency tiers, HTTP plumbing | mostly none of their own | reads, calls to services | see section 7 |

Interactions: handlers of durable timers (`vc_bill`, `vc_lowcoin`, `vc_disconnect`,
`host_disconnect`, `host_return`, `sheet_unmute`) belong to the other components; calls pause and
resume streams; every charge goes through the ledger client; sockets, HTTP routes, the LiveKit
webhook, moderation and leader loops all call the same end functions. `PROJECT.json` lists,
line by line, the hazards that follow from this ("hazards").

## 2. Plan

Order: what everything else rests on first, then where money is at stake, then the streams, then
what surrounds them. All of it is done.

1. **Durable timers** - `Deadlines` (abstract), `DurableTimers`. Proved.
2. **Video calls** - `CallLifecycle` (abstract), `CallSession`. Proved.
3. **Call billing** - `CallMeter` (abstract), `CallBilling`, with entries and local timers as in
   `DurableTimers` and the end of a call as one step, as `CallSession` justifies; `BillingSlots` beside it. Safety
   proved.
4. **Live streams** - `StreamLife` (abstract), `LiveStream`: go-live, claimed end, marker,
   reconciler. Proved.
5. **Heartbeat monitor** - `HostMonitor`: heartbeats, ghost sweep, and the call and return window
   that spare a stream. Proved.
6. **Host timers** - `HostTimers`: the deadlines `host_disconnect` and `host_return` and the keys
   they look for, on the promise of `Deadlines`.
7. **Room** - `RoomSeats`, `RoomCaches`, `RoomChat`, `RoomViewers`, `GiftGallery`, `Moderation`,
   brought together for TLC in `MCRoom`. Safety proved; `RoomViewers` promises liveness only.
8. **Services** - `Gifts`, `LuckyDraw`, `Access`, `FailureLog`, `LeaderLock`, `Breaker`,
   `TokenBuckets` (with `IdealBuckets`, abstract), `HostStats`, brought together in `MCServices`.
   Safety proved.

What would come next: an abstract gift that `Gifts` implements, a refinement of the seats to seats
that are changed atomically, and the reads of the shared database that feed rankings and profiles.

## 3. Modules

| Module | Models | Notes |
|---|---|---|
| `Deadlines` | what a caller of the timers may rely on | a scheduled deadline is claimed by at most one actor; it is replaced, dropped, or lost with its claimer. It has no clock: when a claim may come, and that a stale timer may claim early, is in the modules of those who use timers |
| `DurableTimers` | `cluster.service.js` 157-309 | several nodes, several members |
| `DurableTimers_proofs` | theorems | |
| `CallLifecycle` | the life of one call as atomic moves of its row | |
| `CallSession` | `initiateCall`, `acceptCall`, `rejectCall`, `endCall`, ringing sweep | each action is the code between two awaits of one request |
| `CallSession_proofs` | theorems | |
| `CallMeter` | what the billing of a call promises: minutes begun and paid, one end: now, at the end of a paid minute, or at a drop once a drop has had its grace | no timers, workers, keys |
| `CallBilling` | `billDueMinutes` and all that calls or stops it, the caller's sockets | |
| `CallBilling_proofs` | theorems | |
| `BillingSlots` | `withBillingSlot` | the billings of one process |
| `StreamLife` | a host's streams: given an id, live, ended for good; who wins an end, aborts or moderates owes one LIVE_STATUS; `stream_ended` may be sent again and again | no requests, no Redis |
| `LiveStream` | go-live, the ends of a stream, the marker and its reconciler, for one host | streams of different hosts share nothing |
| `LiveStream_proofs` | theorems | |
| `HostMonitor` | `checkStream` and what it reads: heartbeats, LiveKit presence, calls, return keys | one stream; one leader's check at a time |
| `HostMonitor_proofs` | theorems | |
| `HostTimers` | the windows `host_disconnect` and `host_return`: keys, deadlines, rejoin, handlers | one host, one stream |
| `RoomSeats` | the seat hash, timed mutes with `sheet_unmute`, `LIVE_AUDIO_MUTE` restrictions and their kick and lift | handlers are reads and writes of a whole seat |
| `RoomCaches` | the read-through keys: restriction, coin freeze, room admins, mic and chat permission, gift page, balance | one key of one kind per behaviour |
| `RoomChat` | sending, the newest-`Keep` list, `clear_chat`, `getMessagesService`, the end's deletion and copy | |
| `RoomViewers` | `stream:active` with sockets, REST, kicks and the sync, on several nodes | |
| `GiftGallery` | the month's gallery and a host's progress, with their loaded flags | |
| `Moderation` | frame checks, strikes, ban and suspension, against a go-live of the host | |
| `Gifts` | stream, call and lucky gifts and global messages over `callLedger`; the emit claim; the pool's seeding | ledger external |
| `LuckyDraw` | odds bent by the pool's return, combos, their breakdown into steps | a pure computation: each behaviour is one draw |
| `Access` | `checkAccessPayload` behind REST, socket and admin checks | what `ol-node-rest` writes is external |
| `FailureLog` | the client's events: rate counter, de-duplication, row and list, pruning | |
| `LeaderLock` | `isLeader`, ticks, release at shutdown | |
| `Breaker` | `createCircuitBreaker` with overlapping calls, in front of Rekognition | |
| `IdealBuckets`, `TokenBuckets` | what a bucket promises; `take`, `takeToken`, pruning, `restRateAllow`, the packet guard | |
| `HostStats` | `calculate1130DateRanges` and the metrics of a range | time in half hours of UTC |
| `Guards_proofs` | theorems of `LeaderLock`, `Breaker`, `TokenBuckets`, `Access`, `FailureLog`, `BillingSlots` | |
| `Earnings_proofs` | theorems of `Gifts`, `LuckyDraw`, `HostStats` | |
| `Room_proofs` | theorems of `RoomSeats`, `RoomCaches`, `RoomChat`, `GiftGallery`, `Moderation` | |
| `MCRoom`, `MCServices` | small components side by side | a behaviour follows one component, chosen by `part` at its start: they share no variable, and the state spaces add up |
| other `MC*` | constants and symmetry for TLC | |

### 3.1 DurableTimers

`deadline` and `payload` are the ZSET and the hash; `handles` the armed `setTimeout`s (each with
its node, and whether the entry was persisted before); `tracked` is `localTimers`; `calls` are
`scheduleDurable`s between the Redis write and the arming; `fires` are `fire`s past their ZREM;
`due[n]` is the snapshot a sweep loops over. `gen` numbers the schedules, so that "runs at most
once" can be said of each. Crashes drop everything local; Redis may be closed for a node
(`open`), or a command may fail in the middle (`faults`).

### 3.2 CallSession

A request (`Procs`) has a program counter, the users it works for and, inside `endCall`, the call
it ends, the status it has read and the number of attempts. The rows are `status`, `parties`,
`billed`. `lock[u]` names the holder of a user's initiate lock; `Orphan` is a lock whose holder
died, and locks may lapse (`lapses`) or be skipped when Redis is down, as in the code. The row
update of `endCall` is the conditional one (`updateMany` with the status that was read), tried
twice. The ledger's accept is external and atomic: `ACTIVE` and the first minute together.

### 3.3 CallBilling

One accepted call. `now` counts ticks since `startedAt`; `Minute` ticks are 60 s; a minute costs
one coin. `work[w]` is a timer handler or a sweep tick between two awaits; at most `|Workers|`
are in flight at once. `bill`, `low`, `drop` are the entries of the three
deadlines in Redis, `alarms` the local timers that nodes hold for them. `Schedule` and `Fire` are
`scheduleDurable` and `fire`: a node that reschedules clears its own earlier timer if it has one, the
timers of other nodes stay, and one of them may take the new entry at the old time, with the new
payload (`drop`, whose payload is the time of the newest disconnect, so that the call may be ended as
of that one when only an earlier one has had its grace). An entry that could not be written leaves a timer that is
not `stored`, which fires whatever Redis holds. `drops` is a history: the times at which the caller was seen to lose
a socket. `key` and `KeySet` are
`call:disconnect:<session>:<caller>` with its TTL. `links` counts sockets whose close has not
been noticed: a new socket may open before the close of the old one is seen.
Where a step asks Redis, its node may find its client closed or the call may fail, `MaxFaults` times:
a billing whose node finds Redis closed at the guard charges without a look (`blind`), and
`vc_disconnect` takes the caller to be away.
Abstractions: ZREM and the reading and deleting of the payload are one step; which nodes hold a timer
of `vc_bill` is not kept, its entry may be claimed at any time, because the handler re-reads the row and
bills what has begun; timers other nodes hold for a call that is over are dropped with its own, as they
would find an ended call; the end of a call is one step plus the cancelling of its timers (`CallSession` shows
that one request wins it); ends by a heartbeat time-out, the webhook or moderation are `HangUp`;
`CALL_BILL_TO_LAST_HB=enforce` is off, as by default; the billing slots, which only delay a
billing, are left out because a worker may be arbitrarily late anyway (`BillingSlots` shows that it
is served); the read and the deletion
of the disconnect pointer when a socket opens are one step; the creator's sockets, which never
spare a minute, are left out.

### 3.4 LiveStream

The streams of one host. `row[s]` is the row of `live_streams`; `marker` is
`user:active_stream:<host>` and `info` the `stream:info` keys; a request has a place, the stream it
works on, and is a go-live or not (`going`): a go-live calls `endLiveStreamService` for the stream
it replaces and returns to its own code after it, whether that end succeeded or threw. Ends come
from anybody who has read a stream's id, which the marker shows before the row exists; moderation
has its own end, which closes the row without a claim. `rec`, `seen`, `todo` and `suspects` are the
leader's reconciler between its awaits. Histories: `off` counts the LIVE_STATUS
frames by which the ends of a stream say that it is over (`publishLiveStatus(false)`: the winner's, which its summary follows, the
abort's and moderation's), `told` are the streams whose room was sent `stream_ended` by whoever: timers
send it before their end, the host's request and a go-live after theirs whether it won or not, the
monitor if it won, an admin's request not at all. `moderated`, `aborted` say what a property excludes;
`crossed` is set when two go-lives are in flight at once, or when the end that one started throws and leaves its
stream live; `old` are the go-lives whose markers
were written and whose INSERT was under way when the last tick began.
Abstractions: a tick comes every 60 s and a go-live takes a fraction of a second between its marker
and its row, so that a go-live in that window at two ticks in a row is a *lapse*, counted in
`lapses` and allowed `MaxLapses` times; one leader reconciles (its successor starts with no
suspects); `findMany` may return the rows in any fixed order (`CHOOSE`); the two SETs of a go-live
are one step unless they fail; refusals of a go-live (ban, suspension) change nothing and are
left out, and so are camera accounting, egress, the figures of the summary and Redis being closed
from the start (a Redis call that fails is a fault).

### 3.5 HostMonitor

One live stream, `endedBy` its end reason. Time is counted in ticks and kept as ages: `age` of the
stream, `beat` of the heartbeat key (`NoBeat` when it has expired), `retKey` what is left of
`host:return_timer`; `lag` is how far the `now` of a check lies behind. `pc` is the await the check
stands at; `inRoom` is its `hostInLk`. `call`, `pausing`, `ending`, `pauseKey` are the host's call
as the stream sees it: the row, the background tasks of `acceptCall` and `endCall`, and
`video_call:stream_pause`. `CheckStep` follows `checkStream`: presence, and in its absence call,
return keys and `host_confirmed` (ghost sweep); then heartbeat, and for a stale one call and return
keys again. Histories: `quiet` is the true silence, whatever became of the key; `seen` that
a check saw the host in the room; `shelter` what spoke for the host from the beginning of the
check on without a break.
`open` says whether the leader's Redis client is open. With it closed the code finds no heartbeat, not even a
fresh one, and goes by the age of the stream alone: a stream older than the time-out is then taken
for lost at once, unless LiveKit or a call row speaks for its host. `LostAfterSilence` states both
cases apart: the true silence where the key can be read, the age where it cannot.
Abstractions: the enforce modes of the absence cap, of the no-video cap and of webhook presence are
off, as by default, where they only log; LiveKit's API may answer "absent" by error at any time; the
two return keys, set and deleted together, are one; a new call begins when the background tasks of
the last one are done, and these take less than a tick; the other ends of a stream are
`EndedElsewhere`; two leaders at once are left out: `LeaderLock`
shows that there are two only while one of them shuts down or after a tick that outlasted its lease.

### 3.6 The room

`RoomSeats`: `seat[u]` is the user's field of the hash, with `muted`, `byHost` and `until`;
`op[r]` a handler between the HGET and the HSET of `toggleUserSheetMuteService`, or between its
restriction check and its write; `reading` are `getSheetUsersService`s between their HGETALL and the
rewriting of expired mutes; `unmuteAt` the `sheet_unmute` deadlines; `kickDue` and `liftDue` the
`setImmediate`s of a restriction that was made or cleared. `late` is a history: users for whom a
handler was under way when the kick ran. Only timed mutes by the host have a deadline; one user's
field is independent of another's, so one user is enough.

`RoomCaches`: `row` is what Postgres says, `key` what Redis does; a reader asks Redis, then the
database (which may fail), then fills; a writer writes the two in the order of its handler. The kinds
differ in `CachesFalse`, `ClearsOnFalse`, `Expiring`, `CacheFirst`, each translated from its function.

`RoomChat`: messages and clears are stamped before the command that stores them is sent; a reader
reads list, table and clear time in three awaits; `end` is the winning end of the stream, which deletes
the keys and then copies the list. `RoomViewers`: two sockets of one user on two nodes, REST join and
leave, kicks, and the sync of each node. `GiftGallery`: `InGallery` gifts are collected once each;
`ids`, `got` and their loaded flags are the keys, each of which expires by itself, at any time (`lapsed`: the set of a
host went while it counted as loaded or was being filled). `Moderation`: each write of
`banHostForModerationService` is a step of its own that may fail; a go-live asks for the
restriction, the suspension key and the row in three awaits and writes back what it found.
Left out of the room: invitations, broadcast events that keep no state, the words of a message.

### 3.7 Gifts

`Tries` are the handlers a client's tries of one gift start; each has at most `Attempts` requests
on the way to the ledger, which serves them late, twice or after the handler gave up.
The ledger answers a request id it has seen with its first answer and refuses an idempotency key that was
used: that is how `src/` uses it. `said` is what the room was told, `paid` what the ledger
committed. In `LuckyDraw` percentages are counted in halves and weights in tenths, so that the
roundings of the code are exact integer quotients; the random weights are chosen from a set.

### 3.8 Services

`Access`: a request reads, in up to three awaits, the keys `ol-node-rest` writes after its rows, and
the rows where a key is missing; `modes` are the environment's. `due` says that everything that knew
better had followed when the request began. `FailureLog`: one user, batches that may be sent again;
the write of row and list is not awaited; rows are pruned after `RetentionDays`. `LeaderLock`:
`left` counts what is left of the lease, `age` how long a tick has lasted since its node asked for the lock, both in one unit.
Nothing in the code bounds a tick, and nothing here does: `age` is counted up to `LeaderTTL`, from
where on the tick has outlasted its lease.
`Breaker`: `sick` calls are those the dependency's failure may reach. `TokenBuckets`: tokens as they
were when last used, and their age; ages beyond `IdleFor` are not told apart. `HostStats`: `entries` and `ended`
are what the host earned and streamed, `closed` sums the figures of the days that are over.

## 4. Runs

| Run | Shows | Bounds and why they are enough |
|---|---|---|
| `durable_timers` | `TrackedIsLive` (no dead entry of `localTimers` hides a deadline from the sweep), `ImplementsDeadlines`, `DeadlineServed` | two nodes, two schedules of one member, one crash, one Redis fault: a reschedule on the other node races with timer, sweep and crash. Members do not interact |
| `calls` | `OneLiveCall`, `EndLeavesCallOver` (an `endCall` that gives up after two attempts leaves a call that is over), `ImplementsLifecycle` | three users, two requests, two calls: cross calls, double taps and calls to a busy creator |
| `call_locks` | `ReleasesOwnLock`, `RingingEnds`, `LocksFreed`, with a lock that lapses | two users, one call: what is asked is about a single lock or call |
| `billing` | `NoChargeInGrace`, `ImplementsMeter` | two workers, minutes of two ticks, a grace of one, clock to the start of the second minute, gifts, a second socket, local timers of earlier schedules; one fault (a dead node, a closed Redis client, a failed call of Redis or of the ledger) or one top-up, not both (`OneMishap`) |
| `billing_live` | `MinutesBilled`, `UnpaidCallEnds` | one fault: a crash, a closed or failing Redis, a lost answer of the ledger; one coin, minutes of one tick |
| `live_streams` | `OneLiveStream`, `ReconcilerKeepsLive`, `MarkersAgree`, `ImplementsLife` | three requests (a go-live against two ends, or two go-lives and an end), two streams (the old and the new one), three starts of a request, one fault (of any await, node or leader), one lapse |
| `host_monitor` | `MonitorSpares`, `GhostNeverSeen`, `LostAfterSilence`, `GoneEnds` (the stream of a host who is gone for good ends) | time-out 3, key life 4, ghost grace 2, start grace 1, return window 2 ticks, each on its own side of its neighbours; a check may see one tick pass; one fault. Calls, joins and heartbeats are unbounded |
| `room` | `RestrictedOffSeats`, `MuteEnds`, `RestrictionFound`, `KeysAgreeInTheEnd`, `ClearedStaysCleared`, `PresentIsCounted`, `CollectedIsShown`, `SuspendedRefused`; `SlotsInUse` (no wake-up is lost), `EveryBillRuns` | a seat with two handlers; two checks and two changes of a cached row; a message, two clears and the end of the stream; a viewer with two sockets on two nodes; a gift of the gallery and one outside; a frame and a go-live; three billings for one slot, so that two wait while one runs, and a newcomer may overtake the one that was woken |
| `services` | `ShownIsPaid`, `HappensOnce`, `DrawIsSound`, `AccessFollowsRows`, `ListedOnce`, `OneLeaderWorks`, `OneTrial`, `BucketsAreIdeal`, `EverythingOnOneDay` | two tries of a gift on two nodes, two requests each; every difference of the pool up to 6 % and every combo reward up to 12 in up to four steps; one request and one token renewal; two batches of one event; three peers and a lease of three units, with ticks of any length; two callers; buckets of two requests; days with something at 0:00, 17:30, 18:00 and 18:30 UTC |
| `chat_saved`, `host_gone`, `week` | violations, section 5 | |

`MCCallBilling.cfg` reaches 3.4 million states in about two minutes; a third minute is out of
reach, so that a pass that makes good two minutes at once is not among the checked behaviours (the
theorems of `CallBilling_proofs` cover it). Deadlock is off in the billing runs: once the call is over and the bound of the clock
is reached the system really stops. Everywhere else it is checked. `Interchangeable` permutes
users and requests, `Symmetric` the tries of a gift and the nodes; they are used in runs without
liveness only.

`MCLiveStream.cfg` reaches 1.4 million states in about four minutes, `MCHostMonitor.cfg`
1.1 million and `MCRoom.cfg` 0.8 million. Deadlock is off in the run of `HostMonitor` too: a stream that has ended stays ended. In `room` and `services`
it is off because clocks, writes and requests are bounded, and because a component that came to
its end leaves nothing to do.

Three invariants have no run because the refinement of their run implies them: a scheduled deadline
runs at most once (`RunsAtMostOnce`, by `ImplementsDeadlines`), no minute is charged before it begins
(`NeverAhead`, by `ImplementsMeter`), and the winner of an end announces it by LIVE_STATUS once (`EndsOnce`, by `ImplementsLife`). They are
proved (section 6).

The type invariants (`TypeOK`, `BucketsTypeOK`, `BreakerTypeOK`) are proved (section 6); the runs spend
their time on the other properties.

**Fairness.** Awaits are answered (WF on the steps of a request), time passes (WF `Tick`), a
dead node is restarted. The sweeps are `setInterval` loops of a leader that always exists again, so
they come round for ever: WF on the steps of the reconciler, SF on the sweep, whose guard (a free worker, an open Redis) other
activity may switch off and on. In `HostMonitor` the check is fair as a whole (WF `Begin` and `CheckStep`),
LiveKit drops a host whose app is dead and the heartbeats of the call end its call. In `MCRoom` the
seats and the viewers are asked for again and again on every node, as the room's details are by
whoever watches (WF `ReadSheet`, `Rewrite`, `SyncRead`, `SyncLook`, `SyncAdd`), awaits of cache readers and
writers are answered and keys expire; in `MCRoom` a billing that has its slot ends, as the ledger
client's total budget makes it, and one that was woken goes on. Nothing is assumed of users, top-ups, faults or crashes.

## 5. Where code and comments part

Three runs expect a violation:

* `chat_saved`: the end of a stream deletes `stream:chats:<id>` with the other keys and reads the
  list afterwards, to save it; its log would say "[Batch Sync] Saved ... live messages to DB"
  (`serviceLive.js:530`). Nothing is saved but what arrives between the two. The end by image
  moderation, where the comment "Batch sync chats from Redis to PostgreSQL" stands (1687), copies first
  and deletes then.
* `host_gone`: `host:disconnect_timer` expires after the very time its deadline waits, so that the
  handler finds no key and takes a host who stays away for one who "reconnected within grace
  period". Only the heartbeat monitor ends such a stream. `host:return_timer` is built alike.
* `week`: `calculate1130DateRanges` counts the days since Sunday from the calendar day but takes
  them off the start of the 23:30 day: before 23:30 IST the week begins on a Saturday, and on a
  Sunday it is over before now.

Six more disagreements are stated as properties in the modules and are violated when TLC is asked
for them, with the bounds of the passing run of their module or smaller ones; no run is kept for them:

* `RescheduleReplaces` (`DurableTimers`): a deadline rescheduled on another node can be claimed at
  its *old* time, by the `setTimeout` of the node that scheduled it first. Comments call this
  "replaces any earlier one".
* `LowCoinEndsUnpaidMinute` (`CallBilling`): `vc_lowcoin` looks at the balance when it runs; the
  minute at whose start it ends the call may just have been paid, with coins that came meanwhile.
* `AtMostSlots` (`BillingSlots`): "At most BILL_CONCURRENCY billings run at once". A billing that ends
  gives its slot back and wakes the first that waits, whose promise is served after whatever is queued
  already: one that enters in between takes the slot, and the one that was woken does not look again.
* `OnlineCallerKeepsCall` (`CallBilling`): the close of an old socket is noticed after the new one
  opened. The grace it starts is cleared by nothing and ends the call of a user who is online.
* `AbortSticks` (`LiveStream`): an end that knows a stream from Redis alone clears the keys and
  answers that the stream is over; the go-live is not told and inserts its row.
* `PausedKeepsStream` (`HostMonitor`): `endCall` turns the row and writes the return keys afterwards;
  a check that falls between sees neither and ends the stream of a host who has just hung up.
  `MonitorSpares` holds because it asks for one of them all the time.

The comment of LIVE-29 (`serviceLive.js:331`) says that only the winner of an end runs its side effects,
"summary, stream_ended" among them. Of the summary and LIVE_STATUS that is so (`ImplementsLife`,
`EndsOnce`). `stream_ended` is not sent by `endLiveStreamService` but by its callers, and these do
not all ask who won: `controllerLive.js:230` and `serviceLive.js:131` send it for losers too, the
timers (`socket-live-service.js:109`, `videoCall/service.js:143`) before they try. What `StreamLife` says of it is the
little that holds: it is never sent for a stream that neither went live nor was aborted.

What else the properties leave out, because the code does not have it:

* `RestrictionFound` speaks of restrictions only: a coin freeze is missed for as long as a late fill's
  "0" lives; a demoted room admin may stay one, and a permission whose query failed keeps the
  default, until the next change (those keys do not expire).
* `RestrictedOffSeats` leaves out a user for whom a handler was under way when the kick ran: it may
  seat them again.
* `ClearedStaysCleared` leaves out clears that overlap: the older may be written last.
* `SuspendedRefused` holds while one of the ban's records survives: it takes a failed restriction row
  and keys that failed or were overwritten by a go-live under way to let a banned host in.
* `NoChargeInGrace` leaves out a minute that is charged by a node which finds its own Redis client closed
  at the guard: the code charges it without a look, whatever other nodes have written.
* `ImplementsMeter` allows a call to be ended at its newest drop when only an earlier drop has had its
  grace: a local timer of the earlier schedule takes the new entry (`RescheduleReplaces`).
* `LostAfterSilence` says nothing of the silence of a host where Redis is closed: there a heartbeat that
  came a moment ago counts for nothing.
* `OneLeaderWorks` allows the tick of a node that shuts down to overlap the next leader's, because the lock
  is released before the tick is over, and a tick that has outlasted the lease it began with, because
  nothing renews the lease or stops the tick. A lease that ends for any other reason never leaves two at work.
* `CollectedIsShown` leaves out a set that expired before its flag, or under a loader that was filling
  it: their seven days begin apart, and it is short until it is loaded again.
* `HappensOnce` needs the client to name its transaction: global messages do not.
* The ban that should end a frozen user's calls asks `videoCall/service.js` for
  `endVideoCallService`, which that module does not export (`serviceAdmin.js:245`).

* Two go-lives of one host at once may leave two live rows, and so may a go-live that goes on past the
  failed end of the stream it found (`serviceLive.js:133` only logs it): `OneLiveStream` is stated
  without these two, for all other ends, failures and crashes. Moderation announces an end that a
  claimed end announces too, and an abort one of a stream that may be ended again (`EndsOnce`
  excludes both; `StreamLife` counts their debts).

## 6. Proofs

TLAPS proves, for any nodes, members, users, requests and bounds that satisfy the named
assumptions of the modules (bounds are naturals, `None` and `Orphan` are no requests):

* `DurableTimers_proofs`: `TypeCorrect`; `AtMostOnce`; `NoDeadEntry`; `Implements`. `RunsAtMostOnce`
  is not inductive: it says nothing of the claims under way. `OnceInv` adds that only a
  claimed generation runs (`OnlyClaimsRun`), that a pending entry has not been claimed
  (`PendingOnce`), that one claim per generation exists (`ClaimedOnce`), and that generations
  not handed out yet are untouched. It is conditional on no Redis fault, as the code falls back to
  running the handler when Redis cannot be asked.
* `CallSession_proofs`: `TypeCorrect`, `TwoAttempts`, `Implements` rest on `EndInv`: what each
  phase of a request knows of the row (a status only moves forward, so the status read by an
  `endCall` is at or behind the present one, and the second attempt cannot be overtaken into a live
  status). `OneLiveCallPerUser` rests on `LockInv`: from the moment a request has checked a
  user's calls until its insert, it holds that user's lock and the user is in no live call. Its
  hypothesis is `lapses = 0`: with a lock that expires under its holder the property fails.
* `LiveStream_proofs`: `TypeCorrect`; `OneAnnouncedEnd` rests on `EndsInv`: between its claim and its
  LIVE_STATUS a request is the only winner of its stream, whose row is closed; `OneLive` rests
  on `OneInv`, what a go-live that nobody overlaps knows at each place: on its way to the end of the
  stream it found, only that one may be live, and none is after it. Its hypothesis is `~crossed`, not the
  absence of faults. `KeepsLive` rests on `IdInv`
  (ids in use were given out) and `RecInv`: the go-lives of a suspect were under way when the last
  tick began, so that once the next tick has begun without a lapse nobody is left to make
  the suspect live. Its hypothesis is `lapses = 0`. `LifeImplemented` maps the requests between a won
  claim, an abort or a moderated row and their announcement to debts (`owed`): `publish` pays one, and a crash
  or a throw loses it. It needs `IdInv` (no row before its id) and `SeenLive` (moderation, timers, claims
  and losers only work on streams that went live); it has no hypothesis on faults, retries or lapses.
* `HostMonitor_proofs`: `TypeCorrect`; `Lost` rests on `QuietInv`, which ties the age of the key to the
  true silence: it is that silence while there is a key, and without one the silence is past the
  time-out (the key outlives it, `KeySlack > 0`) or as old as the stream; with Redis closed it is the age
  of the stream that is past the time-out. `Spares` rests on
  `SpareInv`: what each await has read in vain cannot have held from the beginning of the check;
  it needs `QuietInv` for a stream too young for the ghost sweep, whose presence is not read.
  `NoSeenGhost` rests on `SeenInv`. The assumptions: start grace <= ghost grace <= time-out.
* `CallBilling_proofs`: `MinutesNotAhead` and `NoneInGrace` rest on `Good(w)`, what a worker knows: the
  minute it took for current when it started has begun, it stands before no later one, and at the
  ledger the caller was not seen to be away before the minute began. The last survives a drop
  between guard and ledger because that drop comes after the start of the minute (`HasBegun`). The
  minute of a time is `now \div Minute`, for any length of a minute. A worker that found Redis closed
  stands at `blind` and knows nothing of the caller: its charge is what `NoneInGrace` excepts.
  `MeterImplemented` adds `MeterInv`: every entry, local timer and worker is right about the time it
  names (`Right`, `Held`): one of `vc_lowcoin` the end of a paid minute, one of `vc_disconnect` a grace after
  a drop. A stale timer that takes a newer entry is right too: it is due, so the grace of the
  drop it was set for is over (`SomeGraceIsOver`), and the payload it takes names a drop. What is right stays so
  as clock, minutes and drops grow (`Grows`); the conditional update of `endCall` makes every later end a stutter.
  `TypeCorrect` adds `SizeInv`: what a worker holds is at most one minute ahead of the clock (`Sized`),
  so that, with `MeterInv`, the bound of the clock bounds everything else.
* `Guards_proofs`: `OneLeader` rests on `WorkersLease`: who works, does not leave and has not outlasted
  its lease holds the key, for at least what its lease has left. Nothing is assumed of the length of a tick. `TrialIsAlone`: the invariant is the property itself, with the types it
  needs; `BreakerTypeCorrect`. `BucketsImplement` maps a bucket to what it would hold if it were used
  now (`Here`). A tick adds to every bucket what the ideal one gains, the cap applied once or twice;
  a dropped bucket was full (`IdleIsFull`), as `Refill * IdleFor >= Capacity`. `BucketsTypeCorrect`.
  `AccessIsRight` rests on `CheckInv`: a check that is due knows already, or its next read will
  tell it, that the access is over (`Overdue`, `Known`), which no late fill of a key can undo once
  the keys have followed; `AdminInv` says the same of admins. `EventsOnce` rests on `EventInv`: at
  most one batch is about to record an event that is not listed yet, and Redis remembers what was
  seen for as long as the event may still be accepted (`Remembered`), as `MaxAge < SeenDays`
  (ages are counted up to the retention of the rows, `MaxAge <= RetentionDays`).
  `NoSlotIsLost` rests on `SlotsInv`: who is in the queue waits, and stands there once, so that a
  billing that ends gives back one slot and wakes exactly one.
* `Earnings_proofs`: `GiftHappensOnce` and `OnlyPaidIsShown` rest on `Backed` (an answer of the ledger,
  under way or received, names something booked) and `OneTeller` (one try at most stands between
  the emit claim and its emit while Redis answers). `DrawsAreSound` and `EarningsOnOneDay` are about
  sums, which the modules write as folds over sets. Induction over data with a predicate as parameter
  is out of the provers' reach, so the induction is over *families of sets* (`SmallerFirst`): a family
  that holds a subset whenever it holds all smaller ones holds the whole finite set, because the
  strict subset order is well founded. From it follow that a fold exists (`FoldExists`), that it is
  unique (`FoldUnique`), what it becomes when an element is added (`SumStep`) and that a sum is taken
  apart at any element (`SumTakes`), which is all that is asked of one. In the draw, `Upwards` is the
  same for the steps of a combo: what is left after each step is a natural number and the last step
  takes it (`BreakdownSumsUp`). In the statistics, `ClosedSoFar` says that the days that are closed
  hold what was earned before today began, and today the rest: the turn at 23:30 moves both ends.
* `Room_proofs`: `AllIsShown` rests on `Knows`: a loader that will set the flag has read, or will
  find cached, every gift collected, unless the set lapsed under it. `NoneMissed` rests on `Finds`: a check that is due meets the row
  and never a "no". `BarredStayOff` rests on `OffInv`: of a barred user no handler holds a seat that it
  read before the kick. `BannedRefused` rests on `BanWritten` and `Refusable`: each place of the
  ban that was not lost is written or still to be written, and a due go-live has one of
  them ahead of it. `ClearedIsGone` rests on `ClearHolds`: the clear every reader must respect is
  never above the clear time in Redis, though messages and clears are stamped before they are stored.
* Proofs of refinement map initial states to initial states and each step to a step or a
  stutter of the abstract module.

Only model-checked: liveness (`DeadlineServed`, `RingingEnds`, `LocksFreed`, `MinutesBilled`,
`UnpaidCallEnds`, `EveryBillRuns`, `MarkersAgree`, `GoneEnds`, `MuteEnds`, `KeysAgreeInTheEnd`,
`PresentIsCounted`), which is out of the prover's reach. Every safety property of a passing run is
a theorem.

## 7. Not modelled

* Agency tiers (`services/agencyTierRecompute.service.js`): nothing in the repository calls it;
  commissions are credited by `ol-node-rest`.
* Rankings, profiles, listings, the month of the statistics: reads of the database, without state.
* HLS egress: thin calls to LiveKit. LiveKit events, network notices and call-rate counters: they
  feed no decision of the modelled parts.
* Signatures of tokens, rotated secrets and rejoin tokens: checks of one value.
* The censoring of texts, invitations and broadcasts of a room: no state that outlives a call.
* Camera accounting and the summary of a stream; platform shares of gifts.
* Modes that are off by default: `CALL_BILL_TO_LAST_HB=enforce`, the monitor's enforce modes.
* Express plumbing, validation, configuration and logging.
