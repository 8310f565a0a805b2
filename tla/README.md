# Arena60 game server in TLA+

Specifications, model-checking runs and proofs for the duel server under
`src/server`: a real-time WebSocket game server with a 60 Hz loop,
projectile combat, a matchmaker, match statistics and an HTTP endpoint for
metrics and profiles. Paths below are relative to `src/server/` unless they start
with `src/docs` or `src/dev-history`.

## The system

Two threads run the program. `main()` runs the `io_context`: every network handler,
timer and posted function is a handler of that one thread and runs to its end before
the next. `GameLoop` owns the other thread, whose callback only posts a broadcast to
the `io_context`. The tests, and classes with mutexes of their own (`GameLoop`,
`Matchmaker`, `MatchNotificationChannel`), also allow for calls from other threads.

| part | state it keeps | operations | talks to |
|---|---|---|---|
| `WebSocketServer` (`src/network/websocket_server.cpp`) | `clients_` (player id to weak session), `connection_count_`, `running_` | DoAccept, RegisterClient, UnregisterClient, BroadcastState, Stop | calls GameSession, sessions, lifecycle handlers, match callback |
| `ClientSession` (same file) | `player_id_`, `closed_`, read buffer, `write_queue_`, `writing_` | Start, ReadLoop/OnRead, EnqueueState/Death, DoWrite/OnWrite, Stop | calls the server's register/unregister and GameSession::ApplyInput |
| `GameLoop` (`src/core/game_loop.cpp`) | `running_`, `stop_requested_`, thread, tick counter, durations | Start, Stop, Join, Run | its callback posts BroadcastState |
| `GameSession` (`src/game/`) | players with health, sequence number, cooldown and counters; projectiles; pending deaths; elapsed time | UpsertPlayer, RemovePlayer, ApplyInput, Tick, ConsumeDeathEvents | called by server and sessions |
| `Matchmaker` (`src/matchmaking/`) | the queue (buckets by rating and an index), order and match counters, notifications | Enqueue, Cancel, RunMatching; Publish, Poll, Drain | called by the lifecycle handlers and a 200 ms timer in `main` |
| statistics and profiles (`src/stats/`) | aggregates, ratings, a leaderboard in two indices | Collect, RecordMatch, TopN | called by BroadcastState and the HTTP router |
| `PostgresStorage` (`src/storage/`) | one connection | RecordSessionEvent | called by the lifecycle handlers |
| HTTP (`src/network/metrics_http_server.cpp`, `profile_http_router.cpp`) | acceptor | one request per connection | reads all metrics and profiles |
| `GameConfig` | none | FromEnv | |

### What is hard here

* **Connection lifecycle.** A session ends by a read error, a write error, a failed
  handshake, a takeover of its player id by a newer connection, or the shutdown, often
  by several of them one after the other; each path goes through `Stop` and
  `UnregisterClient`, whose effects land in four places (registry, game session, match
  queue, session events). Read handlers that were queued before the stop run after it.
* **Outgoing messages** pass three handlers (posted function, `DoWrite`, `OnWrite`)
  that hand over through `writing_`; a buffer has to outlive the operation it was given to.
* **The loop thread** races `Stop` at every statement, must not lose its notification,
  and paces itself by absolute deadlines that are reset after an overrun.
* **The io thread blocks.** A joining or leaving client costs a blocking INSERT and a
  blocking close, neither with a timeout. Meanwhile the loop goes on and its broadcasts
  pile up; the signal handler makes the same calls before it stops the loop.
* **Combat**: several projectiles meet one player in a tick, shooters leave while
  their projectiles fly, players come back under the same id. A projectile is tested only
  where a tick leaves it, and ticks differ in length.
* **Pairing**: a loop with an early exit over a copy of the queue, tolerances that
  grow with the wait and that both sides must meet, results published after the unlock.

Every such point is in the `hazards` of PROJECT.json with its line, and with the
properties that would catch it or the reason why none does yet.

## Modules

| module | models | abstracts |
|---|---|---|
| `WebSocketServer` | sessions' read side, registry, lifecycle handlers, timer, signal handler, the calls that block the thread | frames to a player id and a sequence number; the match queue to order tickets (all ratings are equal in `main`); the write side to who holds the session; the calls one handler makes to one wait; combat |
| `FifoChannel` | what a connection promises its server (abstract) | |
| `ClientWriter` | one session's write side; implements `FifoChannel` | messages to their numbers |
| `GameLoop` | loop thread and its controller, statement by statement | time to an integer clock, the callback to a duration |
| `ArenaServer` | the program of `main`: extends `GameLoop` with the io thread, posted broadcasts, blocking calls, the state of storage, start-up and shutdown | a handler to the calls it makes that block; clients to their number |
| `GameSession` | membership, fire rate, ticks, hits, deaths | geometry to an arbitrary contact of projectiles and players |
| `Flight` | extends `GameSession` with positions, movement and the way of projectiles; implements it | metres to integers; the eight directions of movement and the angle of aim to sets of vectors |
| `Matchmaker` | Enqueue, Cancel, RunMatching, notifications (abstract) | the queue to a set of requests in a total order |
| `MatchQueue` | `InMemoryMatchQueue` as operators on its buckets and index | list iterators to the order of the entry; a sorted copy to the one sequence that is in order |
| `BucketMatchmaker` | the same handlers over `MatchQueue`, with the loops of RunMatching as they are written; implements `Matchmaker` | |
| `MatchStats` | from a death to a match result, the profiles, the ratings and the leaderboard | combat to hits that take one unit of health; shots and hits landed are left out |
| `ProfileHttp` | extends `MatchStats` with what the HTTP router answers | a request to method, kind of target, id and number; text and JSON |

`MC...` modules add symmetry sets for TLC; `...Proofs` modules hold the theorems.
`WebSocketServer` contains the membership of `GameSession` and the equal-rating case of
`Matchmaker` directly, since it is their joint behaviour under its handlers that matters
there; the two modules then cover what it leaves out. `MatchStats` starts from the hits and
deaths of `GameSession`, which it repeats only as far as results depend on them. `GameSession`
relies on one fact of `WebSocketServer`, `NoGhosts`: a player is upserted only when absent. An
operator whose comment begins with `Mutant:` is not part of a model. It is the definition
after it with one plausible mistake; substituting it must break a property, which shows that
the property depends on the code.

### How actions correspond to the code

*WebSocketServer.* A handler of the `io_context` is one action, with everything it
calls: `OnRead` includes RegisterClient, which includes the Stop of a previous owner,
which includes UnregisterClient, RemovePlayer and on_leave. The calls are operators on
one record `reg`, composed as the calls are nested. `phase[s]` is where the read side of
session `s` is; "read" and "failed" mean that the completion handler is queued, which
lets any other handler go first. `HandshakeFailed`, `ReadFails`, `OnWriteError` are the
network's choice. `sending` are the sessions that a posted message or an outstanding write
holds. A `weak_ptr` is expired once the phase is "done" and nothing is being sent (`Held`): no
handler owns the session any more. `blocked` is set by every step that makes the io thread call
the blocking close or the INSERT; until `CallReturns` no other handler runs and no socket is
polled, while the loop thread goes on (`BroadcastState`). The pairing of RunMatching is the
loop of the code for equal ratings: the two oldest leave, as long as there are two.

*ClientWriter.* `Broadcast` posts (EnqueueState, EnqueueDeath), `RunPosted` is a posted
DoEnqueue with QueueMessage, `OnWrite` and `OnWriteError` are the two outcomes of the
completion handler, `Transmit` is the network. `DoWrite` chooses whether the socket takes the bytes
at once (`intact`) or later, after the local string it was given is gone.

*GameLoop.* One action from each access to shared state or to the clock to the next:
the test of `stop_requested_`, reading `frame_start`, entering and leaving the callback
with `mutex_` held, advancing, the reset after an overrun, entering the wait, waking.
`Stop` is two steps, since `notify_all` comes after the unlock.

*ArenaServer.* The loop thread is that of `GameLoop`, whose callback is here `Post`; the
controller of `GameLoop` is the main thread. `io` is where main is, and `calls` the blocking
calls the running handler still has before it. `ClientJoins` (the second disjunct is a
takeover), `ClientLeaves` (the second disjunct is a session that never named a player) and
`Signal` start a handler; `CallReturns` and `InsertFails` go on
with it; nothing else runs on that thread until `calls` is empty. `storage` is "none" after a
failed `Connect` and may become "broken" when an INSERT returns; both make every later INSERT
fail at once. The signal handler is `Signal`, its calls, `StopLoop` and `StopReturns`, which
stops the io_context; main then calls `loop.Stop` again (`StopLoop`/`StopReturns`, or
`NothingToStop` when the thread has ended) and joins. `tasks` holds the `TickInfo` of posted
broadcasts.

*GameSession.* Every method holds `mutex_` throughout and is one action. `Tick` takes a
function `contact` from the projectiles that have not expired to the player each touches.
`Touches` says which contacts the loop over projectiles can produce: in the order of the
projectiles, a player who died by an earlier hit of the tick is not touched any more.

*Flight.* Each action is that of `GameSession` with the choice it leaves open made by the
places. `Act` moves a living player by one of `Move` and then may fire, `TickInFlight` first
advances every projectile that has not expired (`Arrives`) and then admits just the contacts
of `Sweep`: a projectile hits one of the living players it touches other than its owner, if
there is any. `Touching` is the test of the code, the square first and then the circle, at the
end of the step. `dir` is not divided by its length; instead all directions have one length
and the lengths along them count in multiples of it. Which one is left open, as it is in the code (`players_` is an unordered map).

*Matchmaker.* RunMatching is `CallRunMatching` (the caller reads the clock), `BeginMatching`,
one `PairNext` for each candidate, `EndMatching`, and a `Publish` for each match. Enqueue and
Cancel wait for the mutex; Poll and Drain do not. In `Matchmaker` a step of the pairing takes
the first candidate left and any first acceptable partner from the set; `BucketMatchmaker`
copies the queue by `FetchOrdered`, goes through the copy by position with `used`, and ends
the search where the code's `break`s are (`StopsSearch`). The refinement maps `queue` to all
requests in the buckets and `left` to the rest of the copy.

*MatchStats.* A handler of the io thread (tick, results, recording) is several actions: a
`Hit` for each hit of the tick, `EndTick` for ConsumeDeathEvents and the results that
`Collect` makes of the state after the tick, and a `RecordMatch` for each result. `Quiet`
keeps joins and leaves out of the handler. `Update` is the ELO formula for K = 25: since it
depends on the difference of the ratings alone, it is given by the thresholds `PointsUpTo` at
which the rounded gain changes, which were computed from the formula of
`src/stats/player_profile_service.cpp:10-21`; equal ratings are the one case where rounding
meets a half. `Place` is `Upsert` with both indices of the leaderboard, a bucket that becomes
empty included.

*ProfileHttp.* The router runs on the io thread and changes nothing, so it has no actions: `Handle`
is a function of the request and of the state between two handlers, which is where the
property about it is evaluated. `TopN` is the head of `Ranking`, which puts `Entries`, what the
sets of `ordered_` hold, in the order of the map and in it of the set. `ParseLimit` follows the
code, in which a number that does not fit `unsigned long` counts as unreadable and gives the
default, while one that fits is cut to the maximum.

## Runs

| run | what it asks | bounds |
|---|---|---|
| `server` | registry, game session, match queue, gauge and events agree; sequence numbers | 3 sessions, 2 players, sequence numbers 0..1 |
| `server_live` | two players do not wait forever and ended sessions are freed, if blocking calls return | 3 sessions, 2 players, sequence number 0 |
| `writer` | one write at a time, FIFO, refinement of `FifoChannel` with its liveness | 5 messages, broadcasts of up to 3 |
| `writer_intact` | *violated*: messages arrive as queued | 2 messages |
| `game_loop` | pacing; at most one tick after Stop; Stop wakes and ends the thread; each tick is played once and game time is loop time; the shutdown ends | `ArenaServer`: period 2, clock to 6, 2 clients |
| `game_loop_stop` | *violated*: no tick after Stop | period 2, clock to 4 |
| `combat` | hits and deaths accounted for; fire rate; the dead; way and age of a projectile; places decide contacts | `Flight`: 3 players on 2 places, 2 directions, lengths of the code in units of 5 mm, 2 hits to a death, 3 shots, time to 3, ticks of 0 to 2, cooldown 2, lifetime 3 |
| `stats` | one duel for each death; the leaderboard is the ranking; rating points; pages of the router | `ProfileHttp`: 3 players, 1 hit to a death, a log of 4, 4 hits, pages of 2, a default of 1, limits from none to one too large to read (4 is the largest that is not), every order of the ids |
| `stats_kills` | *violated*: profiles keep cumulative totals of kills | 2 players, 2 hits to a death, the log of 32, 4 hits |
| `matchmaker` | mutual, exclusive, maximal pairing; equals in order | 4 players, ratings 0 and 2, regions any/eu/us, 4 requests, clock 0, 1 and 3, a step of the tolerance every 2 |
| `matchmaker_starvation` | buckets and index agree; refinement of `Matchmaker` with its liveness; no compatible pair waits forever | `BucketMatchmaker`: 3 players, ratings 0, 2 and 3, one region, 3 requests, clock 0 to 2 |
| `matchmaker_oldest` | *violated*: oldest compatible players first | as `matchmaker`, clock 0 and 1, a step every 1 |

Why the bounds are enough. Every hazard of the lifecycle is between a session, the one that
takes over its id, and a third party: three sessions give a takeover of a takeover, or a
takeover beside an independent player; two ids suffice for them, and make a pair that waits for
a match; two sequence numbers give older, equal and newer. `server_live`
names one player after what a certain session claims (`AnythingUpToNames`), as TLC cannot use
symmetry in a liveness check, and leaves out sequence numbers, on which neither property depends. Five
messages cover a queue of several while one is in flight and one is posted. Six units of clock
with a period of two give an overrun, a recovery, a Stop at every point, and three ticks
posted behind one blocking call; two clients give a takeover, a shutdown with several calls,
and a connection that breaks in the middle of them. With two hits to a death and three shots,
a player dies of two hits in one tick, and three projectiles end in one. That two players kill
each other in one tick would need a fourth shot: for that `EachDeathCountsOnce` rests on its
proof, and the ticks of `stats` have it. The lengths are those of the
code: a tick of length 1 stands for the nominal 1/60 s, in which a projectile flies 0.5 m, and
one of length 2 for an overrun; the reach is 0.7 m and the start 0.3 m before the shooter. Of the
two directions one leads from There through the middle of the Origin and one from the
Origin past There so that the chord is shorter than a step: in the run a projectile hits, grazes
past a player in a nominal tick, flies past one in a late tick, and misses one on the same spot.
A move leads from the Origin to There and stands for a run of inputs. Only the times are
shortened: cooldown and lifetime are 2 and 3 ticks instead of 6 and 90, so that ticks end before,
at and after both. `MaxSeq` is 0 in `combat`: a dropped
input changes nothing, and sequence numbers are the subject of `server`. The ratings 0 and 2
with a base tolerance of 1 and a step of 1 give pairs that are acceptable at once, to one side
only, and only later, and four players give two matches in one run. Requests come at 0 or 1 and
runs at 0, 1 and 3, so a request has waited for 0, 1, 2 or 3 where the tolerance grows after 2:
below, at and above the step. For the buckets three
players suffice: two of one rating share a bucket, a request is replaced within a bucket or
moved to another, and the ratings 2 and 3 are acceptable to each other at once, 0 only later;
a search passes over a used request. Four hits are four deaths, so that one tick has up to
three results, ratings of a first, second and third match meet, and a log of four events (a
death takes one more than its hit) has dropped the first of them; a player leaves and others
are still in the log. A page of two cuts a ranking of three, also between equals,
and the limits 3 and 4 are beyond the page, so the upper clamp counts; 0, none, and 5, which is
too large to read, give one row. The starvation run has one region: with more it does not end in
minutes, and that pairs must agree on one is exercised in `matchmaker`. `MaxSeq`,
`MaxMessages`, `MaxTime`, `MaxShots`, `MaxOrder`, `MaxArrival`, `MaxHits`, `MaxDelta`,
`MaxClients`, `Times` and `Places` are the only limits that the code does not have.

Deadlock is not checked, as every system here really may stop: after a shutdown, a
closed connection, a finished loop, or at the bound of the clock.

### Fairness

`WebSocketServer!FairSpec`: while the io thread is free, asio runs a queued handler (`OnRead`,
`OnReadError`), the pending read and write of a closed stream end, and the timer, which re-arms
itself, fires. Peers need not send, the broadcast need not run, and nobody has to sign off. But
the thread is free only when no handler waits in the blocking close
(`src/network/websocket_server.cpp:41`) or in the INSERT (`src/storage/postgres_storage.cpp:48`),
neither of which has a timeout: one peer that does not answer the close, or a database that
hangs, stops the timer and every session. So `NoPairKeepsWaiting` and
`EndedSessionsAreReleased` have as a hypothesis that each such call returns (`CallsReturn`);
without it both are false. `ClientWriter!FairSpec`: posted
functions and completion handlers run, and a write that was started completes or fails (the
stream has the idle timeout of `timeout::suggested`). `ArenaServer!FairArenaSpec`: the loop
thread goes on while it can, and so does main through the steps that do not block; clients
need not come and the signal need not arrive, and the clock may stand still, so what it shows
of Stop does not rest on the timeout. `ShutdownCompletes` has the same hypothesis, that every blocking call returns; while one does
not, the shutdown hangs, and a second signal does not help, since the `async_wait` for it was used
up by the first.
`Matchmaker!FairSpec` (and `BucketMatchmaker!FairSpec`): the clock advances and the timer goes
on calling RunMatching; nobody has to poll. That is the hypothesis of the matchmaker taken by
itself; what it takes of the program is said above.

## What the violations show

1. `game_loop_stop`: `Run` tests `stop_requested_` and takes the mutex again for the callback
   without testing again (`src/core/game_loop.cpp:93-108`). A tick may begin after `Stop`
   returned, contrary to the test `StopPreventsAdditionalTicks`
   (`tests/unit/test_game_loop.cpp:49`), which is not reliable. `AtMostOneTickAfterStop` is
   what does hold.
2. `stats_kills`: `Collect` counts every death in the combat log, whichever duel it ended
   (`src/stats/match_stats.cpp:78-95`), and `RecordMatch` adds the counts to the profile.
   After two players killed each other in one tick both have two kills and one win; each later
   result adds earlier kills again. The specification wants cumulative totals
   (`src/docs/mvp-specs/mvp-1.3.md:27`). The same holds of deaths and damage.
3. `writer_intact`: `DoWrite` gives `async_write` a buffer over a local string
   (`src/network/websocket_server.cpp:94-105`), which must live until the handler is called.
   While the socket takes the bytes at once nothing is seen. The reference that documents what
   a message is: `src/dev-history/PROTOCOL.md:11`.
4. `matchmaker_oldest`: candidates are paired in the order of rating, not of arrival
   (`src/matchmaking/matchmaker.cpp:49-76`); the specification says oldest first
   (`src/docs/mvp-specs/mvp-1.2.md:30`).

No run shows it, but it can be read off `GameLoop`: `next_frame` is a period ahead of
`previous` before the first tick and is advanced again after it, so tick 1 comes two periods
after tick 0 (`src/core/game_loop.cpp:88-128`). `NeverAheadOfTime` bounds the ticks from one
side for this reason.

More disagreements with the documents, read off the code; the models follow the code:

* A player who leaves and joins again may fire at once (`src/game/game_session.cpp:41`), while the
  fire rate is to be limited to 10 shots a second per player (`src/docs/mvp-specs/mvp-1.1.md:21`).
  `FireRateLimited` is therefore stated for one stay.
* A projectile ends at an age of exactly 1.5 s (`src/game/projectile.cpp:41`, `>=`), the document
  says beyond it (`src/docs/mvp-specs/mvp-1.1.md:25`).
* The tolerance grows at exactly 5.0 s (`src/matchmaking/match_request.cpp:27`), the document
  keeps +-100 up to and including 5 s (`src/docs/mvp-specs/mvp-1.2.md:28`, while `:29` has the
  next range begin at 5). `MatchesAreMutual` takes a whole step, reached exactly, as enough.
* A `limit` beyond `unsigned long` gives a page of 10
  (`src/network/profile_http_router.cpp:158-159`), while limits are to be clamped to 1-50
  (`src/docs/mvp-specs/mvp-1.3.md:41`). `Asked` has it as the code does.

Other things that were noticed, on which no document says otherwise:

* A frame whose handler was queued when its session was superseded is still applied, to the
  newcomer's player (`src/network/websocket_server.cpp:144-164`). If it carries a high
  sequence number, the newcomer's own inputs are dropped until they pass it. The step is in
  `WebSocketServer`; no property forbids it.
* A projectile flies past a living player in a nominal tick if it grazes him, on a chord
  shorter than the 0.5 m of the step, and past more when the tick was late
  (`src/game/projectile.cpp:33-34`, `src/game/game_session.cpp:219-228`).
  `ContactDecides` says exactly when.
* A projectile starts 0.3 m before the shooter and moves 0.5 m in a tick before it is first
  tested, so it is beyond the reach of 0.7 m of a player on the same spot, where everyone
  starts (`src/game/game_session.cpp:183-184`, `src/game/projectile.cpp:33`): players who have not
  moved cannot hit each other.
* Each input moves a player by the way of one nominal tick, however many inputs come in how
  much time (`src/game/game_session.cpp:93`); inputs of an equal sequence number are applied
  again (`:64`).
* At the end of `main` the `io_context` is destroyed before `loop`, whose callback owns the
  server and its acceptor (`src/main.cpp:30-43`).

## Proofs

Every safety property of the passing runs, invariant or about a step, is proved. Each
`...Proofs` module proves those of its component for every value of the
constants, along the same lines: an inductive invariant `IInv`, the lemma that `Init` implies it,
one lemma that every step keeps it (one case for each action, and under it one step for each
conjunct the action can disturb), the theorem `Spec => []IInv`, and from it each invariant of
the runs. A module that refines another (`ArenaServer`, `Flight`) is first shown to implement it, step
by step; the invariants of the abstract module then hold in it and are not proved twice. A theorem
about an action property assumes the invariant before the step and states what the step does.

Two obstacles came up more than once. The induction rules of the library take an operator
as a parameter, and no prover instantiates them; where a fact needs induction over the size of
a set (a set can be ordered, a table of sums exists, a rank is reached), the proof takes a
smallest counterexample instead, which `LeastNat` gives. And an operator defined
by an opaque or recursive library definition (`SelectSeq`, `SortSeq`, `FlattenSeq`) has no
meaning to the provers; the modules say "the sequence over this set that is in order" instead,
which is one sequence since the order is total.

**WebSocketServerProofs** (`TypeOK`, `RegistryIsExact`, `NoGhosts`, `GaugeCountsClients`,
`SessionEventsBalance`, and the action property `SequenceNeverGoesBack`). The calls are operators on the record `reg`, so the
argument is about them first: `Sound(r)` says that registry, players, tickets and the two
counters of events agree, `Counted(r)` that the gauge is right, and `StopSession`,
`RegisterClient`, `ApplyInput` and `StopServer` are each shown to keep them. `NoGhosts` is not inductive:
it needs that an entry of `clients_` names an open session that named itself, and
that needs `SessionsInOrder`, where each session is between its accept and its end (in
particular, a session is closed before it is freed, so no entry ever expires). `Counted` is
claimed while the server runs; `Stop` clears the registry before the sessions, so nothing
lowers the gauge.
`SequenceNeverGoesBack` rests on `Kept(r, t)`, what a step leaves of each connected player: the
sequence number not lowered, and but for RunMatching the ticket held; it is shown of each call on
`reg`, as `Sound` is. `Tickets` says that waiting players hold distinct tickets, all given out
already, which is why the oldest is one player.
`TakeoversStartAfresh` is about the one step in which a player gets a new owner: it is the first
frame of that session, whose sequence number counts whatever the former connection sent, and
the player is behind everybody in the queue. So `UpsertPlayer` meets only absent players, which
is what `GameSession` expects of the server.
Assumed: finite sets of sessions and players, values for "none" outside them, and that clients
send frames; which of them each client may send is left open.

**ClientWriterProofs** (`TypeOK`, `OneWriteAtATime`, `NothingLostOrReordered`, and that
every step of the writer is one of `FifoChannel` or leaves it unchanged). `OneWriter` ties
`writing_` to the queue and to the operation under way; `Ordered` gives each
message its place by number: what is delivered, then the queue, whose head may be delivered
already, then what is posted. Neither holds by itself: that `OnWrite` pops the message that was sent is
`Ordered`, and that there is a message to pop is `OneWriter`.
Assumed: `MaxBatch` is positive.

**ArenaServerProofs**, first about the loop (`TypeOK`, `NoCatchUpBurst`, `NeverAheadOfTime`,
`AtMostOneTickAfterStop`, `StopIsNotSleptThrough`). `NoCatchUpBurst` says that three ticks never begin within a period.
It rests on what `next_frame` is relative to the last frame starts, which differs before, in
and after the callback: `Released`, `InFrame` and `AfterFrame`. `Stopping` relates
`stop_requested_`, the controller and the number of ticks begun since. `NeverAheadOfTime` has
an invariant of its own, `Pace`: a lower bound on `next_frame` by the number of ticks begun,
which a reset after an overrun only raises.
Assumed: a positive period.

Then about the program around it (`ArenaTypeOK`, `EveryTickIsPlayedOnce`, `GameTimeIsLoopTime`,
and that it implements `GameLoop`). Main's steps are those of the controller of `GameLoop` or
leave the loop alone, so pacing and Stop need no new argument. The broadcasts posted are a
sequence whose ticks are consecutive and whose deltas join the frame starts: `Post` adds one
at the end that starts at the last frame, `Broadcast` takes the first and moves the session's
clock by it. That no delta is negative is the order of the last three frame starts, which
comes from the loop's invariant.
Assumed: what `GameLoop` assumes, and that `MaxClients` is a number.

**GameSessionProofs** (`TypeOK`, the state invariants of combat, and the action properties
`EachDeathCountsOnce` and `TheDeadStayDead`). Besides what the run checks it proves
`ProjectilesHaveOwners`, `DeathIsAnnouncedOnce` and `EveryDeathIsDeliveredOnce`, which the
others rest on. A player who leaves and comes back has new counters, so that hits never exceed
shots needs `AbsentAreNew`, and that every projectile has its owner: the projectiles of a
player who leaves go with him. `IdsAreUnique` makes hits and deaths countable by projectile,
and `FireRateLimited` speaks of all shots of a stay, also those whose projectile is gone, so it
is about the history `fired`: `LastFireIsLatest` says that the runtime's last shot is the latest
of them, and `RateKept` that a step which fires nothing, or begins a new stay, keeps the rate.
Assumed: finitely many players; health, damage, cooldown and lifetime positive.

**FlightProofs** (`FlightTypeOK`, `WayIsAge`, `ContactDecides`, and that `Flight`
implements `GameSession`, whose theorems thus hold with the geometry). `Sweep` admits only
contacts that `Touches` admits, so each tick in space is one of the session.
`ContactDecides` is about a tick of any length: whoever is hit was within reach of where the
projectile arrived (`HitInReach`), a projectile that hit nobody has no living player of the
others in reach there (`FliesOnOutOfReach`), and if it crossed a player's circle and hit nobody,
then its step was longer than the chord (`PassedOnLongStep`: where the projectile starts and
where it arrives are both outside the circle, the foot of the perpendicular between them; the
squares compare by Lagrange's identity). `TouchingIsReach` shows that the square `Touching` looks
at first leaves out nobody inside the circle.
Assumed: what `GameSession` assumes; directions are points other than the origin and all of one
length; moves and places are points; the offset, the speed and the reach are natural numbers.

**MatchmakerProofs** (all state invariants of the `matchmaker` run, among them that notifications are
in order and the gauge of the queue is right). A run of the loop takes a copy of the queue and
goes through it while Poll and Drain go on. `PassedHaveNoPartner`: whoever the loop has come
past without a match accepts nobody who still waits. Its step is the argument for the early
exit: the loop breaks at the first partner whose rating is beyond the candidate's own
tolerance, and all that follow are further away. That `FetchOrdered` has a first element at
all is a lemma: orders are unique, and ratings are bounded below. `MatchedOnce` keeps the
orders of the history apart from those of the queue, and `GoodHistory` says what is true of
each match on its way from `matches` through the channel to who polls.
`FirstComeFirstServed` is about the use `main` makes of it, where all ratings and regions are
equal: then a run pairs neighbours in the order of arrival and leaves one player at most. This
is what the loop of `MatchedNow` in `WebSocketServer` takes for granted. `EqualsAreServedInOrder`
is the part of it that holds for any ratings and over any number of runs: of two requests of one
rating and region the later is never matched while the earlier waits (`PairIsEarliest`: the copy
has the earlier one first, and whoever accepts the later accepts the earlier, whose tolerance is
no smaller; `EqualsKeepOrder` for all other steps). So the order of `matchmaker_oldest` goes
wrong only between different ratings.
Assumed: ratings are integers with a least one (they are of type `int`), and the step of the
tolerance is at least a second.

**BucketMatchmakerProofs** (`BucketsAndIndexAgree`, and that every behaviour of
`BucketMatchmaker` is one of `Matchmaker`, the safety part of `IsMatchmaker`). `QueueOK` is what
an operation on the queue may rely on; `RemoveKeeps` and `UpsertKeeps` show that it is kept and
that the set of requests changes as the abstract queue does. `FetchedInOrder`: the copy has each
request once, in the order of the queue; that there is such a copy is `SortedExists`. The heart is the loop:
`LoopOK` says that those who wait are those of the copy who are not in `used`, and
`SamePartner` that the search with its `break`s ends at the same request as the choice from the
set, the first acceptable one with none before it beyond the candidate's tolerance.
Ratings do not fall along the copy, so a candidate's distance does not either, and what
lies behind an early exit is not acceptable. The theorems of MatchmakerProofs carry over along
the refinement, for ratings with a least one; they are not stated again, as a theorem cannot be
cited through an instance with a substitution.
Assumed: ratings are integers, tolerances and bounds numbers, the step of the tolerance at
least a second.

**MatchStatsProofs** (`TypeOK`, `LeaderboardIsRanking`, `EveryDeathIsOneDuel`, `PagesAreRankings`,
and the action property `RatingsAreConserved`). `PlaceAgrees` is about the
leaderboard alone: if the scores and the sets by score say the same and no set is empty, then
so after `Upsert`, and only the player's own place changed. `RecordMatch` places two players,
one after the other, by the ratings it stores; `DuelsAreListed` (a result lists the totals of
both players of its duel) is what makes both profiles exist when it does.
The sums over profiles have a theory of their own, from `TotalExists` (a table of the sums over
all subsets, however the summands are taken) to `TotalOfDuel` (two changed summands change the
sum by both changes); `RecordMatchColumns` applies it to a column of the profiles, in which a
newcomer first counts with what a new profile has. `DuelsOnTheirWay` adds that no duel is with
oneself: with it the winner's points and the loser's are two summands. What a match does to the
sum of the ratings is `UpdateMovesPoints`: nothing between unequal players, and between equals
one point more above 12, none from -12 to 12, one less at -13 or below. That points are never
lost was the first statement of `RatingsAreConserved`; it is false for such ratings, which
take dozens of lost matches to reach, far beyond the bounds of a run, and the proof found it.
`PagesAreRankings` follows from the number of rows asked for (`LimitOfPage`: what `ParseLimit` makes
of a query is `Asked`, for every number in it) and from the ranking of the leaderboard: `Entries` has one entry of
each player who has won or lost (`EntriesOfListed`), `Ranking` lists them in order
(`RankingRanks`), and the head of it, which is ranked again without those that have no
profile, is itself (`HeadOfRanking`), since there are none.
Assumed: finitely many players, positive health and capacity of the log; a page has at
least one row, and its size and the default fit the largest number read.

### Only model-checked

Only liveness, which is out of the prover's reach: `NoPairKeepsWaiting`,
`EndedSessionsAreReleased`, `StopEndsTheThread`, `ShutdownCompletes`,
`NoCompatiblePairStarves`, and the liveness parts of `IsFifoChannel` and `IsMatchmaker`.

## Not modelled

* Of the statistics: shots, hits landed and accuracy, which are summed like deaths; `Erase`,
  which nothing calls; `RedisLeaderboardStore` and `RedisMatchQueue`, which log and delegate.
* Of `PostgresStorage`: the connection string and the metrics. That events are dropped while
  it has no connection is in the model (`InsertFails`); the code promises nothing about them.
* `MetricsHttpServer`: a connection is read once, answered and closed; nothing outlives it.
  The text of `/metrics` other than the profile counters, the parsing of targets and JSON.
* `GameConfig`: strings and defaults, read once.
* The counters of collisions, the wait histogram and the average rating,
  durations and frame-time percentiles: no property is about them, and nothing is decided by
  them.
* A second thread running the `io_context`, and `Start` of a loop that was not joined: the
  code under `main` does neither. Accept errors: the handler returns without accepting again,
  and the clients that are there are served as before. The destruction of the objects after
  `main`'s last statement.
* Outside `src/server`, modelled by how it is used: Boost.Beast (a closed stream completes no
  further read with a frame; a write's handler is called once), asio (handlers run one at a
  time), `std::condition_variable` (a notification without a waiter is forgotten),
  `steady_clock` (does not go back).

## Plan

In the order of their importance; done are 1 to 10.

1. `WebSocketServer`: the lifecycle, with proofs.
2. `FifoChannel`, `ClientWriter`: outgoing messages, with refinement and proofs.
3. `GameLoop`: pacing and Stop, with proofs.
4. `GameSession`: combat, with proofs.
5. `Matchmaker`: pairing, with proofs.
6. `MatchStats`: results, profiles, ratings and the leaderboard, with proofs.
7. `MatchQueue`, `BucketMatchmaker`: buckets and index as in `InMemoryMatchQueue`, refining
   `Matchmaker`, with proofs.
8. `ArenaServer`: the two threads together, piled-up broadcasts, blocking calls, lost storage
   and the shutdown of `main`, with proofs.
9. `Flight`: positions in the plane and ticks of every length, refining `GameSession`, with
   proofs.
10. `ProfileHttp`: what the router answers, with proofs.
11. Accept errors in `WebSocketServer`, with what then still holds; the order of destruction
    after `main`.
