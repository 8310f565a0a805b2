-------------------------- MODULE BucketMatchmaker ---------------------------
(***************************************************************************)
(* Matchmaker over the queue as it is kept, with the loop of RunMatching   *)
(* as it is written: `ordered' is a copy of the queue, `used' says who of  *)
(* it has been paired, and the search for a partner ends at the first      *)
(* request that is acceptable or too far away.  It implements the module   *)
(* Matchmaker, where the queue is a set of requests.                       *)
(***************************************************************************)
EXTENDS Integers, Sequences, FiniteSets

CONSTANTS
    Player, Elo, Region, AnyRegion, BaseTolerance, ToleranceStep, StepSeconds,
    MaxOrder, MaxArrival, Times  \* as in Matchmaker

ASSUME BucketMatchmakerAssumption ==
    /\ Elo \subseteq Int
    /\ BaseTolerance \in Nat /\ ToleranceStep \in Nat /\ StepSeconds \in Nat \ {0}
    /\ MaxOrder \in Nat /\ MaxArrival \in Nat /\ Times \subseteq Nat

VARIABLES
    clock,     \* steady_clock::now()
    waiting,   \* queue_
    orders,    \* order_counter_
    lastSize,  \* last_queue_size_
    matcher,   \* where RunMatching is
    now,       \* its argument
    ordered,   \* the copy of the queue it goes through
    next,      \* the position its outer loop comes to
    used,      \* the players it has paired
    created,   \* match_counter_
    matches,   \* made by this run and not yet published
    channel,   \* notifications_.queue_
    taken      \* every match that Poll or Drain has returned

locals == <<now, ordered, next, used>>
vars   == <<clock, waiting, orders, lastSize, matcher, locals, created, matches,
            channel, taken>>

Q == INSTANCE MatchQueue

(* What is left of `ordered' for the outer loop.                           *)
Rest == {ordered[i] : i \in {k \in DOMAIN ordered : k >= next}}

Abs == INSTANCE Matchmaker WITH queue <- Q!Requests(waiting), left <- Rest

Init ==
    /\ clock = 0
    /\ waiting = Q!Empty
    /\ orders = 0
    /\ lastSize = 0
    /\ matcher = "idle"
    /\ now = 0 /\ ordered = <<>> /\ next = 1 /\ used = {}
    /\ created = 0
    /\ matches = <<>> /\ channel = <<>> /\ taken = <<>>

MutexFree == matcher # "matching"

Enqueue(p, elo, region) ==
    /\ MutexFree
    /\ orders < MaxOrder /\ clock <= MaxArrival
    /\ orders' = orders + 1
    /\ waiting' = Q!Upsert(waiting, [player |-> p, elo |-> elo, region |-> region,
                                     at |-> clock, order |-> orders'])
    /\ lastSize' = Q!Size(waiting')
    /\ UNCHANGED <<clock, matcher, locals, created, matches, channel, taken>>

Cancel(p) ==
    /\ MutexFree
    /\ waiting' = Q!Remove(waiting, p)
    /\ lastSize' = Q!Size(waiting')
    /\ UNCHANGED <<clock, orders, matcher, locals, created, matches, channel, taken>>

CallRunMatching ==
    /\ matcher = "idle"
    /\ matcher' = "called"
    /\ now' = clock
    /\ UNCHANGED <<clock, waiting, orders, lastSize, ordered, next, used, created,
                   matches, channel, taken>>

BeginMatching ==
    /\ matcher = "called"
    /\ matcher' = "matching"
    /\ ordered' = Q!FetchOrdered(waiting)
    /\ next' = 1
    /\ used' = {}
    /\ UNCHANGED <<clock, waiting, orders, lastSize, now, created, matches, channel,
                   taken>>

(* Mutant: those who are paired already are not passed over.               *)
StopsSearchAtUsed(candidate, other) ==
    /\ Abs!RegionsCompatible(candidate, other)
    /\ \/ Abs!Acceptable(candidate, other, now)
       \/ other.elo - candidate.elo > Abs!CurrentTolerance(candidate, now)

(* The inner loop goes on over the used, those of another region and those *)
(* who will not accept yet; it ends at a partner or beyond the tolerance.  *)
StopsSearch(candidate, other) ==
    /\ other.player \notin used
    /\ Abs!RegionsCompatible(candidate, other)
    /\ \/ Abs!Acceptable(candidate, other, now)
       \/ other.elo - candidate.elo > Abs!CurrentTolerance(candidate, now)

Stops == {j \in next + 1 .. Len(ordered) : StopsSearch(ordered[next], ordered[j])}

(* Where the search from `next' ends, if anywhere.                         *)
FirstStop == CHOOSE j \in Stops : \A k \in Stops : j <= k

HasPartner ==
    /\ ordered[next].player \notin used
    /\ Stops # {}
    /\ Abs!Acceptable(ordered[next], ordered[FirstStop], now)

Pair(candidate, partner) ==
    /\ waiting' = Q!Remove(Q!Remove(waiting, candidate.player), partner.player)
    /\ used' = used \cup {candidate.player, partner.player}
    /\ created' = created + 1
    /\ matches' = Append(matches,
          [id |-> created', first |-> candidate, second |-> partner,
           createdAt |-> now, region |-> Abs!ResolveRegion(candidate, partner)])

(* One turn of the outer loop.                                             *)
PairNext ==
    /\ matcher = "matching"
    /\ next <= Len(ordered)
    /\ next' = next + 1
    /\ IF HasPartner
       THEN Pair(ordered[next], ordered[FirstStop])
       ELSE UNCHANGED <<waiting, used, created, matches>>
    /\ UNCHANGED <<clock, orders, lastSize, matcher, now, ordered, channel, taken>>

EndMatching ==
    /\ matcher = "matching"
    /\ next > Len(ordered)
    /\ matcher' = "publishing"
    /\ lastSize' = Q!Size(waiting)
    /\ ordered' = <<>> /\ next' = 1 /\ used' = {}
    /\ UNCHANGED <<clock, waiting, orders, now, created, matches, channel, taken>>

Publish ==
    /\ matcher = "publishing"
    /\ IF matches = <<>>
       THEN matcher' = "idle" /\ UNCHANGED <<matches, channel>>
       ELSE /\ channel' = Append(channel, Head(matches))
            /\ matches' = Tail(matches)
            /\ UNCHANGED matcher
    /\ UNCHANGED <<clock, waiting, orders, lastSize, locals, created, taken>>

Poll ==
    /\ channel # <<>>
    /\ taken' = Append(taken, Head(channel))
    /\ channel' = Tail(channel)
    /\ UNCHANGED <<clock, waiting, orders, lastSize, matcher, locals, created, matches>>

Drain ==
    /\ channel # <<>>
    /\ taken' = taken \o channel
    /\ channel' = <<>>
    /\ UNCHANGED <<clock, waiting, orders, lastSize, matcher, locals, created, matches>>

TimePasses ==
    /\ clock' \in {t \in Times : t > clock}
    /\ UNCHANGED <<waiting, orders, lastSize, matcher, locals, created, matches,
                   channel, taken>>

RunMatching ==
    CallRunMatching \/ BeginMatching \/ PairNext \/ EndMatching \/ Publish

Next ==
    \/ \E p \in Player, elo \in Elo, region \in Region : Enqueue(p, elo, region)
    \/ \E p \in Player : Cancel(p)
    \/ RunMatching
    \/ Poll \/ Drain
    \/ TimePasses

Spec == Init /\ [][Next]_vars

(* As in Matchmaker.                                                       *)
FairSpec == Spec /\ WF_vars(RunMatching) /\ WF_vars(TimePasses)

-----------------------------------------------------------------------------
(* However requests are replaced, cancelled and paired, the lists and the  *)
(* index say the same: each player has one entry, the index points at it   *)
(* (Remove erases what it points at), and no list is empty.                *)
BucketsAndIndexAgree == Q!Consistent(waiting)

(* With lists, index, copy and early exits, RunMatching does what is said  *)
(* of it over a set of requests: each candidate, in the order of rating    *)
(* and arrival, is paired with the first who is acceptable; and it ends.   *)
IsMatchmaker == Abs!FairSpec

(* Tolerances grow until they cover every difference: once players stop    *)
(* enqueueing again (which restarts their wait), no two of them that agree *)
(* on a region go on waiting.                                              *)
NoCompatiblePairStarves == Abs!NoCompatiblePairStarves
=============================================================================
