----------------------------- MODULE Matchmaker ------------------------------
(***************************************************************************)
(* The matchmaker: Enqueue, Cancel and the notification channel used from  *)
(* any thread, and one thread that calls RunMatching.  RunMatching holds   *)
(* mutex_ while it pairs and publishes after it has released it, so other  *)
(* threads act before the pairing, and between its end and each            *)
(* publication.  The pairing loop is one action for each candidate.        *)
(*                                                                         *)
(* InMemoryMatchQueue is the set of requests it holds: FetchOrdered sorts  *)
(* by rating and then by order, which is unique.  The wait histogram and   *)
(* the average rating of a match are left out.                             *)
(***************************************************************************)
EXTENDS Integers, FiniteSets, Sequences

CONSTANTS
    Player,
    Elo,            \* ratings that occur
    Region,         \* preferred regions that occur
    AnyRegion,      \* "any"
    BaseTolerance,  \* kBaseTolerance (100)
    ToleranceStep,  \* kToleranceStep (25)
    StepSeconds,    \* kStepSeconds (5)
    MaxOrder,       \* bound on order_counter_
    MaxArrival,     \* bound on the time of an Enqueue
    Times           \* instants the clock may show

\* A rating is an int, so there is a least one among those that occur.
ASSUME MatchmakerAssumption ==
    /\ Elo \subseteq Int /\ \E least \in Elo : \A e \in Elo : least <= e
    /\ BaseTolerance \in Nat /\ ToleranceStep \in Nat /\ StepSeconds \in Nat \ {0}
    /\ MaxOrder \in Nat /\ MaxArrival \in Nat /\ Times \subseteq Nat

VARIABLES
    clock,     \* steady_clock::now()
    queue,     \* the requests in queue_
    orders,    \* order_counter_
    lastSize,  \* last_queue_size_
    matcher,   \* where RunMatching is; mutex_ is held while "matching"
    now,       \* its argument
    left,      \* the part of `ordered' the loop has not come to
    created,   \* match_counter_, and so matches_created_
    matches,   \* made by this run and not yet published
    channel,   \* notifications_.queue_
    taken      \* every match that Poll or Drain has returned

run  == <<matcher, now, left>>
vars == <<clock, queue, orders, lastSize, run, created, matches, channel, taken>>

Request ==
    [player : Player, elo : Elo, region : Region, at : Nat, order : Nat]

Match ==
    [id : Nat, first : Request, second : Request, createdAt : Nat, region : Region]

-----------------------------------------------------------------------------
(* MatchRequest                                                            *)

(* Mutant: waiting widens nothing.                                         *)
CurrentToleranceFixed(r, t) == BaseTolerance

(* Mutant: a step that was begun counts.                                   *)
CurrentToleranceEarly(r, t) ==
    LET waited == IF t > r.at THEN t - r.at ELSE 0
    IN BaseTolerance + ((waited + StepSeconds - 1) \div StepSeconds) * ToleranceStep

(* A request may be newer than the `now' of a run that waited for mutex_.  *)
CurrentTolerance(r, t) ==
    LET waited == IF t > r.at THEN t - r.at ELSE 0
    IN BaseTolerance + (waited \div StepSeconds) * ToleranceStep

RegionsCompatible(a, b) ==
    a.region = AnyRegion \/ b.region = AnyRegion \/ a.region = b.region

Distance(a, b) == IF a.elo > b.elo THEN a.elo - b.elo ELSE b.elo - a.elo

Acceptable(a, b, t) ==
    /\ RegionsCompatible(a, b)
    /\ Distance(a, b) <= CurrentTolerance(a, t)
    /\ Distance(a, b) <= CurrentTolerance(b, t)

ResolveRegion(a, b) == IF a.region = AnyRegion THEN b.region ELSE a.region

-----------------------------------------------------------------------------
(* InMemoryMatchQueue                                                      *)

Remove(requests, p) == {r \in requests : r.player # p}

(* A request replaces the one the player already has.                      *)
Upsert(requests, r) == Remove(requests, r.player) \cup {r}

(* Mutant: within a rating the latest comes first.                         *)
PrecedesLatest(a, b) == a.elo < b.elo \/ (a.elo = b.elo /\ a.order > b.order)

(* The order of FetchOrdered.                                              *)
Precedes(a, b) == a.elo < b.elo \/ (a.elo = b.elo /\ a.order < b.order)

First(requests) ==
    CHOOSE a \in requests : \A b \in requests \ {a} : Precedes(a, b)

-----------------------------------------------------------------------------
Init ==
    /\ clock = 0
    /\ queue = {}
    /\ orders = 0
    /\ lastSize = 0
    /\ matcher = "idle" /\ now = 0 /\ left = {}
    /\ created = 0
    /\ matches = <<>>
    /\ channel = <<>>
    /\ taken = <<>>

MutexFree == matcher # "matching"

Enqueue(p, elo, region) ==
    /\ MutexFree
    /\ orders < MaxOrder /\ clock <= MaxArrival
    /\ orders' = orders + 1
    /\ queue' = Upsert(queue, [player |-> p, elo |-> elo, region |-> region,
                               at |-> clock, order |-> orders'])
    /\ lastSize' = Cardinality(queue')
    /\ UNCHANGED <<clock, run, created, matches, channel, taken>>

(* Mutant: the size falls even if nobody was removed.                      *)
CancelCounts(p) ==
    /\ MutexFree
    /\ queue' = Remove(queue, p)
    /\ lastSize' = lastSize - 1
    /\ UNCHANGED <<clock, orders, run, created, matches, channel, taken>>

Cancel(p) ==
    /\ MutexFree
    /\ queue' = Remove(queue, p)
    /\ lastSize' = Cardinality(queue')
    /\ UNCHANGED <<clock, orders, run, created, matches, channel, taken>>

(* The caller reads the clock and calls RunMatching.                       *)
CallRunMatching ==
    /\ matcher = "idle"
    /\ matcher' = "called"
    /\ now' = clock
    /\ UNCHANGED <<clock, queue, orders, lastSize, left, created, matches, channel,
                   taken>>

(* RunMatching gets mutex_ and fetches the queue.                          *)
BeginMatching ==
    /\ matcher = "called"
    /\ matcher' = "matching"
    /\ left' = queue
    /\ UNCHANGED <<clock, queue, orders, lastSize, now, created, matches, channel, taken>>

(* Mutant: used requests are not skipped.                                  *)
ReachableUsed(candidate) ==
    LET compatible == {o \in left \ {candidate} : RegionsCompatible(candidate, o)}
        tooFar(o)  == o.elo - candidate.elo > CurrentTolerance(candidate, now)
    IN {o \in compatible : \A e \in compatible : Precedes(e, o) => ~tooFar(e)}

(* Mutant: the loop breaks off at the base tolerance.                      *)
ReachableBase(candidate) ==
    LET compatible == {o \in (left \cap queue) \ {candidate} :
                          RegionsCompatible(candidate, o)}
    IN {o \in compatible : o.elo - candidate.elo <= BaseTolerance}

(* Whom the inner loop may reach from a candidate: those behind it, not    *)
(* used, in a compatible region, and not behind one whose rating is beyond *)
(* the candidate's tolerance, where the loop breaks off.                   *)
Reachable(candidate) ==
    LET compatible == {o \in (left \cap queue) \ {candidate} :
                          RegionsCompatible(candidate, o)}
        tooFar(o)  == o.elo - candidate.elo > CurrentTolerance(candidate, now)
    IN {o \in compatible : \A e \in compatible : Precedes(e, o) => ~tooFar(e)}

Partners(candidate) == {o \in Reachable(candidate) : Acceptable(candidate, o, now)}

(* The loop body for the next candidate; a used one, no longer in the      *)
(* queue, is passed over, as is one that finds no partner.                 *)
PairNext ==
    /\ matcher = "matching"
    /\ left # {}
    /\ LET candidate == First(left)
           partner   == First(Partners(candidate))
       IN /\ left' = left \ {candidate}
          /\ IF candidate \in queue /\ Partners(candidate) # {}
             THEN /\ queue' = Remove(Remove(queue, candidate.player), partner.player)
                  /\ created' = created + 1
                  /\ matches' = Append(matches,
                        [id |-> created', first |-> candidate, second |-> partner,
                         createdAt |-> now,
                         region |-> ResolveRegion(candidate, partner)])
             ELSE UNCHANGED <<queue, created, matches>>
    /\ UNCHANGED <<clock, orders, lastSize, matcher, now, channel, taken>>

(* The end of the critical section.                                        *)
EndMatching ==
    /\ matcher = "matching"
    /\ left = {}
    /\ matcher' = "publishing"
    /\ lastSize' = Cardinality(queue)
    /\ UNCHANGED <<clock, queue, orders, now, left, created, matches, channel, taken>>

(* Publish the next match, or return.                                      *)
Publish ==
    /\ matcher = "publishing"
    /\ IF matches = <<>>
       THEN matcher' = "idle" /\ UNCHANGED <<matches, channel>>
       ELSE /\ channel' = Append(channel, Head(matches))
            /\ matches' = Tail(matches)
            /\ UNCHANGED matcher
    /\ UNCHANGED <<clock, queue, orders, lastSize, now, left, created, taken>>

Poll ==
    /\ channel # <<>>
    /\ taken' = Append(taken, Head(channel))
    /\ channel' = Tail(channel)
    /\ UNCHANGED <<clock, queue, orders, lastSize, run, created, matches>>

Drain ==
    /\ channel # <<>>
    /\ taken' = taken \o channel
    /\ channel' = <<>>
    /\ UNCHANGED <<clock, queue, orders, lastSize, run, created, matches>>

TimePasses ==
    /\ clock' \in {t \in Times : t > clock}
    /\ UNCHANGED <<queue, orders, lastSize, run, created, matches, channel, taken>>

RunMatching ==
    CallRunMatching \/ BeginMatching \/ PairNext \/ EndMatching \/ Publish

Next ==
    \/ \E p \in Player, elo \in Elo, region \in Region : Enqueue(p, elo, region)
    \/ \E p \in Player : Cancel(p)
    \/ RunMatching
    \/ Poll \/ Drain
    \/ TimePasses

Spec == Init /\ [][Next]_vars

(* The clock goes on, and the timer calls RunMatching again and again.     *)
FairSpec == Spec /\ WF_vars(RunMatching) /\ WF_vars(TimePasses)

-----------------------------------------------------------------------------
TypeOK ==
    /\ clock \in Nat /\ now \in Nat
    /\ queue \in SUBSET Request /\ left \in SUBSET Request
    /\ orders \in Nat /\ lastSize \in Nat /\ created \in Nat
    /\ matcher \in {"idle", "called", "matching", "publishing"}
    /\ matches \in Seq(Match) /\ channel \in Seq(Match) /\ taken \in Seq(Match)

History == taken \o channel \o matches

(* A match is between two players in a region that suits both, and as far  *)
(* as their ratings are further apart than the base tolerance, both have   *)
(* waited: a whole step of time for every step of tolerance it takes.  A   *)
(* request newer than the run has waited for nothing.                      *)
MatchesAreMutual ==
    \A i \in DOMAIN History :
        LET m      == History[i]
            excess == Distance(m.first, m.second) - BaseTolerance
        IN /\ m.first.player # m.second.player
           /\ \A r \in {m.first, m.second} :
                 /\ r.region \in {AnyRegion, m.region}
                 /\ excess > 0 =>
                       \E steps \in 0 .. m.createdAt :
                           /\ steps * ToleranceStep >= excess
                           /\ r.at + steps * StepSeconds <= m.createdAt

(* A request ends in at most one match and then no longer waits: pairing   *)
(* never takes a player twice, however runs and other threads interleave.  *)
NobodyIsMatchedTwice ==
    LET orderOf(i) == {History[i].first.order, History[i].second.order}
    IN \A i \in DOMAIN History :
          /\ \A j \in DOMAIN History : i # j => orderOf(i) \cap orderOf(j) = {}
          /\ \A r \in queue : r.order \notin orderOf(i)

(* Among requests of one rating and one region nobody is matched before    *)
(* one that came earlier and still waits, whoever the partner is, however  *)
(* long both have waited, and whichever of the two the loop came to first. *)
EqualsAreServedInOrder ==
    \A i \in DOMAIN History, c \in queue :
        \A m \in {History[i].first, History[i].second} :
            m.elo = c.elo /\ m.region = c.region => m.order < c.order

(* A run that has come to its end left no two players waiting who would    *)
(* accept each other, although its inner loop breaks off early.            *)
NoAcceptablePairIsLeft ==
    matcher = "matching" /\ left = {} =>
        \A a, b \in queue : a # b => ~Acceptable(a, b, now)

(* Every match is announced once, in the order of the ids.                 *)
NotificationsInOrder ==
    /\ Len(History) = created
    /\ \A i \in DOMAIN History : History[i].id = i

(* The gauge matchmaking_queue_size is right whenever it can be read.      *)
LastSizeIsExact == MutexFree => lastSize = Cardinality(queue)

(* Tolerances grow until they cover every difference: once players stop    *)
(* enqueueing again (which restarts their wait), no two of them that agree *)
(* on a region go on waiting.                                              *)
NoCompatiblePairStarves ==
    []<>(\A a, b \in queue : a # b => ~RegionsCompatible(a, b))

(* Oldest first: nobody is passed over for a later request by a player who *)
(* would have been acceptable.                                             *)
OldestAreMatchedFirst ==
    matcher = "matching" /\ left = {} =>
        \A i \in DOMAIN matches, c \in queue :
            LET a == matches[i].first
                b == matches[i].second
            IN /\ Acceptable(a, c, now) => b.order < c.order
               /\ Acceptable(b, c, now) => a.order < c.order
=============================================================================
