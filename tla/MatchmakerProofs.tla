-------------------------- MODULE MatchmakerProofs --------------------------
(***************************************************************************)
(* Proofs about Matchmaker for any number of players, ratings and regions, *)
(* and any interleaving of runs with the other threads.                    *)
(***************************************************************************)
EXTENDS Matchmaker, FiniteSetTheorems, SequenceTheorems, WellFoundedInduction,
        TLAPS

(* A player waits with one request, the latest: Upsert removes the former. *)
OneRequestPerPlayer ==
    \A a, b \in queue : a.player = b.player => a = b

(* Orders are unique among the requests a run can see, and none is newer   *)
(* than order_counter_.                                                    *)
OrdersAreUnique ==
    /\ \A r \in queue \cup left : r.order <= orders
    /\ \A a, b \in queue \cup left : a.order = b.order => a = b

OrdersInMatch(m) == {m.first.order, m.second.order}

(* No request is in two matches, or in one and in the queue.               *)
MatchedOnce ==
    /\ \A i \in 1 .. Len(History) :
          /\ \A o \in OrdersInMatch(History[i]) : o <= orders
          /\ \A r \in queue : r.order \notin OrdersInMatch(History[i])
    /\ \A i, j \in 1 .. Len(History) : i # j =>
          OrdersInMatch(History[i]) \cap OrdersInMatch(History[j]) = {}

(* Whoever the loop has passed without a match accepts nobody waiting.     *)
PassedHaveNoPartner ==
    matcher = "matching" =>
        \A a \in queue \ left, b \in queue : a # b => ~Acceptable(a, b, now)

MutualMatch(m) ==
    /\ m.first.player # m.second.player
    /\ Acceptable(m.first, m.second, m.createdAt)
    /\ m.first.region \in {AnyRegion, m.region}
    /\ m.second.region \in {AnyRegion, m.region}

(* What holds of each match that was made, and of its place.               *)
GoodHistory ==
    /\ Len(History) = created
    /\ \A i \in 1 .. Len(History) : MutualMatch(History[i]) /\ History[i].id = i

LoopIsOver == matcher # "matching" => left = {}

IInv ==
    /\ TypeOK /\ IsFiniteSet(queue) /\ LoopIsOver
    /\ OneRequestPerPlayer /\ OrdersAreUnique
    /\ MatchedOnce /\ PassedHaveNoPartner /\ GoodHistory /\ LastSizeIsExact

-----------------------------------------------------------------------------
(* The order of the queue                                                  *)

(* A set of naturals that is not empty has a least element.                *)
LEMMA LeastNat ==
    ASSUME NEW T \in SUBSET Nat, T # {}
    PROVE  \E n \in T : \A m \in T : n <= m
PROOF
<1>1. PICK n \in T : \A m \in T : ~(<<m, n>> \in OpToRel(<, Nat))
  BY NatLessThanWellFounded, WFMin
<1>2. \A m \in T : ~(m < n) BY <1>1 DEF OpToRel
<1> QED BY <1>2

(* FetchOrdered has a first request, as orders are unique and ratings      *)
(* (of type int) are bounded below.                                        *)
LEMMA FirstIsMember ==
    ASSUME NEW S \in SUBSET Request, S # {},
           \A a, b \in S : a.order = b.order => a = b
    PROVE  First(S) \in S /\ \A b \in S \ {First(S)} : Precedes(First(S), b)
PROOF
<1>0. \A r \in S : r \in Request /\ r.elo \in Elo /\ r.elo \in Int /\ r.order \in Nat
  BY MatchmakerAssumption DEF Request
<1>1. PICK least \in Elo : \A e \in Elo : least <= e BY MatchmakerAssumption
<1>2. least \in Int BY MatchmakerAssumption
<1>3. PICK x \in S : \A b \in S : x.elo <= b.elo
  <2> DEFINE T == {n \in Nat : \E r \in S : n = r.elo - least}
  <2>1. \A r \in S : r.elo - least \in T
    <3> TAKE r \in S
    <3>1. r.elo - least \in Nat BY <1>0, <1>1, <1>2
    <3> QED BY <3>1
  <2>2. T \in SUBSET Nat /\ T # {} BY <2>1
  <2>3. PICK n \in T : \A m \in T : n <= m
    <3> HIDE DEF T
    <3> QED BY <2>2, LeastNat
  <2>4. PICK r \in S : n = r.elo - least BY <2>3
  <2>5. ASSUME NEW b \in S PROVE r.elo <= b.elo
    <3>1. r.elo - least <= b.elo - least BY <2>1, <2>3, <2>4
    <3> QED BY <3>1, <1>0, <1>2
  <2> QED BY <2>4, <2>5
<1>4. PICK a \in S : a.elo = x.elo /\ \A b \in S : b.elo = x.elo => a.order <= b.order
  <2> DEFINE T == {n \in Nat : \E r \in S : r.elo = x.elo /\ n = r.order}
  <2>1. \A r \in S : r.elo = x.elo => r.order \in T BY <1>0
  <2>2. T \in SUBSET Nat /\ T # {} BY <2>1, <1>3
  <2>3. PICK n \in T : \A m \in T : n <= m
    <3> HIDE DEF T
    <3> QED BY <2>2, LeastNat
  <2>4. PICK r \in S : r.elo = x.elo /\ n = r.order BY <2>3
  <2> QED BY <2>1, <2>3, <2>4
<1>5. ASSUME NEW b \in S \ {a} PROVE Precedes(a, b)
  <2>1. a.order # b.order BY <1>5
  <2>2. x.elo <= b.elo BY <1>3
  <2>3. b.elo = x.elo => a.order <= b.order BY <1>4
  <2> QED BY <1>0, <1>4, <2>1, <2>2, <2>3 DEF Precedes
<1> QED BY <1>5 DEF First

-----------------------------------------------------------------------------
(* Notifications: every step of a match on its way leaves the history as   *)
(* it was.                                                                 *)

LEMMA MoveHead ==
    ASSUME NEW S, NEW a \in Seq(S), NEW b \in Seq(S), b # <<>>
    PROVE  /\ Append(a, Head(b)) \in Seq(S) /\ Tail(b) \in Seq(S)
           /\ Append(a, Head(b)) \o Tail(b) = a \o b
PROOF
<1> DEFINE h == Head(b)
           t == Tail(b)
<1>1. h \in S /\ t \in Seq(S) /\ <<h>> \in Seq(S) BY HeadTailProperties
<1>2. b = <<h>> \o t
  <2>1. <<h>> \o t \in Seq(S) /\ Len(<<h>> \o t) = 1 + Len(t)
    BY <1>1, ConcatProperties
  <2>2. Len(t) = Len(b) - 1 /\ Len(b) \in Nat BY HeadTailProperties, LenProperties
  <2>3. \A i \in 1 .. Len(b) : (<<h>> \o t)[i] = b[i]
    <3> TAKE i \in 1 .. Len(b)
    <3>1. (<<h>> \o t)[i] = IF i <= 1 THEN h ELSE t[i - 1]
      BY <1>1, <2>2, ConcatProperties
    <3>2. CASE i = 1 BY <3>1, <3>2
    <3>3. CASE i # 1
      <4>1. i - 1 \in 1 .. Len(t) BY <2>2, <3>3
      <4>2. t[i - 1] = b[i - 1 + 1] BY <4>1, HeadTailProperties
      <4> QED BY <3>1, <3>3, <4>1, <4>2
    <3> QED BY <3>2, <3>3
  <2> HIDE DEF h, t
  <2>4. Len(<<h>> \o t) = Len(b) BY <2>1, <2>2
  <2> QED BY <2>1, <2>3, <2>4, SeqEqual
<1> HIDE DEF h, t
<1>3. Append(a, h) = a \o <<h>> /\ Append(a, h) \in Seq(S)
  BY <1>1, AppendIsConcat, AppendProperties
<1>4. (a \o <<h>>) \o t = a \o (<<h>> \o t) BY <1>1, ConcatAssociative
<1>5. Append(a, h) \o t = a \o b BY <1>2, <1>3, <1>4
<1> QED BY <1>1, <1>3, <1>5 DEF h, t

LEMMA HistoryType ==
    ASSUME TypeOK
    PROVE  /\ taken \o channel \in Seq(Match) /\ History \in Seq(Match)
           /\ Len(History) \in Nat
           /\ \A i \in 1 .. Len(History) : History[i] \in Match
PROOF
<1>1. taken \in Seq(Match) /\ channel \in Seq(Match) /\ matches \in Seq(Match)
  BY DEF TypeOK
<1>2. taken \o channel \in Seq(Match) BY <1>1, ConcatProperties
<1>3. History \in Seq(Match) BY <1>1, <1>2, ConcatProperties DEF History
<1> QED BY <1>2, <1>3, LenProperties, ElementOfSeq

LEMMA HistoryAppend ==
    ASSUME TypeOK, NEW m \in Match, matches' = Append(matches, m),
           UNCHANGED <<taken, channel>>
    PROVE  History' = Append(History, m)
PROOF
<1> DEFINE x == taken \o channel
<1>1. x \in Seq(Match) /\ matches \in Seq(Match) /\ <<m>> \in Seq(Match)
  BY HistoryType DEF TypeOK
<1>2. History = x \o matches /\ History' = x \o matches' BY DEF History
<1> HIDE DEF x
<1>3. matches' = matches \o <<m>> BY <1>1, AppendIsConcat
<1>4. Append(x \o matches, m) = (x \o matches) \o <<m>>
  BY <1>1, ConcatProperties, AppendIsConcat
<1>5. (x \o matches) \o <<m>> = x \o (matches \o <<m>>) BY <1>1, ConcatAssociative
<1> QED BY <1>2, <1>3, <1>4, <1>5

LEMMA PublishKeepsHistory ==
    ASSUME TypeOK, Publish
    PROVE  /\ matches' \in Seq(Match) /\ channel' \in Seq(Match)
           /\ History' = History
PROOF
<1>1. taken \in Seq(Match) /\ channel \in Seq(Match) /\ matches \in Seq(Match)
  BY DEF TypeOK
<1>2. CASE matches = <<>> BY <1>1, <1>2 DEF Publish, History
<1>3. CASE matches # <<>>
  <2>1. /\ channel' = Append(channel, Head(matches)) /\ matches' = Tail(matches)
        /\ taken' = taken
    BY <1>3 DEF Publish
  <2>2. /\ channel' \in Seq(Match) /\ matches' \in Seq(Match)
        /\ channel' \o matches' = channel \o matches
    BY <1>1, <1>3, <2>1, MoveHead
  <2>3. (taken \o channel) \o matches = taken \o (channel \o matches)
    BY <1>1, ConcatAssociative
  <2>4. \A b, c \in Seq(Match) : (taken \o b) \o c = taken \o (b \o c)
    <3> SUFFICES ASSUME NEW b \in Seq(Match), NEW c \in Seq(Match)
                 PROVE  (taken \o b) \o c = taken \o (b \o c)
      OBVIOUS
    <3>1. taken \in Seq(Match) BY <1>1
    <3> DEFINE a == taken
    <3>2. a \in Seq(Match) BY <3>1
    <3> HIDE DEF a
    <3>3. (a \o b) \o c = a \o (b \o c) BY <3>2, ConcatAssociative
    <3> QED BY <3>3 DEF a
  <2>5. (taken \o channel') \o matches' = taken \o (channel' \o matches')
    BY <2>2, <2>4, Zenon
  <2> QED BY <2>1, <2>2, <2>3, <2>5 DEF History
<1> QED BY <1>2, <1>3

LEMMA PollKeepsHistory ==
    ASSUME TypeOK, Poll
    PROVE  taken' \in Seq(Match) /\ channel' \in Seq(Match) /\ History' = History
PROOF
<1>1. taken \in Seq(Match) /\ channel \in Seq(Match) BY DEF TypeOK
<1>2. /\ channel # <<>> /\ taken' = Append(taken, Head(channel))
      /\ channel' = Tail(channel) /\ matches' = matches
  BY DEF Poll
<1>3. taken' \in Seq(Match) /\ channel' \in Seq(Match) /\ taken' \o channel' = taken \o channel
  BY <1>1, <1>2, MoveHead
<1> QED BY <1>2, <1>3 DEF History

LEMMA DrainKeepsHistory ==
    ASSUME TypeOK, Drain
    PROVE  taken' \in Seq(Match) /\ channel' \in Seq(Match) /\ History' = History
PROOF
<1>1. taken \o channel \in Seq(Match) BY HistoryType
<1>2. taken' = taken \o channel /\ channel' = <<>> /\ matches' = matches BY DEF Drain
<1>3. taken' \o channel' = taken \o channel BY <1>1, <1>2, ConcatEmptySeq
<1>4. channel' \in Seq(Match) BY <1>2, EmptySeq
<1> QED BY <1>1, <1>2, <1>3, <1>4 DEF History

-----------------------------------------------------------------------------
(* What several actions have in common                                     *)

LEMMA SameHistory ==
    ASSUME TypeOK, MatchedOnce, GoodHistory, History' = History,
           created' = created, orders' \in Nat, orders <= orders',
           \A r \in queue' : r \in queue \/ (r.order \in Nat /\ r.order > orders)
    PROVE  MatchedOnce' /\ GoodHistory'
PROOF
<1>1. GoodHistory' BY DEF GoodHistory, MutualMatch, Acceptable, RegionsCompatible,
                          Distance, CurrentTolerance
<1>2. orders \in Nat BY DEF TypeOK
<1>3. ASSUME NEW i \in 1 .. Len(History)
      PROVE  /\ \A o \in OrdersInMatch(History[i]) : o <= orders'
             /\ \A r \in queue' : r.order \notin OrdersInMatch(History[i])
  <2>1. History[i] \in Match BY <1>3, HistoryType
  <2>2. \A o \in OrdersInMatch(History[i]) : o \in Nat
    BY <2>1 DEF OrdersInMatch, Match, Request
  <2>3. \A o \in OrdersInMatch(History[i]) : o <= orders BY <1>3 DEF MatchedOnce
  <2>4. \A r \in queue : r.order \notin OrdersInMatch(History[i])
    BY <1>3 DEF MatchedOnce
  <2> QED BY <1>2, <2>2, <2>3, <2>4
<1>4. \A i, j \in 1 .. Len(History) : i # j =>
          OrdersInMatch(History[i]) \cap OrdersInMatch(History[j]) = {}
  BY DEF MatchedOnce
<1>5. MatchedOnce'
  BY <1>3, <1>4 DEF MatchedOnce, OrdersInMatch
<1> QED BY <1>1, <1>5

LEMMA SmallerQueue ==
    ASSUME TypeOK, IsFiniteSet(queue), OneRequestPerPlayer, OrdersAreUnique,
           queue' \subseteq queue, left' \subseteq queue \cup left,
           orders' = orders
    PROVE  /\ queue' \in SUBSET Request /\ left' \in SUBSET Request
           /\ IsFiniteSet(queue') /\ OneRequestPerPlayer' /\ OrdersAreUnique'
PROOF
<1>1. queue' \in SUBSET Request /\ left' \in SUBSET Request BY DEF TypeOK
<1>2. IsFiniteSet(queue') BY FS_Subset
<1>3. OneRequestPerPlayer' BY DEF OneRequestPerPlayer
<1>4. OrdersAreUnique' BY DEF OrdersAreUnique
<1> QED BY <1>1, <1>2, <1>3, <1>4

(* The actions that leave the queue and the history as they are.           *)
LEMMA SameQueue ==
    ASSUME IInv, UNCHANGED <<queue, orders, created, lastSize>>,
           History' = History, left' \subseteq queue \cup left
    PROVE  /\ queue' \in SUBSET Request /\ left' \in SUBSET Request
           /\ IsFiniteSet(queue') /\ OneRequestPerPlayer' /\ OrdersAreUnique'
           /\ MatchedOnce' /\ GoodHistory'
PROOF
<1>1. orders \in Nat BY DEF IInv, TypeOK
<1>2. MatchedOnce' /\ GoodHistory' BY <1>1, SameHistory DEF IInv
<1>3. /\ queue' \in SUBSET Request /\ left' \in SUBSET Request
      /\ IsFiniteSet(queue') /\ OneRequestPerPlayer' /\ OrdersAreUnique'
  BY SmallerQueue DEF IInv
<1> QED BY <1>2, <1>3

-----------------------------------------------------------------------------
(* The operations of the queue                                             *)

LEMMA InitInvariant == Init => IInv
PROOF
<1> SUFFICES ASSUME Init PROVE IInv OBVIOUS
<1> USE DEF Init
<1>1. TypeOK BY EmptySeq DEF TypeOK
<1>2. IsFiniteSet(queue) /\ LastSizeIsExact BY FS_EmptySet DEF LastSizeIsExact
<1>3. History = <<>>
  BY ConcatEmptySeq, EmptySeq DEF History
<1>4. Len(History) = 0 BY <1>3, EmptySeq
<1>5. 1 .. Len(History) = {} BY <1>4
<1>6. MatchedOnce /\ GoodHistory BY <1>4, <1>5 DEF MatchedOnce, GoodHistory
<1>7. /\ LoopIsOver /\ OneRequestPerPlayer /\ OrdersAreUnique /\ PassedHaveNoPartner
  BY DEF LoopIsOver, OneRequestPerPlayer, OrdersAreUnique, PassedHaveNoPartner
<1> QED BY <1>1, <1>2, <1>6, <1>7 DEF IInv

LEMMA EnqueueInvariant ==
    ASSUME IInv, NEW p \in Player, NEW elo \in Elo, NEW region \in Region,
           Enqueue(p, elo, region)
    PROVE  IInv'
PROOF
<1> DEFINE new == [player |-> p, elo |-> elo, region |-> region, at |-> clock,
                   order |-> orders + 1]
<1>1. /\ matcher # "matching" /\ orders' = orders + 1
      /\ queue' = Remove(queue, p) \cup {new}
      /\ lastSize' = Cardinality(queue')
      /\ UNCHANGED <<clock, matcher, now, left, created, matches, channel, taken>>
  BY DEF Enqueue, Upsert, MutexFree, run
<1>2. orders \in Nat /\ clock \in Nat /\ queue \in SUBSET Request
  BY DEF IInv, TypeOK
<1>3. /\ new \in Request /\ new.player = p /\ new.order = orders + 1
  BY <1>2 DEF Request
<1> HIDE DEF new
<1>4. Remove(queue, p) \subseteq queue /\ \A r \in Remove(queue, p) : r.player # p
  BY DEF Remove
<1>5. left = {} BY <1>1 DEF IInv, LoopIsOver
<1>6. \A r \in queue : r.order \in Nat /\ r.order <= orders
  BY <1>2 DEF IInv, OrdersAreUnique, Request
<1>7. IsFiniteSet(queue') BY <1>1, <1>4, FS_Subset, FS_AddElement DEF IInv
<1>8. queue' \in SUBSET Request BY <1>1, <1>2, <1>3, <1>4
<1>9. Cardinality(queue') \in Nat BY <1>7, FS_CardinalityType
<1>10. TypeOK' BY <1>1, <1>2, <1>8, <1>9 DEF IInv, TypeOK
<1>11. OneRequestPerPlayer' BY <1>1, <1>3, <1>4 DEF IInv, OneRequestPerPlayer
<1>12. OrdersAreUnique'
  <2>1. \A r \in queue' : r.order <= orders'
    BY <1>1, <1>2, <1>3, <1>4, <1>6
  <2>2. \A a, b \in queue' : a.order = b.order => a = b
    <3>1. \A a, b \in queue : a.order = b.order => a = b
      BY DEF IInv, OrdersAreUnique
    <3>2. \A r \in queue : r.order # new.order BY <1>2, <1>3, <1>6
    <3> QED BY <1>1, <1>4, <3>1, <3>2
  <2> QED BY <1>1, <1>5, <2>1, <2>2 DEF OrdersAreUnique
<1>13. MatchedOnce' /\ GoodHistory'
  <2>1. History' = History BY <1>1 DEF History
  <2>2. \A r \in queue' : r \in queue \/ (r.order \in Nat /\ r.order > orders)
    BY <1>1, <1>2, <1>3, <1>4
  <2>3. orders' \in Nat /\ orders <= orders' BY <1>1, <1>2
  <2> QED BY <1>1, <2>1, <2>2, <2>3, SameHistory DEF IInv
<1>14. LoopIsOver' /\ PassedHaveNoPartner'
  BY <1>1, <1>5 DEF LoopIsOver, PassedHaveNoPartner
<1>15. LastSizeIsExact' BY <1>1 DEF LastSizeIsExact
<1> QED BY <1>7, <1>10, <1>11, <1>12, <1>13, <1>14, <1>15 DEF IInv

LEMMA CancelInvariant ==
    ASSUME IInv, NEW p \in Player, Cancel(p)
    PROVE  IInv'
PROOF
<1>1. /\ matcher # "matching" /\ queue' = Remove(queue, p)
      /\ lastSize' = Cardinality(queue')
      /\ UNCHANGED <<clock, orders, matcher, now, left, created, matches, channel, taken>>
  BY DEF Cancel, MutexFree, run
<1>2. queue' \subseteq queue BY <1>1 DEF Remove
<1>3. /\ queue' \in SUBSET Request
      /\ IsFiniteSet(queue') /\ OneRequestPerPlayer' /\ OrdersAreUnique'
  BY <1>1, <1>2, SmallerQueue DEF IInv
<1>4. Cardinality(queue') \in Nat BY <1>3, FS_CardinalityType
<1>5. TypeOK' BY <1>1, <1>3, <1>4 DEF IInv, TypeOK
<1>6. MatchedOnce' /\ GoodHistory'
  <2>1. History' = History BY <1>1 DEF History
  <2>2. orders \in Nat BY DEF IInv, TypeOK
  <2> QED BY <1>1, <1>2, <2>1, <2>2, SameHistory DEF IInv
<1>7. LoopIsOver' /\ PassedHaveNoPartner'
  BY <1>1 DEF IInv, LoopIsOver, PassedHaveNoPartner
<1>8. LastSizeIsExact' BY <1>1 DEF LastSizeIsExact
<1> QED BY <1>3, <1>5, <1>6, <1>7, <1>8 DEF IInv

-----------------------------------------------------------------------------
(* RunMatching                                                             *)

LEMMA CallInvariant ==
    ASSUME IInv, CallRunMatching
    PROVE  IInv'
PROOF
<1>1. /\ matcher = "idle" /\ matcher' = "called" /\ now' = clock
      /\ UNCHANGED <<clock, queue, orders, lastSize, left, created, matches,
                     channel, taken>>
  BY DEF CallRunMatching
<1>2. History' = History BY <1>1 DEF History
<1>3. /\ IsFiniteSet(queue') /\ OneRequestPerPlayer' /\ OrdersAreUnique'
      /\ MatchedOnce' /\ GoodHistory'
  BY <1>1, <1>2, SameQueue
<1>4. TypeOK' BY <1>1 DEF IInv, TypeOK
<1>5. LoopIsOver' /\ PassedHaveNoPartner'
  BY <1>1 DEF IInv, LoopIsOver, PassedHaveNoPartner
<1>6. LastSizeIsExact' BY <1>1 DEF IInv, LastSizeIsExact, MutexFree
<1> QED BY <1>3, <1>4, <1>5, <1>6 DEF IInv

LEMMA BeginInvariant ==
    ASSUME IInv, BeginMatching
    PROVE  IInv'
PROOF
<1>1. /\ matcher = "called" /\ matcher' = "matching" /\ left' = queue
      /\ UNCHANGED <<clock, queue, orders, lastSize, now, created, matches,
                     channel, taken>>
  BY DEF BeginMatching
<1>2. History' = History BY <1>1 DEF History
<1>3. /\ IsFiniteSet(queue') /\ OneRequestPerPlayer' /\ OrdersAreUnique'
      /\ MatchedOnce' /\ GoodHistory'
  BY <1>1, <1>2, SameQueue
<1>4. TypeOK' BY <1>1 DEF IInv, TypeOK
<1>5. LoopIsOver' /\ PassedHaveNoPartner'
  BY <1>1 DEF LoopIsOver, PassedHaveNoPartner
<1>6. LastSizeIsExact' BY <1>1 DEF LastSizeIsExact, MutexFree
<1> QED BY <1>3, <1>4, <1>5, <1>6 DEF IInv

LEMMA DistanceSymmetric ==
    ASSUME NEW a \in Request, NEW b \in Request
    PROVE  /\ Distance(a, b) = Distance(b, a)
           /\ b.elo - a.elo <= Distance(a, b)
           /\ \A t : Acceptable(a, b, t) => Acceptable(b, a, t)
PROOF
<1>1. a.elo \in Int /\ b.elo \in Int BY MatchmakerAssumption DEF Request
<1>2. Distance(a, b) = Distance(b, a) /\ b.elo - a.elo <= Distance(a, b)
  BY <1>1 DEF Distance
<1> QED BY <1>2 DEF Acceptable, RegionsCompatible

LEMMA DistanceType ==
    ASSUME NEW a \in Request, NEW b \in Request
    PROVE  Distance(a, b) \in Int
PROOF
<1>1. a.elo \in Int /\ b.elo \in Int BY MatchmakerAssumption DEF Request
<1> QED BY <1>1 DEF Distance

(* Waiting adds whole steps to the base tolerance.                         *)
LEMMA ToleranceType ==
    ASSUME NEW c \in Request, NEW t \in Nat
    PROVE  CurrentTolerance(c, t) \in Nat
PROOF
<1> DEFINE waited == IF t > c.at THEN t - c.at ELSE 0
           n      == waited \div StepSeconds
<1>1. c.at \in Nat BY DEF Request
<1>2. waited \in Nat BY <1>1
<1>3. n \in Nat
  <2> HIDE DEF waited
  <2> QED BY <1>2, MatchmakerAssumption
<1>4. CurrentTolerance(c, t) = BaseTolerance + n * ToleranceStep
  BY DEF CurrentTolerance
<1> HIDE DEF n
<1>5. BaseTolerance \in Nat /\ ToleranceStep \in Nat BY MatchmakerAssumption
<1>6. n * ToleranceStep \in Nat BY <1>3, <1>5
<1> QED BY <1>4, <1>5, <1>6

(* The early exit misses nobody: a request the inner loop does not reach   *)
(* is beyond the candidate's tolerance.                                    *)
LEMMA EarlyExitIsSound ==
    ASSUME TypeOK, NEW c \in Request, NEW b \in left \cap queue, b # c,
           Acceptable(c, b, now)
    PROVE  b \in Partners(c)
PROOF
<1> DEFINE compatible == {o \in (left \cap queue) \ {c} : RegionsCompatible(c, o)}
           tol == CurrentTolerance(c, now)
<1>1. b \in compatible BY DEF Acceptable
<1>2. tol \in Int BY ToleranceType DEF TypeOK
<1>3. ASSUME NEW e \in compatible, Precedes(e, b), e.elo - c.elo > tol
      PROVE  FALSE
  <2>1. e \in Request /\ b \in Request BY DEF TypeOK
  <2>2. e.elo \in Int /\ b.elo \in Int /\ c.elo \in Int
    BY <2>1, MatchmakerAssumption DEF Request
  <2>3. e.elo <= b.elo BY <1>3, <2>2 DEF Precedes
  <2>4. Distance(c, b) <= tol BY DEF Acceptable
  <2>5. b.elo - c.elo <= Distance(c, b) BY <2>1, DistanceSymmetric
  <2>6. Distance(c, b) \in Int BY <2>2 DEF Distance
  <2> HIDE DEF tol, compatible
  <2> QED BY <1>2, <1>3, <2>2, <2>3, <2>4, <2>5, <2>6
<1>4. b \in Reachable(c) BY <1>1, <1>3 DEF Reachable
<1> QED BY <1>4 DEF Partners

LEMMA PassOver ==
    ASSUME IInv, PairNext, ~(First(left) \in queue /\ Partners(First(left)) # {})
    PROVE  IInv'
PROOF
<1> DEFINE c == First(left)
<1>1. /\ matcher = "matching" /\ left' = left \ {c}
      /\ UNCHANGED <<clock, queue, orders, lastSize, matcher, now, created,
                     matches, channel, taken>>
  BY DEF PairNext
<1> HIDE DEF c
<1>2. History' = History BY <1>1 DEF History
<1>3. /\ left' \in SUBSET Request
      /\ IsFiniteSet(queue') /\ OneRequestPerPlayer' /\ OrdersAreUnique'
      /\ MatchedOnce' /\ GoodHistory'
  BY <1>1, <1>2, SameQueue
<1>4. TypeOK' BY <1>1, <1>3 DEF IInv, TypeOK
<1>5. LoopIsOver' /\ LastSizeIsExact'
  BY <1>1 DEF LoopIsOver, LastSizeIsExact, MutexFree
<1>6. ASSUME NEW a \in queue' \ left', NEW b \in queue', a # b
      PROVE  ~Acceptable(a, b, now')
  <2>1. a \in queue /\ b \in queue /\ now' = now BY <1>1
  <2>2. CASE a \notin left BY <1>1, <1>6, <2>1, <2>2 DEF IInv, PassedHaveNoPartner
  <2>3. CASE a \in left
    <3>1. a = c BY <1>1, <1>6, <2>3
    <3>2. Partners(a) = {} BY <2>1, <3>1 DEF c
    <3>3. a \in Request /\ b \in Request BY <2>1 DEF IInv, TypeOK
    <3>4. CASE b \in left
      BY <1>6, <2>1, <3>2, <3>3, <3>4, EarlyExitIsSound DEF IInv
    <3>5. CASE b \notin left
      <4>1. ~Acceptable(b, a, now)
        BY <1>1, <1>6, <2>1, <3>5 DEF IInv, PassedHaveNoPartner
      <4> QED BY <2>1, <3>3, <4>1, DistanceSymmetric
    <3> QED BY <3>4, <3>5
  <2> QED BY <2>2, <2>3
<1>7. PassedHaveNoPartner' 
  BY <1>6 DEF PassedHaveNoPartner, Acceptable, RegionsCompatible, Distance,
              CurrentTolerance
<1> QED BY <1>3, <1>4, <1>5, <1>7 DEF IInv

(* The partner is another request that waits and accepts the candidate.    *)
LEMMA PartnerFacts ==
    ASSUME IInv, NEW c \in queue, Partners(c) # {}
    PROVE  /\ First(Partners(c)) \in queue /\ First(Partners(c)) # c
           /\ RegionsCompatible(c, First(Partners(c)))
           /\ Acceptable(c, First(Partners(c)), now)
PROOF
<1>1. \A o \in Partners(c) :
         /\ o \in queue /\ o \in Request /\ o # c
         /\ RegionsCompatible(c, o) /\ Acceptable(c, o, now)
  BY DEF Partners, Reachable, IInv, TypeOK
<1>2. Partners(c) \in SUBSET Request BY <1>1
<1>3. \A a, b \in Partners(c) : a.order = b.order => a = b
  BY <1>1 DEF IInv, OrdersAreUnique
<1>4. First(Partners(c)) \in Partners(c)
  <2> DEFINE S == Partners(c)
  <2>1. S \in SUBSET Request /\ S # {} /\ \A a, b \in S : a.order = b.order => a = b
    BY <1>2, <1>3
  <2> HIDE DEF S
  <2>2. First(S) \in S BY <2>1, FirstIsMember
  <2> QED BY <2>2 DEF S
<1> QED BY <1>1, <1>4

LEMMA MatchInvariant ==
    ASSUME IInv, PairNext, First(left) \in queue, Partners(First(left)) # {}
    PROVE  IInv'
PROOF
<1> DEFINE c == First(left)
           p == First(Partners(c))
           m == [id |-> created + 1, first |-> c, second |-> p,
                 createdAt |-> now, region |-> ResolveRegion(c, p)]
<1>1. /\ matcher = "matching" /\ left' = left \ {c}
      /\ queue' = Remove(Remove(queue, c.player), p.player)
      /\ created' = created + 1 /\ matches' = Append(matches, m)
      /\ UNCHANGED <<clock, orders, lastSize, matcher, now, channel, taken>>
  BY DEF PairNext
<1>2. c \in queue /\ p \in queue /\ p # c
  BY PartnerFacts
<1>3. RegionsCompatible(c, p) /\ Acceptable(c, p, now)
  BY PartnerFacts
<1>4. c \in Request /\ p \in Request BY <1>2 DEF IInv, TypeOK
<1> HIDE DEF c, p
<1>5. m \in Match /\ MutualMatch(m) /\ m.id = created + 1
      /\ OrdersInMatch(m) = {c.order, p.order}
  <2>1. created \in Nat /\ now \in Nat BY DEF IInv, TypeOK
  <2>2. ResolveRegion(c, p) \in Region BY <1>4 DEF ResolveRegion, Request
  <2>3. m \in Match BY <1>4, <2>1, <2>2 DEF Match
  <2>4. c.player # p.player BY <1>2 DEF IInv, OneRequestPerPlayer
  <2>5. /\ c.region \in {AnyRegion, ResolveRegion(c, p)}
        /\ p.region \in {AnyRegion, ResolveRegion(c, p)}
    BY <1>3 DEF ResolveRegion, RegionsCompatible
  <2>6. MutualMatch(m) BY <1>3, <2>4, <2>5 DEF MutualMatch
  <2> QED BY <2>3, <2>6 DEF OrdersInMatch
<1> HIDE DEF m
<1>6. queue' \subseteq queue /\ c \notin queue' /\ p \notin queue'
  BY <1>1 DEF Remove
<1>7. /\ queue' \in SUBSET Request /\ left' \in SUBSET Request
      /\ IsFiniteSet(queue') /\ OneRequestPerPlayer' /\ OrdersAreUnique'
  BY <1>1, <1>6, SmallerQueue DEF IInv
<1>8. matches' \in Seq(Match) /\ History' = Append(History, m)
  BY <1>1, <1>5, AppendProperties, HistoryAppend DEF IInv, TypeOK
<1>9. TypeOK'
  <2>1. created \in Nat BY DEF IInv, TypeOK
  <2> QED BY <1>1, <1>7, <1>8, <2>1 DEF IInv, TypeOK
<1>10. LoopIsOver' /\ LastSizeIsExact'
  BY <1>1 DEF LoopIsOver, LastSizeIsExact, MutexFree
<1>11. PassedHaveNoPartner'
  <2>1. ASSUME NEW a \in queue' \ left', NEW b \in queue', a # b
        PROVE  ~Acceptable(a, b, now)
    BY <1>1, <1>6, <2>1 DEF IInv, PassedHaveNoPartner
  <2> QED BY <1>1, <2>1 DEF PassedHaveNoPartner, Acceptable, RegionsCompatible,
                            Distance, CurrentTolerance
<1> DEFINE n == Len(History)
<1>12. n \in Nat /\ n = created BY HistoryType DEF IInv, GoodHistory
<1>13. /\ Len(History') = n + 1 /\ History'[n + 1] = m
       /\ \A i \in 1 .. n : History'[i] = History[i]
  <2>1. History \in Seq(Match) BY HistoryType DEF IInv
  <2> QED BY <1>5, <1>8, <2>1, AppendProperties
<1> HIDE DEF n
<1>14. GoodHistory'
  <2>1. ASSUME NEW i \in 1 .. n + 1
        PROVE  MutualMatch(History'[i]) /\ History'[i].id = i
    <3>1. CASE i = n + 1 BY <1>5, <1>12, <1>13, <3>1
    <3>2. CASE i # n + 1
      <4>1. i \in 1 .. n BY <1>12, <3>2
      <4>2. MutualMatch(History[i]) /\ History[i].id = i
        BY <4>1 DEF IInv, GoodHistory, n
      <4> QED BY <1>13, <4>1, <4>2
    <3> QED BY <3>1, <3>2
  <2>2. Len(History') = created' BY <1>1, <1>12, <1>13
  <2> QED BY <1>13, <2>1, <2>2 DEF GoodHistory, MutualMatch, Acceptable,
             RegionsCompatible, Distance, CurrentTolerance
<1>15. MatchedOnce'
  <2>1. /\ \A o \in OrdersInMatch(m) : o <= orders
        /\ \A r \in queue' : r.order \notin OrdersInMatch(m)
    BY <1>2, <1>5, <1>6 DEF IInv, OrdersAreUnique
  <2>2. ASSUME NEW i \in 1 .. n
        PROVE  /\ \A o \in OrdersInMatch(History[i]) : o <= orders
               /\ \A r \in queue : r.order \notin OrdersInMatch(History[i])
    BY <2>2 DEF IInv, MatchedOnce, n
  <2>3. \A i \in 1 .. n : OrdersInMatch(History[i]) \cap OrdersInMatch(m) = {}
    BY <1>2, <1>5, <2>2
  <2>4. \A i, j \in 1 .. n : i # j =>
           OrdersInMatch(History[i]) \cap OrdersInMatch(History[j]) = {}
    BY DEF IInv, MatchedOnce, n
  <2>5. \A i \in 1 .. n + 1 : i = n + 1 \/ i \in 1 .. n BY <1>12
  <2>6. ASSUME NEW i \in 1 .. n + 1
        PROVE  /\ \A o \in OrdersInMatch(History'[i]) : o <= orders
               /\ \A r \in queue' : r.order \notin OrdersInMatch(History'[i])
    <3>1. CASE i = n + 1 BY <1>13, <2>1, <3>1
    <3>2. CASE i \in 1 .. n BY <1>6, <1>13, <2>2, <3>2
    <3> QED BY <2>5, <3>1, <3>2
  <2>7. ASSUME NEW i \in 1 .. n + 1, NEW j \in 1 .. n + 1, i # j
        PROVE  OrdersInMatch(History'[i]) \cap OrdersInMatch(History'[j]) = {}
    <3>1. CASE i \in 1 .. n /\ j \in 1 .. n BY <1>13, <2>4, <2>7, <3>1
    <3>2. CASE i = n + 1 /\ j \in 1 .. n BY <1>13, <2>3, <3>2
    <3>3. CASE i \in 1 .. n /\ j = n + 1 BY <1>13, <2>3, <3>3
    <3> QED BY <2>5, <2>7, <3>1, <3>2, <3>3
  <2> QED BY <1>1, <1>13, <2>6, <2>7 DEF MatchedOnce, OrdersInMatch
<1> QED BY <1>7, <1>9, <1>10, <1>11, <1>14, <1>15 DEF IInv

LEMMA EndInvariant ==
    ASSUME IInv, EndMatching
    PROVE  IInv'
PROOF
<1>1. /\ matcher = "matching" /\ matcher' = "publishing" /\ left = {}
      /\ lastSize' = Cardinality(queue)
      /\ UNCHANGED <<clock, queue, orders, now, left, created, matches, channel, taken>>
  BY DEF EndMatching
<1>2. History' = History BY <1>1 DEF History
<1>3. orders \in Nat BY DEF IInv, TypeOK
<1>4. MatchedOnce' /\ GoodHistory' BY <1>1, <1>2, <1>3, SameHistory DEF IInv
<1>5. IsFiniteSet(queue') /\ OneRequestPerPlayer' /\ OrdersAreUnique'
  BY <1>1 DEF IInv, OneRequestPerPlayer, OrdersAreUnique
<1>6. lastSize' \in Nat BY <1>1, FS_CardinalityType DEF IInv
<1>7. TypeOK' BY <1>1, <1>6 DEF IInv, TypeOK
<1>8. LoopIsOver' /\ PassedHaveNoPartner' /\ LastSizeIsExact'
  BY <1>1 DEF LoopIsOver, PassedHaveNoPartner, LastSizeIsExact
<1> QED BY <1>4, <1>5, <1>7, <1>8 DEF IInv

LEMMA PublishInvariant ==
    ASSUME IInv, Publish
    PROVE  IInv'
PROOF
<1>1. /\ matcher = "publishing" /\ matcher' \in {"publishing", "idle"}
      /\ UNCHANGED <<clock, queue, orders, lastSize, now, left, created, taken>>
  BY DEF Publish
<1>2. matches' \in Seq(Match) /\ channel' \in Seq(Match) /\ History' = History
  BY PublishKeepsHistory DEF IInv
<1>3. /\ IsFiniteSet(queue') /\ OneRequestPerPlayer' /\ OrdersAreUnique'
      /\ MatchedOnce' /\ GoodHistory'
  BY <1>1, <1>2, SameQueue
<1>4. TypeOK' BY <1>1, <1>2 DEF IInv, TypeOK
<1>5. LoopIsOver' /\ PassedHaveNoPartner'
  BY <1>1 DEF IInv, LoopIsOver, PassedHaveNoPartner
<1>6. LastSizeIsExact' BY <1>1 DEF IInv, LastSizeIsExact, MutexFree
<1> QED BY <1>3, <1>4, <1>5, <1>6 DEF IInv

-----------------------------------------------------------------------------
(* Poll, Drain and the clock                                               *)

LEMMA TakenInvariant ==
    ASSUME IInv, taken' \in Seq(Match), channel' \in Seq(Match),
           History' = History, clock' \in Nat,
           UNCHANGED <<queue, orders, lastSize, run, created, matches>>
    PROVE  IInv'
PROOF
<1>1. UNCHANGED <<matcher, now, left>> BY DEF run
<1>2. /\ IsFiniteSet(queue') /\ OneRequestPerPlayer' /\ OrdersAreUnique'
      /\ MatchedOnce' /\ GoodHistory'
  BY <1>1, SameQueue
<1>3. TypeOK' BY <1>1 DEF IInv, TypeOK
<1>4. LoopIsOver' BY <1>1 DEF IInv, LoopIsOver
<1>5. LastSizeIsExact' BY <1>1 DEF IInv, LastSizeIsExact, MutexFree
<1>6. PassedHaveNoPartner'
  BY <1>1 DEF IInv, PassedHaveNoPartner, Acceptable, RegionsCompatible, Distance,
              CurrentTolerance
<1> QED BY <1>2, <1>3, <1>4, <1>5, <1>6 DEF IInv

LEMMA NextInvariant == ASSUME IInv, [Next]_vars PROVE IInv'
PROOF
<1>0. clock \in Nat /\ taken \in Seq(Match) /\ channel \in Seq(Match)
  BY DEF IInv, TypeOK
<1>1. ASSUME NEW p \in Player, NEW elo \in Elo, NEW region \in Region,
             Enqueue(p, elo, region)
      PROVE  IInv'
  BY <1>1, EnqueueInvariant
<1>2. ASSUME NEW p \in Player, Cancel(p) PROVE IInv' BY <1>2, CancelInvariant
<1>3. CASE CallRunMatching BY <1>3, CallInvariant
<1>4. CASE BeginMatching BY <1>4, BeginInvariant
<1>5. CASE PairNext BY <1>5, PassOver, MatchInvariant
<1>6. CASE EndMatching BY <1>6, EndInvariant
<1>7. CASE Publish BY <1>7, PublishInvariant
<1>8. CASE Poll
  <2>1. /\ taken' \in Seq(Match) /\ channel' \in Seq(Match) /\ History' = History
    BY <1>8, PollKeepsHistory DEF IInv
  <2>2. clock' = clock /\ UNCHANGED <<queue, orders, lastSize, run, created, matches>>
    BY <1>8 DEF Poll
  <2> QED BY <1>0, <2>1, <2>2, TakenInvariant
<1>9. CASE Drain
  <2>1. /\ taken' \in Seq(Match) /\ channel' \in Seq(Match) /\ History' = History
    BY <1>9, DrainKeepsHistory DEF IInv
  <2>2. clock' = clock /\ UNCHANGED <<queue, orders, lastSize, run, created, matches>>
    BY <1>9 DEF Drain
  <2> QED BY <1>0, <2>1, <2>2, TakenInvariant
<1>10. CASE TimePasses
  <2>1. /\ clock' \in Nat
        /\ UNCHANGED <<queue, orders, lastSize, run, created, matches, channel, taken>>
    BY <1>10, MatchmakerAssumption DEF TimePasses
  <2>2. History' = History BY <2>1 DEF History
  <2> QED BY <1>0, <2>1, <2>2, TakenInvariant
<1>11. CASE UNCHANGED vars
  <2>1. UNCHANGED <<clock, queue, orders, lastSize, run, created, matches, channel, taken>>
    BY <1>11 DEF vars
  <2>2. History' = History BY <2>1 DEF History
  <2> QED BY <1>0, <2>1, <2>2, TakenInvariant
<1> QED
  BY <1>1, <1>2, <1>3, <1>4, <1>5, <1>6, <1>7, <1>8, <1>9, <1>10, <1>11
  DEF Next, RunMatching

-----------------------------------------------------------------------------
(* The inductive invariant holds in every reachable state.                 *)
THEOREM Invariance == Spec => []IInv
PROOF
<1>1. IInv /\ [Next]_vars => IInv' BY NextInvariant
<1> QED BY <1>1, InitInvariant, PTL DEF Spec

(* Types, for all players, ratings and regions.                            *)
THEOREM TypeCorrect == Spec => []TypeOK
PROOF
<1>1. IInv => TypeOK BY DEF IInv
<1> QED BY <1>1, Invariance, PTL

(* Whole steps of a time, and that a longer time has no fewer.             *)
LEMMA WholeSteps ==
    ASSUME NEW w \in Nat
    PROVE  /\ w \div StepSeconds \in 0 .. w
           /\ (w \div StepSeconds) * StepSeconds <= w
           /\ \A v \in 0 .. w : v \div StepSeconds <= w \div StepSeconds
PROOF
<1>1. StepSeconds \in Nat \ {0} BY MatchmakerAssumption
<1> DEFINE n == w \div StepSeconds
           k == w % StepSeconds
<1>2. n \in Nat /\ w = n * StepSeconds + k BY <1>1
<1>3. k \in Nat BY <1>1
<1>4. ASSUME NEW v \in 0 .. w PROVE v \div StepSeconds <= n BY <1>1
<1> HIDE DEF n, k
<1>5. n * StepSeconds \in Nat /\ n <= n * StepSeconds BY <1>1, <1>2
<1>6. n * StepSeconds <= w /\ n \in 0 .. w BY <1>2, <1>3, <1>5
<1> QED BY <1>4, <1>6 DEF n

(* A match between ratings further apart than the base tolerance is made   *)
(* only after both players have waited whole steps enough, in a region     *)
(* that suits both.                                                        *)
THEOREM Mutual == Spec => []MatchesAreMutual
PROOF
<1>1. ASSUME IInv PROVE MatchesAreMutual
  <2>1. DOMAIN History = 1 .. Len(History)
    BY <1>1, HistoryType, LenProperties DEF IInv
  <2>2. ASSUME NEW i \in DOMAIN History,
               NEW r \in {History[i].first, History[i].second},
               Distance(History[i].first, History[i].second) - BaseTolerance > 0
        PROVE  \E steps \in 0 .. History[i].createdAt :
                  /\ steps * ToleranceStep
                        >= Distance(History[i].first, History[i].second) - BaseTolerance
                  /\ r.at + steps * StepSeconds <= History[i].createdAt
    <3> DEFINE m == History[i]
               d == Distance(m.first, m.second)
               t == m.createdAt
               waited == IF t > r.at THEN t - r.at ELSE 0
               steps == waited \div StepSeconds
    <3>1. m \in Match BY <1>1, <2>1, HistoryType DEF IInv
    <3>2. /\ m.first \in Request /\ m.second \in Request
          /\ t \in Nat /\ r \in Request /\ r.at \in Nat
      BY <3>1 DEF Match, Request
    <3>3. d <= CurrentTolerance(r, t)
      BY <1>1, <2>1 DEF IInv, GoodHistory, MutualMatch, Acceptable
    <3>4. d \in Int BY <3>2, DistanceType
    <3>5. waited \in Nat /\ waited <= t BY <3>2
    <3>6. CurrentTolerance(r, t) = BaseTolerance + steps * ToleranceStep
      BY DEF CurrentTolerance
    <3>7. d - BaseTolerance > 0 BY <2>2
    <3> HIDE DEF d, t, m
    <3>8. steps \in 0 .. waited /\ steps * StepSeconds <= waited
      <4> HIDE DEF waited
      <4> QED BY <3>5, WholeSteps
    <3>9. /\ BaseTolerance \in Nat /\ ToleranceStep \in Nat /\ StepSeconds \in Nat
      BY MatchmakerAssumption
    <3> HIDE DEF steps
    <3>10. steps * ToleranceStep \in Nat /\ steps * StepSeconds \in Nat
      BY <3>5, <3>8, <3>9
    <3>11. steps * ToleranceStep >= d - BaseTolerance
      BY <3>3, <3>4, <3>6, <3>9, <3>10
    <3>12. t > r.at
      <4>1. ASSUME ~(t > r.at) PROVE FALSE
        <5>1. waited = 0 BY <4>1
        <5>2. steps = 0 BY <3>8, <5>1
        <5>3. steps * ToleranceStep = 0 BY <3>9, <5>2
        <5> QED BY <3>4, <3>7, <3>9, <3>11, <5>3
      <4> QED BY <4>1
    <3>13. r.at + steps * StepSeconds <= t
      BY <3>2, <3>8, <3>10, <3>12
    <3>14. steps \in 0 .. t BY <3>2, <3>5, <3>8
    <3> QED BY <3>11, <3>13, <3>14 DEF d, t, m
  <2>3. \A i \in DOMAIN History :
           LET m == History[i]
           IN /\ m.first.player # m.second.player
              /\ \A r \in {m.first, m.second} : r.region \in {AnyRegion, m.region}
    BY <1>1, <2>1 DEF IInv, GoodHistory, MutualMatch
  <2> QED BY <2>2, <2>3 DEF MatchesAreMutual
<1> QED BY <1>1, Invariance, PTL

(* No run, and no two runs with other threads in between, take a request   *)
(* twice.                                                                  *)
THEOREM MatchedAtMostOnce == Spec => []NobodyIsMatchedTwice
PROOF
<1>1. ASSUME IInv PROVE NobodyIsMatchedTwice
  <2>1. DOMAIN History = 1 .. Len(History)
    BY <1>1, HistoryType, LenProperties DEF IInv
  <2> QED BY <1>1, <2>1 DEF IInv, MatchedOnce, OrdersInMatch, NobodyIsMatchedTwice
<1> QED BY <1>1, Invariance, PTL

(* The early exit of the inner loop never leaves two waiting players who   *)
(* accept each other.                                                      *)
THEOREM PairingIsMaximal == Spec => []NoAcceptablePairIsLeft
PROOF
<1>1. IInv => NoAcceptablePairIsLeft
  BY DEF IInv, PassedHaveNoPartner, NoAcceptablePairIsLeft
<1> QED BY <1>1, Invariance, PTL

(* Matches are announced once and in the order of their ids.               *)
THEOREM InOrder == Spec => []NotificationsInOrder
PROOF
<1>1. ASSUME IInv PROVE NotificationsInOrder
  <2>1. DOMAIN History = 1 .. Len(History)
    BY <1>1, HistoryType, LenProperties DEF IInv
  <2> QED BY <1>1, <2>1 DEF IInv, GoodHistory, NotificationsInOrder
<1> QED BY <1>1, Invariance, PTL

(* The gauge of the queue is right whenever mutex_ is free.                *)
THEOREM GaugeExact == Spec => []LastSizeIsExact
PROOF
<1>1. IInv => LastSizeIsExact BY DEF IInv
<1> QED BY <1>1, Invariance, PTL

-----------------------------------------------------------------------------
(* Order of arrival                                                        *)

(* Orders are given out in the order of the clock.                         *)
OrdersFollowArrival ==
    /\ \A r \in queue \cup left : r.at <= clock
    /\ \A a, b \in queue \cup left : a.order < b.order => a.at <= b.at

OInv == OrdersFollowArrival /\ EqualsAreServedInOrder

(* Of two requests of one rating and region the earlier accepts whomever   *)
(* the later accepts, as it tolerates no less.                             *)
LEMMA EarlierAcceptsMore ==
    ASSUME NEW a \in Request, NEW b \in Request, NEW x \in Request, NEW t \in Nat,
           a.at <= b.at, a.elo = b.elo, a.region = b.region, Acceptable(b, x, t)
    PROVE  Acceptable(a, x, t)
PROOF
<1> DEFINE waited(r) == IF t > r.at THEN t - r.at ELSE 0
           steps(r)  == waited(r) \div StepSeconds
<1>1. a.at \in Nat /\ b.at \in Nat BY DEF Request
<1>2. waited(a) \in Nat /\ waited(b) \in 0 .. waited(a) BY <1>1
<1>3. steps(a) \in Nat /\ steps(b) \in Nat /\ steps(b) <= steps(a)
  <2> DEFINE v == waited(a)
             w == waited(b)
  <2>1. v \in Nat /\ w \in 0 .. v BY <1>2
  <2> HIDE DEF v, w
  <2>2. v \div StepSeconds \in 0 .. v /\ w \div StepSeconds \in 0 .. w
        /\ w \div StepSeconds <= v \div StepSeconds
    BY <2>1, WholeSteps
  <2> QED BY <2>1, <2>2 DEF v, w
<1>4. /\ CurrentTolerance(a, t) = BaseTolerance + steps(a) * ToleranceStep
      /\ CurrentTolerance(b, t) = BaseTolerance + steps(b) * ToleranceStep
  BY DEF CurrentTolerance
<1>5. CurrentTolerance(b, t) <= CurrentTolerance(a, t)
  <2> DEFINE i == steps(a)
             j == steps(b)
  <2>1. i \in Nat /\ j \in Nat /\ j <= i BY <1>3
  <2> HIDE DEF i, j
  <2>2. j * ToleranceStep <= i * ToleranceStep
        /\ j * ToleranceStep \in Nat /\ i * ToleranceStep \in Nat
    <3>1. ToleranceStep \in Nat BY MatchmakerAssumption
    <3>2. /\ j * ToleranceStep \in Nat /\ i * ToleranceStep \in Nat
          /\ (i - j) * ToleranceStep \in Nat
      BY <2>1, <3>1
    <3>3. i * ToleranceStep = j * ToleranceStep + (i - j) * ToleranceStep
      BY <2>1, <3>1
    <3> QED BY <3>2, <3>3
  <2> QED BY <1>4, <2>2, MatchmakerAssumption DEF i, j
<1>6. Distance(a, x) = Distance(b, x) BY DEF Distance
<1>7. Distance(b, x) \in Int BY DistanceType
<1>8. CurrentTolerance(a, t) \in Nat /\ CurrentTolerance(b, t) \in Nat BY ToleranceType
<1> QED BY <1>5, <1>6, <1>7, <1>8 DEF Acceptable, RegionsCompatible

(* The partner is the first of those the candidate may have.               *)
LEMMA PartnerIsFirst ==
    ASSUME IInv, NEW c \in queue, Partners(c) # {}
    PROVE  /\ First(Partners(c)) \in Partners(c)
           /\ \A o \in Partners(c) \ {First(Partners(c))} :
                 Precedes(First(Partners(c)), o)
PROOF
<1> DEFINE S == Partners(c)
<1>1. \A o \in S : o \in queue /\ o \in Request
  BY DEF Partners, Reachable, IInv, TypeOK
<1>2. S \in SUBSET Request /\ S # {} /\ \A a, b \in S : a.order = b.order => a = b
  BY <1>1 DEF IInv, OrdersAreUnique
<1> HIDE DEF S
<1>3. First(S) \in S /\ \A o \in S \ {First(S)} : Precedes(First(S), o)
  BY <1>2, FirstIsMember
<1> QED BY <1>3 DEF S

(* No step moves the queue back: it loses requests or gets one that is     *)
(* newer than all of them.                                                 *)
LEMMA OrdersStayArrivals ==
    ASSUME IInv, OrdersFollowArrival, [Next]_vars
    PROVE  OrdersFollowArrival'
PROOF
<1>0. /\ clock \in Nat /\ orders \in Nat
      /\ \A r \in queue \cup left : r \in Request /\ r.at \in Nat /\ r.order \in Nat
                                    /\ r.order <= orders
  BY DEF IInv, TypeOK, Request, OrdersAreUnique
<1>1. CASE queue' \subseteq queue /\ left' \subseteq queue \cup left /\ clock' = clock
  BY <1>1 DEF OrdersFollowArrival
<1>2. ASSUME NEW p \in Player, NEW elo \in Elo, NEW region \in Region,
             Enqueue(p, elo, region)
      PROVE  OrdersFollowArrival'
  <2> DEFINE new == [player |-> p, elo |-> elo, region |-> region, at |-> clock,
                     order |-> orders + 1]
  <2>1. /\ queue' \subseteq queue \cup {new}
        /\ left' = left /\ clock' = clock
    BY <1>2 DEF Enqueue, Upsert, Remove, run
  <2>2. new.order = orders + 1 /\ new.at = clock OBVIOUS
  <2> HIDE DEF new
  <2>3. ASSUME NEW a \in queue' \cup left', NEW b \in queue' \cup left',
               a.order < b.order
        PROVE  a.at <= b.at
    <3>1. CASE a = new
      <4>1. CASE b = new BY <1>0, <2>2, <2>3, <3>1, <4>1
      <4>2. CASE b # new
        <5>1. b \in queue \cup left BY <2>1, <4>2
        <5> QED BY <1>0, <2>2, <2>3, <3>1, <5>1
      <4> QED BY <4>1, <4>2
    <3>2. CASE a # new /\ b = new
      <4>1. a \in queue \cup left BY <2>1, <3>2
      <4> QED BY <2>2, <3>2, <4>1 DEF OrdersFollowArrival
    <3>3. CASE a # new /\ b # new
      <4>1. a \in queue \cup left /\ b \in queue \cup left BY <2>1, <3>3
      <4> QED BY <2>3, <4>1 DEF OrdersFollowArrival
    <3> QED BY <3>1, <3>2, <3>3
  <2>4. ASSUME NEW a \in queue' \cup left' PROVE a.at <= clock
    <3>1. CASE a = new BY <1>0, <2>2, <3>1
    <3>2. CASE a # new
      <4>1. a \in queue \cup left BY <2>1, <3>2
      <4> QED BY <4>1 DEF OrdersFollowArrival
    <3> QED BY <3>1, <3>2
  <2> QED BY <2>1, <2>3, <2>4 DEF OrdersFollowArrival
<1>3. ASSUME NEW p \in Player, Cancel(p) PROVE OrdersFollowArrival'
  BY <1>1, <1>3 DEF Cancel, Remove, run
<1>4. CASE CallRunMatching \/ BeginMatching \/ EndMatching \/ Publish
  BY <1>1, <1>4 DEF CallRunMatching, BeginMatching, EndMatching, Publish
<1>5. CASE PairNext
  <2>1. clock' = clock /\ left' \subseteq left BY <1>5 DEF PairNext
  <2>2. queue' \subseteq queue BY <1>5 DEF PairNext, Remove
  <2> QED BY <1>1, <2>1, <2>2
<1>6. CASE Poll \/ Drain \/ UNCHANGED vars
  BY <1>1, <1>6 DEF Poll, Drain, vars, run
<1>7. CASE TimePasses
  <2>1. clock' \in Nat /\ clock' > clock /\ queue' = queue /\ left' = left
    BY <1>7, MatchmakerAssumption DEF TimePasses, run
  <2>2. \A r \in queue \cup left : r.at <= clock' BY <1>0, <2>1 DEF OrdersFollowArrival
  <2> QED BY <2>1, <2>2 DEF OrdersFollowArrival
<1> QED BY <1>2, <1>3, <1>4, <1>5, <1>6, <1>7 DEF Next, RunMatching

(* The pair the loop makes is no later than its equals: one that was       *)
(* passed over accepts nobody waiting, and one still to come is behind.    *)
LEMMA PairIsEarliest ==
    ASSUME IInv, OrdersFollowArrival, PairNext,
           First(left) \in queue, Partners(First(left)) # {},
           NEW m \in {First(left), First(Partners(First(left)))}, NEW x \in queue',
           m.elo = x.elo, m.region = x.region
    PROVE  m.order < x.order
PROOF
<1> DEFINE c == First(left)
           p == First(Partners(c))
<1>1. /\ matcher = "matching" /\ left # {}
      /\ queue' = Remove(Remove(queue, c.player), p.player)
  BY DEF PairNext
<1>2. /\ c \in queue /\ p \in queue /\ p # c /\ Acceptable(c, p, now)
  BY PartnerFacts
<1>3. c \in left /\ \A b \in left \ {c} : Precedes(c, b)
  <2>1. left \in SUBSET Request /\ \A a, b \in left : a.order = b.order => a = b
    BY DEF IInv, TypeOK, OrdersAreUnique
  <2> QED BY <1>1, <2>1, FirstIsMember
<1>4. p \in Partners(c) /\ \A o \in Partners(c) \ {p} : Precedes(p, o)
  BY <1>2, PartnerIsFirst
<1> HIDE DEF c, p
<1>5. x \in queue /\ x # c /\ x # p BY <1>1 DEF Remove
<1>6. /\ c \in Request /\ p \in Request /\ x \in Request /\ now \in Nat
  BY <1>2, <1>5 DEF IInv, TypeOK
<1>7. m \in {c, p} BY DEF c, p
<1>8. /\ m.order \in Nat /\ x.order \in Nat /\ m.order # x.order
      /\ m.elo \in Int
  BY <1>2, <1>5, <1>6, <1>7, MatchmakerAssumption DEF Request, IInv, OrdersAreUnique
<1>9. ASSUME x.order < m.order PROVE FALSE
  <2>1. x.at <= m.at BY <1>2, <1>5, <1>7, <1>9 DEF OrdersFollowArrival
  <2>2. Acceptable(p, c, now) BY <1>2, <1>6, DistanceSymmetric
  <2>3. CASE m = c
    <3>1. CASE x \in left
      BY <1>3, <1>5, <1>8, <1>9, <2>3, <3>1 DEF Precedes
    <3>2. CASE x \notin left
      <4>1. Acceptable(x, p, now) BY <1>2, <1>6, <2>1, <2>3, EarlierAcceptsMore
      <4> QED BY <1>1, <1>2, <1>5, <3>2, <4>1 DEF IInv, PassedHaveNoPartner
    <3> QED BY <3>1, <3>2
  <2>4. CASE m = p
    <3>1. Acceptable(x, c, now) BY <1>6, <2>1, <2>2, <2>4, EarlierAcceptsMore
    <3>2. CASE x \in left
      <4>1. Acceptable(c, x, now) BY <1>6, <3>1, DistanceSymmetric
      <4>2. x \in Partners(c) BY <1>5, <1>6, <3>2, <4>1, EarlyExitIsSound DEF IInv
      <4> QED BY <1>4, <1>5, <1>8, <1>9, <2>4, <4>2 DEF Precedes
    <3>3. CASE x \notin left
      BY <1>1, <1>2, <1>5, <3>1, <3>3 DEF IInv, PassedHaveNoPartner
    <3> QED BY <3>2, <3>3
  <2> QED BY <1>7, <2>3, <2>4
<1> QED BY <1>8, <1>9

(* What was matched stays as early as it was, whoever comes or goes.       *)
LEMMA EqualsKeepOrder ==
    ASSUME IInv, EqualsAreServedInOrder, History' = History,
           orders' \in {orders, orders + 1},
           \A r \in queue' : r \in queue \/ r.order = orders + 1
    PROVE  EqualsAreServedInOrder'
PROOF
<1>1. DOMAIN History = 1 .. Len(History) /\ orders \in Nat
  BY HistoryType, LenProperties DEF IInv, TypeOK
<1>2. ASSUME NEW i \in DOMAIN History, NEW x \in queue',
             NEW m \in {History[i].first, History[i].second},
             m.elo = x.elo, m.region = x.region
      PROVE  m.order < x.order
  <2>1. CASE x \in queue BY <1>2, <2>1 DEF EqualsAreServedInOrder
  <2>2. CASE x.order = orders + 1
    <3>1. History[i] \in Match BY <1>1, HistoryType DEF IInv
    <3>2. m.order \in Nat BY <3>1 DEF Match, Request
    <3>3. m.order <= orders BY <1>1 DEF IInv, MatchedOnce, OrdersInMatch
    <3> QED BY <1>1, <2>2, <3>2, <3>3
  <2> QED BY <2>1, <2>2
<1> QED BY <1>2 DEF EqualsAreServedInOrder

LEMMA EqualsStep ==
    ASSUME IInv, OInv, [Next]_vars
    PROVE  EqualsAreServedInOrder'
PROOF
<1>0. EqualsAreServedInOrder /\ OrdersFollowArrival BY DEF OInv
<1>1. ASSUME NEW p \in Player, NEW elo \in Elo, NEW region \in Region,
             Enqueue(p, elo, region)
      PROVE  EqualsAreServedInOrder'
  <2>1. History' = History /\ orders' = orders + 1 BY <1>1 DEF Enqueue, History
  <2>2. \A r \in queue' : r \in queue \/ r.order = orders + 1
    BY <1>1 DEF Enqueue, Upsert, Remove
  <2> QED BY <1>0, <2>1, <2>2, EqualsKeepOrder
<1>2. CASE PairNext /\ First(left) \in queue /\ Partners(First(left)) # {}
  <2> DEFINE c == First(left)
             p == First(Partners(c))
             m == [id |-> created + 1, first |-> c, second |-> p,
                   createdAt |-> now, region |-> ResolveRegion(c, p)]
  <2>1. /\ queue' = Remove(Remove(queue, c.player), p.player)
        /\ matches' = Append(matches, m) /\ UNCHANGED <<taken, channel>>
    BY <1>2 DEF PairNext
  <2>2. c \in queue /\ p \in queue BY <1>2, PartnerFacts
  <2>3. \A n \in {c, p}, x \in queue' :
           n.elo = x.elo /\ n.region = x.region => n.order < x.order
    BY <1>0, <1>2, PairIsEarliest
  <2> HIDE DEF c, p
  <2>4. m \in Match /\ m.first = c /\ m.second = p
    <3>1. c \in Request /\ p \in Request /\ created \in Nat /\ now \in Nat
      BY <2>2 DEF IInv, TypeOK
    <3>2. ResolveRegion(c, p) \in Region BY <3>1 DEF ResolveRegion, Request
    <3> QED BY <3>1, <3>2 DEF Match
  <2> HIDE DEF m
  <2> DEFINE n == Len(History)
  <2>5. n \in Nat /\ History \in Seq(Match) /\ DOMAIN History = 1 .. n
    BY HistoryType, LenProperties DEF IInv
  <2>6. History' = Append(History, m) BY <2>1, <2>4, HistoryAppend DEF IInv
  <2>7. /\ History' \in Seq(Match) /\ Len(History') = n + 1 /\ History'[n + 1] = m
        /\ \A i \in 1 .. n : History'[i] = History[i]
    BY <2>4, <2>5, <2>6, AppendProperties
  <2>8. DOMAIN History' = 1 .. n + 1 BY <2>7, LenProperties
  <2> HIDE DEF n
  <2>9. queue' \subseteq queue BY <2>1 DEF Remove
  <2>10. ASSUME NEW i \in DOMAIN History', NEW x \in queue',
                NEW k \in {History'[i].first, History'[i].second},
                k.elo = x.elo, k.region = x.region
         PROVE  k.order < x.order
    <3>1. CASE i = n + 1 BY <2>3, <2>4, <2>7, <2>10, <3>1
    <3>2. CASE i # n + 1
      <4>1. i \in 1 .. n BY <2>5, <2>8, <3>2
      <4> QED BY <1>0, <2>5, <2>7, <2>9, <2>10, <4>1 DEF EqualsAreServedInOrder
    <3> QED BY <3>1, <3>2
  <2> QED BY <2>10 DEF EqualsAreServedInOrder
<1>3. CASE queue' \subseteq queue /\ orders' = orders /\ History' = History
  BY <1>0, <1>3, EqualsKeepOrder
<1>4. ASSUME NEW p \in Player, Cancel(p) PROVE EqualsAreServedInOrder'
  BY <1>3, <1>4 DEF Cancel, Remove, History
<1>5. CASE PairNext /\ ~(First(left) \in queue /\ Partners(First(left)) # {})
  BY <1>3, <1>5 DEF PairNext, History
<1>6. CASE CallRunMatching \/ BeginMatching \/ EndMatching \/ TimePasses \/ UNCHANGED vars
  BY <1>3, <1>6 DEF CallRunMatching, BeginMatching, EndMatching, TimePasses, vars,
                    History
<1>7. CASE Publish BY <1>3, <1>7, PublishKeepsHistory DEF Publish, IInv
<1>8. CASE Poll BY <1>3, <1>8, PollKeepsHistory DEF Poll, IInv
<1>9. CASE Drain BY <1>3, <1>9, DrainKeepsHistory DEF Drain, IInv
<1> QED BY <1>1, <1>2, <1>4, <1>5, <1>6, <1>7, <1>8, <1>9 DEF Next, RunMatching

(* However many runs, and whatever other threads do in between: of two     *)
(* requests of one rating and region the later is not matched while the    *)
(* earlier still waits.                                                    *)
THEOREM EqualsServedInOrder == Spec => []EqualsAreServedInOrder
PROOF
<1>1. Init => OInv
  <2> SUFFICES ASSUME Init PROVE OInv OBVIOUS
  <2>1. queue = {} /\ left = {} BY DEF Init
  <2> QED BY <2>1 DEF OInv, OrdersFollowArrival, EqualsAreServedInOrder
<1>2. IInv /\ OInv /\ [Next]_vars => OInv'
  BY EqualsStep, OrdersStayArrivals DEF OInv
<1>3. OInv => EqualsAreServedInOrder BY DEF OInv
<1> QED BY <1>1, <1>2, <1>3, Invariance, PTL DEF Spec

-----------------------------------------------------------------------------
(* Equal ratings, as main.cpp enqueues its players                         *)

(* Every request carries the same rating and the same region.              *)
Alike ==
    /\ \A e, f \in Elo : e = f
    /\ \A a, b \in Region : a = b

(* A run pairs neighbours in the order of arrival, from the oldest on, and *)
(* leaves one waiting at most.                                             *)
PairedByArrival ==
    /\ \A i \in DOMAIN matches : matches[i].first.order < matches[i].second.order
    /\ \A i, j \in DOMAIN matches :
          i < j => matches[i].second.order < matches[j].first.order
    /\ \A i \in DOMAIN matches, r \in queue : matches[i].second.order < r.order
    /\ matcher = "matching" /\ left = {} => \A a, b \in queue : a = b

(* Only the last in the queue is passed over.                              *)
PassedIsAlone ==
    matcher = "matching" => queue \subseteq left \/ \A a, b \in queue : a = b

AInv == PairedByArrival /\ PassedIsAlone

(* Among such requests the order is that of arrival, and any two of them   *)
(* accept each other.                                                      *)
LEMMA AlikeFacts ==
    ASSUME Alike, NEW a \in Request, NEW b \in Request, now \in Nat
    PROVE  /\ Precedes(a, b) <=> a.order < b.order
           /\ Acceptable(a, b, now)
PROOF
<1>1. a.elo = b.elo /\ a.elo \in Int /\ a.region = b.region
  BY MatchmakerAssumption DEF Alike, Request
<1>2. Distance(a, b) = 0 BY <1>1 DEF Distance
<1>3. CurrentTolerance(a, now) \in Nat /\ CurrentTolerance(b, now) \in Nat
  BY ToleranceType
<1>4. Acceptable(a, b, now) BY <1>1, <1>2, <1>3 DEF Acceptable, RegionsCompatible
<1>5. a.order \in Nat /\ b.order \in Nat BY DEF Request
<1> QED BY <1>1, <1>4, <1>5 DEF Precedes

(* The candidate is the oldest left, the partner the oldest behind it.     *)
LEMMA AlikePartners ==
    ASSUME IInv, Alike, left # {}
    PROVE  LET c == First(left)
           IN /\ c \in left /\ \A r \in left \ {c} : c.order < r.order
              /\ Partners(c) = (left \cap queue) \ {c}
              /\ Partners(c) # {} =>
                    LET p == First(Partners(c))
                    IN /\ p \in (left \cap queue) \ {c}
                       /\ \A r \in (left \cap queue) \ {c, p} : p.order < r.order
PROOF
<1> DEFINE c == First(left)
           S == (left \cap queue) \ {c}
<1>0. left \in SUBSET Request /\ now \in Nat BY DEF IInv, TypeOK
<1>1. \A a, b \in left : a.order = b.order => a = b BY DEF IInv, OrdersAreUnique
<1>2. c \in left /\ \A r \in left \ {c} : Precedes(c, r) BY <1>0, <1>1, FirstIsMember
<1> HIDE DEF c
<1>3. \A r \in left \ {c} : c.order < r.order BY <1>0, <1>2, AlikeFacts
<1>4. Partners(c) = S
  <2>1. Partners(c) \subseteq S BY DEF Partners, Reachable
  <2>2. ASSUME NEW r \in S PROVE r \in Partners(c)
    <3>1. r \in Request /\ c \in Request BY <1>0, <1>2
    <3>2. Acceptable(c, r, now) BY <1>0, <3>1, AlikeFacts
    <3> QED BY <3>1, <3>2, EarlyExitIsSound DEF IInv
  <2> QED BY <2>1, <2>2
<1>5. ASSUME S # {}
      PROVE  First(S) \in S /\ \A r \in S \ {First(S)} : First(S).order < r.order
  <2>1. S \in SUBSET Request /\ \A a, b \in S : a.order = b.order => a = b
    BY <1>0, <1>1
  <2> HIDE DEF S
  <2>2. First(S) \in S /\ \A r \in S \ {First(S)} : Precedes(First(S), r)
    BY <1>5, <2>1, FirstIsMember
  <2> QED BY <1>0, <2>1, <2>2, AlikeFacts
<1>6. ASSUME S # {}
      PROVE  /\ First(S) \in (left \cap queue) \ {c}
             /\ \A r \in (left \cap queue) \ {c, First(S)} : First(S).order < r.order
  BY <1>5, <1>6
<1> HIDE DEF S
<1> QED BY <1>2, <1>3, <1>4, <1>6 DEF c, S

(* Adding the match of the two oldest to those of the run.                 *)
LEMMA AlikePair ==
    ASSUME IInv, AInv, Alike, PairNext
    PROVE  AInv'
PROOF
<1> DEFINE c == First(left)
           p == First(Partners(c))
           n == Len(matches)
           m == [id |-> created + 1, first |-> c, second |-> p,
                 createdAt |-> now, region |-> ResolveRegion(c, p)]
<1>1. /\ matcher = "matching" /\ matcher' = "matching"
      /\ left # {} /\ left' = left \ {c}
      /\ IF c \in queue /\ Partners(c) # {}
         THEN /\ queue' = Remove(Remove(queue, c.player), p.player)
              /\ matches' = Append(matches, m)
         ELSE queue' = queue /\ matches' = matches
  BY DEF PairNext
<1>2. /\ c \in left /\ \A r \in left \ {c} : c.order < r.order
      /\ Partners(c) = (left \cap queue) \ {c}
      /\ Partners(c) # {} =>
            /\ p \in (left \cap queue) \ {c}
            /\ \A r \in (left \cap queue) \ {c, p} : p.order < r.order
  BY <1>1, AlikePartners
<1>3. /\ queue \subseteq left \/ \A a, b \in queue : a = b
      /\ left \in SUBSET Request /\ queue \in SUBSET Request
      /\ matches \in Seq(Match) /\ n \in Nat /\ DOMAIN matches = 1 .. n
      /\ \A r \in left \cup queue : r.order \in Nat
  BY <1>1, LenProperties DEF AInv, PassedIsAlone, IInv, TypeOK, Request
<1> HIDE DEF c, p
<1>4. CASE ~(c \in queue /\ Partners(c) # {})
  <2>1. queue' = queue /\ matches' = matches BY <1>1, <1>4
  <2>2. queue \subseteq left' \/ \A a, b \in queue : a = b
    <3>1. CASE c \notin queue BY <1>1, <1>3, <3>1
    <3>2. CASE Partners(c) = {} BY <1>1, <1>2, <1>3, <3>2
    <3> QED BY <1>4, <3>1, <3>2
  <2> QED BY <1>1, <2>1, <2>2 DEF AInv, PairedByArrival, PassedIsAlone
<1>5. CASE c \in queue /\ Partners(c) # {}
  <2>1. /\ queue' = Remove(Remove(queue, c.player), p.player)
        /\ matches' = Append(matches, m)
    BY <1>1, <1>5
  <2>2. p \in queue /\ p # c /\ c \in queue /\ queue \subseteq left
    BY <1>2, <1>3, <1>5
  <2>3. queue' = queue \ {c, p}
    BY <2>1, <2>2 DEF Remove, IInv, OneRequestPerPlayer
  <2>4. /\ \A r \in queue' : p.order < r.order
        /\ c.order < p.order /\ queue' \subseteq left'
    BY <1>1, <1>2, <2>2, <2>3
  <2>5. /\ m \in Match /\ m.first = c /\ m.second = p
    <3>1. c \in Request /\ p \in Request /\ created \in Nat /\ now \in Nat
      BY <1>3, <2>2 DEF IInv, TypeOK
    <3>2. ResolveRegion(c, p) \in Region BY <3>1 DEF ResolveRegion, Request
    <3> QED BY <3>1, <3>2 DEF Match
  <2> HIDE DEF m
  <2>6. /\ Len(matches') = n + 1 /\ matches'[n + 1] = m
        /\ \A i \in 1 .. n : matches'[i] = matches[i]
        /\ matches' \in Seq(Match)
    BY <1>3, <2>1, <2>5, AppendProperties
  <2> HIDE DEF n
  <2>7. DOMAIN matches' = 1 .. n + 1 BY <2>6, LenProperties
  <2>8. \A i \in 1 .. n + 1 : i = n + 1 \/ i \in 1 .. n BY <1>3
  <2>9. /\ \A i \in 1 .. n : matches[i].first.order < matches[i].second.order
        /\ \A i, j \in 1 .. n : i < j => matches[i].second.order < matches[j].first.order
        /\ \A i \in 1 .. n : /\ matches[i].second.order < c.order
                             /\ \A r \in queue' : matches[i].second.order < r.order
    BY <1>3, <2>2, <2>3 DEF AInv, PairedByArrival
  <2>10. ASSUME NEW i \in 1 .. n + 1
         PROVE  /\ matches'[i].first.order < matches'[i].second.order
                /\ \A r \in queue' : matches'[i].second.order < r.order
    <3>1. CASE i = n + 1 BY <2>4, <2>5, <2>6, <3>1
    <3>2. CASE i \in 1 .. n BY <2>6, <2>9, <3>2
    <3> QED BY <2>8, <3>1, <3>2
  <2>11. ASSUME NEW i \in 1 .. n + 1, NEW j \in 1 .. n + 1, i < j
         PROVE  matches'[i].second.order < matches'[j].first.order
    <3>1. i \in 1 .. n BY <1>3, <2>11
    <3>2. CASE j = n + 1 BY <2>5, <2>6, <2>9, <3>1, <3>2
    <3>3. CASE j \in 1 .. n BY <2>6, <2>9, <2>11, <3>1, <3>3
    <3> QED BY <2>8, <3>2, <3>3
  <2>12. PassedIsAlone' BY <2>4 DEF PassedIsAlone
  <2>13. left' = {} => queue' = {} BY <2>4
  <2> QED BY <2>7, <2>10, <2>11, <2>12, <2>13 DEF AInv, PairedByArrival
<1> QED BY <1>4, <1>5

(* Publishing takes the oldest match away.                                 *)
LEMMA AlikePublish ==
    ASSUME IInv, AInv, Publish
    PROVE  AInv'
PROOF
<1>0. matches \in Seq(Match) BY DEF IInv, TypeOK
<1>1. matcher' # "matching" /\ queue' = queue BY DEF Publish
<1>2. CASE matches = <<>>
  <2>1. matches' = matches BY <1>2 DEF Publish
  <2> QED BY <1>1, <2>1 DEF AInv, PairedByArrival, PassedIsAlone
<1>3. CASE matches # <<>>
  <2> DEFINE t == Tail(matches)
  <2>1. matches' = t BY <1>3 DEF Publish
  <2>2. /\ t \in Seq(Match) /\ Len(t) = Len(matches) - 1
        /\ \A i \in 1 .. Len(t) : t[i] = matches[i + 1]
    BY <1>0, <1>3, HeadTailProperties
  <2>3. Len(matches) \in Nat /\ DOMAIN matches = 1 .. Len(matches)
    BY <1>0, LenProperties
  <2> HIDE DEF t
  <2>4. DOMAIN t = 1 .. Len(t) /\ Len(t) \in Nat BY <2>2, LenProperties
  <2>5. \A i \in DOMAIN t : /\ t[i] = matches[i + 1] /\ i + 1 \in DOMAIN matches
                            /\ \A j \in DOMAIN t : i < j => i + 1 < j + 1
    BY <2>2, <2>3, <2>4
  <2>6. /\ \A i \in DOMAIN t : t[i].first.order < t[i].second.order
        /\ \A i, j \in DOMAIN t : i < j => t[i].second.order < t[j].first.order
        /\ \A i \in DOMAIN t, r \in queue : t[i].second.order < r.order
    BY <2>5 DEF AInv, PairedByArrival
  <2> QED BY <1>1, <2>1, <2>6 DEF AInv, PairedByArrival, PassedIsAlone
<1> QED BY <1>2, <1>3

LEMMA AlikeStep == ASSUME IInv, AInv, Alike, [Next]_vars PROVE AInv'
PROOF
<1>1. ASSUME NEW p \in Player, NEW elo \in Elo, NEW region \in Region,
             Enqueue(p, elo, region)
      PROVE  AInv'
  <2> DEFINE new == [player |-> p, elo |-> elo, region |-> region, at |-> clock,
                     order |-> orders + 1]
  <2>1. /\ matcher' # "matching" /\ matches' = matches
        /\ queue' = Remove(queue, p) \cup {new}
    BY <1>1 DEF Enqueue, Upsert, MutexFree, run
  <2>2. new.order = orders + 1 /\ orders \in Nat BY DEF IInv, TypeOK
  <2> HIDE DEF new
  <2>3. \A i \in DOMAIN matches : /\ matches[i].second.order <= orders
                                  /\ matches[i].second.order \in Nat
    <3>1. /\ matches \in Seq(Match) /\ channel \in Seq(Match) /\ taken \in Seq(Match)
      BY DEF IInv, TypeOK
    <3>2. \A i \in DOMAIN matches : matches[i] \in Match
      BY <3>1, LenProperties, ElementOfSeq
    <3>3. \A i \in DOMAIN matches : matches[i].second.order \in Nat
      BY <3>2 DEF Match, Request
    <3>4. \A i \in DOMAIN matches :
             \E k \in 1 .. Len(History) : History[k] = matches[i]
      <4>1. /\ taken \o channel \in Seq(Match)
            /\ DOMAIN matches = 1 .. Len(matches) /\ Len(matches) \in Nat
        BY <3>1, ConcatProperties, LenProperties
      <4> DEFINE a == taken \o channel
                 k == Len(a)
      <4>2. k \in Nat BY <4>1, LenProperties
      <4> HIDE DEF a
      <4>3. /\ Len(a \o matches) = k + Len(matches)
            /\ \A i \in 1 .. Len(a) + Len(matches) :
                  (a \o matches)[i] = IF i <= Len(a) THEN a[i] ELSE matches[i - Len(a)]
        BY <3>1, <4>1, ConcatProperties DEF a
      <4> HIDE DEF k
      <4>4. ASSUME NEW i \in DOMAIN matches
            PROVE  /\ k + i \in 1 .. k + Len(matches) /\ ~(k + i <= k)
                   /\ k + i - k = i
        BY <4>1, <4>2
      <4>5. \A i \in DOMAIN matches : (a \o matches)[k + i] = matches[i]
        BY <4>3, <4>4 DEF k
      <4> QED BY <4>3, <4>4, <4>5 DEF History, a
    <3> QED BY <3>3, <3>4 DEF IInv, MatchedOnce, OrdersInMatch
  <2>4. \A r \in queue' : r \in queue \/ r = new BY <2>1 DEF Remove
  <2>5. \A i \in DOMAIN matches, r \in queue' : matches[i].second.order < r.order
    BY <2>2, <2>3, <2>4 DEF AInv, PairedByArrival
  <2> QED BY <2>1, <2>5 DEF AInv, PairedByArrival, PassedIsAlone
<1>2. ASSUME NEW p \in Player, Cancel(p) PROVE AInv'
  <2>1. /\ matcher' # "matching" /\ matches' = matches /\ queue' \subseteq queue
    BY <1>2 DEF Cancel, MutexFree, run, Remove
  <2> QED BY <2>1 DEF AInv, PairedByArrival, PassedIsAlone
<1>3. CASE BeginMatching
  <2>1. left' = queue /\ queue' = queue /\ matches' = matches BY <1>3 DEF BeginMatching
  <2> QED BY <2>1 DEF AInv, PairedByArrival, PassedIsAlone
<1>4. CASE PairNext BY <1>4, AlikePair
<1>5. CASE Publish BY <1>5, AlikePublish
<1>6. CASE CallRunMatching \/ EndMatching
  <2>1. matcher' # "matching" /\ queue' = queue /\ matches' = matches
    BY <1>6 DEF CallRunMatching, EndMatching
  <2> QED BY <2>1 DEF AInv, PairedByArrival, PassedIsAlone
<1>7. CASE Poll \/ Drain \/ TimePasses \/ UNCHANGED vars
  <2>1. UNCHANGED <<matcher, left, queue, matches>>
    BY <1>7 DEF Poll, Drain, TimePasses, vars, run
  <2> QED BY <2>1 DEF AInv, PairedByArrival, PassedIsAlone
<1> QED BY <1>1, <1>2, <1>3, <1>4, <1>5, <1>6, <1>7 DEF Next, RunMatching

(* As main.cpp uses it, the matchmaker is first come, first served:        *)
(* RunMatching of the module WebSocketServer, which takes the oldest in    *)
(* pairs and leaves one at most, is what its loop comes to.                *)
THEOREM FirstComeFirstServed == Alike => (Spec => []PairedByArrival)
PROOF
<1> SUFFICES ASSUME Alike PROVE Spec => []PairedByArrival OBVIOUS
<1>1. Init => AInv BY DEF Init, AInv, PairedByArrival, PassedIsAlone
<1>2. IInv /\ AInv /\ [Next]_vars => AInv' BY AlikeStep
<1>3. AInv => PairedByArrival BY DEF AInv
<1> QED BY <1>1, <1>2, <1>3, Invariance, PTL DEF Spec
=============================================================================
