---------------------------- MODULE FlightProofs -----------------------------
(***************************************************************************)
(* Proofs about Flight for any lengths, speeds and bounds.  A session with *)
(* places implements the session that leaves contacts to chance, so what   *)
(* is proved of GameSession holds for it; the geometry comes on top.       *)
(***************************************************************************)
EXTENDS Flight, GameSessionProofs

(* Every step of the session in space is one of the session.               *)
LEMMA FlightStepIsSessionStep ==
    ASSUME TypeOK, [FlightNext]_flightVars
    PROVE  [Next]_vars
PROOF
<1>0. players \subseteq Player BY DEF TypeOK
<1>1. CASE \E p \in Player \ players : Enter(p) BY <1>1 DEF Enter, Next
<1>2. CASE \E p \in players : Exit(p) BY <1>0, <1>2 DEF Exit, Next
<1>3. CASE \E p \in Player, seq \in 0 .. MaxSeq, move \in Move, aim \in Aim \cup {Origin} :
              Act(p, seq, move, aim)
  <2>1. \A aim \in Aim \cup {Origin} : (aim # Origin) \in BOOLEAN OBVIOUS
  <2>2. \E p \in Player, seq \in 0 .. MaxSeq, fire \in BOOLEAN : ApplyInput(p, seq, fire)
    BY <1>3, <2>1 DEF Act
  <2> QED BY <2>2 DEF Next
<1>4. CASE \E now \in elapsed .. elapsed + MaxDelta :
              /\ now <= MaxTime
              /\ \E contact \in [Flying(now) -> players \cup {Nobody}] :
                    TickInFlight(now, contact)
  <2>1. \A now : [Flying(now) -> players \cup {Nobody}]
                    \subseteq [Flying(now) -> Player \cup {Nobody}]
    BY <1>0
  <2>2. \E now \in elapsed .. elapsed + MaxDelta :
           /\ now <= MaxTime
           /\ \E contact \in [Flying(now) -> Player \cup {Nobody}] : Tick(now, contact)
    BY <1>4, <2>1 DEF TickInFlight
  <2> QED BY <2>2 DEF Next
<1>5. CASE ConsumeDeathEvents /\ UNCHANGED <<position, course>> BY <1>5 DEF Next
<1>6. CASE UNCHANGED flightVars BY <1>6 DEF flightVars
<1> QED BY <1>1, <1>2, <1>3, <1>4, <1>5, <1>6 DEF FlightNext

LEMMA SessionInvariance == FlightSpec => []IInv
PROOF
<1>1. FlightInit => IInv BY InitInvariant DEF FlightInit
<1>2. IInv => TypeOK BY DEF IInv
<1>3. IInv /\ [FlightNext]_flightVars => IInv'
  BY <1>2, FlightStepIsSessionStep, NextInvariant
<1> QED BY <1>1, <1>3, PTL DEF FlightSpec

(* GameSession in space implements GameSession, whatever the geometry.     *)
THEOREM FlightImplementsSession == FlightSpec => Spec
PROOF
<1>1. FlightInit => Init BY DEF FlightInit
<1>2. IInv => TypeOK BY DEF IInv
<1>3. IInv /\ [FlightNext]_flightVars => [Next]_vars BY <1>2, FlightStepIsSessionStep
<1> QED BY <1>1, <1>3, SessionInvariance, PTL DEF FlightSpec, Spec

-----------------------------------------------------------------------------
(* Vectors                                                                 *)

LEMMA Products == \A m, n \in Int : m * n \in Int
OBVIOUS

LEMMA VectorTypes ==
    ASSUME NEW a \in Point, NEW b \in Point, NEW k \in Int
    PROVE  /\ a.x \in Int /\ a.y \in Int
           /\ Plus(a, b) \in Point /\ Minus(a, b) \in Point /\ Scaled(k, a) \in Point
           /\ Dot(a, b) \in Int /\ Cross(a, b) \in Int
PROOF
<1>1. a.x \in Int /\ a.y \in Int /\ b.x \in Int /\ b.y \in Int BY DEF Point
<1>2. /\ k * a.x \in Int /\ k * a.y \in Int /\ a.x * b.x \in Int /\ a.y * b.y \in Int
      /\ a.x * b.y \in Int /\ a.y * b.x \in Int
  BY <1>1, Products
<1> QED BY <1>1, <1>2 DEF Plus, Minus, Scaled, Dot, Cross, Point

LEMMA OriginIsPoint == Origin \in Point /\ Aim \subseteq Point /\ Move \subseteq Point
BY FlightAssumption DEF Origin, Point

-----------------------------------------------------------------------------
(* Types and the ways of projectiles.                                      *)

FlightInv == IInv /\ FlightTypeOK /\ WayIsAge

LEMMA FlightInitInvariant == ASSUME FlightInit PROVE FlightInv
PROOF
<1>1. IInv BY InitInvariant DEF FlightInit
<1>2. projectiles = {} BY DEF FlightInit, Init
<1>3. FlightTypeOK
  <2>1. position \in [Player -> Point] BY OriginIsPoint DEF FlightInit
  <2>2. course \in [projectiles -> Course] BY <1>2 DEF FlightInit
  <2> QED BY <1>1, <2>1, <2>2 DEF IInv, FlightTypeOK
<1>4. WayIsAge BY <1>2 DEF WayIsAge
<1> QED BY <1>1, <1>3, <1>4 DEF FlightInv

(* Projectiles that stay where they were while no time passes keep their   *)
(* way.                                                                    *)
LEMMA WayKept ==
    ASSUME WayIsAge, UNCHANGED elapsed, projectiles' \subseteq projectiles,
           \A q \in projectiles' : course'[q] = course[q]
    PROVE  WayIsAge'
BY DEF WayIsAge

LEMMA LaunchedFacts ==
    ASSUME NEW p \in Player, NEW aim \in Aim, position' \in [Player -> Point]
    PROVE  /\ Launched(p, aim) \in Course
           /\ Launched(p, aim).from = position'[p]
           /\ Launched(p, aim).at = Plus(position'[p], Scaled(SpawnOffset, aim))
           /\ Launched(p, aim).dir = aim
PROOF
<1>1. aim \in Point /\ SpawnOffset \in Int /\ position'[p] \in Point
  BY OriginIsPoint, FlightAssumption
<1>2. Scaled(SpawnOffset, aim) \in Point BY <1>1, VectorTypes
<1>3. Plus(position'[p], Scaled(SpawnOffset, aim)) \in Point BY <1>1, <1>2, VectorTypes
<1> QED BY <1>1, <1>3 DEF Launched, Course

LEMMA ActInvariant ==
    ASSUME FlightInv, IInv', NEW p \in Player, NEW seq \in 0 .. MaxSeq,
           NEW move \in Move, NEW aim \in Aim \cup {Origin}, Act(p, seq, move, aim)
    PROVE  FlightTypeOK' /\ WayIsAge'
PROOF
<1> USE DEF FlightInv
<1>0. /\ TypeOK /\ TypeOK' /\ elapsed' = elapsed /\ position \in [Player -> Point]
  BY DEF IInv, Act, ApplyInput, FlightTypeOK
<1>1. Plus(position[p], move) \in Point BY <1>0, OriginIsPoint, VectorTypes
<1>2. position' \in [Player -> Point]
  <2>1. position' = position
        \/ position' = [position EXCEPT ![p] = Plus(position[p], move)]
    BY DEF Act
  <2> QED BY <1>0, <1>1, <2>1
<1>3. projectiles' = projectiles \/ (aim # Origin /\ projectiles' = projectiles \cup
          {[id |-> counter + 1, owner |-> p, spawned |-> elapsed]})
  BY DEF Act, ApplyInput, MayFire, SpawnProjectile
<1>4. course' = [q \in projectiles' |->
                    IF q \in projectiles THEN course[q] ELSE Launched(p, aim)]
  BY DEF Act
<1>5. \A q \in projectiles' \ projectiles : aim \in Aim /\ q.spawned = elapsed
  BY <1>3
<1>6. ASSUME NEW q \in projectiles' \ projectiles
      PROVE  /\ course'[q] = Launched(p, aim) /\ course'[q] \in Course
             /\ course'[q].at = Plus(course'[q].from, Scaled(SpawnOffset, course'[q].dir))
  BY <1>2, <1>4, <1>5, LaunchedFacts
<1>7. \A q \in projectiles : course[q] \in Course BY DEF FlightTypeOK
<1>8. FlightTypeOK' BY <1>0, <1>2, <1>4, <1>6, <1>7 DEF FlightTypeOK
<1>9. ASSUME NEW q \in projectiles'
      PROVE  /\ course'[q].at =
                    Plus(course'[q].from,
                         Scaled(SpawnOffset + Speed * (elapsed' - q.spawned),
                                course'[q].dir))
             /\ elapsed' - q.spawned < Lifetime
  <2>1. CASE q \in projectiles BY <1>0, <1>4, <1>9, <2>1 DEF WayIsAge
  <2>2. CASE q \notin projectiles
    <3>1. elapsed' - q.spawned = 0 /\ Speed \in Nat /\ SpawnOffset \in Nat
      BY <1>0, <1>5, <1>9, <2>2, FlightAssumption DEF TypeOK
    <3>2. SpawnOffset + Speed * (elapsed' - q.spawned) = SpawnOffset BY <3>1
    <3> QED BY <1>6, <1>9, <2>2, <3>1, <3>2, SessionAssumption
  <2> QED BY <2>1, <2>2
<1>10. WayIsAge' BY <1>9 DEF WayIsAge
<1> QED BY <1>8, <1>10

(* A stretch of flight adds to the way.                                    *)
LEMMA WayAdds ==
    ASSUME NEW from \in Point, NEW dir \in Point, NEW m \in Int, NEW n \in Int
    PROVE  Plus(Plus(from, Scaled(m, dir)), Scaled(n, dir)) = Plus(from, Scaled(m + n, dir))
PROOF
<1>1. from.x \in Int /\ from.y \in Int /\ dir.x \in Int /\ dir.y \in Int BY DEF Point
<1>2. \A f, d \in Int : (f + m * d) + n * d = f + (m + n) * d OBVIOUS
<1> QED BY <1>1, <1>2 DEF Plus, Scaled

LEMMA ArrivesFacts ==
    ASSUME FlightTypeOK, NEW now \in Int, NEW q \in projectiles
    PROVE  /\ course[q] \in Course /\ course[q].from \in Point
           /\ course[q].at \in Point /\ course[q].dir \in Point
           /\ Arrives(q, now) \in Point
PROOF
<1>1. /\ course[q] \in Course /\ course[q].from \in Point
      /\ course[q].at \in Point /\ course[q].dir \in Point
      /\ Speed \in Int /\ elapsed \in Int
  BY OriginIsPoint, FlightAssumption DEF FlightTypeOK, TypeOK, Course
<1>2. Speed * (now - elapsed) \in Int BY <1>1
<1>3. Scaled(Speed * (now - elapsed), course[q].dir) \in Point BY <1>1, <1>2, VectorTypes
<1> QED BY <1>1, <1>3, VectorTypes DEF Arrives

LEMMA TickFlightInvariant ==
    ASSUME FlightInv, IInv', NEW now \in Nat,
           NEW contact \in [Flying(now) -> players \cup {Nobody}],
           TickInFlight(now, contact)
    PROVE  FlightTypeOK' /\ WayIsAge'
PROOF
<1>1. /\ TypeOK' /\ FlightTypeOK /\ WayIsAge /\ elapsed' = now
      /\ projectiles' \subseteq Flying(now) /\ projectiles' \subseteq projectiles
      /\ position' = position
      /\ course' = [q \in projectiles' |-> [course[q] EXCEPT !.at = Arrives(q, now)]]
  BY DEF FlightInv, IInv, TickInFlight, Tick, Flying
<1>2. ASSUME NEW q \in projectiles'
      PROVE  /\ course[q] \in Course /\ course[q].from \in Point
             /\ course[q].dir \in Point /\ Arrives(q, now) \in Point
             /\ course'[q] \in Course /\ course'[q].at = Arrives(q, now)
             /\ course'[q].from = course[q].from /\ course'[q].dir = course[q].dir
  <2>1. /\ course[q] \in Course /\ course[q].from \in Point
        /\ course[q].dir \in Point /\ Arrives(q, now) \in Point
    BY <1>1, ArrivesFacts
  <2>2. course'[q] = [course[q] EXCEPT !.at = Arrives(q, now)] BY <1>1
  <2> QED BY <2>1, <2>2 DEF Course
<1>3. FlightTypeOK' BY <1>1, <1>2 DEF FlightTypeOK
<1>4. ASSUME NEW q \in projectiles'
      PROVE  /\ course'[q].at =
                    Plus(course'[q].from,
                         Scaled(SpawnOffset + Speed * (elapsed' - q.spawned),
                                course'[q].dir))
             /\ elapsed' - q.spawned < Lifetime
  <2> DEFINE flown == SpawnOffset + Speed * (elapsed - q.spawned)
             more == Speed * (now - elapsed)
             from == course[q].from
             dir == course[q].dir
  <2>1. /\ q.spawned \in Int /\ elapsed \in Int /\ q \in projectiles
        /\ SpawnOffset \in Int /\ Speed \in Int
    BY <1>1, <1>4, FlightAssumption DEF FlightTypeOK, TypeOK, Projectile
  <2>2. /\ flown \in Int /\ more \in Int /\ from \in Point /\ dir \in Point
        /\ flown + more = SpawnOffset + Speed * (now - q.spawned)
    BY <1>2, <2>1
  <2>3. course[q].at = Plus(from, Scaled(flown, dir))
    BY <1>1, <2>1 DEF WayIsAge
  <2>4. Arrives(q, now) = Plus(course[q].at, Scaled(more, dir)) BY DEF Arrives
  <2>5. elapsed' = now /\ now - q.spawned < Lifetime BY <1>1 DEF Flying
  <2>6. course'[q].at = Arrives(q, now) /\ course'[q].from = from /\ course'[q].dir = dir
    BY <1>2
  <2> HIDE DEF flown, more, from, dir
  <2>7. Plus(Plus(from, Scaled(flown, dir)), Scaled(more, dir))
            = Plus(from, Scaled(flown + more, dir))
    BY <2>2, WayAdds
  <2> QED BY <2>2, <2>3, <2>4, <2>5, <2>6, <2>7
<1>5. WayIsAge' BY <1>4 DEF WayIsAge
<1> QED BY <1>3, <1>5

LEMMA FlightNextInvariant ==
    ASSUME FlightInv, [FlightNext]_flightVars
    PROVE  FlightInv'
PROOF
<1>0. /\ IInv /\ TypeOK /\ FlightTypeOK /\ WayIsAge
      /\ \A q \in projectiles : course[q] \in Course
      /\ course \in [projectiles -> Course]
  BY DEF FlightInv, IInv, FlightTypeOK
<1>1. IInv' BY <1>0, FlightStepIsSessionStep, NextInvariant
<1>2. TypeOK' BY <1>1 DEF IInv
<1>3. CASE \E p \in Player \ players : Enter(p)
  <2>1. UNCHANGED <<projectiles, elapsed, position, course>>
    BY <1>3 DEF Enter, UpsertPlayer
  <2> QED BY <1>0, <1>1, <1>2, <2>1, WayKept DEF FlightTypeOK, FlightInv
<1>4. CASE \E p \in players : Exit(p)
  <2>1. PICK p \in players : Exit(p) BY <1>4
  <2>2. /\ projectiles' \subseteq projectiles /\ UNCHANGED elapsed
        /\ course' = [q \in projectiles' |-> course[q]]
        /\ position' = [position EXCEPT ![p] = Origin]
    BY <2>1 DEF Exit, RemovePlayer
  <2>3. position' \in [Player -> Point]
    <3>1. position \in [Player -> Point] BY <1>0 DEF FlightTypeOK
    <3>2. position' = [position EXCEPT ![p] = Origin] BY <2>2
    <3>3. p \in Player BY <1>0 DEF TypeOK
    <3> QED BY <3>1, <3>2, <3>3, OriginIsPoint
  <2>4. \A q \in projectiles' : q \in projectiles /\ course'[q] = course[q] BY <2>2
  <2>5. WayIsAge' BY <1>0, <2>2, <2>4, WayKept
  <2>6. course' \in [projectiles' -> Course]
    BY <1>0, <2>2, <2>4
  <2> QED BY <1>1, <1>2, <2>3, <2>5, <2>6 DEF FlightTypeOK, FlightInv
<1>5. CASE \E p \in Player, seq \in 0 .. MaxSeq, move \in Move, aim \in Aim \cup {Origin} :
              Act(p, seq, move, aim)
  BY <1>1, <1>5, ActInvariant DEF FlightInv
<1>6. CASE \E now \in elapsed .. elapsed + MaxDelta :
              /\ now <= MaxTime
              /\ \E contact \in [Flying(now) -> players \cup {Nobody}] :
                    TickInFlight(now, contact)
  <2>1. \A now \in elapsed .. elapsed + MaxDelta : now \in Nat
    BY <1>0, SessionAssumption DEF TypeOK
  <2> QED BY <1>1, <1>6, <2>1, TickFlightInvariant DEF FlightInv
<1>7. CASE ConsumeDeathEvents /\ UNCHANGED <<position, course>>
  <2>1. UNCHANGED <<projectiles, elapsed, position, course>>
    BY <1>7 DEF ConsumeDeathEvents
  <2> QED BY <1>0, <1>1, <1>2, <2>1, WayKept DEF FlightTypeOK, FlightInv
<1>8. CASE UNCHANGED flightVars
  <2>1. UNCHANGED <<projectiles, elapsed, position, course>>
    BY <1>8 DEF flightVars, vars
  <2> QED BY <1>0, <1>1, <1>2, <2>1, WayKept DEF FlightTypeOK, FlightInv
<1> QED BY <1>3, <1>4, <1>5, <1>6, <1>7, <1>8 DEF FlightNext

(* The strengthened invariant holds in every reachable state.              *)
THEOREM FlightInvariance == FlightSpec => []FlightInv
PROOF
<1>1. FlightInit => FlightInv BY FlightInitInvariant
<1>2. FlightInv /\ [FlightNext]_flightVars => FlightInv' BY FlightNextInvariant
<1> QED BY <1>1, <1>2, PTL DEF FlightSpec

(* Places and courses keep their types; every projectile has a course.     *)
THEOREM FlightTypeCorrect == FlightSpec => []FlightTypeOK
PROOF
<1>1. FlightInv => FlightTypeOK BY DEF FlightInv
<1> QED BY <1>1, FlightInvariance, PTL

(* A projectile's age says how far it has flown, however long the ticks    *)
(* were and wherever its owner went since; it never reaches its lifetime.  *)
THEOREM WayOfFlight == FlightSpec => []WayIsAge
PROOF
<1>1. FlightInv => WayIsAge BY DEF FlightInv
<1> QED BY <1>1, FlightInvariance, PTL

-----------------------------------------------------------------------------
(* The circle, the square around it and the chords through it.             *)

LEMMA PositiveProduct == \A a, b \in Int : a > 0 /\ b > 0 => a * b > 0
OBVIOUS

LEMMA LargerSquare ==
    ASSUME NEW a \in Int, NEW r \in Nat, a > r
    PROVE  a * a > r * r
PROOF
<1>1. a * (a - r) > 0 BY PositiveProduct
<1>2. (a - r) * r >= 0 OBVIOUS
<1>3. a * (a - r) = a * a - a * r /\ (a - r) * r = a * r - r * r OBVIOUS
<1>4. a * a \in Int /\ a * r \in Int /\ r * r \in Int BY Products
<1> QED BY <1>1, <1>2, <1>3, <1>4

LEMMA SideOfCircle ==
    ASSUME NEW a \in Int, NEW b \in Int, NEW r \in Nat, a * a + b * b <= r * r
    PROVE  a \in -r .. r
PROOF
<1>1. b * b >= 0 /\ a * a \in Int /\ b * b \in Int /\ r * r \in Int OBVIOUS
<1>2. CASE a > r BY <1>1, <1>2, LargerSquare
<1>3. CASE a < -r
  <2>1. -a \in Int /\ -a > r BY <1>3
  <2>2. (-a) * (-a) > r * r BY <2>1, LargerSquare
  <2>3. (-a) * (-a) = a * a OBVIOUS
  <2> QED BY <1>1, <2>2, <2>3
<1> QED BY <1>2, <1>3

(* The square that is tested first leaves out nobody in the circle.        *)
LEMMA TouchingIsReach ==
    ASSUME NEW q, NEW now, NEW p \in players,
           Arrives(q, now) \in Point, position[p] \in Point
    PROVE  p \in Touching(q, now) <=> InReach(Arrives(q, now), position[p])
PROOF
<1> DEFINE d == Minus(Arrives(q, now), position[p])
<1>1. d \in Point BY VectorTypes
<1>2. d.x \in Int /\ d.y \in Int BY <1>1 DEF Point
<1>3. Reach \in Nat BY FlightAssumption
<1>4. p \in Touching(q, now) <=> /\ d.x \in -Reach .. Reach /\ d.y \in -Reach .. Reach
                                 /\ Dot(d, d) <= Reach * Reach
  BY DEF Touching
<1>5. InReach(Arrives(q, now), position[p]) <=> Dot(d, d) <= Reach * Reach BY DEF InReach
<1> HIDE DEF d
<1>6. ASSUME Dot(d, d) <= Reach * Reach
      PROVE  d.x \in -Reach .. Reach /\ d.y \in -Reach .. Reach
  <2>1. d.x * d.x + d.y * d.y <= Reach * Reach BY <1>6 DEF Dot
  <2>2. d.y * d.y + d.x * d.x <= Reach * Reach
    <3>1. d.x * d.x \in Int /\ d.y * d.y \in Int BY <1>2, Products
    <3> QED BY <2>1, <3>1
  <2> QED BY <1>2, <1>3, <2>1, <2>2, SideOfCircle
<1> QED BY <1>4, <1>5, <1>6

LEMMA SquareOfSum ==
    ASSUME NEW a \in Int, NEW b \in Int, NEW k \in Int,
           a > 0, b > 0, a * a > k, b * b > k
    PROVE  (a + b) * (a + b) > 4 * k
PROOF
<1>1. a * b > k
  <2>1. CASE a >= b
    <3>1. (a - b) * b >= 0 BY <2>1
    <3>2. (a - b) * b = a * b - b * b OBVIOUS
    <3>3. a * b \in Int /\ b * b \in Int BY Products
    <3> QED BY <3>1, <3>2, <3>3
  <2>2. CASE b >= a
    <3>1. (b - a) * a >= 0 BY <2>2
    <3>2. (b - a) * a = a * b - a * a OBVIOUS
    <3>3. a * b \in Int /\ a * a \in Int BY Products
    <3> QED BY <3>1, <3>2, <3>3
  <2> QED BY <2>1, <2>2
<1>2. (a + b) * (a + b) = a * a + 2 * (a * b) + b * b OBVIOUS
<1>3. a * b \in Int /\ a * a \in Int /\ b * b \in Int BY Products
<1> QED BY <1>1, <1>2, <1>3

LEMMA Lagrange ==
    \A a, b, c, d \in Int :
        (a * c + b * d) * (a * c + b * d) + (a * d - b * c) * (a * d - b * c)
            = (a * a + b * b) * (c * c + d * d)
OBVIOUS

(* Who is passed by a step was out of reach at both of its ends: the chord *)
(* lies between them.                                                      *)
LEMMA PassedOnLongStep ==
    ASSUME NEW before \in Point, NEW after \in Point, NEW centre \in Point,
           FlewPast(before, after, centre)
    PROVE  LongerThanChord(before, after, centre)
PROOF
<1> DEFINE u == Minus(centre, before)
           v == Minus(centre, after)
           w == Minus(after, before)
           W == Dot(w, w)
           A == Dot(u, w)
           B == -Dot(v, w)
           off == Cross(u, w)
           R == Reach * Reach
           K == R * W - off * off
<1>1. u \in Point /\ v \in Point /\ w \in Point BY VectorTypes
<1>2. /\ u.x \in Int /\ u.y \in Int /\ v.x \in Int /\ v.y \in Int
      /\ w.x = u.x - v.x /\ w.y = u.y - v.y /\ w.x \in Int /\ w.y \in Int
  <2>1. /\ before.x \in Int /\ before.y \in Int /\ after.x \in Int /\ after.y \in Int
        /\ centre.x \in Int /\ centre.y \in Int
    BY DEF Point
  <2> QED BY <2>1 DEF Minus
<1>3. /\ W \in Int /\ A \in Int /\ B \in Int /\ off \in Int /\ R \in Int
      /\ Dot(u, u) \in Int /\ Dot(v, v) \in Int
  BY <1>1, VectorTypes, FlightAssumption
<1>4. A > 0 /\ B > 0 /\ Dot(u, u) > R /\ Dot(v, v) > R
  <2>1. /\ ~InReach(before, centre) /\ ~InReach(after, centre)
        /\ Dot(u, w) > 0 /\ Dot(v, w) < 0
    BY DEF FlewPast
  <2>2. Dot(Minus(before, centre), Minus(before, centre)) = Dot(u, u)
    <3>1. /\ Minus(before, centre).x = -u.x /\ Minus(before, centre).y = -u.y
      BY DEF Minus, Point
    <3>2. \A a \in Int : (-a) * (-a) = a * a OBVIOUS
    <3> HIDE DEF u
    <3> QED BY <1>2, <3>1, <3>2 DEF Dot
  <2>3. Dot(Minus(after, centre), Minus(after, centre)) = Dot(v, v)
    <3>1. /\ Minus(after, centre).x = -v.x /\ Minus(after, centre).y = -v.y
      BY DEF Minus, Point
    <3>2. \A a \in Int : (-a) * (-a) = a * a OBVIOUS
    <3> HIDE DEF v
    <3> QED BY <1>2, <3>1, <3>2 DEF Dot
  <2>4. ~(Dot(u, u) <= R) /\ ~(Dot(v, v) <= R) BY <2>1, <2>2, <2>3 DEF InReach
  <2>5. Dot(v, w) \in Int BY <1>1, VectorTypes
  <2> HIDE DEF u, v, w, R
  <2>6. A > 0 /\ B > 0 BY <2>1, <2>5
  <2> HIDE DEF A, B
  <2> QED BY <1>3, <2>4, <2>6
<1>5. A + B = W /\ Cross(v, w) = off
  <2> HIDE DEF u, v, w
  <2>1. /\ Dot(u, w) = u.x * w.x + u.y * w.y /\ Dot(v, w) = v.x * w.x + v.y * w.y
        /\ Dot(w, w) = w.x * w.x + w.y * w.y
        /\ Cross(u, w) = u.x * w.y - u.y * w.x /\ Cross(v, w) = v.x * w.y - v.y * w.x
    BY DEF Dot, Cross
  <2>2. \A a, b, c, d \in Int :
           /\ (a * (a - c) + b * (b - d)) + (-(c * (a - c) + d * (b - d)))
                = (a - c) * (a - c) + (b - d) * (b - d)
           /\ c * (b - d) - d * (a - c) = a * (b - d) - b * (a - c)
    OBVIOUS
  <2> QED BY <1>2, <2>1, <2>2
<1>6. A * A + off * off = Dot(u, u) * W /\ B * B + off * off = Dot(v, v) * W
  <2>1. A * A + off * off = Dot(u, u) * W
    <3> HIDE DEF u, v, w
    <3> QED BY <1>2, Lagrange DEF Dot, Cross
  <2>2. Dot(v, w) * Dot(v, w) + Cross(v, w) * Cross(v, w) = Dot(v, v) * W
    <3> HIDE DEF u, v, w
    <3> QED BY <1>2, Lagrange DEF Dot, Cross
  <2>3. B * B = Dot(v, w) * Dot(v, w)
    <3>1. \A a \in Int : (-a) * (-a) = a * a OBVIOUS
    <3>2. Dot(v, w) \in Int BY <1>1, VectorTypes
    <3> HIDE DEF v, w
    <3> QED BY <3>1, <3>2
  <2> HIDE DEF A, B, W, off
  <2> QED BY <1>5, <2>1, <2>2, <2>3
<1>7. Dot(u, u) * W > R * W /\ Dot(v, v) * W > R * W
  <2> DEFINE U == Dot(u, u)
             V == Dot(v, v)
  <2>1. /\ U \in Int /\ V \in Int /\ W \in Int /\ R \in Int
        /\ U > R /\ V > R /\ W > 0
    <3> HIDE DEF A, B, W, R, u, v
    <3> QED BY <1>3, <1>4, <1>5
  <2> HIDE DEF U, V, W, R
  <2>2. (U - R) * W > 0 /\ (V - R) * W > 0 BY <2>1, PositiveProduct
  <2>3. (U - R) * W = U * W - R * W /\ (V - R) * W = V * W - R * W BY <2>1
  <2>4. U * W \in Int /\ V * W \in Int /\ R * W \in Int BY <2>1, Products
  <2>5. U * W > R * W /\ V * W > R * W BY <2>2, <2>3, <2>4
  <2> QED BY <2>5 DEF U, V
<1>8. W * W > 4 * K
  <2> DEFINE U == Dot(u, u)
             V == Dot(v, v)
  <2>1. /\ A * A + off * off = U * W /\ B * B + off * off = V * W
        /\ U * W > R * W /\ V * W > R * W
        /\ U \in Int /\ V \in Int /\ A > 0 /\ B > 0
    BY <1>3, <1>4, <1>6, <1>7
  <2> HIDE DEF A, B, W, R, off, U, V
  <2>2. /\ A * A \in Int /\ B * B \in Int /\ off * off \in Int /\ U * W \in Int
        /\ V * W \in Int /\ R * W \in Int
    BY <1>3, <2>1, Products
  <2>3. A * A > K /\ B * B > K /\ K \in Int BY <2>1, <2>2
  <2> HIDE DEF K
  <2>4. (A + B) * (A + B) > 4 * K BY <1>3, <2>1, <2>3, SquareOfSum
  <2> QED BY <1>5, <2>4
<1> QED BY <1>8 DEF LongerThanChord

-----------------------------------------------------------------------------
(* What a tick does to players follows from the places.                    *)

LEMMA TickFacts ==
    ASSUME IInv, NEW now \in Nat,
           NEW contact \in [Flying(now) -> players \cup {Nobody}],
           TickInFlight(now, contact), NEW p \in players
    PROVE  /\ Sweep(now, contact)
           /\ \A q \in projectiles' : q \in Flying(now) /\ contact[q] = Nobody
           /\ \A q \in Flying(now) : contact[q] # Nobody => q \notin projectiles'
           /\ IsFiniteSet(HitsOn(contact, p))
           /\ runtime'[p].health = HealthAfter(p, HitsOn(contact, p))
PROOF
<1>1. /\ TypeOK /\ IdsAreUnique /\ DeathIsAnnouncedOnce
      /\ players \subseteq Player /\ Flying(now) \in SUBSET projectiles
      /\ runtime \in [Player -> Runtime]
  BY DEF IInv, TypeOK, Flying
<1>2. contact \in [Flying(now) -> Player \cup {Nobody}] BY <1>1
<1>3. Touches(contact) /\ Sweep(now, contact) BY DEF TickInFlight, Tick
<1>4. projectiles' = {q \in Flying(now) : contact[q] = Nobody}
  BY <1>2 DEF TickInFlight, Tick
<1>5. p \in Player /\ runtime'[p].health = HealthAfter(p, HitsOn(contact, p))
  BY <1>1 DEF TickInFlight, Tick, Runtime
<1>6. IsFiniteSet(HitsOn(contact, p)) BY <1>1, <1>2, <1>3, <1>5, HitsFacts
<1> QED BY <1>3, <1>4, <1>5, <1>6

(* Who loses health was in reach of a projectile that another fired.       *)
LEMMA HitInReach ==
    ASSUME IInv, FlightTypeOK, NEW now \in Nat,
           NEW contact \in [Flying(now) -> players \cup {Nobody}],
           TickInFlight(now, contact), NEW p \in players,
           runtime'[p].health < runtime[p].health
    PROVE  \E q \in Flying(now) \ projectiles' :
               q.owner # p /\ InReach(Arrives(q, now), position[p])
PROOF
<1>1. /\ TypeOK /\ players \subseteq Player /\ Nobody \notin Player
      /\ Flying(now) \subseteq projectiles /\ position[p] \in Point
  BY SessionAssumption DEF IInv, TypeOK, Flying, FlightTypeOK
<1>2. /\ Sweep(now, contact) /\ IsFiniteSet(HitsOn(contact, p))
      /\ runtime'[p].health = HealthAfter(p, HitsOn(contact, p))
      /\ \A q \in Flying(now) : contact[q] # Nobody => q \notin projectiles'
  BY TickFacts
<1>3. HitsOn(contact, p) # {}
  <2>1. SUFFICES ASSUME HitsOn(contact, p) = {} PROVE FALSE OBVIOUS
  <2>2. HealthAfter(p, HitsOn(contact, p)) = runtime[p].health
    BY <1>1, <1>2, <2>1, HealthAfterFacts
  <2>3. runtime[p].health \in Int BY <1>1, SessionAssumption DEF TypeOK, Runtime
  <2> QED BY <1>2, <2>2, <2>3
<1>4. PICK q \in Flying(now) : contact[q] = p BY <1>3 DEF HitsOn
<1>5. contact[q] # Nobody /\ q \notin projectiles' BY <1>1, <1>2, <1>4
<1>6. p \in Touching(q, now) \ {q.owner} BY <1>2, <1>4, <1>5 DEF Sweep
<1>7. Arrives(q, now) \in Point BY <1>1, ArrivesFacts
<1>8. InReach(Arrives(q, now), position[p]) BY <1>1, <1>6, <1>7, TouchingIsReach
<1> QED BY <1>5, <1>6, <1>8

(* A projectile that flies on arrived out of reach of everyone else who    *)
(* lives through the tick.                                                 *)
LEMMA FliesOnOutOfReach ==
    ASSUME IInv, FlightTypeOK, NEW now \in Nat,
           NEW contact \in [Flying(now) -> players \cup {Nobody}],
           TickInFlight(now, contact),
           NEW q \in projectiles', NEW p \in players,
           p # q.owner, runtime'[p].health > 0
    PROVE  ~InReach(Arrives(q, now), position[p])
PROOF
<1>1. /\ TypeOK /\ players \subseteq Player /\ Nobody \notin Player
      /\ Flying(now) \subseteq projectiles /\ position[p] \in Point
  BY SessionAssumption DEF IInv, TypeOK, Flying, FlightTypeOK
<1>2. /\ Sweep(now, contact) /\ IsFiniteSet(HitsOn(contact, p))
      /\ runtime'[p].health = HealthAfter(p, HitsOn(contact, p))
      /\ q \in Flying(now) /\ contact[q] = Nobody
  BY TickFacts
<1> DEFINE earlier == {e \in HitsOn(contact, p) : e.id < q.id}
           targets == {r \in Touching(q, now) \ {q.owner} :
                         HealthAfter(r, {e \in HitsOn(contact, r) : e.id < q.id}) > 0}
<1>3. HealthAfter(p, earlier) > 0
  <2>1. earlier \in SUBSET HitsOn(contact, p) OBVIOUS
  <2>2. IsFiniteSet(earlier) BY <1>2, <2>1, FS_Subset
  <2> HIDE DEF earlier
  <2>3. /\ HealthAfter(p, HitsOn(contact, p)) <= HealthAfter(p, earlier)
        /\ HealthAfter(p, HitsOn(contact, p)) \in 0 .. MaxHealth
        /\ HealthAfter(p, earlier) \in 0 .. MaxHealth
    BY <1>1, <1>2, <2>1, <2>2, HealthAfterFacts
  <2> QED BY <1>2, <2>3, SessionAssumption
<1>4. targets = {}
  <2>1. targets \subseteq players BY DEF Touching
  <2>2. Nobody \notin targets BY <1>1, <2>1
  <2>3. IF targets = {} THEN contact[q] = Nobody ELSE contact[q] \in targets
    BY <1>2 DEF Sweep
  <2> QED BY <1>2, <2>2, <2>3
<1>5. p \notin Touching(q, now) BY <1>3, <1>4
<1>6. Arrives(q, now) \in Point BY <1>1, <1>2, ArrivesFacts
<1> QED BY <1>1, <1>5, <1>6, TouchingIsReach

(* Hits and misses are those of the places, however long the tick: nobody  *)
(* loses health but in reach of another's projectile, and what flies on    *)
(* misses everyone it can see, or passes him on a step longer than the     *)
(* chord through his circle.                                               *)
THEOREM PlacesDecideContacts == FlightSpec => ContactDecides
PROOF
<1> DEFINE Decided ==
      elapsed' # elapsed =>
          /\ \A p \in players : runtime'[p].health < runtime[p].health =>
                \E q \in Flying(elapsed') \ projectiles' :
                    q.owner # p /\ InReach(Arrives(q, elapsed'), position[p])
          /\ \A q \in projectiles', p \in players :
                p # q.owner /\ runtime'[p].health > 0 =>
                    LET before == course[q].at
                        after  == course'[q].at
                    IN  /\ ~InReach(after, position[p])
                        /\ FlewPast(before, after, position[p]) =>
                               LongerThanChord(before, after, position[p])
<1>1. ASSUME FlightInv, [FlightNext]_flightVars PROVE Decided
  <2>0. /\ IInv /\ TypeOK /\ FlightTypeOK /\ players \subseteq Player
        /\ elapsed \in Nat /\ position \in [Player -> Point]
    BY <1>1 DEF FlightInv, IInv, TypeOK, FlightTypeOK
  <2>1. CASE UNCHANGED elapsed BY <2>1
  <2>2. CASE \E now \in elapsed .. elapsed + MaxDelta :
                /\ now <= MaxTime
                /\ \E contact \in [Flying(now) -> players \cup {Nobody}] :
                      TickInFlight(now, contact)
    <3>1. PICK now \in elapsed .. elapsed + MaxDelta :
                 \E contact \in [Flying(now) -> players \cup {Nobody}] :
                     TickInFlight(now, contact)
      BY <2>2
    <3>2. PICK contact \in [Flying(now) -> players \cup {Nobody}] :
                 TickInFlight(now, contact)
      BY <3>1
    <3>3. now \in Nat BY <2>0, SessionAssumption
    <3>4. /\ elapsed' = now /\ projectiles' \subseteq projectiles
          /\ course' = [q \in projectiles' |->
                           [course[q] EXCEPT !.at = Arrives(q, now)]]
      BY <3>2 DEF TickInFlight, Tick, Flying
    <3>5. ASSUME NEW p \in players, runtime'[p].health < runtime[p].health
          PROVE  \E q \in Flying(elapsed') \ projectiles' :
                     q.owner # p /\ InReach(Arrives(q, elapsed'), position[p])
      <4>1. \E q \in Flying(now) \ projectiles' :
                q.owner # p /\ InReach(Arrives(q, now), position[p])
        BY <2>0, <3>2, <3>3, <3>5, HitInReach
      <4> QED BY <3>4, <4>1
    <3>6. ASSUME NEW q \in projectiles', NEW p \in players,
                 p # q.owner, runtime'[p].health > 0
          PROVE  /\ ~InReach(course'[q].at, position[p])
                 /\ FlewPast(course[q].at, course'[q].at, position[p]) =>
                        LongerThanChord(course[q].at, course'[q].at, position[p])
      <4>1. ~InReach(Arrives(q, now), position[p])
        BY <2>0, <3>2, <3>3, <3>6, FliesOnOutOfReach
      <4>2. course[q].at \in Point /\ Arrives(q, now) \in Point /\ course[q] \in Course
        BY <2>0, <3>3, <3>4, <3>6, ArrivesFacts
      <4>3. course'[q].at = Arrives(q, now) BY <3>4, <3>6, <4>2 DEF Course
      <4>4. position[p] \in Point BY <2>0
      <4> QED BY <4>1, <4>2, <4>3, <4>4, PassedOnLongStep
    <3> QED BY <3>5, <3>6
  <2>3. CASE \E p \in Player \ players : Enter(p)
    BY <2>1, <2>3 DEF Enter, UpsertPlayer
  <2>4. CASE \E p \in players : Exit(p) BY <2>1, <2>4 DEF Exit, RemovePlayer
  <2>5. CASE \E p \in Player, seq \in 0 .. MaxSeq, move \in Move, aim \in Aim \cup {Origin} :
                Act(p, seq, move, aim)
    BY <2>1, <2>5 DEF Act, ApplyInput
  <2>6. CASE ConsumeDeathEvents /\ UNCHANGED <<position, course>>
    BY <2>1, <2>6 DEF ConsumeDeathEvents
  <2>7. CASE UNCHANGED flightVars BY <2>1, <2>7 DEF flightVars, vars
  <2> QED BY <1>1, <2>2, <2>3, <2>4, <2>5, <2>6, <2>7 DEF FlightNext
<1>2. FlightInv /\ [FlightNext]_flightVars => [Decided]_flightVars BY <1>1
<1> QED BY <1>2, FlightInvariance, PTL DEF FlightSpec, ContactDecides

-----------------------------------------------------------------------------
(* What GameSession promises holds for the session in space.               *)
THEOREM FlightCombat ==
    FlightSpec => /\ []HitsNeverExceedShots /\ []FireRateLimited
                  /\ EachDeathCountsOnce /\ TheDeadStayDead
BY FlightImplementsSession, AccuracyAtMostOne, RateLimited, DeathsCountOnce,
   DeadStayDead, PTL
=============================================================================
