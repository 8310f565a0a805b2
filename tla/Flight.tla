------------------------------- MODULE Flight --------------------------------
(***************************************************************************)
(* GameSession with its geometry: where players stand, where their         *)
(* projectiles fly and whom they therefore touch.  The choices that        *)
(* GameSession leaves open are made here by the places: an input moves a   *)
(* living player, a shot starts before the shooter, and a tick moves each  *)
(* projectile first and tests it only at the end of its way.               *)
(*                                                                         *)
(* Lengths are integers in a unit fine enough for them.  A direction is a  *)
(* vector of the length all have, so lengths along it (SpawnOffset, Speed) *)
(* count in multiples of that length.                                      *)
(***************************************************************************)
EXTENDS GameSession

CONSTANTS
    Aim,          \* directions in which players fire
    Move,         \* ways an input may move a player, none among them
    SpawnOffset,  \* kSpawnOffset
    Speed,        \* kSpeed_ of a projectile
    Reach,        \* kRadius_ + kPlayerRadius
    Places        \* bound on the places of players

Point == [x : Int, y : Int]

Plus(a, b)    == [x |-> a.x + b.x, y |-> a.y + b.y]
Minus(a, b)   == [x |-> a.x - b.x, y |-> a.y - b.y]
Scaled(k, a)  == [x |-> k * a.x, y |-> k * a.y]
Dot(a, b)     == a.x * b.x + a.y * b.y
Cross(a, b)   == a.x * b.y - a.y * b.x

Origin == [x |-> 0, y |-> 0]

ASSUME FlightAssumption ==
    /\ Aim \subseteq Point \ {Origin} /\ \A a, b \in Aim : Dot(a, a) = Dot(b, b)
    /\ Move \subseteq Point
    /\ SpawnOffset \in Nat /\ Speed \in Nat /\ Reach \in Nat
    /\ Places \subseteq Point /\ Origin \in Places

VARIABLES
    position,  \* state.x and state.y, the origin for those who are not there
    course     \* [projectiles -> where each was fired from, is, and heads to]

flightVars == <<vars, position, course>>

Course == [from : Point, at : Point, dir : Aim]

FlightInit ==
    /\ Init
    /\ position = [p \in Player |-> Origin]
    /\ course = [q \in {} |-> [from |-> Origin, at |-> Origin, dir |-> Origin]]

(* Everyone starts on the same spot.                                       *)
Enter(p) ==
    /\ UpsertPlayer(p)
    /\ UNCHANGED <<position, course>>

Exit(p) ==
    /\ RemovePlayer(p)
    /\ position' = [position EXCEPT ![p] = Origin]
    /\ course' = [q \in projectiles' |-> course[q]]

(* Mutant: the projectile starts where the player stood before the step.   *)
LaunchedBehind(p, aim) ==
    [from |-> position'[p], at |-> Plus(position[p], Scaled(SpawnOffset, aim)),
     dir |-> aim]

(* A projectile starts before the place the same input moved p to.         *)
Launched(p, aim) ==
    [from |-> position'[p], at |-> Plus(position'[p], Scaled(SpawnOffset, aim)),
     dir |-> aim]

(* Each input that is not dropped moves a living player, however many come *)
(* and however little time passes.  Without an aim none fires.             *)
Act(p, seq, move, aim) ==
    /\ Plus(position[p], move) \in Places
    /\ ApplyInput(p, seq, aim # Origin)
    /\ position' = IF Alive(p) THEN [position EXCEPT ![p] = Plus(@, move)]
                   ELSE position
    /\ course' = [q \in projectiles' |->
                     IF q \in projectiles THEN course[q] ELSE Launched(p, aim)]

-----------------------------------------------------------------------------
(* A tick.                                                                 *)

(* Projectile::Advance                                                     *)
Arrives(q, now) ==
    Plus(course[q].at, Scaled(Speed * (now - elapsed), course[q].dir))

(* Mutant: the square around the circle is enough.                         *)
TouchingSquare(q, now) ==
    {p \in players :
        LET d == Minus(Arrives(q, now), position[p])
        IN  d.x \in -Reach .. Reach /\ d.y \in -Reach .. Reach}

(* The square that is tested first contains the circle.                    *)
Touching(q, now) ==
    {p \in players :
        LET d == Minus(Arrives(q, now), position[p])
        IN  /\ d.x \in -Reach .. Reach /\ d.y \in -Reach .. Reach
            /\ Dot(d, d) <= Reach * Reach}

(* Each projectile in turn hits one of those it touches who are not its    *)
(* owner and still alive, if there are any; the order of players_ decides. *)
Sweep(now, contact) ==
    \A q \in DOMAIN contact :
        LET targets ==
              {p \in Touching(q, now) \ {q.owner} :
                  HealthAfter(p, {e \in HitsOn(contact, p) : e.id < q.id}) > 0}
        IN  IF targets = {} THEN contact[q] = Nobody ELSE contact[q] \in targets

TickInFlight(now, contact) ==
    /\ Sweep(now, contact)
    /\ Tick(now, contact)
    /\ course' = [q \in projectiles' |-> [course[q] EXCEPT !.at = Arrives(q, now)]]
    /\ UNCHANGED position

FlightNext ==
    \/ \E p \in Player \ players : Enter(p)
    \/ \E p \in players : Exit(p)
    \/ \E p \in Player, seq \in 0 .. MaxSeq, move \in Move, aim \in Aim \cup {Origin} :
          Act(p, seq, move, aim)
    \/ \E now \in elapsed .. elapsed + MaxDelta :
          /\ now <= MaxTime
          /\ \E contact \in [Flying(now) -> players \cup {Nobody}] :
                TickInFlight(now, contact)
    \/ ConsumeDeathEvents /\ UNCHANGED <<position, course>>

FlightSpec == FlightInit /\ [][FlightNext]_flightVars

-----------------------------------------------------------------------------
FlightTypeOK ==
    /\ TypeOK
    /\ position \in [Player -> Point]
    /\ course \in [projectiles -> Course]

(* The two clocks of a projectile agree: how far it has flown is what its  *)
(* age allows, whatever the ticks' lengths and wherever its owner went,    *)
(* and one that has reached the end of its life flies no more.             *)
WayIsAge ==
    \A q \in projectiles :
        /\ course[q].at =
               Plus(course[q].from,
                    Scaled(SpawnOffset + Speed * (elapsed - q.spawned), course[q].dir))
        /\ elapsed - q.spawned < Lifetime

InReach(a, b) == Dot(Minus(a, b), Minus(a, b)) <= Reach * Reach

(* A projectile that was out of reach before the player (centre) and is so *)
(* behind him after a step.                                                *)
FlewPast(before, after, centre) ==
    LET step == Minus(after, before)
    IN  /\ ~InReach(before, centre) /\ ~InReach(after, centre)
        /\ Dot(Minus(centre, before), step) > 0
        /\ Dot(Minus(centre, after), step) < 0

(* The step is longer than the chord that its line cuts out of the circle. *)
LongerThanChord(before, after, centre) ==
    LET step == Minus(after, before)
        way  == Dot(step, step)
        off  == Cross(Minus(centre, before), step)
    IN  way * way > 4 * (Reach * Reach * way - off * off)

(* What a tick of any length does to players follows from the places.  Who *)
(* loses health is in reach of a projectile of another player, young       *)
(* enough, where it arrived.  No projectile that flies on is in reach of   *)
(* another player who is left alive, and it has flown past him only on a   *)
(* step longer than the chord: when the tick was late, or when it grazed.  *)
ContactDecides ==
    [][elapsed' # elapsed =>
          /\ \A p \in players : runtime'[p].health < runtime[p].health =>
                \E q \in Flying(elapsed') \ projectiles' :
                    q.owner # p /\ InReach(Arrives(q, elapsed'), position[p])
          /\ \A q \in projectiles', p \in players :
                p # q.owner /\ runtime'[p].health > 0 =>
                    LET before == course[q].at
                        after  == course'[q].at
                    IN  /\ ~InReach(after, position[p])
                        /\ FlewPast(before, after, position[p]) =>
                               LongerThanChord(before, after, position[p])
      ]_flightVars
=============================================================================
