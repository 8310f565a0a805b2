----------------------------- MODULE MatchStats ------------------------------
(***************************************************************************)
(* What becomes of a death: MatchStatsCollector makes a match result of    *)
(* the session's totals and its combat log, PlayerProfileService adds it   *)
(* to the profiles, rates both players and moves them on the leaderboard.  *)
(*                                                                         *)
(* The session is here as far as results depend on it: who is in it, with  *)
(* how much health (in hits), and the log.  Damage is counted in hits.     *)
(* Shots and hits landed, which are added up like deaths, are left out.    *)
(***************************************************************************)
EXTENDS Integers, Sequences, FiniteSetsExt

CONSTANTS
    Player,
    Health,       \* hits to a death
    LogCapacity,  \* of the combat log (32)
    MaxHits       \* bound on the hits of a behaviour

ASSUME StatsAssumption ==
    /\ IsFiniteSet(Player)
    /\ Health \in Nat \ {0} /\ LogCapacity \in Nat \ {0} /\ MaxHits \in Nat

VARIABLES
    players,    \* the keys of the session's players_
    health,     \* their health; as of a new player for others
    died,       \* their counter of deaths, likewise
    ticking,    \* a tick is under way
    log,        \* combat_log_
    pending,    \* pending_deaths_
    hits,       \* projectiles_hits_total_
    deadTotal,  \* players_dead_total_
    completed,  \* completed_matches of BroadcastState
    profiles,   \* aggregates_
    board,      \* the leaderboard: scores_ and ordered_
    recorded,   \* matches_recorded_total_
    updates     \* rating_updates_total_

session == <<players, health, died, ticking, log, pending, hits, deadTotal>>
service == <<profiles, board, recorded, updates>>
vars    == <<session, completed, service>>

Event == [type : {"hit", "death"}, shooter : Player, target : Player]

Totals == [kills : Nat, deaths : Nat, dealt : Nat, taken : Nat]

MatchResult ==
    [winner : Player, loser : Player,
     stats : UNION {[P -> Totals] : P \in SUBSET Player}]

Profile ==
    [matches : Nat, wins : Nat, losses : Nat, rating : Int,
     kills : Nat, deaths : Nat, dealt : Nat, taken : Nat]

(* A player starts at 1200 on first sight.                                 *)
NewProfile ==
    [matches |-> 0, wins |-> 0, losses |-> 0, rating |-> 1200,
     kills |-> 0, deaths |-> 0, dealt |-> 0, taken |-> 0]

EmptyBoard == [scores |-> <<>>, ordered |-> <<>>]

Init ==
    /\ players = {}
    /\ health = [p \in Player |-> Health]
    /\ died = [p \in Player |-> 0]
    /\ ticking = FALSE
    /\ log = <<>> /\ pending = <<>>
    /\ hits = 0 /\ deadTotal = 0
    /\ completed = <<>>
    /\ profiles = <<>>
    /\ board = EmptyBoard
    /\ recorded = 0 /\ updates = 0

-----------------------------------------------------------------------------
(* The session.  A tick and the handling of its deaths are one handler of  *)
(* the io_context: nobody joins or leaves in between.                      *)
Quiet == ~ticking /\ completed = <<>>

(* RegisterClient and UnregisterClient, as far as the session goes.        *)
JoinSession(p) ==
    /\ Quiet
    /\ p \notin players
    /\ players' = players \cup {p}
    /\ UNCHANGED <<health, died, ticking, log, pending, hits, deadTotal, completed,
                   service>>

LeaveSession(p) ==
    /\ Quiet
    /\ p \in players
    /\ players' = players \ {p}
    /\ health' = [health EXCEPT ![p] = Health]
    /\ died' = [died EXCEPT ![p] = 0]
    /\ UNCHANGED <<ticking, log, pending, hits, deadTotal, completed, service>>

(* CombatLog::Add                                                          *)
Add(events, e) ==
    IF Len(events) < LogCapacity THEN Append(events, e) ELSE Append(Tail(events), e)

(* A hit in the tick: a projectile of s meets t, who is alive.             *)
Hit(s, t) ==
    /\ completed = <<>>
    /\ hits < MaxHits
    /\ s \in players /\ t \in players \ {s} /\ health[t] > 0
    /\ ticking' = TRUE
    /\ hits' = hits + 1
    /\ health' = [health EXCEPT ![t] = @ - 1]
    /\ LET hit    == [type |-> "hit", shooter |-> s, target |-> t]
           death  == [hit EXCEPT !.type = "death"]
           struck == Add(log, hit)
       IN IF health[t] = 1
          THEN /\ log' = Add(struck, death)
               /\ pending' = Append(pending, death)
               /\ deadTotal' = deadTotal + 1
               /\ died' = [died EXCEPT ![t] = @ + 1]
          ELSE /\ log' = struck
               /\ UNCHANGED <<pending, deadTotal, died>>
    /\ UNCHANGED <<players, completed, service>>

-----------------------------------------------------------------------------
(* MatchStatsCollector                                                     *)

LoggedBy(type, p) == {i \in DOMAIN log : log[i].type = type /\ log[i].shooter = p}

LoggedOn(type, p) == {i \in DOMAIN log : log[i].type = type /\ log[i].target = p}

(* Everybody present, and everybody in the log.                            *)
Participants(death) ==
    players \cup {death.shooter, death.target}
            \cup {p \in Player : \E type \in {"hit", "death"} :
                                    LoggedBy(type, p) \cup LoggedOn(type, p) # {}}

AtLeastOne(n) == IF n = 0 THEN 1 ELSE n

(* The totals of p: deaths since joining, and all that the log still has,  *)
(* whichever duel it belongs to.  It has nothing of a later tick than the  *)
(* death, for the results of a tick are made before the next.              *)
TotalsOf(death, p) ==
    LET kills == Cardinality(LoggedBy("death", p))
        slain == p = death.target \/ LoggedOn("death", p) # {}
    IN [kills  |-> IF p = death.shooter THEN AtLeastOne(kills) ELSE kills,
        deaths |-> IF slain THEN AtLeastOne(died[p]) ELSE died[p],
        dealt  |-> Cardinality(LoggedBy("hit", p)),
        taken  |-> Cardinality(LoggedOn("hit", p))]

Collect(death) ==
    [winner |-> death.shooter, loser |-> death.target,
     stats  |-> [p \in Participants(death) |-> TotalsOf(death, p)]]

(* Mutant: only the first death of a tick is handled.                      *)
EndTickFirst ==
    /\ ticking
    /\ ticking' = FALSE
    /\ completed' = [i \in DOMAIN pending \cap {1} |-> Collect(pending[i])]
    /\ pending' = <<>>
    /\ UNCHANGED <<players, health, died, log, hits, deadTotal, service>>

(* The rest of BroadcastState: a result for each death, in order, all of   *)
(* them from the state after the tick.                                     *)
EndTick ==
    /\ ticking
    /\ ticking' = FALSE
    /\ completed' = [i \in DOMAIN pending |-> Collect(pending[i])]
    /\ pending' = <<>>
    /\ UNCHANGED <<players, health, died, log, hits, deadTotal, service>>

-----------------------------------------------------------------------------
(* EloRatingCalculator with K = 25.  The winner of a match gains           *)
(* 25 / (1 + 10^(d/400)) points, where d is how far the winner is ahead:   *)
(* at least n - 1/2 of them just when d is at most PointsUpTo[n].          *)
PointsUpTo ==
    <<676, 477, 381, 315, 263, 219, 181, 147, 115, 85, 56, 27, 0,
      -28, -57, -86, -116, -148, -182, -220, -264, -316, -382, -478, -677>>

Points(d) == Cardinality({n \in 1 .. 25 : d <= PointsUpTo[n]})

(* Mutant: a plain conversion to int.                                      *)
Truncated(h) == IF h > 0 THEN h \div 2 ELSE -((-h) \div 2)

(* lround of half the odd number h: away from zero.                        *)
Rounded(h) == IF h > 0 THEN (h + 1) \div 2 ELSE -((1 - h) \div 2)

(* Equal ratings move by 12.5; no other difference moves them by a half.   *)
Update(winner, loser) ==
    LET d == winner - loser
    IN IF d = 0
       THEN [winner |-> Rounded(2 * winner + 25), loser |-> Rounded(2 * loser - 25)]
       ELSE [winner |-> winner + Points(d), loser |-> loser - Points(d)]

-----------------------------------------------------------------------------
(* InMemoryLeaderboardStore                                                *)

RemoveFromOrdered(ordered, p, score) ==
    LET others == ordered[score] \ {p}
    IN [s \in {r \in DOMAIN ordered : r # score \/ others # {}} |->
           IF s = score THEN others ELSE ordered[s]]

Insert(ordered, p, score) ==
    [s \in DOMAIN ordered \cup {score} |->
        IF s # score THEN ordered[s]
        ELSE IF s \in DOMAIN ordered THEN ordered[s] \cup {p} ELSE {p}]

Score(scores, p, score) ==
    [q \in DOMAIN scores \cup {p} |-> IF q = p THEN score ELSE scores[q]]

(* Mutant: the entry under the former score stays.                         *)
PlaceTwice(b, p, score) ==
    [scores |-> Score(b.scores, p, score), ordered |-> Insert(b.ordered, p, score)]

(* Upsert: the former entry is taken out before the new one is put in.     *)
Place(b, p, score) ==
    LET known == p \in DOMAIN b.scores
        freed == IF known THEN RemoveFromOrdered(b.ordered, p, b.scores[p])
                          ELSE b.ordered
    IN IF known /\ b.scores[p] = score THEN b
       ELSE [scores |-> Score(b.scores, p, score), ordered |-> Insert(freed, p, score)]

(* RecordMatch: everyone in the result has played one more match, the      *)
(* totals are added, and the two of the duel are rated and ranked.         *)
RecordMatch ==
    /\ completed # <<>>
    /\ completed' = Tail(completed)
    /\ LET r      == Head(completed)
           before == [p \in DOMAIN profiles \cup DOMAIN r.stats |->
                        IF p \in DOMAIN profiles THEN profiles[p] ELSE NewProfile]
           summed == [p \in DOMAIN before |->
                        IF p \notin DOMAIN r.stats THEN before[p]
                        ELSE [before[p] EXCEPT
                                !.matches = @ + 1,
                                !.kills   = @ + r.stats[p].kills,
                                !.deaths  = @ + r.stats[p].deaths,
                                !.dealt   = @ + r.stats[p].dealt,
                                !.taken   = @ + r.stats[p].taken]]
           rated  == Update(before[r.winner].rating, before[r.loser].rating)
       IN /\ profiles' = [summed EXCEPT ![r.winner].wins   = @ + 1,
                                        ![r.winner].rating = rated.winner,
                                        ![r.loser].losses  = @ + 1,
                                        ![r.loser].rating  = rated.loser]
          /\ board' = Place(Place(board, r.winner, rated.winner), r.loser, rated.loser)
    /\ recorded' = recorded + 1
    /\ updates' = updates + 2
    /\ UNCHANGED session

Next ==
    \/ \E p \in Player : JoinSession(p) \/ LeaveSession(p)
    \/ \E s, t \in Player : Hit(s, t)
    \/ EndTick
    \/ RecordMatch

Spec == Init /\ [][Next]_vars

-----------------------------------------------------------------------------
TypeOK ==
    /\ players \in SUBSET Player
    /\ health \in [Player -> 0 .. Health] /\ died \in [Player -> Nat]
    /\ ticking \in BOOLEAN
    /\ log \in Seq(Event) /\ Len(log) <= LogCapacity
    /\ pending \in Seq(Event)
    /\ completed \in Seq(MatchResult)
    /\ DOMAIN profiles \in SUBSET Player
    /\ profiles \in [DOMAIN profiles -> Profile]
    /\ board.scores \in [DOMAIN board.scores -> Int]
    /\ DOMAIN board.ordered \in SUBSET Int
    /\ hits \in Nat /\ deadTotal \in Nat /\ recorded \in Nat /\ updates \in Nat

(* The sum of a column of the profiles.                                    *)
Sum(field) == MapThenSumSet(LAMBDA p : profiles[p][field], DOMAIN profiles)

(* The two indices of the leaderboard agree with each other and with the   *)
(* ratings: just the players who have won or lost are in it, each once,    *)
(* under the rating of the profile, and no rating has an empty set.  A     *)
(* player who is in two matches of one tick is moved twice.                *)
LeaderboardIsRanking ==
    /\ DOMAIN board.scores
          = {p \in DOMAIN profiles : profiles[p].wins + profiles[p].losses > 0}
    /\ \A p \in DOMAIN board.scores : board.scores[p] = profiles[p].rating
    /\ DOMAIN board.ordered = {board.scores[p] : p \in DOMAIN board.scores}
    /\ \A s \in DOMAIN board.ordered :
          board.ordered[s] = {p \in DOMAIN board.scores : board.scores[p] = s}

(* Each death is the end of one duel: it gives one win and one loss, in    *)
(* the end and on the way through pending_deaths_ and completed_matches.   *)
EveryDeathIsOneDuel ==
    /\ deadTotal = recorded + Len(completed) + Len(pending)
    /\ Sum("wins") = recorded /\ Sum("losses") = recorded

(* The points the players hold beyond the 1200 each one brought.           *)
Gained == Sum("rating") - 1200 * Cardinality(DOMAIN profiles)

RatingOf(p) == IF p \in DOMAIN profiles THEN profiles[p].rating ELSE 1200

(* Rating moves points from loser to winner.  The two are rounded apart,   *)
(* which tells only between equals, who move by a half: away from zero     *)
(* makes a point of that match, or takes one from two who have both fallen *)
(* to -13 or below.  Nothing else makes or takes points, newcomers and     *)
(* several matches of one tick included.                                   *)
RatingsAreConserved ==
    [][Gained' # Gained =>
          /\ completed # <<>>
          /\ LET r == Head(completed)
             IN /\ RatingOf(r.winner) = RatingOf(r.loser)
                /\ Gained' = Gained + (IF RatingOf(r.winner) > -13 THEN 1 ELSE -1)]_vars

(* "Maintains cumulative totals for [...] kills": one for each duel won,   *)
(* between ticks.                                                          *)
KillsAreCumulative ==
    Quiet => \A p \in DOMAIN profiles : profiles[p].kills = profiles[p].wins
=============================================================================
