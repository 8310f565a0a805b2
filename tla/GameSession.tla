----------------------------- MODULE GameSession -----------------------------
(***************************************************************************)
(* Combat in a game session: who plays, who fires, which projectiles are   *)
(* in flight, and the hits and deaths of a tick.  Every method of          *)
(* GameSession holds mutex_ throughout, so each is one action.             *)
(*                                                                         *)
(* Geometry is left to chance: a tick may bring any projectile in flight   *)
(* into contact with any living player but its owner, or with nobody; the  *)
(* module Flight adds places.                                              *)
(* Time is an integer, in units that divide the cooldown and the lifetime. *)
(* What an input moves, and the log and metrics of combat, are left out.   *)
(***************************************************************************)
EXTENDS Integers, FiniteSets, Sequences

CONSTANTS
    Player,
    Nobody,     \* the contact of a projectile that touches no player
    MaxHealth,  \* of a HealthComponent (100)
    Damage,     \* kDamagePerHit (20)
    Cooldown,   \* kFireCooldown (0.1 s)
    Lifetime,   \* Projectile::kLifetime_ (1.5 s)
    MaxDelta,   \* bound on the seconds of one tick
    MaxTime,    \* bound on elapsed_time_
    MaxShots,   \* bound on projectile_counter_
    MaxSeq      \* bound on input sequence numbers

ASSUME SessionAssumption ==
    /\ IsFiniteSet(Player) /\ Nobody \notin Player
    /\ MaxHealth \in Nat \ {0} /\ Damage \in Nat \ {0}
    /\ Cooldown \in Nat \ {0} /\ Lifetime \in Nat \ {0}
    /\ MaxDelta \in Nat /\ MaxTime \in Nat /\ MaxShots \in Nat /\ MaxSeq \in Nat

VARIABLES
    players,      \* the keys of players_
    runtime,      \* [Player -> Runtime], as of a new player when not in players_
    projectiles,  \* projectiles_, a set: the vector is in the order of the ids
    elapsed,      \* elapsed_time_
    counter,      \* projectile_counter_, and so projectiles_spawned_total_
    deadTotal,    \* players_dead_total_
    pending,      \* pending_deaths_, a set likewise
    delivered,    \* how many events ConsumeDeathEvents has handed out
    fired         \* history: when each player fired, over all stays

vars == <<players, runtime, projectiles, elapsed, counter, deadTotal, pending,
          delivered, fired>>

(* is_alive is health > 0 throughout: it is refreshed with every change.   *)
Runtime ==
    [health : 0 .. MaxHealth, announced : BOOLEAN, lastFire : Int,
     lastSeq : 0 .. MaxSeq, shots : Nat, hits : Nat, deaths : Nat]

Projectile == [id : Nat, owner : Player, spawned : Nat]

DeathEvent == [projectile : Nat, shooter : Player, target : Player]

(* numeric_limits<double>::lowest(): any cooldown has passed since then.   *)
Lowest == -Cooldown

NewRuntime ==
    [health |-> MaxHealth, announced |-> FALSE, lastFire |-> Lowest,
     lastSeq |-> 0, shots |-> 0, hits |-> 0, deaths |-> 0]

Alive(p) == p \in players /\ runtime[p].health > 0

InFlight(p) == {q \in projectiles : q.owner = p}

-----------------------------------------------------------------------------
Init ==
    /\ players = {}
    /\ runtime = [p \in Player |-> NewRuntime]
    /\ projectiles = {}
    /\ elapsed = 0
    /\ counter = 0
    /\ deadTotal = 0
    /\ pending = {}
    /\ delivered = 0
    /\ fired = [p \in Player |-> <<>>]

(* A player who is there already is healed and may fire at once.           *)
UpsertPlayer(p) ==
    /\ players' = players \cup {p}
    /\ runtime' = [runtime EXCEPT ![p] =
                      IF p \in players
                      THEN [@ EXCEPT !.health = MaxHealth, !.announced = FALSE,
                                     !.lastFire = Lowest]
                      ELSE NewRuntime]
    /\ UNCHANGED <<projectiles, elapsed, counter, deadTotal, pending, delivered,
                   fired>>

RemovePlayer(p) ==
    /\ players' = players \ {p}
    /\ runtime' = [runtime EXCEPT ![p] = NewRuntime]
    /\ projectiles' = {q \in projectiles : q.owner # p}
    /\ UNCHANGED <<elapsed, counter, deadTotal, pending, delivered, fired>>

(* Mutant: no cooldown.                                                    *)
MayFireAtOnce(p, fire) == fire /\ Alive(p)

(* Mutant: is_alive is not tested.                                         *)
MayFireDead(p, fire) ==
    fire /\ elapsed - runtime[p].lastFire >= Cooldown

(* TrySpawnProjectile's tests; `fire' is a fire button with an aim.        *)
MayFire(p, fire) ==
    fire /\ Alive(p) /\ elapsed - runtime[p].lastFire >= Cooldown

SpawnProjectile(p) ==
    /\ counter < MaxShots
    /\ counter' = counter + 1
    /\ projectiles' = projectiles \cup
          {[id |-> counter', owner |-> p, spawned |-> elapsed]}

(* The input of an unknown player or with an old sequence number is        *)
(* dropped; any other is remembered and may fire.                          *)
ApplyInput(p, seq, fire) ==
    /\ p \in players
    /\ seq >= runtime[p].lastSeq
    /\ IF MayFire(p, fire)
       THEN /\ SpawnProjectile(p)
            /\ runtime' = [runtime EXCEPT ![p].lastSeq = seq,
                                          ![p].lastFire = elapsed,
                                          ![p].shots = @ + 1]
            /\ fired' = [fired EXCEPT ![p] = Append(@, elapsed)]
       ELSE /\ runtime' = [runtime EXCEPT ![p].lastSeq = seq]
            /\ UNCHANGED <<counter, projectiles, fired>>
    /\ UNCHANGED <<players, elapsed, deadTotal, pending, delivered>>

-----------------------------------------------------------------------------
(* A tick.  `contact' says whom each projectile touches, if anyone.        *)

Flying(now) == {q \in projectiles : now - q.spawned < Lifetime}

HitsOn(contact, p) == {q \in DOMAIN contact : contact[q] = p}

HitsBy(contact, p) == {q \in DOMAIN contact : q.owner = p /\ contact[q] # Nobody}

(* Mutant: no lower limit.                                                 *)
HealthAfterUnlimited(p, hits) == runtime[p].health - Damage * Cardinality(hits)

(* What health hits leave of p: ApplyDamage, once for each, stops at 0.    *)
HealthAfter(p, hits) ==
    IF runtime[p].health > Damage * Cardinality(hits)
    THEN runtime[p].health - Damage * Cardinality(hits)
    ELSE 0

(* Projectiles are taken in order: whoever they touch is in the session,   *)
(* does not own them, and is still alive after the hits before.            *)
Touches(contact) ==
    \A q \in DOMAIN contact : contact[q] # Nobody =>
        /\ contact[q] \in players \ {q.owner}
        /\ HealthAfter(contact[q], {e \in HitsOn(contact, contact[q]) : e.id < q.id}) > 0

(* Mutant: deaths are collected after all hits, one for each hit.          *)
FatalEveryHit(contact) ==
    {q \in DOMAIN contact :
        /\ contact[q] # Nobody
        /\ ~runtime[contact[q]].announced
        /\ HealthAfter(contact[q], HitsOn(contact, contact[q])) = 0}

(* The hits that take a player's last health, unless announced before.     *)
Fatal(contact) ==
    {q \in DOMAIN contact :
        /\ contact[q] # Nobody
        /\ ~runtime[contact[q]].announced
        /\ HealthAfter(contact[q], {e \in HitsOn(contact, contact[q]) : e.id <= q.id}) = 0}

Killed(contact) == {contact[q] : q \in Fatal(contact)}

(* Mutant: a projectile that hit stays active.                             *)
TickThrough(now, contact) ==
    /\ Touches(contact)
    /\ elapsed' = now
    /\ projectiles' = DOMAIN contact
    /\ runtime' = [p \in Player |->
          IF p \notin players THEN runtime[p]
          ELSE [runtime[p] EXCEPT
                  !.health    = HealthAfter(p, HitsOn(contact, p)),
                  !.announced = @ \/ p \in Killed(contact),
                  !.hits      = @ + Cardinality(HitsBy(contact, p)),
                  !.deaths    = IF p \in Killed(contact) THEN @ + 1 ELSE @]]
    /\ deadTotal' = deadTotal + Cardinality(Fatal(contact))
    /\ pending' = pending \cup
          {[projectile |-> q.id, shooter |-> q.owner, target |-> contact[q]] :
              q \in Fatal(contact)}
    /\ UNCHANGED <<players, counter, delivered, fired>>

(* UpdateProjectilesLocked.  Hits of an owner who left are credited to     *)
(* nobody.                                                                 *)
Tick(now, contact) ==
    /\ Touches(contact)
    /\ elapsed' = now
    /\ projectiles' = {q \in DOMAIN contact : contact[q] = Nobody}
    /\ runtime' = [p \in Player |->
          IF p \notin players THEN runtime[p]
          ELSE [runtime[p] EXCEPT
                  !.health    = HealthAfter(p, HitsOn(contact, p)),
                  !.announced = @ \/ p \in Killed(contact),
                  !.hits      = @ + Cardinality(HitsBy(contact, p)),
                  !.deaths    = IF p \in Killed(contact) THEN @ + 1 ELSE @]]
    /\ deadTotal' = deadTotal + Cardinality(Fatal(contact))
    /\ pending' = pending \cup
          {[projectile |-> q.id, shooter |-> q.owner, target |-> contact[q]] :
              q \in Fatal(contact)}
    /\ UNCHANGED <<players, counter, delivered, fired>>

ConsumeDeathEvents ==
    /\ delivered' = delivered + Cardinality(pending)
    /\ pending' = {}
    /\ UNCHANGED <<players, runtime, projectiles, elapsed, counter, deadTotal, fired>>

(* The server upserts a player only when no entry is there (NoGhosts of    *)
(* the module WebSocketServer).                                            *)
Next ==
    \/ \E p \in Player \ players : UpsertPlayer(p)
    \/ \E p \in Player : RemovePlayer(p)
    \/ \E p \in Player, seq \in 0 .. MaxSeq, fire \in BOOLEAN :
          ApplyInput(p, seq, fire)
    \/ \E now \in elapsed .. elapsed + MaxDelta :
          /\ now <= MaxTime
          /\ \E contact \in [Flying(now) -> Player \cup {Nobody}] : Tick(now, contact)
    \/ ConsumeDeathEvents

Spec == Init /\ [][Next]_vars

-----------------------------------------------------------------------------
TypeOK ==
    /\ players \in SUBSET Player
    /\ runtime \in [Player -> Runtime]
    /\ projectiles \in SUBSET Projectile
    /\ elapsed \in Nat /\ counter \in Nat
    /\ deadTotal \in Nat /\ delivered \in Nat
    /\ pending \in SUBSET DeathEvent
    /\ fired \in [Player -> Seq(Nat)]

(* Whoever shoots is still there when the projectile hits: leaving takes   *)
(* the projectiles along, so no hit is credited to nobody, and a player    *)
(* who comes back is not hit-credited for an earlier life.                 *)
ProjectilesHaveOwners == \A q \in projectiles : q.owner \in players

(* Each hit was a shot of the same life: accuracy never exceeds one, also  *)
(* counting the projectiles that may still hit.                            *)
HitsNeverExceedShots ==
    \A p \in Player :
        runtime[p].hits + Cardinality(InFlight(p)) <= runtime[p].shots

(* A player is dead exactly when the death was announced: several hits in  *)
(* one tick announce it once, and a new life can be announced again.       *)
DeathIsAnnouncedOnce ==
    \A p \in Player : runtime[p].announced <=> runtime[p].health = 0

(* Every death reaches the consumer exactly once, whoever has left since.  *)
EveryDeathIsDeliveredOnce == deadTotal = delivered + Cardinality(pending)

(* players_dead_total rises by the number of players whose health was used *)
(* up, however many hits met in that tick and whoever fired them.          *)
EachDeathCountsOnce ==
    [][deadTotal' - deadTotal =
          Cardinality({p \in players \cap players' :
                          runtime[p].health > 0 /\ runtime'[p].health = 0})]_vars

(* In one stay a player never fires faster than once in a cooldown, hit or *)
(* miss, whatever ticks lie between.  Leaving and coming back starts anew. *)
FireRateLimited ==
    \A p \in Player :
        LET last  == Len(fired[p])
            start == last - runtime[p].shots
        IN  \A i, j \in start + 1 .. last : i < j =>
                fired[p][j] - fired[p][i] >= Cooldown * (j - i)

(* The dead neither recover nor fire before they join again.               *)
TheDeadStayDead ==
    [][\A p \in players \cap players' :
          runtime[p].health = 0 =>
              runtime'[p].health = 0 /\ runtime'[p].shots = runtime[p].shots]_vars
=============================================================================
