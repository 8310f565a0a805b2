-------------------------- MODULE GameSessionProofs --------------------------
(***************************************************************************)
(* Proofs about GameSession for any players, health, damage, cooldown and  *)
(* lifetime, and any bounds.                                               *)
(***************************************************************************)
EXTENDS GameSession, FiniteSetTheorems, SequenceTheorems, WellFoundedInduction,
        TLAPS

(* Who is not in players_ has the runtime of a new player.                 *)
AbsentAreNew == \A p \in Player \ players : runtime[p] = NewRuntime

(* Ids are unique, and never those of a projectile that has killed.        *)
IdsAreUnique ==
    /\ IsFiniteSet(projectiles) /\ IsFiniteSet(pending)
    /\ \A q \in projectiles : q.id <= counter
    /\ \A q, r \in projectiles : q.id = r.id => q = r
    /\ \A d \in pending : d.projectile <= counter
    /\ \A d \in pending, q \in projectiles : d.projectile # q.id

(* The shots of this stay are the latest, and last_fire_time is that of    *)
(* the last of them.                                                       *)
LastFireIsLatest ==
    \A p \in Player :
        /\ runtime[p].shots <= Len(fired[p])
        /\ runtime[p].shots > 0 => fired[p][Len(fired[p])] = runtime[p].lastFire

IInv ==
    /\ TypeOK /\ AbsentAreNew /\ IdsAreUnique /\ LastFireIsLatest
    /\ ProjectilesHaveOwners /\ HitsNeverExceedShots /\ DeathIsAnnouncedOnce
    /\ EveryDeathIsDeliveredOnce /\ FireRateLimited

-----------------------------------------------------------------------------
(* Arithmetic of damage.                                                   *)
LEMMA TimesMonotonic ==
    ASSUME NEW d \in Nat, NEW m \in Nat, NEW n \in Nat, m <= n
    PROVE  d * m \in Nat /\ d * n \in Nat /\ d * m <= d * n
PROOF
<1>1. n - m \in Nat OBVIOUS
<1>2. d * n = d * m + d * (n - m) OBVIOUS
<1>3. d * m \in Nat /\ d * (n - m) \in Nat BY <1>1
<1> QED BY <1>2, <1>3

(* More hits never leave more health, and none leaves it as it was.        *)
LEMMA HealthAfterFacts ==
    ASSUME TypeOK, NEW p \in Player, NEW S, IsFiniteSet(S), NEW T \in SUBSET S
    PROVE  /\ HealthAfter(p, S) \in 0 .. MaxHealth
           /\ HealthAfter(p, S) <= runtime[p].health
           /\ HealthAfter(p, S) <= HealthAfter(p, T)
           /\ S = {} => HealthAfter(p, S) = runtime[p].health
PROOF
<1> DEFINE h == runtime[p].health
           m == Cardinality(T)
           n == Cardinality(S)
<1>1. h \in 0 .. MaxHealth /\ MaxHealth \in Nat /\ Damage \in Nat
  BY SessionAssumption DEF TypeOK, Runtime
<1>2. m \in Nat /\ n \in Nat /\ m <= n
  BY FS_Subset, FS_CardinalityType
<1>3. S = {} => n = 0 BY FS_EmptySet
<1>4. Damage * m \in Nat /\ Damage * n \in Nat /\ Damage * m <= Damage * n
  BY <1>1, <1>2, TimesMonotonic
<1>5. n = 0 => Damage * n = 0 BY <1>1
<1>6. HealthAfter(p, S) = IF h > Damage * n THEN h - Damage * n ELSE 0
  BY DEF HealthAfter
<1>7. HealthAfter(p, T) = IF h > Damage * m THEN h - Damage * m ELSE 0
  BY DEF HealthAfter
<1> HIDE DEF h, m, n
<1>8. DEFINE a == Damage * m
             b == Damage * n
<1> HIDE DEF a, b
<1>9. a \in Nat /\ b \in Nat /\ a <= b /\ (S = {} => b = 0)
  BY <1>3, <1>4, <1>5 DEF a, b
<1>10. /\ HealthAfter(p, S) = IF h > b THEN h - b ELSE 0
       /\ HealthAfter(p, T) = IF h > a THEN h - a ELSE 0
  BY <1>6, <1>7 DEF a, b
<1>11. /\ HealthAfter(p, S) \in 0 .. MaxHealth
       /\ HealthAfter(p, S) <= h
       /\ HealthAfter(p, S) <= HealthAfter(p, T)
       /\ S = {} => HealthAfter(p, S) = h
  BY <1>1, <1>9, <1>10
<1> QED BY <1>11 DEF h

LEMMA DisjointUnion ==
    ASSUME NEW S, NEW T, IsFiniteSet(S), IsFiniteSet(T), S \cap T = {}
    PROVE  /\ Cardinality(S) \in Nat /\ Cardinality(T) \in Nat
           /\ Cardinality(S \cup T) = Cardinality(S) + Cardinality(T)
PROOF
<1>1. Cardinality(S) \in Nat /\ Cardinality(T) \in Nat BY FS_CardinalityType
<1>2. Cardinality(S \cap T) = 0 BY FS_EmptySet
<1>3. Cardinality(S \cup T) = Cardinality(S) + Cardinality(T) - Cardinality(S \cap T)
  BY FS_Union
<1> QED BY <1>1, <1>2, <1>3

(* A non-empty finite set of projectiles has one with the greatest id.     *)
LEMMA LastProjectile ==
    ASSUME NEW c \in Nat, NEW S, S # {}, \A q \in S : q.id \in Nat /\ q.id <= c
    PROVE  \E q \in S : \A r \in S : r.id <= q.id
PROOF
<1> DEFINE T == {n \in Nat : \E q \in S : n = c - q.id}
<1>1. PICK q0 \in S : TRUE OBVIOUS
<1>2. c - q0.id \in T BY <1>1
<1>3. T \subseteq Nat /\ T # {} BY <1>2
<1>4. PICK n \in T : \A m \in T : ~(<<m, n>> \in OpToRel(<, Nat))
  <2> HIDE DEF T
  <2> QED BY <1>3, NatLessThanWellFounded, WFMin
<1>5. \A m \in T : ~(m < n)
  BY <1>3, <1>4 DEF OpToRel
<1>6. PICK q \in S : n = c - q.id BY <1>4
<1>7. ASSUME NEW r \in S PROVE r.id <= q.id
  <2>1. c - r.id \in T BY <1>7
  <2>2. ~(c - r.id < n) BY <1>5, <2>1
  <2> QED BY <1>6, <2>2
<1> QED BY <1>6, <1>7
-----------------------------------------------------------------------------
(* What a tick does to one player: a finite number of hits; dead after it  *)
(* and not before it exactly when one hit was fatal; and only one was.     *)
LEMMA HitsFacts ==
    ASSUME TypeOK, IdsAreUnique, DeathIsAnnouncedOnce,
           NEW D \in SUBSET projectiles,
           NEW contact \in [D -> Player \cup {Nobody}], Touches(contact)
    PROVE  /\ IsFiniteSet(DOMAIN contact)
           /\ \A p \in Player : /\ IsFiniteSet(HitsOn(contact, p))
                                 /\ IsFiniteSet(HitsBy(contact, p))
           /\ Killed(contact) = {p \in players :
                                   /\ runtime[p].health > 0
                                   /\ HealthAfter(p, HitsOn(contact, p)) = 0}
           /\ \A q, r \in Fatal(contact) : contact[q] = contact[r] => q = r
PROOF
<1> USE SessionAssumption
<1>0. D = DOMAIN contact OBVIOUS
<1>1. IsFiniteSet(DOMAIN contact) BY <1>0, FS_Subset DEF IdsAreUnique
<1>2. \A p \in Player : /\ IsFiniteSet(HitsOn(contact, p))
                        /\ IsFiniteSet(HitsBy(contact, p))
  BY <1>1, FS_Subset DEF HitsOn, HitsBy
<1> DEFINE Before(q) == {e \in HitsOn(contact, contact[q]) : e.id < q.id}
           UpTo(q)   == {e \in HitsOn(contact, contact[q]) : e.id <= q.id}
<1>3. \A q \in D : q.id \in Nat BY DEF TypeOK, Projectile
<1>4. ASSUME NEW q \in D, contact[q] # Nobody
      PROVE  /\ contact[q] \in Player /\ contact[q] \in players
             /\ HealthAfter(contact[q], Before(q)) > 0
             /\ runtime[contact[q]].health > 0
             /\ ~runtime[contact[q]].announced
             /\ IsFiniteSet(UpTo(q)) /\ IsFiniteSet(Before(q))
  <2>1. contact[q] \in Player /\ contact[q] \in players BY <1>4 DEF Touches
  <2>2. HealthAfter(contact[q], Before(q)) > 0 BY <1>4 DEF Touches
  <2>3. IsFiniteSet(UpTo(q)) /\ IsFiniteSet(Before(q))
    <3>1. UpTo(q) \in SUBSET HitsOn(contact, contact[q]) OBVIOUS
    <3>2. Before(q) \in SUBSET HitsOn(contact, contact[q]) OBVIOUS
    <3> QED BY <2>1, <1>2, <3>1, <3>2, FS_Subset
  <2>4. runtime[contact[q]].health > 0
    <3> HIDE DEF Before
    <3>1. HealthAfter(contact[q], Before(q)) <= runtime[contact[q]].health
      BY <2>1, <2>3, HealthAfterFacts
    <3>2. HealthAfter(contact[q], Before(q)) \in 0 .. MaxHealth
      BY <2>1, <2>3, HealthAfterFacts
    <3>3. runtime[contact[q]].health \in 0 .. MaxHealth
      BY <2>1 DEF TypeOK, Runtime
    <3> QED BY <2>2, <3>1, <3>2, <3>3
  <2>5. ~runtime[contact[q]].announced
    BY <2>1, <2>4 DEF DeathIsAnnouncedOnce
  <2> QED BY <2>1, <2>2, <2>3, <2>4, <2>5
<1>5. ASSUME NEW q \in Fatal(contact)
      PROVE  /\ q \in D /\ contact[q] # Nobody
             /\ HealthAfter(contact[q], UpTo(q)) = 0
  BY DEF Fatal
<1>6. ASSUME NEW q \in Fatal(contact)
      PROVE  /\ contact[q] \in players /\ runtime[contact[q]].health > 0
             /\ HealthAfter(contact[q], HitsOn(contact, contact[q])) = 0
  <2>1. /\ q \in D /\ contact[q] # Nobody
        /\ HealthAfter(contact[q], UpTo(q)) = 0
    BY <1>5
  <2>2. contact[q] \in Player /\ contact[q] \in players
        /\ runtime[contact[q]].health > 0
    BY <2>1, <1>4
  <2>3. UpTo(q) \in SUBSET HitsOn(contact, contact[q]) OBVIOUS
  <2>4. IsFiniteSet(HitsOn(contact, contact[q])) BY <2>2, <1>2
  <2>5. /\ HealthAfter(contact[q], HitsOn(contact, contact[q])) \in 0 .. MaxHealth
        /\ HealthAfter(contact[q], HitsOn(contact, contact[q]))
              <= HealthAfter(contact[q], UpTo(q))
    <3> HIDE DEF UpTo
    <3> QED BY <2>2, <2>3, <2>4, HealthAfterFacts
  <2> QED BY <2>1, <2>2, <2>5
<1>7. ASSUME NEW p \in players, runtime[p].health > 0,
             HealthAfter(p, HitsOn(contact, p)) = 0
      PROVE  p \in Killed(contact)
  <2>0. p \in Player BY DEF TypeOK
  <2>1. HitsOn(contact, p) # {}
    <3>1. SUFFICES ASSUME HitsOn(contact, p) = {} PROVE FALSE OBVIOUS
    <3>2. HealthAfter(p, HitsOn(contact, p)) = runtime[p].health
      BY <2>0, <3>1, <1>2, HealthAfterFacts
    <3> QED BY <1>7, <3>2
  <2>2. \A q \in HitsOn(contact, p) : q.id \in Nat /\ q.id <= counter
    BY <1>3 DEF HitsOn, IdsAreUnique
  <2>3. PICK q \in HitsOn(contact, p) : \A r \in HitsOn(contact, p) : r.id <= q.id
    BY <2>1, <2>2, LastProjectile DEF TypeOK
  <2>4. q \in D /\ contact[q] = p BY DEF HitsOn
  <2>5. UpTo(q) = HitsOn(contact, p) BY <2>3, <2>4
  <2>6. contact[q] # Nobody BY <2>0, <2>4
  <2>7. q \in Fatal(contact)
    <3>1. ~runtime[contact[q]].announced BY <1>4, <2>4, <2>6
    <3>2. HealthAfter(contact[q], UpTo(q)) = 0 BY <1>7, <2>4, <2>5
    <3> QED BY <2>4, <2>6, <3>1, <3>2 DEF Fatal
  <2> QED BY <2>4, <2>7 DEF Killed
<1>8. Killed(contact) = {p \in players :
                           /\ runtime[p].health > 0
                           /\ HealthAfter(p, HitsOn(contact, p)) = 0}
  BY <1>6, <1>7 DEF Killed
<1>9. ASSUME NEW q \in Fatal(contact), NEW r \in Fatal(contact),
             contact[q] = contact[r], q.id < r.id
      PROVE  FALSE
  <2>1. q \in D /\ r \in D /\ contact[r] # Nobody
        /\ HealthAfter(contact[q], UpTo(q)) = 0
    BY <1>5
  <2>2. /\ contact[r] \in Player /\ IsFiniteSet(Before(r))
        /\ HealthAfter(contact[r], Before(r)) > 0
    BY <2>1, <1>4
  <2>3. q.id \in Nat /\ r.id \in Nat BY <2>1, <1>3
  <2>4. UpTo(q) \in SUBSET Before(r)
    <3>1. \A e \in HitsOn(contact, contact[r]) : e.id \in Nat
      BY <1>3 DEF HitsOn
    <3> QED BY <1>9, <2>3, <3>1
  <2>5. HealthAfter(contact[r], Before(r)) <= HealthAfter(contact[r], UpTo(q))
    <3> HIDE DEF Before, UpTo
    <3> QED BY <2>2, <2>4, HealthAfterFacts
  <2> QED
    <3> HIDE DEF Before, UpTo
    <3>1. HealthAfter(contact[r], Before(r)) \in 0 .. MaxHealth
      BY <2>2, HealthAfterFacts
    <3> QED BY <1>9, <2>1, <2>2, <2>5, <3>1
<1>10. ASSUME NEW q \in Fatal(contact), NEW r \in Fatal(contact),
              contact[q] = contact[r]
       PROVE  q = r
  <2>1. q \in projectiles /\ r \in projectiles BY <1>5
  <2>2. q.id \in Nat /\ r.id \in Nat BY <1>5, <1>3
  <2>3. q.id = r.id BY <1>9, <1>10, <2>2
  <2> QED BY <2>1, <2>3 DEF IdsAreUnique
<1> QED BY <1>1, <1>2, <1>8, <1>10
-----------------------------------------------------------------------------
LEMMA InitInvariant == ASSUME Init PROVE IInv
PROOF
<1> USE SessionAssumption DEF Init
<1>1. NewRuntime \in Runtime BY DEF NewRuntime, Runtime, Lowest
<1>2. TypeOK BY <1>1, EmptySeq DEF TypeOK
<1>3. AbsentAreNew /\ ProjectilesHaveOwners
  BY DEF AbsentAreNew, ProjectilesHaveOwners
<1>9. LastFireIsLatest /\ FireRateLimited
  <2>1. \A p \in Player : Len(fired[p]) = 0 /\ runtime[p].shots = 0
    BY EmptySeq DEF NewRuntime
  <2> QED BY <2>1 DEF LastFireIsLatest, FireRateLimited
<1>4. IdsAreUnique BY FS_EmptySet DEF IdsAreUnique
<1>5. EveryDeathIsDeliveredOnce BY FS_EmptySet DEF EveryDeathIsDeliveredOnce
<1>6. HitsNeverExceedShots
  <2>1. \A p \in Player : InFlight(p) = {} BY DEF InFlight
  <2>2. \A p \in Player : Cardinality(InFlight(p)) = 0 BY <2>1, FS_EmptySet
  <2>3. \A p \in Player : runtime[p].hits = 0 /\ runtime[p].shots = 0
    BY DEF NewRuntime
  <2> QED BY <2>2, <2>3 DEF HitsNeverExceedShots
<1>7. DeathIsAnnouncedOnce BY DEF DeathIsAnnouncedOnce, NewRuntime
<1> QED BY <1>2, <1>3, <1>4, <1>5, <1>6, <1>7, <1>9 DEF IInv

LEMMA NewRuntimeFacts ==
    /\ NewRuntime \in Runtime
    /\ NewRuntime.health = MaxHealth /\ MaxHealth > 0
    /\ NewRuntime.announced = FALSE
    /\ NewRuntime.hits = 0 /\ NewRuntime.shots = 0
PROOF BY SessionAssumption DEF NewRuntime, Runtime, Lowest

(* What neither fires nor joins keeps the shots as they were, or forgets   *)
(* them with the player.                                                   *)
LEMMA RateKept ==
    ASSUME IInv, fired' = fired,
           \A p \in Player :
              \/ /\ runtime'[p].shots = runtime[p].shots
                 /\ runtime'[p].lastFire = runtime[p].lastFire
              \/ runtime'[p] = NewRuntime
    PROVE  LastFireIsLatest' /\ FireRateLimited'
PROOF
<1> SUFFICES ASSUME NEW p \in Player
             PROVE  /\ runtime'[p].shots <= Len(fired[p])
                    /\ runtime'[p].shots > 0 =>
                          fired[p][Len(fired[p])] = runtime'[p].lastFire
                    /\ \A i, j \in Len(fired[p]) - runtime'[p].shots + 1 .. Len(fired[p]) :
                          i < j => fired[p][j] - fired[p][i] >= Cooldown * (j - i)
  BY DEF LastFireIsLatest, FireRateLimited
<1>1. CASE /\ runtime'[p].shots = runtime[p].shots
           /\ runtime'[p].lastFire = runtime[p].lastFire
  BY <1>1 DEF IInv, LastFireIsLatest, FireRateLimited
<1>2. CASE runtime'[p] = NewRuntime
  <2>1. Len(fired[p]) \in Nat BY LenProperties DEF IInv, TypeOK
  <2>2. runtime'[p].shots = 0 BY <1>2, NewRuntimeFacts
  <2> QED BY <2>1, <2>2
<1> QED BY <1>1, <1>2

(* A player joins: with a new runtime, and nothing of theirs in flight.    *)
LEMMA UpsertInvariant ==
    ASSUME IInv, NEW p \in Player \ players, UpsertPlayer(p)
    PROVE  IInv'
PROOF
<1>1. /\ players' = players \cup {p}
      /\ runtime' = [runtime EXCEPT ![p] = NewRuntime]
      /\ UNCHANGED <<projectiles, elapsed, counter, deadTotal, pending, delivered,
                     fired>>
  BY DEF UpsertPlayer
<1>2. runtime' = runtime
  <2>1. runtime[p] = NewRuntime BY DEF IInv, AbsentAreNew
  <2> QED BY <1>1, <2>1 DEF IInv, TypeOK
<1>3. TypeOK' BY <1>1, <1>2 DEF IInv, TypeOK
<1>4. AbsentAreNew' BY <1>1, <1>2 DEF IInv, AbsentAreNew
<1>5. ProjectilesHaveOwners' BY <1>1 DEF IInv, ProjectilesHaveOwners
<1>6. IdsAreUnique' /\ LastFireIsLatest' /\ FireRateLimited'
  BY <1>1, <1>2, RateKept DEF IInv, IdsAreUnique
<1>7. HitsNeverExceedShots' /\ DeathIsAnnouncedOnce' /\ EveryDeathIsDeliveredOnce'
  BY <1>1, <1>2
  DEF IInv, HitsNeverExceedShots, DeathIsAnnouncedOnce, EveryDeathIsDeliveredOnce,
      InFlight
<1> QED BY <1>3, <1>4, <1>5, <1>6, <1>7 DEF IInv

(* A player leaves and takes the projectiles along.                        *)
LEMMA RemoveInvariant ==
    ASSUME IInv, NEW p \in Player, RemovePlayer(p)
    PROVE  IInv'
PROOF
<1>1. /\ players' = players \ {p}
      /\ runtime' = [runtime EXCEPT ![p] = NewRuntime]
      /\ projectiles' = {q \in projectiles : q.owner # p}
      /\ UNCHANGED <<elapsed, counter, deadTotal, pending, delivered, fired>>
  BY DEF RemovePlayer
<1>2. TypeOK' BY <1>1, NewRuntimeFacts DEF IInv, TypeOK
<1>3. /\ runtime'[p] = NewRuntime
      /\ \A r \in Player : r # p => runtime'[r] = runtime[r]
  BY <1>1 DEF IInv, TypeOK
<1>4. AbsentAreNew' BY <1>1, <1>3 DEF IInv, AbsentAreNew
<1>5. IdsAreUnique'
  <2>1. IsFiniteSet(projectiles') BY <1>1, FS_Subset DEF IInv, IdsAreUnique
  <2> QED BY <1>1, <2>1 DEF IInv, IdsAreUnique
<1>7. LastFireIsLatest' /\ FireRateLimited' BY <1>1, <1>3, RateKept
<1>8. ProjectilesHaveOwners' BY <1>1 DEF IInv, ProjectilesHaveOwners
<1>9. HitsNeverExceedShots'
  <2>1. SUFFICES ASSUME NEW r \in Player
                 PROVE  runtime'[r].hits + Cardinality(InFlight(r)') <= runtime'[r].shots
    BY DEF HitsNeverExceedShots
  <2>2. CASE r = p
    <3>1. InFlight(r)' = {} BY <1>1, <2>2 DEF InFlight
    <3> QED BY <1>3, <2>2, <3>1, FS_EmptySet, NewRuntimeFacts
  <2>3. CASE r # p
    <3>1. InFlight(r)' = InFlight(r) BY <1>1, <2>3 DEF InFlight
    <3> QED BY <1>3, <2>3, <3>1 DEF IInv, HitsNeverExceedShots
  <2> QED BY <2>2, <2>3
<1>10. DeathIsAnnouncedOnce'
  <2>1. SUFFICES ASSUME NEW r \in Player
                 PROVE  runtime'[r].announced <=> runtime'[r].health = 0
    BY DEF DeathIsAnnouncedOnce
  <2>2. CASE r = p
    BY <1>3, <2>2, NewRuntimeFacts, SessionAssumption
  <2>3. CASE r # p BY <1>3, <2>3 DEF IInv, DeathIsAnnouncedOnce
  <2> QED BY <2>2, <2>3
<1>11. EveryDeathIsDeliveredOnce' BY <1>1 DEF IInv, EveryDeathIsDeliveredOnce
<1> QED BY <1>2, <1>4, <1>5, <1>7, <1>8, <1>9, <1>10, <1>11 DEF IInv

(* An input that does not fire changes a sequence number only.             *)
LEMMA QuietInputInvariant ==
    ASSUME IInv, NEW p \in players, NEW seq \in 0 .. MaxSeq,
           runtime' = [runtime EXCEPT ![p].lastSeq = seq],
           UNCHANGED <<players, projectiles, elapsed, counter, deadTotal, pending,
                       delivered, fired>>
    PROVE  IInv'
PROOF
<1>0. p \in Player BY DEF IInv, TypeOK
<1>1. \A r \in Player :
        /\ runtime'[r] \in Runtime
        /\ runtime'[r].health = runtime[r].health
        /\ runtime'[r].announced = runtime[r].announced
        /\ runtime'[r].lastFire = runtime[r].lastFire
        /\ runtime'[r].hits = runtime[r].hits
        /\ runtime'[r].shots = runtime[r].shots
        /\ r # p => runtime'[r] = runtime[r]
  BY <1>0, SessionAssumption DEF IInv, TypeOK, Runtime
<1>2. TypeOK' BY <1>1 DEF IInv, TypeOK
<1>3. AbsentAreNew' BY <1>1 DEF IInv, AbsentAreNew
<1>4. IdsAreUnique' /\ ProjectilesHaveOwners' /\ EveryDeathIsDeliveredOnce'
  BY DEF IInv, IdsAreUnique, ProjectilesHaveOwners, EveryDeathIsDeliveredOnce
<1>5. LastFireIsLatest' /\ FireRateLimited' BY <1>1, RateKept
<1>6. \A r \in Player : InFlight(r)' = InFlight(r) BY DEF InFlight
<1>7. HitsNeverExceedShots' BY <1>1, <1>6 DEF IInv, HitsNeverExceedShots
<1>8. DeathIsAnnouncedOnce' BY <1>1 DEF IInv, DeathIsAnnouncedOnce
<1> QED BY <1>2, <1>3, <1>4, <1>5, <1>7, <1>8 DEF IInv

(* What a shot changes of who fires it, and of nobody else.                *)
LEMMA ShotRuntime ==
    ASSUME runtime \in [Player -> Runtime], elapsed \in Nat,
           NEW p \in Player, NEW seq \in 0 .. MaxSeq,
           runtime' = [runtime EXCEPT ![p].lastSeq = seq,
                                      ![p].lastFire = elapsed,
                                      ![p].shots = @ + 1]
    PROVE  \A r \in Player :
             /\ runtime'[r] \in Runtime
             /\ runtime'[r].health = runtime[r].health
             /\ runtime'[r].announced = runtime[r].announced
             /\ runtime'[r].hits = runtime[r].hits
             /\ runtime'[r].shots = IF r = p THEN runtime[r].shots + 1
                                             ELSE runtime[r].shots
             /\ runtime'[r].lastFire = IF r = p THEN elapsed ELSE runtime[r].lastFire
             /\ r # p => runtime'[r] = runtime[r]
PROOF BY SessionAssumption DEF Runtime

(* An input leaves everyone's health and, of the dead, the shots.          *)
LEMMA InputHarmsNobody ==
    ASSUME TypeOK, NEW p \in Player, NEW seq \in 0 .. MaxSeq, NEW fire \in BOOLEAN,
           ApplyInput(p, seq, fire)
    PROVE  \A r \in Player :
              /\ runtime'[r].health = runtime[r].health
              /\ runtime[r].health = 0 => runtime'[r].shots = runtime[r].shots
PROOF
<1>0. runtime \in [Player -> Runtime] /\ elapsed \in Nat BY DEF TypeOK
<1>1. CASE MayFire(p, fire)
  <2>1. runtime' = [runtime EXCEPT ![p].lastSeq = seq, ![p].lastFire = elapsed,
                                   ![p].shots = @ + 1]
    BY <1>1 DEF ApplyInput
  <2>2. runtime[p].health > 0 BY <1>1 DEF MayFire, Alive
  <2>3. ASSUME NEW r \in Player
        PROVE  /\ runtime'[r].health = runtime[r].health
               /\ r # p => runtime'[r] = runtime[r]
    BY <1>0, <2>1, ShotRuntime
  <2>4. runtime[p].health # 0 BY <1>0, <2>2 DEF Runtime
  <2> QED BY <2>3, <2>4
<1>2. CASE ~MayFire(p, fire)
  <2>1. runtime' = [runtime EXCEPT ![p].lastSeq = seq] BY <1>2 DEF ApplyInput
  <2> QED BY <1>0, <2>1 DEF Runtime
<1> QED BY <1>1, <1>2

(* One shot more, a cooldown after the last of a stay, keeps the rate.     *)
LEMMA ShotKeepsRate ==
    ASSUME NEW s \in Seq(Nat), NEW k \in 0 .. Len(s), NEW now \in Nat, NEW last \in Int,
           now - last >= Cooldown, k > 0 => s[Len(s)] = last,
           \A i, j \in Len(s) - k + 1 .. Len(s) :
              i < j => s[j] - s[i] >= Cooldown * (j - i)
    PROVE  LET t == Append(s, now)
           IN  /\ t \in Seq(Nat) /\ Len(t) = Len(s) + 1 /\ t[Len(s) + 1] = now
               /\ \A i, j \in Len(s) - k + 1 .. Len(s) + 1 :
                     i < j => t[j] - t[i] >= Cooldown * (j - i)
PROOF
<1> DEFINE t == Append(s, now)
           n == Len(s)
<1>1. n \in Nat /\ k \in 0 .. n /\ Cooldown \in Nat /\ \A i \in 1 .. n : s[i] \in Nat
  BY LenProperties, ElementOfSeq, SessionAssumption
<1>2. /\ t \in Seq(Nat) /\ Len(t) = n + 1 /\ t[n + 1] = now
      /\ \A i \in 1 .. n : t[i] = s[i]
  BY AppendProperties
<1>3. ASSUME NEW i \in n - k + 1 .. n + 1, NEW j \in n - k + 1 .. n + 1, i < j
      PROVE  t[j] - t[i] >= Cooldown * (j - i)
  <2> HIDE DEF t, n
  <2>1. i \in Int /\ j \in Int /\ i \in n - k + 1 .. n /\ i \in 1 .. n BY <1>1, <1>3
  <2>2. CASE j \in n - k + 1 .. n
    <3>1. j \in 1 .. n BY <1>1, <2>2
    <3>2. s[j] - s[i] >= Cooldown * (j - i) BY <1>3, <2>1, <2>2 DEF n
    <3> QED BY <1>2, <2>1, <3>1, <3>2
  <2>3. CASE j = n + 1
    <3>1. k > 0 /\ n \in n - k + 1 .. n /\ n \in 1 .. n BY <1>1, <2>1
    <3>2. s[n] = last BY <3>1 DEF n
    <3>3. t[i] = s[i] /\ t[j] = now /\ s[i] \in Nat /\ s[n] \in Nat
      BY <1>1, <1>2, <2>1, <2>3, <3>1
    <3>4. CASE i = n
      <4>1. Cooldown * (j - i) = Cooldown BY <1>1, <2>3, <3>4
      <4> QED BY <3>2, <3>3, <3>4, <4>1
    <3>5. CASE i < n
      <4>1. s[n] - s[i] >= Cooldown * (n - i) BY <2>1, <3>1, <3>5 DEF n
      <4> DEFINE c == Cooldown * (n - i)
                 d == Cooldown * (j - i)
      <4>2. d = c + Cooldown /\ c \in Int
        <5>1. j - i = (n - i) + 1 /\ n - i \in Int BY <1>1, <2>1, <2>3
        <5>2. \A x \in Int : Cooldown * (x + 1) = Cooldown * x + Cooldown BY <1>1
        <5>3. \A x \in Int : Cooldown * x \in Int BY <1>1
        <5> QED BY <5>1, <5>2, <5>3
      <4> HIDE DEF c, d
      <4>3. s[n] - s[i] >= c BY <4>1 DEF c
      <4>4. now - s[i] >= d BY <1>1, <3>2, <3>3, <4>2, <4>3
      <4> QED BY <3>3, <4>4 DEF d
    <3> QED BY <1>1, <2>1, <3>4, <3>5
  <2> QED BY <1>1, <1>3, <2>2, <2>3
<1> QED BY <1>2, <1>3

(* A shot: one projectile more, with an id nobody had.                     *)
LEMMA ShotInvariant ==
    ASSUME IInv, NEW p \in players, NEW seq \in 0 .. MaxSeq,
           elapsed - runtime[p].lastFire >= Cooldown,
           counter' = counter + 1,
           projectiles' = projectiles \cup
               {[id |-> counter', owner |-> p, spawned |-> elapsed]},
           runtime' = [runtime EXCEPT ![p].lastSeq = seq,
                                      ![p].lastFire = elapsed,
                                      ![p].shots = @ + 1],
           fired' = [fired EXCEPT ![p] = Append(@, elapsed)],
           UNCHANGED <<players, elapsed, deadTotal, pending, delivered>>
    PROVE  IInv'
PROOF
<1> DEFINE new == [id |-> counter + 1, owner |-> p, spawned |-> elapsed]
<1>0. p \in Player /\ counter \in Nat /\ elapsed \in Nat BY DEF IInv, TypeOK
<1>1. \A r \in Player :
        /\ runtime'[r] \in Runtime
        /\ runtime'[r].health = runtime[r].health
        /\ runtime'[r].announced = runtime[r].announced
        /\ runtime'[r].hits = runtime[r].hits
        /\ runtime'[r].shots = IF r = p THEN runtime[r].shots + 1 ELSE runtime[r].shots
        /\ runtime'[r].lastFire = IF r = p THEN elapsed ELSE runtime[r].lastFire
        /\ r # p => runtime'[r] = runtime[r]
  <2>1. runtime \in [Player -> Runtime] BY DEF IInv, TypeOK
  <2> QED BY <1>0, <2>1, ShotRuntime
<1>2. /\ new \in Projectile /\ projectiles' = projectiles \cup {new}
      /\ new.id = counter + 1 /\ new.owner = p /\ new.spawned = elapsed
  BY <1>0 DEF Projectile
<1> HIDE DEF new
<1>3. TypeOK'
  <2>1. runtime' \in [Player -> Runtime] BY <1>1 DEF IInv, TypeOK
  <2>2. counter' \in Nat /\ projectiles' \in SUBSET Projectile
    BY <1>0, <1>2 DEF IInv, TypeOK
  <2>3. fired' \in [Player -> Seq(Nat)]
    <3>1. fired \in [Player -> Seq(Nat)] BY DEF IInv, TypeOK
    <3>2. Append(fired[p], elapsed) \in Seq(Nat) BY <1>0, <3>1, AppendProperties
    <3> QED BY <1>0, <3>1, <3>2
  <2> QED BY <2>1, <2>2, <2>3 DEF IInv, TypeOK
<1>4. AbsentAreNew' BY <1>1 DEF IInv, AbsentAreNew
<1>5. \A q \in projectiles : /\ q \in Projectile /\ q.id <= counter /\ q.id \in Nat
                             /\ q.id # new.id /\ q.owner \in Player
                             /\ q.spawned \in Nat
  BY <1>0, <1>2 DEF IInv, TypeOK, IdsAreUnique, Projectile
<1>6. new \notin projectiles BY <1>5
<1>7. IdsAreUnique'
  <2>1. IsFiniteSet(projectiles') BY <1>2, FS_AddElement DEF IInv, IdsAreUnique
  <2>2. \A q \in projectiles' : q.id <= counter'
    BY <1>0, <1>2, <1>5
  <2>3. \A q, r \in projectiles' : q.id = r.id => q = r
    BY <1>2, <1>5 DEF IInv, IdsAreUnique
  <2>4. \A d \in pending' : d.projectile <= counter'
    BY <1>0 DEF IInv, IdsAreUnique, TypeOK, DeathEvent
  <2>5. \A d \in pending : d.projectile # new.id
    <3>1. \A d \in pending : d.projectile <= counter /\ d.projectile \in Nat
      BY DEF IInv, IdsAreUnique, TypeOK, DeathEvent
    <3> QED BY <1>0, <1>2, <3>1
  <2>6. \A d \in pending', q \in projectiles' : d.projectile # q.id
    BY <1>2, <2>5 DEF IInv, IdsAreUnique
  <2>7. IsFiniteSet(pending') BY DEF IInv, IdsAreUnique
  <2> QED BY <2>1, <2>2, <2>3, <2>4, <2>6, <2>7 DEF IdsAreUnique
<1>8. /\ fired[p] \in Seq(Nat) /\ runtime[p].lastFire \in Int
      /\ runtime[p].shots \in 0 .. Len(fired[p])
  <2>1. fired[p] \in Seq(Nat) /\ runtime[p] \in Runtime BY <1>0 DEF IInv, TypeOK
  <2>2. runtime[p].shots \in Nat /\ runtime[p].lastFire \in Int BY <2>1 DEF Runtime
  <2>3. runtime[p].shots <= Len(fired[p]) BY <1>0 DEF IInv, LastFireIsLatest
  <2> QED BY <2>1, <2>2, <2>3, LenProperties
<1>9. /\ fired'[p] = Append(fired[p], elapsed)
      /\ \A r \in Player : r # p => fired'[r] = fired[r]
  BY <1>0 DEF IInv, TypeOK
<1>16. /\ Len(fired'[p]) = Len(fired[p]) + 1 /\ fired'[p][Len(fired[p]) + 1] = elapsed
       /\ \A i, j \in Len(fired[p]) - runtime[p].shots + 1 .. Len(fired[p]) + 1 :
             i < j => fired'[p][j] - fired'[p][i] >= Cooldown * (j - i)
  <2> DEFINE s == fired[p]
             k == runtime[p].shots
             last == runtime[p].lastFire
  <2>1. s \in Seq(Nat) /\ k \in 0 .. Len(s) /\ last \in Int /\ elapsed - last >= Cooldown
    BY <1>8
  <2>2. /\ k > 0 => s[Len(s)] = last
        /\ \A i, j \in Len(s) - k + 1 .. Len(s) :
              i < j => s[j] - s[i] >= Cooldown * (j - i)
    BY <1>0 DEF IInv, LastFireIsLatest, FireRateLimited
  <2>3. fired'[p] = Append(s, elapsed) BY <1>9
  <2> HIDE DEF s, k, last
  <2>4. LET t == Append(s, elapsed)
        IN  /\ Len(t) = Len(s) + 1 /\ t[Len(s) + 1] = elapsed
            /\ \A i, j \in Len(s) - k + 1 .. Len(s) + 1 :
                  i < j => t[j] - t[i] >= Cooldown * (j - i)
    BY <1>0, <2>1, <2>2, ShotKeepsRate
  <2> QED BY <2>3, <2>4 DEF s, k
<1>10. LastFireIsLatest'
  <2> SUFFICES ASSUME NEW r \in Player
               PROVE  /\ runtime'[r].shots <= Len(fired'[r])
                      /\ runtime'[r].shots > 0 =>
                            fired'[r][Len(fired'[r])] = runtime'[r].lastFire
    BY DEF LastFireIsLatest
  <2>1. CASE r = p
    <3>1. /\ runtime'[r].shots = runtime[p].shots + 1 /\ runtime'[r].lastFire = elapsed
      BY <1>1, <2>1
    <3>2. Len(fired[p]) \in Nat /\ runtime[p].shots <= Len(fired[p])
          /\ runtime[p].shots \in Nat
      BY <1>8, LenProperties
    <3> QED BY <1>16, <2>1, <3>1, <3>2
  <2>2. CASE r # p
    <3>1. runtime'[r] = runtime[r] /\ fired'[r] = fired[r] BY <1>1, <1>9, <2>2
    <3> QED BY <3>1 DEF IInv, LastFireIsLatest
  <2> QED BY <2>1, <2>2
<1>11. ProjectilesHaveOwners' BY <1>2 DEF IInv, ProjectilesHaveOwners
<1>12. FireRateLimited'
  <2> SUFFICES ASSUME NEW r \in Player,
                      NEW i \in Len(fired'[r]) - runtime'[r].shots + 1 .. Len(fired'[r]),
                      NEW j \in Len(fired'[r]) - runtime'[r].shots + 1 .. Len(fired'[r]),
                      i < j
               PROVE  fired'[r][j] - fired'[r][i] >= Cooldown * (j - i)
    BY DEF FireRateLimited
  <2>1. CASE r = p
    <3>1. runtime'[r].shots = runtime[p].shots + 1 BY <1>1, <2>1
    <3>2. Len(fired[p]) \in Nat /\ runtime[p].shots \in Nat BY <1>8, LenProperties
    <3>3. Len(fired'[r]) = Len(fired[p]) + 1 BY <1>16, <2>1
    <3> DEFINE n == Len(fired[p])
               k == runtime[p].shots
    <3>4. i \in n - k + 1 .. n + 1 /\ j \in n - k + 1 .. n + 1
      <4>1. /\ i \in (n + 1) - (k + 1) + 1 .. n + 1
            /\ j \in (n + 1) - (k + 1) + 1 .. n + 1
        BY <3>1, <3>3, Zenon
      <4>2. n \in Nat /\ k \in Nat BY <3>2
      <4> HIDE DEF n, k
      <4>3. (n + 1) - (k + 1) + 1 = n - k + 1 BY <4>2
      <4> QED BY <4>1, <4>3
    <3> QED BY <1>16, <2>1, <3>4
  <2>2. CASE r # p
    <3>1. runtime'[r] = runtime[r] /\ fired'[r] = fired[r] BY <1>1, <1>9, <2>2
    <3> QED BY <3>1 DEF IInv, FireRateLimited
  <2> QED BY <2>1, <2>2
<1>13. HitsNeverExceedShots'
  <2>1. SUFFICES ASSUME NEW r \in Player
                 PROVE  runtime'[r].hits + Cardinality(InFlight(r)') <= runtime'[r].shots
    BY DEF HitsNeverExceedShots
  <2>2. IsFiniteSet(InFlight(r))
    BY FS_Subset DEF InFlight, IInv, IdsAreUnique
  <2>3. runtime[r].hits + Cardinality(InFlight(r)) <= runtime[r].shots
    BY DEF IInv, HitsNeverExceedShots
  <2>4. runtime[r].hits \in Nat /\ runtime[r].shots \in Nat
        /\ Cardinality(InFlight(r)) \in Nat
    BY <2>2, FS_CardinalityType DEF IInv, TypeOK, Runtime
  <2>5. CASE r = p
    <3>1. InFlight(r)' = InFlight(r) \cup {new} BY <1>2, <2>5 DEF InFlight
    <3>2. new \notin InFlight(r) BY <1>6 DEF InFlight
    <3>3. Cardinality(InFlight(r)') = Cardinality(InFlight(r)) + 1
      BY <2>2, <3>1, <3>2, FS_AddElement
    <3>4. /\ runtime'[r].hits = runtime[r].hits
          /\ runtime'[r].shots = runtime[r].shots + 1
      BY <1>1, <2>5
    <3> HIDE DEF InFlight
    <3> QED BY <2>3, <2>4, <3>3, <3>4
  <2>6. CASE r # p
    <3>1. InFlight(r)' = InFlight(r) BY <1>2, <2>6 DEF InFlight
    <3> QED BY <1>1, <2>3, <2>6, <3>1
  <2> QED BY <2>5, <2>6
<1>14. DeathIsAnnouncedOnce'
  <2>1. SUFFICES ASSUME NEW q \in Player
                 PROVE  runtime'[q].announced <=> runtime'[q].health = 0
    BY DEF DeathIsAnnouncedOnce
  <2>2. runtime[q].announced <=> runtime[q].health = 0
    BY DEF IInv, DeathIsAnnouncedOnce
  <2>3. /\ runtime'[q].announced = runtime[q].announced
        /\ runtime'[q].health = runtime[q].health
    BY <1>1
  <2> QED BY <2>2, <2>3, Zenon
<1>15. EveryDeathIsDeliveredOnce' BY DEF IInv, EveryDeathIsDeliveredOnce
<1> QED
  BY <1>3, <1>4, <1>7, <1>10, <1>11, <1>12, <1>13, <1>14, <1>15 DEF IInv
-----------------------------------------------------------------------------
Event(contact, q) ==
    [projectile |-> q.id, shooter |-> q.owner, target |-> contact[q]]

(* As many players are killed, and as many events queued, as hits are      *)
(* fatal.                                                                  *)
LEMMA FatalCount ==
    ASSUME TypeOK, IdsAreUnique, DeathIsAnnouncedOnce,
           NEW D \in SUBSET projectiles,
           NEW contact \in [D -> Player \cup {Nobody}], Touches(contact)
    PROVE  LET F == Fatal(contact)
               E == {Event(contact, q) : q \in F}
           IN /\ IsFiniteSet(F) /\ IsFiniteSet(E)
              /\ Cardinality(Killed(contact)) = Cardinality(F)
              /\ Cardinality(E) = Cardinality(F)
PROOF
<1> DEFINE F == Fatal(contact)
           E == {Event(contact, q) : q \in F}
           K == Killed(contact)
<1>1. IsFiniteSet(F)
  <2>1. F \in SUBSET DOMAIN contact BY DEF Fatal
  <2> HIDE DEF F
  <2> QED BY <2>1, HitsFacts, FS_Subset
<1>2. \A q, r \in F : contact[q] = contact[r] => q = r BY HitsFacts
<1>3. K = {contact[q] : q \in F} BY DEF Killed
<1>4. \A q, r \in F : Event(contact, q) = Event(contact, r) => q = r
  <2>1. \A q, r \in F : Event(contact, q) = Event(contact, r) => contact[q] = contact[r]
    BY DEF Event
  <2> QED BY <1>2, <2>1
<1> HIDE DEF F, E, K
<1>5. Cardinality(K) = Cardinality(F)
  <2> DEFINE f == [q \in F |-> contact[q]]
  <2>1. f \in Bijection(F, K)
    BY <1>2, <1>3 DEF Bijection, Injection, Surjection, IsInjective
  <2> QED BY <1>1, <2>1, FS_Bijection DEF ExistsBijection
<1>6. IsFiniteSet(E) /\ Cardinality(E) = Cardinality(F)
  <2> DEFINE f == [q \in F |-> Event(contact, q)]
  <2>0. E = {Event(contact, q) : q \in F} BY DEF E
  <2>1. f \in Bijection(F, E)
    BY <1>4, <2>0 DEF Bijection, Injection, Surjection, IsInjective
  <2> QED BY <1>1, <2>1, FS_Bijection DEF ExistsBijection
<1> QED BY <1>1, <1>5, <1>6 DEF F, E, K

(* A tick: hits become credit of their owners, fatal ones become events.   *)
LEMMA TickInvariant ==
    ASSUME IInv, NEW now \in Nat,
           NEW contact \in [Flying(now) -> Player \cup {Nobody}], Tick(now, contact)
    PROVE  IInv'
PROOF
<1> DEFINE E == {Event(contact, q) : q \in Fatal(contact)}
<1>0. /\ Touches(contact)
      /\ elapsed' = now
      /\ projectiles' = {q \in DOMAIN contact : contact[q] = Nobody}
      /\ runtime' = [p \in Player |->
          IF p \notin players THEN runtime[p]
          ELSE [runtime[p] EXCEPT
                  !.health    = HealthAfter(p, HitsOn(contact, p)),
                  !.announced = @ \/ p \in Killed(contact),
                  !.hits      = @ + Cardinality(HitsBy(contact, p)),
                  !.deaths    = IF p \in Killed(contact) THEN @ + 1 ELSE @]]
      /\ deadTotal' = deadTotal + Cardinality(Fatal(contact))
      /\ pending' = pending \cup E
      /\ UNCHANGED <<players, counter, delivered, fired>>
  BY DEF Tick, Event
<1>1. /\ TypeOK /\ IdsAreUnique /\ DeathIsAnnouncedOnce
      /\ Flying(now) \in SUBSET projectiles
      /\ DOMAIN contact = Flying(now)
  BY DEF IInv, Flying
<1>2. /\ IsFiniteSet(DOMAIN contact)
      /\ \A p \in Player : /\ IsFiniteSet(HitsOn(contact, p))
                            /\ IsFiniteSet(HitsBy(contact, p))
      /\ Killed(contact) = {p \in players :
                             /\ runtime[p].health > 0
                             /\ HealthAfter(p, HitsOn(contact, p)) = 0}
  BY <1>0, <1>1, HitsFacts
<1>3. /\ IsFiniteSet(Fatal(contact)) /\ IsFiniteSet(E)
      /\ Cardinality(E) = Cardinality(Fatal(contact))
  BY <1>0, <1>1, FatalCount
<1>4. \A p \in Player :
        /\ HealthAfter(p, HitsOn(contact, p)) \in 0 .. MaxHealth
        /\ HealthAfter(p, HitsOn(contact, p)) <= runtime[p].health
        /\ Cardinality(HitsBy(contact, p)) \in Nat
  BY <1>1, <1>2, HealthAfterFacts, FS_CardinalityType
<1>5. ASSUME NEW p \in players
      PROVE  /\ runtime'[p].health = HealthAfter(p, HitsOn(contact, p))
             /\ runtime'[p].announced = (runtime[p].announced \/ p \in Killed(contact))
             /\ runtime'[p].hits = runtime[p].hits + Cardinality(HitsBy(contact, p))
             /\ runtime'[p].shots = runtime[p].shots
             /\ runtime'[p].lastFire = runtime[p].lastFire
             /\ runtime'[p] \in Runtime
  <2>1. p \in Player /\ runtime[p] \in Runtime BY <1>1 DEF TypeOK
  <2> DEFINE announced == runtime[p].announced \/ p \in Killed(contact)
             hits == runtime[p].hits + Cardinality(HitsBy(contact, p))
             deaths == IF p \in Killed(contact) THEN runtime[p].deaths + 1
                                                ELSE runtime[p].deaths
             health == HealthAfter(p, HitsOn(contact, p))
  <2>2. runtime'[p] = [runtime[p] EXCEPT !.health = health, !.announced = announced,
                                         !.hits = hits, !.deaths = deaths]
    BY <1>0, <2>1
  <2>3. announced \in BOOLEAN BY <2>1 DEF Runtime
  <2>4. hits \in Nat /\ deaths \in Nat BY <2>1, <1>4 DEF Runtime
  <2>5. health \in 0 .. MaxHealth BY <2>1, <1>4
  <2> HIDE DEF announced, hits, deaths, health
  <2>6. /\ runtime'[p].health = health /\ runtime'[p].announced = announced
        /\ runtime'[p].hits = hits /\ runtime'[p].shots = runtime[p].shots
        /\ runtime'[p].lastFire = runtime[p].lastFire
        /\ runtime'[p] \in Runtime
    BY <2>1, <2>2, <2>3, <2>4, <2>5 DEF Runtime
  <2> QED BY <2>6 DEF announced, hits, health
<1>6. \A p \in Player \ players : runtime'[p] = runtime[p] BY <1>0
<1>7. TypeOK'
  <2>1. runtime' \in [Player -> Runtime]
    <3>1. \A p \in Player : runtime'[p] \in Runtime
      BY <1>1, <1>5, <1>6 DEF TypeOK
    <3>2. runtime' = [p \in Player |-> runtime'[p]] BY <1>0
    <3> QED BY <3>1, <3>2
  <2>2. deadTotal' \in Nat
    <3>1. deadTotal' = deadTotal + Cardinality(Fatal(contact)) BY <1>0
    <3>2. Cardinality(Fatal(contact)) \in Nat BY <1>3, FS_CardinalityType
    <3> QED BY <1>1, <3>1, <3>2 DEF TypeOK
  <2>3. E \in SUBSET DeathEvent
    <3>1. SUFFICES ASSUME NEW q \in Fatal(contact)
                   PROVE  Event(contact, q) \in DeathEvent
      OBVIOUS
    <3>2. q \in projectiles /\ contact[q] \in Player BY <1>1 DEF Fatal
    <3>3. q.id \in Nat /\ q.owner \in Player BY <1>1, <3>2 DEF TypeOK, Projectile
    <3> QED BY <3>2, <3>3 DEF Event, DeathEvent
  <2>4. projectiles' \in SUBSET Projectile BY <1>0, <1>1 DEF TypeOK
  <2> HIDE DEF E
  <2> QED BY <1>0, <1>1, <2>1, <2>2, <2>3, <2>4 DEF TypeOK
<1>8. AbsentAreNew' BY <1>0, <1>6 DEF IInv, AbsentAreNew
<1>9. projectiles' \in SUBSET projectiles BY <1>0, <1>1
<1>10. \A d \in E : \E q \in projectiles : /\ q \notin projectiles'
                                            /\ d.projectile = q.id
  <2>1. SUFFICES ASSUME NEW q \in Fatal(contact)
                 PROVE  /\ q \in projectiles /\ q \notin projectiles'
                        /\ Event(contact, q).projectile = q.id
    OBVIOUS
  <2>2. q \in DOMAIN contact /\ contact[q] # Nobody BY DEF Fatal
  <2>3. q \notin projectiles' BY <1>0, <2>2
  <2> QED BY <1>1, <2>2, <2>3 DEF Event
<1>11. IdsAreUnique'
  <2>1. IsFiniteSet(projectiles') BY <1>1, <1>9, FS_Subset DEF IdsAreUnique
  <2>2. IsFiniteSet(pending') BY <1>0, <1>1, <1>3, FS_Union DEF IdsAreUnique
  <2>3. /\ \A q \in projectiles' : q.id <= counter'
        /\ \A q, r \in projectiles' : q.id = r.id => q = r
    BY <1>0, <1>1, <1>9 DEF IdsAreUnique
  <2>4. ASSUME NEW d \in pending'
        PROVE  d.projectile <= counter' /\ \A q \in projectiles' : d.projectile # q.id
    <3>1. CASE d \in pending BY <1>0, <1>1, <1>9, <3>1 DEF IdsAreUnique
    <3>2. CASE d \in E
      <4>1. PICK q \in projectiles : q \notin projectiles' /\ d.projectile = q.id
        BY <1>10, <3>2
      <4> QED BY <1>0, <1>1, <1>9, <4>1 DEF IdsAreUnique
    <3> QED BY <1>0, <3>1, <3>2
  <2> QED BY <2>1, <2>2, <2>3, <2>4 DEF IdsAreUnique
<1>12. ProjectilesHaveOwners'
  BY <1>0, <1>9 DEF IInv, ProjectilesHaveOwners
<1>13. LastFireIsLatest' /\ FireRateLimited' BY <1>0, <1>5, <1>6, RateKept
<1>15. EveryDeathIsDeliveredOnce'
  <2>1. pending \cap E = {} BY <1>1, <1>10 DEF IdsAreUnique
  <2>2. IsFiniteSet(pending) /\ deadTotal \in Nat /\ delivered \in Nat
    BY <1>1 DEF IdsAreUnique, TypeOK
  <2>3. deadTotal = delivered + Cardinality(pending)
    BY DEF IInv, EveryDeathIsDeliveredOnce
  <2> HIDE DEF E
  <2>4. Cardinality(pending \cup E) = Cardinality(pending) + Cardinality(E)
    BY <2>1, <2>2, <1>3, DisjointUnion
  <2>5. Cardinality(pending) \in Nat /\ Cardinality(E) \in Nat
    BY <2>2, <1>3, FS_CardinalityType
  <2>6. deadTotal' = deadTotal + Cardinality(E) BY <1>0, <1>3
  <2>7. delivered' = delivered /\ pending' = pending \cup E BY <1>0
  <2> QED BY <2>2, <2>3, <2>4, <2>5, <2>6, <2>7 DEF EveryDeathIsDeliveredOnce
<1>16. DeathIsAnnouncedOnce'
  <2>1. SUFFICES ASSUME NEW p \in Player
                 PROVE  runtime'[p].announced <=> runtime'[p].health = 0
    BY DEF DeathIsAnnouncedOnce
  <2>2. runtime[p].announced <=> runtime[p].health = 0
    BY <1>1 DEF DeathIsAnnouncedOnce
  <2>3. CASE p \in players
    <3>1. runtime[p].health \in 0 .. MaxHealth BY <1>1 DEF TypeOK, Runtime
    <3>2. HealthAfter(p, HitsOn(contact, p)) \in 0 .. MaxHealth
          /\ HealthAfter(p, HitsOn(contact, p)) <= runtime[p].health
      BY <1>4
    <3>3. runtime'[p].announced <=> (runtime[p].announced \/ p \in Killed(contact))
      BY <1>5, <2>3
    <3>4. p \in Killed(contact) <=>
            runtime[p].health > 0 /\ HealthAfter(p, HitsOn(contact, p)) = 0
      BY <1>2, <2>3
    <3>5. runtime'[p].health = HealthAfter(p, HitsOn(contact, p)) BY <1>5, <2>3
    <3>6. HealthAfter(p, HitsOn(contact, p)) = 0
             <=> runtime[p].health = 0 \/ p \in Killed(contact)
      BY <3>1, <3>2, <3>4, SessionAssumption
    <3> QED BY <2>2, <3>3, <3>5, <3>6, Zenon
  <2>4. CASE p \notin players BY <1>6, <2>2, <2>4
  <2> QED BY <2>3, <2>4
<1>17. HitsNeverExceedShots'
  <2>1. SUFFICES ASSUME NEW p \in Player
                 PROVE  runtime'[p].hits + Cardinality(InFlight(p)') <= runtime'[p].shots
    BY DEF HitsNeverExceedShots
  <2>2. runtime[p].hits + Cardinality(InFlight(p)) <= runtime[p].shots
        /\ runtime[p].hits \in Nat /\ runtime[p].shots \in Nat
    BY <1>1 DEF IInv, HitsNeverExceedShots, TypeOK, Runtime
  <2>3. IsFiniteSet(InFlight(p)) BY <1>1, FS_Subset DEF InFlight, IdsAreUnique
  <2>4. CASE p \in players
    <3> DEFINE Left == InFlight(p)'
               Hit  == HitsBy(contact, p)
    <3>1. Left \in SUBSET InFlight(p) /\ Hit \in SUBSET InFlight(p) /\ Left \cap Hit = {}
      BY <1>0, <1>1, <1>9 DEF InFlight, HitsBy
    <3> HIDE DEF Left, Hit
    <3>2. IsFiniteSet(Left) /\ IsFiniteSet(Hit) BY <2>3, <3>1, FS_Subset
    <3>3. Cardinality(Left \cup Hit) = Cardinality(Left) + Cardinality(Hit)
      BY <3>1, <3>2, DisjointUnion
    <3>4. Cardinality(Left \cup Hit) <= Cardinality(InFlight(p))
      BY <2>3, <3>1, FS_Subset
    <3>5. Cardinality(Left) \in Nat /\ Cardinality(Hit) \in Nat
          /\ Cardinality(InFlight(p)) \in Nat
      BY <2>3, <3>2, FS_CardinalityType
    <3>6. /\ runtime'[p].hits = runtime[p].hits + Cardinality(Hit)
          /\ runtime'[p].shots = runtime[p].shots
      BY <1>5, <2>4 DEF Hit
    <3>7. runtime'[p].hits + Cardinality(Left) <= runtime'[p].shots
      BY <2>2, <3>3, <3>4, <3>5, <3>6
    <3> QED BY <3>7 DEF Left
  <2>5. CASE p \notin players
    <3>1. InFlight(p)' = {}
      BY <1>9, <2>5 DEF IInv, ProjectilesHaveOwners, InFlight
    <3>2. runtime'[p].hits = 0 /\ runtime'[p].shots = 0
      BY <1>6, <2>5, NewRuntimeFacts DEF IInv, AbsentAreNew
    <3> QED BY <3>1, <3>2, FS_EmptySet
  <2> QED BY <2>4, <2>5
<1> QED
  BY <1>7, <1>8, <1>11, <1>12, <1>13, <1>15, <1>16, <1>17 DEF IInv
LEMMA ConsumeInvariant == ASSUME IInv, ConsumeDeathEvents PROVE IInv'
PROOF
<1>1. /\ delivered' = delivered + Cardinality(pending) /\ pending' = {}
      /\ UNCHANGED <<players, runtime, projectiles, elapsed, counter, deadTotal, fired>>
  BY DEF ConsumeDeathEvents
<1>2. Cardinality(pending) \in Nat BY FS_CardinalityType DEF IInv, IdsAreUnique
<1>3. TypeOK' BY <1>1, <1>2 DEF IInv, TypeOK
<1>4. EveryDeathIsDeliveredOnce'
  BY <1>1, <1>2, FS_EmptySet DEF IInv, TypeOK, EveryDeathIsDeliveredOnce
<1>5. IdsAreUnique' BY <1>1, FS_EmptySet DEF IInv, IdsAreUnique
<1> QED
  BY <1>1, <1>3, <1>4, <1>5
  DEF IInv, AbsentAreNew, LastFireIsLatest, ProjectilesHaveOwners, InFlight,
      HitsNeverExceedShots, DeathIsAnnouncedOnce, FireRateLimited

LEMMA InputInvariant ==
    ASSUME IInv, NEW p \in Player, NEW seq \in 0 .. MaxSeq, NEW fire \in BOOLEAN,
           ApplyInput(p, seq, fire)
    PROVE  IInv'
PROOF
<1>1. CASE MayFire(p, fire)
  <2>1. elapsed - runtime[p].lastFire >= Cooldown BY <1>1 DEF MayFire
  <2> QED BY <1>1, <2>1, ShotInvariant DEF ApplyInput, SpawnProjectile
<1>2. CASE ~MayFire(p, fire)
  BY <1>2, QuietInputInvariant DEF ApplyInput
<1> QED BY <1>1, <1>2

LEMMA NextInvariant == ASSUME IInv, [Next]_vars PROVE IInv'
PROOF
<1>1. CASE \E p \in Player \ players : UpsertPlayer(p)
  BY <1>1, UpsertInvariant
<1>2. CASE \E p \in Player : RemovePlayer(p)
  BY <1>2, RemoveInvariant
<1>3. CASE \E p \in Player, seq \in 0 .. MaxSeq, fire \in BOOLEAN :
              ApplyInput(p, seq, fire)
  BY <1>3, InputInvariant
<1>4. CASE \E now \in elapsed .. elapsed + MaxDelta :
              /\ now <= MaxTime
              /\ \E contact \in [Flying(now) -> Player \cup {Nobody}] : Tick(now, contact)
  <2>1. \A now \in elapsed .. elapsed + MaxDelta : now \in Nat
    BY SessionAssumption DEF IInv, TypeOK
  <2> QED BY <1>4, <2>1, TickInvariant
<1>5. CASE ConsumeDeathEvents BY <1>5, ConsumeInvariant
<1>6. CASE UNCHANGED vars
  BY <1>6
  DEF vars, IInv, TypeOK, AbsentAreNew, IdsAreUnique, LastFireIsLatest,
      ProjectilesHaveOwners, HitsNeverExceedShots, DeathIsAnnouncedOnce,
      EveryDeathIsDeliveredOnce, FireRateLimited, InFlight
<1> QED BY <1>1, <1>2, <1>3, <1>4, <1>5, <1>6 DEF Next

-----------------------------------------------------------------------------
(* The strengthened invariant holds in every reachable state.              *)
THEOREM Invariance == Spec => []IInv
PROOF
<1>1. Init => IInv BY InitInvariant
<1>2. IInv /\ [Next]_vars => IInv' BY NextInvariant
<1> QED BY <1>1, <1>2, PTL DEF Spec

(* The session's variables keep their types; health stays in its range.    *)
THEOREM TypeCorrect == Spec => []TypeOK
PROOF
<1>1. IInv => TypeOK BY DEF IInv
<1> QED BY <1>1, Invariance, PTL

(* No projectile outlives its owner's stay.                                *)
THEOREM OwnersPresent == Spec => []ProjectilesHaveOwners
PROOF
<1>1. IInv => ProjectilesHaveOwners BY DEF IInv
<1> QED BY <1>1, Invariance, PTL

(* A player's accuracy is at most one.                                     *)
THEOREM AccuracyAtMostOne == Spec => []HitsNeverExceedShots
PROOF
<1>1. IInv => HitsNeverExceedShots BY DEF IInv
<1> QED BY <1>1, Invariance, PTL

(* Dead and announced are the same.                                        *)
THEOREM AnnouncedOnce == Spec => []DeathIsAnnouncedOnce
PROOF
<1>1. IInv => DeathIsAnnouncedOnce BY DEF IInv
<1> QED BY <1>1, Invariance, PTL

(* No death event is lost or handed out twice.                             *)
THEOREM DeliveredOnce == Spec => []EveryDeathIsDeliveredOnce
PROOF
<1>1. IInv => EveryDeathIsDeliveredOnce BY DEF IInv
<1> QED BY <1>1, Invariance, PTL

(* In one stay a player fires at most once in a cooldown, for any number   *)
(* of shots: n of them take n - 1 cooldowns.                               *)
THEOREM RateLimited == Spec => []FireRateLimited
PROOF
<1>1. IInv => FireRateLimited BY DEF IInv
<1> QED BY <1>1, Invariance, PTL

(* A tick kills as many players as it announces deaths.                    *)
THEOREM DeathsCountOnce == Spec => EachDeathCountsOnce
PROOF
<1> DEFINE Dying == {p \in players \cap players' :
                       runtime[p].health > 0 /\ runtime'[p].health = 0}
           Counts == deadTotal' - deadTotal = Cardinality(Dying)
<1>1. ASSUME IInv, [Next]_vars PROVE Counts
  <2>0. players \subseteq Player /\ deadTotal \in Nat BY <1>1 DEF IInv, TypeOK
  <2>1. ASSUME deadTotal' = deadTotal,
               \A p \in players \cap players' : runtime'[p].health = runtime[p].health
        PROVE  Counts
    <3>1. Dying = {} BY <2>1
    <3> QED BY <2>0, <2>1, <3>1, FS_EmptySet
  <2>2. CASE \E p \in Player \ players : UpsertPlayer(p)
    <3>1. PICK p \in Player \ players : UpsertPlayer(p) BY <2>2
    <3>2. /\ deadTotal' = deadTotal
          /\ \A q \in players \cap players' : runtime'[q].health = runtime[q].health
      BY <1>1, <2>0, <3>1 DEF UpsertPlayer, IInv, TypeOK
    <3> QED BY <2>1, <3>2
  <2>3. CASE \E p \in Player : RemovePlayer(p)
    <3>1. PICK p \in Player : RemovePlayer(p) BY <2>3
    <3>2. /\ deadTotal' = deadTotal
          /\ \A q \in players \cap players' : runtime'[q].health = runtime[q].health
      BY <1>1, <2>0, <3>1 DEF RemovePlayer, IInv, TypeOK
    <3> QED BY <2>1, <3>2
  <2>4. CASE \E p \in Player, seq \in 0 .. MaxSeq, fire \in BOOLEAN :
                ApplyInput(p, seq, fire)
    <3>1. PICK p \in Player, seq \in 0 .. MaxSeq, fire \in BOOLEAN :
                 ApplyInput(p, seq, fire)
      BY <2>4
    <3>2. \A q \in players \cap players' : runtime'[q].health = runtime[q].health
      BY <1>1, <2>0, <3>1, InputHarmsNobody DEF IInv, TypeOK
    <3>3. deadTotal' = deadTotal BY <3>1 DEF ApplyInput
    <3> QED BY <2>1, <3>2, <3>3
  <2>5. CASE \E now \in elapsed .. elapsed + MaxDelta :
                /\ now <= MaxTime
                /\ \E contact \in [Flying(now) -> Player \cup {Nobody}] : Tick(now, contact)
    <3>0. PICK now \in elapsed .. elapsed + MaxDelta :
                 \E contact \in [Flying(now) -> Player \cup {Nobody}] : Tick(now, contact)
      BY <2>5
    <3>1. PICK contact \in [Flying(now) -> Player \cup {Nobody}] : Tick(now, contact)
      BY <3>0
    <3>2. /\ Touches(contact) /\ players' = players
          /\ deadTotal' = deadTotal + Cardinality(Fatal(contact))
          /\ \A p \in players : runtime'[p].health = HealthAfter(p, HitsOn(contact, p))
      BY <1>1, <2>0, <3>1 DEF Tick, IInv, TypeOK, Runtime
    <3>3. Flying(now) \in SUBSET projectiles BY DEF Flying
    <3>4. /\ TypeOK /\ IdsAreUnique /\ DeathIsAnnouncedOnce BY <1>1 DEF IInv
    <3>5. Killed(contact) = {p \in players :
                               /\ runtime[p].health > 0
                               /\ HealthAfter(p, HitsOn(contact, p)) = 0}
      BY <3>2, <3>3, <3>4, HitsFacts
    <3>6. Dying = Killed(contact) BY <3>2, <3>5
    <3>7. /\ IsFiniteSet(Fatal(contact))
          /\ Cardinality(Killed(contact)) = Cardinality(Fatal(contact))
      BY <3>2, <3>3, <3>4, FatalCount
    <3>8. Cardinality(Fatal(contact)) \in Nat BY <3>7, FS_CardinalityType
    <3> HIDE DEF Dying
    <3>9. Cardinality(Dying) = Cardinality(Fatal(contact)) BY <3>6, <3>7
    <3>10. deadTotal' - deadTotal = Cardinality(Fatal(contact)) BY <2>0, <3>2, <3>8
    <3> QED BY <3>9, <3>10
  <2>6. CASE ConsumeDeathEvents
    BY <2>1, <2>6 DEF ConsumeDeathEvents
  <2>7. CASE UNCHANGED vars BY <2>1, <2>7 DEF vars
  <2> QED BY <1>1, <2>2, <2>3, <2>4, <2>5, <2>6, <2>7 DEF Next
<1>2. IInv /\ [Next]_vars => [Counts]_vars BY <1>1
<1> QED BY <1>2, Invariance, PTL DEF Spec, EachDeathCountsOnce

(* The dead stay dead and fire no shot before they join again.             *)
THEOREM DeadStayDead == Spec => TheDeadStayDead
PROOF
<1> DEFINE Stays == \A p \in players \cap players' :
                      runtime[p].health = 0 =>
                          runtime'[p].health = 0 /\ runtime'[p].shots = runtime[p].shots
<1>1. ASSUME IInv, [Next]_vars PROVE Stays
  <2>0. /\ players \subseteq Player /\ runtime \in [Player -> Runtime]
        /\ \A p \in players : runtime[p].health \in Nat
    BY <1>1, SessionAssumption DEF IInv, TypeOK, Runtime
  <2>1. CASE \E p \in Player \ players : UpsertPlayer(p)
    BY <2>0, <2>1 DEF UpsertPlayer
  <2>2. CASE \E p \in Player : RemovePlayer(p)
    BY <2>0, <2>2 DEF RemovePlayer
  <2>3. CASE \E p \in Player, seq \in 0 .. MaxSeq, fire \in BOOLEAN :
                ApplyInput(p, seq, fire)
    BY <1>1, <2>0, <2>3, InputHarmsNobody DEF IInv
  <2>4. CASE \E now \in elapsed .. elapsed + MaxDelta :
                /\ now <= MaxTime
                /\ \E contact \in [Flying(now) -> Player \cup {Nobody}] : Tick(now, contact)
    <3>1. PICK now \in elapsed .. elapsed + MaxDelta :
                 \E contact \in [Flying(now) -> Player \cup {Nobody}] : Tick(now, contact)
      BY <2>4
    <3>2. PICK contact \in [Flying(now) -> Player \cup {Nobody}] : Tick(now, contact)
      BY <3>1
    <3>3. /\ Touches(contact)
          /\ \A p \in players :
                /\ runtime'[p].health = HealthAfter(p, HitsOn(contact, p))
                /\ runtime'[p].shots = runtime[p].shots
      BY <2>0, <3>2 DEF Tick, Runtime
    <3>4. Flying(now) \in SUBSET projectiles BY DEF Flying
    <3>5. TypeOK /\ IdsAreUnique /\ DeathIsAnnouncedOnce BY <1>1 DEF IInv
    <3>6. \A p \in Player : IsFiniteSet(HitsOn(contact, p))
      BY <3>3, <3>4, <3>5, HitsFacts
    <3>7. \A p \in players : /\ HealthAfter(p, HitsOn(contact, p)) \in 0 .. MaxHealth
                             /\ HealthAfter(p, HitsOn(contact, p)) <= runtime[p].health
      BY <2>0, <3>5, <3>6, HealthAfterFacts
    <3> QED BY <2>0, <3>3, <3>7, SessionAssumption
  <2>5. CASE ConsumeDeathEvents BY <2>5 DEF ConsumeDeathEvents
  <2>6. CASE UNCHANGED vars BY <2>6 DEF vars
  <2> QED BY <1>1, <2>1, <2>2, <2>3, <2>4, <2>5, <2>6 DEF Next
<1>2. IInv /\ [Next]_vars => [Stays]_vars BY <1>1
<1> QED BY <1>2, Invariance, PTL DEF Spec, TheDeadStayDead
=============================================================================
