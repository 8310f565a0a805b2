------------------------ MODULE WebSocketServerProofs ------------------------
(***************************************************************************)
(* Proofs about WebSocketServer for any sets of sessions and players and   *)
(* any bound on sequence numbers.                                          *)
(***************************************************************************)
EXTENDS WebSocketServer, FiniteSetTheorems, TLAPS

(* The part of the invariant that speaks of the shared state alone, so that *)
(* the lemmas about the calls can be stated for any value of it.            *)
Sound(r) ==
    /\ r \in Registry
    /\ \A p \in Player, s \in Session :
          r.clients[p] = s <=> r.playerId[s] = p /\ ~r.closed[s]
    /\ r.players = Connected(r)
    /\ Waiting(r) \subseteq Connected(r)
    /\ \A p \in Player :
          r.started[p] = r.ended[p] + (IF p \in Connected(r) THEN 1 ELSE 0)

Counted(r) == r.count = Cardinality(Connected(r))

(* What ties the shared state to the sessions' own progress: a session has *)
(* no name before its first frame, is closed when its last read handler is *)
(* gone, is closed without a name only then, and is only written to after  *)
(* it registered.                                                          *)
SessionsInOrder ==
    \A s \in Session :
        /\ phase[s] \in {"idle", "accepting"} => reg.playerId[s] = NoPlayer
        /\ phase[s] = "done" => reg.closed[s]
        /\ reg.closed[s] /\ reg.playerId[s] = NoPlayer => phase[s] = "done"
        /\ s \in sending => reg.playerId[s] # NoPlayer

IInv ==
    /\ TypeOK
    /\ Sound(reg)
    /\ running => Counted(reg)
    /\ SessionsInOrder

-----------------------------------------------------------------------------
(* UnregisterClient field by field, and that it stays in Registry.          *)
LEMMA UnregisterFields ==
    ASSUME NEW r \in Registry, NEW p \in Player
    PROVE  LET t == UnregisterClient(r, p)
           IN /\ t \in Registry
              /\ t.clients = [r.clients EXCEPT ![p] = NoSession]
              /\ t.count = IF r.clients[p] # NoSession /\ r.count > 0
                            THEN r.count - 1 ELSE r.count
              /\ t.players = r.players \ {p}
              /\ t.ticket = [r.ticket EXCEPT ![p] = 0]
              /\ t.ended = [r.ended EXCEPT ![p] = r.ended[p] + 1]
              /\ t.closed = r.closed /\ t.playerId = r.playerId
              /\ t.lastSeq = r.lastSeq /\ t.orders = r.orders
              /\ t.started = r.started
PROOF
<1>1. [r.clients EXCEPT ![p] = NoSession] \in [Player -> Session \cup {NoSession}]
  BY DEF Registry
<1>2. (IF r.clients[p] # NoSession /\ r.count > 0 THEN r.count - 1 ELSE r.count) \in Nat
  BY DEF Registry
<1>3. r.players \ {p} \in SUBSET Player BY DEF Registry
<1>4. [r.ticket EXCEPT ![p] = 0] \in [Player -> Nat] BY DEF Registry
<1>5. [r.ended EXCEPT ![p] = r.ended[p] + 1] \in [Player -> Nat] BY DEF Registry
<1>6. UnregisterClient(r, p) \in Registry
  BY <1>1, <1>2, <1>3, <1>4, <1>5 DEF Registry, UnregisterClient
<1> DEFINE t == UnregisterClient(r, p)
<1>7. /\ t.clients = [r.clients EXCEPT ![p] = NoSession]
      /\ t.count = IF r.clients[p] # NoSession /\ r.count > 0
                    THEN r.count - 1 ELSE r.count
      /\ t.players = r.players \ {p}
  BY DEF Registry, UnregisterClient
<1>8. /\ t.ticket = [r.ticket EXCEPT ![p] = 0]
      /\ t.ended = [r.ended EXCEPT ![p] = r.ended[p] + 1]
      /\ t.closed = r.closed /\ t.playerId = r.playerId
      /\ t.lastSeq = r.lastSeq /\ t.orders = r.orders
      /\ t.started = r.started
  BY DEF Registry, UnregisterClient
<1> HIDE DEF t
<1> QED BY <1>6, <1>7, <1>8 DEF t

(* The same for setting closed_.                                            *)
LEMMA CloseFields ==
    ASSUME NEW r \in Registry, NEW s \in Session
    PROVE  LET t == [r EXCEPT !.closed[s] = TRUE]
           IN /\ t \in Registry
              /\ t.closed = [r.closed EXCEPT ![s] = TRUE]
              /\ t.clients = r.clients /\ t.count = r.count
              /\ t.players = r.players /\ t.ticket = r.ticket
              /\ t.ended = r.ended /\ t.playerId = r.playerId
              /\ t.lastSeq = r.lastSeq /\ t.orders = r.orders
              /\ t.started = r.started
PROOF BY DEF Registry

(* Stopping a session keeps the shared state sound and the count exact,    *)
(* and takes the session's player, if it had one, out of the registry.     *)
LEMMA StopSessionSound ==
    ASSUME NEW r, NEW s \in Session, Sound(r)
    PROVE  /\ Sound(StopSession(r, s))
           /\ Counted(r) => Counted(StopSession(r, s))
           /\ StopSession(r, s).closed = [r.closed EXCEPT ![s] = TRUE]
           /\ StopSession(r, s).playerId = r.playerId
           /\ ~r.closed[s] /\ r.playerId[s] # NoPlayer
                => StopSession(r, s).clients[r.playerId[s]] = NoSession
PROOF
<1> DEFINE t == StopSession(r, s)
<1>0. r \in Registry BY DEF Sound
<1>1. CASE r.closed[s]
  <2>1. t = r BY <1>1 DEF StopSession
  <2>2. r.closed = [r.closed EXCEPT ![s] = TRUE] BY <1>0, <1>1 DEF Registry
  <2> QED BY <1>1, <2>1, <2>2
<1>2. CASE ~r.closed[s] /\ r.playerId[s] = NoPlayer
  <2>1. t = [r EXCEPT !.closed[s] = TRUE] BY <1>2 DEF StopSession
  <2> HIDE DEF t
  <2>2. /\ t \in Registry /\ t.closed = [r.closed EXCEPT ![s] = TRUE]
        /\ t.clients = r.clients /\ t.playerId = r.playerId /\ t.count = r.count
        /\ t.players = r.players /\ t.ticket = r.ticket
        /\ t.started = r.started /\ t.ended = r.ended
    BY <1>0, <2>1, CloseFields
  <2>3. Connected(t) = Connected(r) /\ Waiting(t) = Waiting(r)
    BY <2>2 DEF Connected, Waiting
  <2>4. \A p \in Player, u \in Session :
           t.clients[p] = u <=> t.playerId[u] = p /\ ~t.closed[u]
    BY <1>0, <1>2, <2>2, ServerAssumption DEF Sound, Registry
  <2>5. Sound(t) BY <2>2, <2>3, <2>4 DEF Sound
  <2> QED BY <1>2, <2>2, <2>3, <2>5 DEF Counted, t
<1>3. CASE ~r.closed[s] /\ r.playerId[s] # NoPlayer
  <2> DEFINE p == r.playerId[s]
             c == [r EXCEPT !.closed[s] = TRUE]
  <2>0. p \in Player BY <1>0, <1>3 DEF Registry
  <2>1. t = UnregisterClient(c, p) BY <1>3 DEF StopSession
  <2>2. r.clients[p] = s BY <1>0, <1>3, <2>0 DEF Sound
  <2>3. /\ c \in Registry /\ c.closed = [r.closed EXCEPT ![s] = TRUE]
        /\ c.clients = r.clients /\ c.count = r.count
        /\ c.players = r.players /\ c.ticket = r.ticket
        /\ c.ended = r.ended /\ c.playerId = r.playerId
        /\ c.started = r.started
    BY <1>0, CloseFields
  <2> HIDE DEF t, c
  <2>4. /\ t \in Registry
        /\ t.clients = [r.clients EXCEPT ![p] = NoSession]
        /\ t.count = IF r.count > 0 THEN r.count - 1 ELSE r.count
        /\ t.players = r.players \ {p}
        /\ t.ticket = [r.ticket EXCEPT ![p] = 0]
        /\ t.ended = [r.ended EXCEPT ![p] = r.ended[p] + 1]
        /\ t.closed = [r.closed EXCEPT ![s] = TRUE]
        /\ t.playerId = r.playerId /\ t.started = r.started
    <3> HIDE DEF p
    <3>1. /\ t \in Registry
          /\ t.clients = [c.clients EXCEPT ![p] = NoSession]
          /\ t.count = IF c.clients[p] # NoSession /\ c.count > 0
                       THEN c.count - 1 ELSE c.count
          /\ t.players = c.players \ {p}
          /\ t.ticket = [c.ticket EXCEPT ![p] = 0]
          /\ t.ended = [c.ended EXCEPT ![p] = c.ended[p] + 1]
          /\ t.closed = c.closed /\ t.playerId = c.playerId
          /\ t.started = c.started
      BY <2>0, <2>1, <2>3, UnregisterFields, Zenon
    <3>2. c.clients[p] # NoSession BY <2>2, <2>3, ServerAssumption
    <3> QED BY <2>3, <3>1, <3>2
  <2>5. /\ Connected(t) = Connected(r) \ {p}
        /\ p \in Connected(r)
        /\ Waiting(t) = Waiting(r) \ {p}
    BY <1>0, <2>0, <2>2, <2>4, ServerAssumption DEF Connected, Waiting, Registry
  <2>6. \A q \in Player, u \in Session :
           t.clients[q] = u <=> t.playerId[u] = q /\ ~t.closed[u]
    BY <1>0, <1>3, <2>0, <2>2, <2>4, ServerAssumption DEF Sound, Registry
  <2>7. \A q \in Player :
           t.started[q] = t.ended[q] + (IF q \in Connected(t) THEN 1 ELSE 0)
    <3> TAKE q \in Player
    <3>1. /\ r.started[q] = r.ended[q] + (IF q \in Connected(r) THEN 1 ELSE 0)
          /\ r.started[q] \in Nat /\ r.ended[q] \in Nat
      BY <1>0 DEF Sound, Registry
    <3>2. CASE q = p BY <1>0, <2>0, <2>4, <2>5, <3>1, <3>2 DEF Registry
    <3>3. CASE q # p BY <1>0, <2>0, <2>4, <2>5, <3>1, <3>3 DEF Registry
    <3> QED BY <3>2, <3>3
  <2>8. Sound(t) BY <2>4, <2>5, <2>6, <2>7 DEF Sound
  <2>9. Counted(r) => Counted(t)
    <3>1. IsFiniteSet(Connected(r)) BY FS_Subset, ServerAssumption DEF Connected
    <3>2. /\ Cardinality(Connected(t)) = Cardinality(Connected(r)) - 1
          /\ Cardinality(Connected(r)) \in Nat
      <4>1. Cardinality(Connected(r) \ {p}) = Cardinality(Connected(r)) - 1
        BY <2>5, <3>1, FS_RemoveElement
      <4> QED BY <2>5, <3>1, <4>1, FS_CardinalityType
    <3>3. Cardinality(Connected(r)) # 0 BY <2>5, <3>1, FS_EmptySet
    <3> QED BY <2>4, <3>2, <3>3 DEF Counted
  <2>10. t.clients[p] = NoSession BY <1>0, <2>0, <2>4 DEF Registry
  <2> QED BY <2>4, <2>8, <2>9, <2>10 DEF t
<1> QED BY <1>1, <1>2, <1>3

(* What OnRead assigns to player_id_ before it registers the session.       *)
Named(r, s, p) == [r EXCEPT !.playerId[s] = p]

LEMMA NamedFields ==
    ASSUME NEW r \in Registry, NEW p \in Player, NEW s \in Session
    PROVE  /\ Named(r, s, p) \in Registry
           /\ Named(r, s, p).playerId = [r.playerId EXCEPT ![s] = p]
           /\ Named(r, s, p).clients = r.clients
           /\ Named(r, s, p).count = r.count
           /\ Named(r, s, p).players = r.players
           /\ Named(r, s, p).ticket = r.ticket
           /\ Named(r, s, p).orders = r.orders
           /\ Named(r, s, p).started = r.started
           /\ Named(r, s, p).ended = r.ended
           /\ Named(r, s, p).closed = r.closed
           /\ Named(r, s, p).lastSeq = r.lastSeq
PROOF
<1>1. [r.playerId EXCEPT ![s] = p] \in [Session -> Player \cup {NoPlayer}]
  BY DEF Registry
<1>2. Named(r, s, p) \in Registry BY <1>1 DEF Named, Registry
<1>3. /\ Named(r, s, p).playerId = [r.playerId EXCEPT ![s] = p]
      /\ Named(r, s, p).clients = r.clients
      /\ Named(r, s, p).count = r.count
      /\ Named(r, s, p).players = r.players
      /\ Named(r, s, p).ticket = r.ticket
  BY DEF Named, Registry
<1>4. /\ Named(r, s, p).orders = r.orders
      /\ Named(r, s, p).started = r.started
      /\ Named(r, s, p).ended = r.ended
      /\ Named(r, s, p).closed = r.closed
      /\ Named(r, s, p).lastSeq = r.lastSeq
  BY DEF Named, Registry
<1> QED BY <1>2, <1>3, <1>4

(* Registries are equal when their fields are.                             *)
LEMMA RegistryEqual ==
    ASSUME NEW a \in Registry, NEW b \in Registry,
           a.playerId = b.playerId, a.closed = b.closed, a.clients = b.clients,
           a.count = b.count, a.players = b.players, a.lastSeq = b.lastSeq,
           a.ticket = b.ticket, a.orders = b.orders, a.started = b.started,
           a.ended = b.ended
    PROVE  a = b
BY DEF Registry

(* Naming a session commutes with stopping another one.                    *)
LEMMA StopSessionNamed ==
    ASSUME NEW r \in Registry, NEW s \in Session, NEW u \in Session, u # s,
           NEW p \in Player
    PROVE  StopSession(Named(r, s, p), u) = Named(StopSession(r, u), s, p)
PROOF
<1> DEFINE n == Named(r, s, p)
           m == [r EXCEPT !.closed[u] = TRUE]
           k == [n EXCEPT !.closed[u] = TRUE]
           q == r.playerId[u]
<1>1. n \in Registry /\ n.closed = r.closed /\ n.playerId[u] = r.playerId[u]
  <2>1. n \in Registry /\ n.closed = r.closed
        /\ n.playerId = [r.playerId EXCEPT ![s] = p]
    BY NamedFields
  <2>2. r.playerId \in [Session -> Player \cup {NoPlayer}] BY DEF Registry
  <2> HIDE DEF n
  <2> QED BY <2>1, <2>2
<1>2. m \in Registry BY CloseFields
<1>3. k = Named(m, s, p) BY DEF Named, Registry
<1> HIDE DEF k, m, n, q
<1>4. CASE r.closed[u] BY <1>1, <1>4 DEF StopSession, n
<1>5. CASE ~r.closed[u] /\ q = NoPlayer
  <2>1. StopSession(n, u) = k BY <1>1, <1>5 DEF StopSession, k, q
  <2>2. StopSession(r, u) = m BY <1>5 DEF StopSession, m, q
  <2> QED BY <1>3, <2>1, <2>2 DEF n
<1>6. CASE ~r.closed[u] /\ q # NoPlayer
  <2>1. StopSession(n, u) = UnregisterClient(k, q)
    BY <1>1, <1>6 DEF StopSession, k, q
  <2>2. StopSession(r, u) = UnregisterClient(m, q) BY <1>6 DEF StopSession, m, q
  <2>3. q \in Player BY <1>6 DEF q, Registry
  <2>4. UnregisterClient(Named(m, s, p), q) = Named(UnregisterClient(m, q), s, p)
    <3> DEFINE mn == Named(m, s, p)
               mu == UnregisterClient(m, q)
               x == UnregisterClient(mn, q)
               y == Named(mu, s, p)
    <3>1. /\ mn \in Registry
          /\ mn.playerId = [m.playerId EXCEPT ![s] = p]
          /\ mn.clients = m.clients /\ mn.count = m.count
          /\ mn.players = m.players /\ mn.ticket = m.ticket
          /\ mn.orders = m.orders /\ mn.started = m.started
          /\ mn.ended = m.ended /\ mn.closed = m.closed
          /\ mn.lastSeq = m.lastSeq
      BY <1>2, NamedFields
    <3>2. /\ mu \in Registry
          /\ mu.clients = [m.clients EXCEPT ![q] = NoSession]
          /\ mu.count = IF m.clients[q] # NoSession /\ m.count > 0
                         THEN m.count - 1 ELSE m.count
          /\ mu.players = m.players \ {q}
          /\ mu.ticket = [m.ticket EXCEPT ![q] = 0]
          /\ mu.ended = [m.ended EXCEPT ![q] = m.ended[q] + 1]
          /\ mu.closed = m.closed /\ mu.playerId = m.playerId
          /\ mu.lastSeq = m.lastSeq /\ mu.orders = m.orders
          /\ mu.started = m.started
      BY <1>2, <2>3, UnregisterFields
    <3> HIDE DEF mn, mu
    <3>3. /\ x \in Registry
          /\ x.clients = [mn.clients EXCEPT ![q] = NoSession]
          /\ x.count = IF mn.clients[q] # NoSession /\ mn.count > 0
                        THEN mn.count - 1 ELSE mn.count
          /\ x.players = mn.players \ {q}
          /\ x.ticket = [mn.ticket EXCEPT ![q] = 0]
          /\ x.ended = [mn.ended EXCEPT ![q] = mn.ended[q] + 1]
          /\ x.closed = mn.closed /\ x.playerId = mn.playerId
          /\ x.lastSeq = mn.lastSeq /\ x.orders = mn.orders
          /\ x.started = mn.started
      BY <2>3, <3>1, UnregisterFields
    <3>4. /\ y \in Registry
          /\ y.playerId = [mu.playerId EXCEPT ![s] = p]
          /\ y.clients = mu.clients /\ y.count = mu.count
          /\ y.players = mu.players /\ y.ticket = mu.ticket
          /\ y.orders = mu.orders /\ y.started = mu.started
          /\ y.ended = mu.ended /\ y.closed = mu.closed
          /\ y.lastSeq = mu.lastSeq
      <4>1. mu \in Registry BY <3>2
      <4> QED BY <4>1, NamedFields
    <3> HIDE DEF x, y
    <3>5. /\ x.playerId = y.playerId /\ x.closed = y.closed
          /\ x.clients = y.clients /\ x.count = y.count
          /\ x.players = y.players /\ x.lastSeq = y.lastSeq
          /\ x.ticket = y.ticket /\ x.orders = y.orders
          /\ x.started = y.started /\ x.ended = y.ended
      BY <3>1, <3>2, <3>3, <3>4
    <3>6. x = y BY <3>3, <3>4, <3>5, RegistryEqual
    <3> QED BY <3>6 DEF x, y, mn, mu
  <2> QED BY <1>3, <2>1, <2>2, <2>4 DEF n
<1> QED BY <1>4, <1>5, <1>6

(* Join on a named session whose player's entry is free, field by field.   *)
Joined(r, t, p, s) ==
    /\ t \in Registry
    /\ t.playerId = [r.playerId EXCEPT ![s] = p]
    /\ t.clients = [r.clients EXCEPT ![p] = s]
    /\ t.count = r.count + 1
    /\ t.players = r.players \cup {p}
    /\ t.ticket = [r.ticket EXCEPT ![p] = r.orders + 1]
    /\ t.started = [r.started EXCEPT ![p] = r.started[p] + 1]
    /\ t.ended = r.ended /\ t.closed = r.closed
    /\ t.orders = r.orders + 1
    /\ t.lastSeq = [r.lastSeq EXCEPT ![p] = IF p \in r.players
                                            THEN r.lastSeq[p] ELSE 0]

LEMMA JoinFields ==
    ASSUME NEW r \in Registry, NEW p \in Player, NEW s \in Session
    PROVE  Joined(r, Join(Named(r, s, p), p, s), p, s)
PROOF
<1> DEFINE n == Named(r, s, p)
<1>1. n \in Registry BY NamedFields
<1>2. /\ n.clients = r.clients /\ n.count = r.count /\ n.players = r.players
      /\ n.ticket = r.ticket /\ n.orders = r.orders /\ n.started = r.started
      /\ n.ended = r.ended /\ n.closed = r.closed /\ n.lastSeq = r.lastSeq
      /\ n.playerId = [r.playerId EXCEPT ![s] = p]
  BY NamedFields
<1> HIDE DEF n
<1>3. [n.clients EXCEPT ![p] = s] \in [Player -> Session \cup {NoSession}]
  BY <1>1 DEF Registry
<1>4. n.count + 1 \in Nat /\ n.orders + 1 \in Nat BY <1>1 DEF Registry
<1>5. n.players \cup {p} \in SUBSET Player BY <1>1 DEF Registry
<1>6. [n.lastSeq EXCEPT ![p] = IF p \in n.players THEN n.lastSeq[p] ELSE 0]
        \in [Player -> 0 .. MaxSeq]
  BY <1>1, ServerAssumption DEF Registry
<1>7. [n.ticket EXCEPT ![p] = n.orders + 1] \in [Player -> Nat]
  BY <1>1, <1>4 DEF Registry
<1>8. [n.started EXCEPT ![p] = n.started[p] + 1] \in [Player -> Nat]
  BY <1>1 DEF Registry
<1>9. Join(n, p, s) \in Registry
  BY <1>1, <1>3, <1>4, <1>5, <1>6, <1>7, <1>8 DEF Registry, Join
<1>10. LET t == Join(n, p, s)
       IN /\ t.playerId = n.playerId
          /\ t.clients = [n.clients EXCEPT ![p] = s]
          /\ t.count = n.count + 1
          /\ t.players = n.players \cup {p}
          /\ t.ticket = [n.ticket EXCEPT ![p] = n.orders + 1]
          /\ t.started = [n.started EXCEPT ![p] = n.started[p] + 1]
          /\ t.ended = n.ended /\ t.closed = n.closed
  BY <1>1 DEF Join, Registry
<1>11. LET t == Join(n, p, s)
       IN /\ t.orders = n.orders + 1
          /\ t.lastSeq = [n.lastSeq EXCEPT ![p] = IF p \in n.players
                                                  THEN n.lastSeq[p] ELSE 0]
  BY <1>1 DEF Join, Registry
<1> QED BY <1>2, <1>9, <1>10, <1>11 DEF n, Joined

(* Registering a session that has no name yet, whether or not the player   *)
(* is connected elsewhere, keeps the shared state sound and the count      *)
(* exact.                                                                  *)
LEMMA RegisterClientSound ==
    ASSUME NEW r, NEW p \in Player, NEW s \in Session, Sound(r),
           r.playerId[s] = NoPlayer, ~r.closed[s],
           Lock(r.clients[p]) = r.clients[p]
    PROVE  LET t == RegisterClient(Named(r, s, p), p, s)
           IN /\ Sound(t)
              /\ Counted(r) => Counted(t)
              /\ t.playerId = [r.playerId EXCEPT ![s] = p]
              /\ \A u \in Session :
                    r.closed[u] /\ r.playerId[u] = NoPlayer <=>
                    t.closed[u] /\ r.playerId[u] = NoPlayer
              /\ \A u \in Session : r.closed[u] => t.closed[u]
PROOF
<1> DEFINE n == Named(r, s, p)
           v == r.clients[p]
           g == IF v = NoSession THEN r ELSE StopSession(r, v)
           t == Join(Named(g, s, p), p, s)
<1>0. r \in Registry BY DEF Sound
<1>1. n.clients = r.clients BY <1>0, NamedFields
<1>2. v # NoSession => /\ v \in Session /\ v # s
                       /\ r.playerId[v] = p /\ ~r.closed[v]
  BY <1>0, ServerAssumption DEF Sound, Registry
<1>3. RegisterClient(n, p, s) = t
  <2>1. v # NoSession => StopSession(n, v) = Named(StopSession(r, v), s, p)
    BY <1>0, <1>2, StopSessionNamed
  <2> QED BY <1>1, <2>1 DEF RegisterClient
<1>4. /\ Sound(g) /\ (Counted(r) => Counted(g))
      /\ g.clients[p] = NoSession
      /\ g.playerId = r.playerId
      /\ \A u \in Session : r.closed[u] => g.closed[u]
      /\ \A u \in Session : r.playerId[u] = NoPlayer => g.closed[u] = r.closed[u]
  <2>1. CASE v = NoSession BY <2>1
  <2>2. CASE v # NoSession
    <3>1. g = StopSession(r, v) BY <2>2
    <3> HIDE DEF g
    <3>2. /\ Sound(g) /\ (Counted(r) => Counted(g))
          /\ g.closed = [r.closed EXCEPT ![v] = TRUE]
          /\ g.playerId = r.playerId
          /\ g.clients[p] = NoSession
      BY <1>2, <2>2, <3>1, StopSessionSound, ServerAssumption
    <3>3. r.closed \in [Session -> BOOLEAN] BY <1>0 DEF Registry
    <3>4. \A u \in Session : g.closed[u] = IF u = v THEN TRUE ELSE r.closed[u]
      BY <3>2, <3>3
    <3>5. r.playerId[v] # NoPlayer BY <1>2, <2>2, ServerAssumption
    <3>6. \A u \in Session : r.playerId[u] = NoPlayer => g.closed[u] = r.closed[u]
      BY <3>4, <3>5
    <3> QED BY <3>2, <3>4, <3>6
  <2> QED BY <2>1, <2>2
<1> HIDE DEF g
<1>5. g \in Registry BY <1>4 DEF Sound
<1>6. /\ t \in Registry
      /\ t.playerId = [g.playerId EXCEPT ![s] = p]
      /\ t.clients = [g.clients EXCEPT ![p] = s]
      /\ t.count = g.count + 1
      /\ t.players = g.players \cup {p}
      /\ t.ticket = [g.ticket EXCEPT ![p] = g.orders + 1]
      /\ t.started = [g.started EXCEPT ![p] = g.started[p] + 1]
      /\ t.ended = g.ended /\ t.closed = g.closed
  <2>1. Joined(g, t, p, s) BY <1>5, JoinFields
  <2> HIDE DEF t
  <2> QED BY <2>1 DEF Joined
<1> HIDE DEF t
<1>7. /\ Connected(t) = Connected(g) \cup {p} /\ p \notin Connected(g)
      /\ Waiting(t) = Waiting(g) \cup {p}
  <2>1. g.orders + 1 # 0 BY <1>5 DEF Registry
  <2> QED BY <1>4, <1>5, <1>6, <2>1, ServerAssumption DEF Connected, Waiting, Registry
<1>8. \A q \in Player, u \in Session :
         t.clients[q] = u <=> t.playerId[u] = q /\ ~t.closed[u]
  BY <1>0, <1>4, <1>5, <1>6, ServerAssumption DEF Sound, Registry
<1>9. \A q \in Player :
         t.started[q] = t.ended[q] + (IF q \in Connected(t) THEN 1 ELSE 0)
  <2> TAKE q \in Player
  <2>1. /\ g.started[q] = g.ended[q] + (IF q \in Connected(g) THEN 1 ELSE 0)
        /\ g.started[q] \in Nat /\ g.ended[q] \in Nat
    BY <1>4, <1>5 DEF Sound, Registry
  <2>2. CASE q = p BY <1>5, <1>6, <1>7, <2>1, <2>2 DEF Registry
  <2>3. CASE q # p BY <1>5, <1>6, <1>7, <2>1, <2>3 DEF Registry
  <2> QED BY <2>2, <2>3
<1>10. Sound(t) BY <1>4, <1>6, <1>7, <1>8, <1>9 DEF Sound
<1>11. Counted(g) => Counted(t)
  <2>1. IsFiniteSet(Connected(g)) BY FS_Subset, ServerAssumption DEF Connected
  <2>2. Cardinality(Connected(t)) = Cardinality(Connected(g)) + 1
    BY <1>7, <2>1, FS_AddElement
  <2> QED BY <1>6, <2>2 DEF Counted
<1> QED BY <1>0, <1>3, <1>4, <1>6, <1>10, <1>11 DEF n

(* An input changes nothing but a sequence number.                         *)
LEMMA ApplyInputFields ==
    ASSUME NEW r \in Registry, NEW p \in Player, NEW n \in 0 .. MaxSeq
    PROVE  LET t == ApplyInput(r, p, n)
           IN /\ t \in Registry
              /\ t.playerId = r.playerId /\ t.closed = r.closed
              /\ t.clients = r.clients /\ t.count = r.count
              /\ t.players = r.players /\ t.ticket = r.ticket
              /\ t.started = r.started /\ t.ended = r.ended
              /\ t.orders = r.orders
              /\ \A q \in Player : q # p => t.lastSeq[q] = r.lastSeq[q]
              /\ t.lastSeq[p] >= r.lastSeq[p]
              /\ p \in r.players /\ n >= r.lastSeq[p] => t.lastSeq[p] = n
PROOF
<1>1. [r.lastSeq EXCEPT ![p] = n] \in [Player -> 0 .. MaxSeq] BY DEF Registry
<1>2. CASE p \in r.players /\ n >= r.lastSeq[p]
  <2>1. ApplyInput(r, p, n) = [r EXCEPT !.lastSeq[p] = n] BY <1>2 DEF ApplyInput
  <2>2. [r EXCEPT !.lastSeq[p] = n] \in Registry BY <1>1 DEF Registry
  <2> DEFINE t == [r EXCEPT !.lastSeq[p] = n]
  <2>3. /\ t.playerId = r.playerId /\ t.closed = r.closed
        /\ t.clients = r.clients /\ t.count = r.count
        /\ t.players = r.players /\ t.ticket = r.ticket
        /\ t.started = r.started /\ t.ended = r.ended
        /\ t.orders = r.orders
    BY DEF Registry
  <2>4. t.lastSeq[p] = n /\ \A q \in Player : q # p => t.lastSeq[q] = r.lastSeq[q]
    BY DEF Registry
  <2> HIDE DEF t
  <2> QED BY <1>2, <2>1, <2>2, <2>3, <2>4 DEF t
<1>3. CASE ~(p \in r.players /\ n >= r.lastSeq[p])
  <2>1. ApplyInput(r, p, n) = r BY <1>3 DEF ApplyInput
  <2>2. r.lastSeq[p] \in Nat BY ServerAssumption DEF Registry
  <2> QED BY <1>3, <2>1, <2>2
<1> QED BY <1>2, <1>3

(* With every registered session alive, a shutdown empties the registry,   *)
(* the game and the queue, closes exactly the registered sessions, and     *)
(* every started player is ended.                                          *)
LEMMA StopServerSound ==
    ASSUME NEW r, Sound(r),
           \A p \in Player : Lock(r.clients[p]) = r.clients[p]
    PROVE  LET t == StopServer(r)
           IN /\ Sound(t)
              /\ t.playerId = r.playerId
              /\ \A s \in Session : r.closed[s] => t.closed[s]
              /\ \A s \in Session : r.playerId[s] = NoPlayer => t.closed[s] = r.closed[s]
PROOF
<1> DEFINE t == StopServer(r)
           leaving == {s \in Alive(r) : ~r.closed[s]}
           gone == {p \in Player : \E s \in leaving : r.playerId[s] = p}
<1>0. r \in Registry BY DEF Sound
<1>1. leaving = {s \in Session : ~r.closed[s] /\ r.playerId[s] # NoPlayer}
  <2>1. \A s \in Session : s \in Alive(r) <=> \E p \in Player : r.clients[p] = s
    BY DEF Alive
  <2> QED BY <1>0, <2>1, ServerAssumption DEF Sound, Registry, Alive
<1>2. gone = Connected(r)
  BY <1>0, <1>1, ServerAssumption DEF Sound, Registry, Connected
<1> HIDE DEF leaving, gone
<1>3. t = [r EXCEPT !.clients = [p \in Player |-> NoSession],
                    !.closed  = [s \in Session |-> r.closed[s] \/ s \in leaving],
                    !.players = r.players \ gone,
                    !.ticket  = [p \in Player |-> IF p \in gone THEN 0 ELSE r.ticket[p]],
                    !.ended   = [p \in Player |-> IF p \in gone THEN r.ended[p] + 1
                                                                ELSE r.ended[p]]]
  BY DEF StopServer, leaving, gone
<1> HIDE DEF t
<1>4. /\ [p \in Player |-> NoSession] \in [Player -> Session \cup {NoSession}]
      /\ r.players \ gone \in SUBSET Player
  BY <1>0 DEF Registry
<1>5. [s \in Session |-> r.closed[s] \/ s \in leaving] \in [Session -> BOOLEAN]
  OBVIOUS
<1>6. [p \in Player |-> IF p \in gone THEN 0 ELSE r.ticket[p]] \in [Player -> Nat]
  BY <1>0 DEF Registry
<1>7. [p \in Player |-> IF p \in gone THEN r.ended[p] + 1 ELSE r.ended[p]]
        \in [Player -> Nat]
  BY <1>0 DEF Registry
<1>8. /\ t.clients = [p \in Player |-> NoSession]
      /\ t.closed = [s \in Session |-> r.closed[s] \/ s \in leaving]
      /\ t.players = r.players \ gone
      /\ t.ticket = [p \in Player |-> IF p \in gone THEN 0 ELSE r.ticket[p]]
      /\ t.ended = [p \in Player |-> IF p \in gone THEN r.ended[p] + 1 ELSE r.ended[p]]
      /\ t.playerId = r.playerId /\ t.started = r.started
  BY <1>0, <1>3 DEF Registry
<1>9. t \in Registry BY <1>0, <1>3, <1>4, <1>5, <1>6, <1>7 DEF Registry
<1>10. Connected(t) = {} /\ t.players = {} /\ Waiting(t) = {}
  BY <1>0, <1>2, <1>8 DEF Connected, Waiting, Sound, Registry
<1>11. \A p \in Player, s \in Session :
          t.clients[p] = s <=> t.playerId[s] = p /\ ~t.closed[s]
  <2>1. \A s \in Session : t.closed[s] \/ t.playerId[s] = NoPlayer
    <3> TAKE s \in Session
    <3>1. t.closed[s] = (r.closed[s] \/ s \in leaving) BY <1>8
    <3>2. r.closed[s] \/ r.playerId[s] = NoPlayer \/ s \in leaving BY <1>1
    <3> QED BY <1>8, <3>1, <3>2
  <2>2. \A p \in Player, s \in Session : t.clients[p] # s
    BY <1>8, ServerAssumption
  <2> QED BY <2>1, <2>2, ServerAssumption
<1>12. \A p \in Player : t.started[p] = t.ended[p] + (IF p \in Connected(t) THEN 1 ELSE 0)
  <2> TAKE p \in Player
  <2>1. /\ r.started[p] = r.ended[p] + (IF p \in Connected(r) THEN 1 ELSE 0)
        /\ r.started[p] \in Nat /\ r.ended[p] \in Nat
    BY <1>0 DEF Sound, Registry
  <2> QED BY <1>2, <1>8, <1>10, <2>1
<1>13. Sound(t) BY <1>9, <1>10, <1>11, <1>12 DEF Sound
<1> QED BY <1>0, <1>1, <1>8, <1>13 DEF t, Registry

-----------------------------------------------------------------------------
(* In a state of the invariant every registered session has a handler      *)
(* pending, so locking its weak_ptr succeeds.                              *)
LEMMA LockSucceeds ==
    ASSUME IInv
    PROVE  \A p \in Player : Lock(reg.clients[p]) = reg.clients[p]
PROOF BY DEF IInv, Sound, SessionsInOrder, Lock, Held

LEMMA InitInvariant == ASSUME Init PROVE IInv
PROOF
<1> USE DEF Init
<1>1. TypeOK
  <2>1. reg \in Registry BY ServerAssumption DEF Registry
  <2>2. frame \in [Session -> Frame] BY DEF Frame
  <2>3. phase \in [Session -> Phases] BY DEF Phases
  <2>4. running \in BOOLEAN /\ blocked \in BOOLEAN /\ sending \in SUBSET Session
    OBVIOUS
  <2> HIDE DEF Init
  <2> QED BY <2>1, <2>2, <2>3, <2>4 DEF TypeOK
<1>2. Connected(reg) = {} /\ Waiting(reg) = {} BY DEF Connected, Waiting
<1>3. Sound(reg)
  <2>1. reg \in Registry BY <1>1 DEF TypeOK
  <2>2. \A p \in Player, s \in Session :
           reg.clients[p] = s <=> reg.playerId[s] = p /\ ~reg.closed[s]
    BY ServerAssumption
  <2>3. \A p \in Player :
           reg.started[p] = reg.ended[p] + (IF p \in Connected(reg) THEN 1 ELSE 0)
    <3>1. \A p \in Player : reg.started[p] = 0 /\ reg.ended[p] = 0 OBVIOUS
    <3>2. \A p \in Player : p \notin Connected(reg) BY <1>2
    <3> HIDE DEF Init
    <3> QED BY <3>1, <3>2
  <2>4. reg.players = {} OBVIOUS
  <2> QED BY <1>2, <2>1, <2>2, <2>3, <2>4 DEF Sound
<1>4. Counted(reg) BY <1>2, FS_EmptySet DEF Counted
<1>5. SessionsInOrder BY DEF SessionsInOrder
<1> QED BY <1>1, <1>3, <1>4, <1>5 DEF IInv

(* Ending a session's last handler with Stop, after a failed handshake or  *)
(* a failed read.                                                          *)
LEMMA EndSessionInvariant ==
    ASSUME IInv, NEW s \in Session,
           phase' = [phase EXCEPT ![s] = "done"], reg' = StopSession(reg, s),
           BlocksInStop(s), UNCHANGED <<running, frame, sending>>
    PROVE  IInv'
PROOF
<1>1. /\ Sound(reg') /\ (Counted(reg) => Counted(reg'))
      /\ reg'.closed = [reg.closed EXCEPT ![s] = TRUE]
      /\ reg'.playerId = reg.playerId
  BY StopSessionSound DEF IInv
<1>2. TypeOK'
  <2>1. blocked' \in BOOLEAN BY DEF IInv, TypeOK, Registry, BlocksInStop
  <2> QED BY <1>1, <2>1 DEF IInv, TypeOK, Phases, Sound
<1>3. SessionsInOrder'
  <2>1. reg.closed \in [Session -> BOOLEAN] /\ phase \in [Session -> Phases]
    BY DEF IInv, TypeOK, Registry
  <2> QED BY <1>1, <2>1 DEF IInv, SessionsInOrder
<1> QED BY <1>1, <1>2, <1>3 DEF IInv

LEMMA NextInvariant == ASSUME IInv, [Next]_vars PROVE IInv'
PROOF
<1>1. ASSUME NEW s \in Session, Accept(s) PROVE IInv'
  BY <1>1 DEF Accept, IInv, TypeOK, Phases, SessionsInOrder
<1>2. ASSUME NEW s \in Session, HandshakeOk(s) PROVE IInv'
  BY <1>2 DEF HandshakeOk, IInv, TypeOK, Phases, SessionsInOrder
<1>3. ASSUME NEW s \in Session, HandshakeFailed(s) PROVE IInv'
  BY <1>3, EndSessionInvariant DEF HandshakeFailed
<1>4. ASSUME NEW s \in Session, NEW f \in Frame, ReadCompletes(s, f) PROVE IInv'
  BY <1>4 DEF ReadCompletes, IInv, TypeOK, Phases, SessionsInOrder
<1>5. ASSUME NEW s \in Session, ReadFails(s) PROVE IInv'
  BY <1>5 DEF ReadFails, IInv, TypeOK, Phases, SessionsInOrder
<1>6. ASSUME NEW s \in Session, OnRead(s) PROVE IInv'
  <2>0. /\ phase[s] = "read" /\ phase' = [phase EXCEPT ![s] = "reading"]
        /\ frame' = [frame EXCEPT ![s] = Malformed]
        /\ blocked' \in BOOLEAN
        /\ UNCHANGED <<running, sending>>
    BY <1>6 DEF OnRead
  <2>1. /\ reg \in Registry /\ phase \in [Session -> Phases] /\ Sound(reg)
        /\ frame[s] \in Frame
    BY DEF IInv, TypeOK
  <2>2. SUFFICES /\ Sound(reg') /\ (Counted(reg) => Counted(reg'))
                 /\ \A u \in Session : u # s => reg'.playerId[u] = reg.playerId[u]
                 /\ \A u \in Session : reg.playerId[u] # NoPlayer => reg'.playerId[u] # NoPlayer
                 /\ \A u \in Session : reg.closed[u] => reg'.closed[u]
                 /\ \A u \in Session : reg.playerId[u] = NoPlayer
                                          => reg'.closed[u] = reg.closed[u]
    <3>1. TypeOK'
      BY <2>0, <2>2 DEF IInv, TypeOK, Phases, Sound, Frame
    <3>2. SessionsInOrder'
      BY <2>0, <2>1, <2>2 DEF IInv, SessionsInOrder
    <3> QED BY <2>0, <2>2, <3>1, <3>2 DEF IInv
  <2>3. CASE frame[s] = Malformed
    BY <1>6, <2>1, <2>3 DEF OnRead
  <2>4. CASE frame[s] # Malformed /\ reg.playerId[s] # NoPlayer
    <3> DEFINE p == reg.playerId[s]
               n == frame[s].seq
    <3>1. reg' = ApplyInput(reg, p, n) BY <1>6, <2>4 DEF OnRead
    <3>2. p \in Player /\ n \in 0 .. MaxSeq BY <2>1, <2>4 DEF Registry, Frame
    <3> HIDE DEF p, n
    <3>3. /\ reg' \in Registry
          /\ reg'.playerId = reg.playerId /\ reg'.closed = reg.closed
          /\ reg'.clients = reg.clients /\ reg'.count = reg.count
          /\ reg'.players = reg.players /\ reg'.ticket = reg.ticket
          /\ reg'.started = reg.started /\ reg'.ended = reg.ended
      BY <2>1, <3>1, <3>2, ApplyInputFields
    <3>4. Connected(reg') = Connected(reg) /\ Waiting(reg') = Waiting(reg)
      BY <3>3 DEF Connected, Waiting
    <3>5. Sound(reg') BY <2>1, <3>3, <3>4 DEF Sound
    <3> QED BY <3>3, <3>4, <3>5 DEF Counted
  <2>5. CASE frame[s] # Malformed /\ reg.playerId[s] = NoPlayer
    <3> DEFINE p == frame[s].player
               n == frame[s].seq
               r == RegisterClient(Named(reg, s, p), p, s)
    <3>1. reg' = ApplyInput(r, p, n) BY <1>6, <2>5 DEF OnRead, Named
    <3>2. p \in Player /\ n \in 0 .. MaxSeq BY <2>1, <2>5 DEF Frame
    <3>3. ~reg.closed[s] BY <2>0, <2>5 DEF IInv, SessionsInOrder
    <3> HIDE DEF p, n
    <3>4. /\ Sound(r) /\ (Counted(reg) => Counted(r))
          /\ r.playerId = [reg.playerId EXCEPT ![s] = p]
          /\ \A u \in Session : reg.closed[u] /\ reg.playerId[u] = NoPlayer <=>
                                r.closed[u] /\ reg.playerId[u] = NoPlayer
          /\ \A u \in Session : reg.closed[u] => r.closed[u]
      BY <2>1, <2>5, <3>2, <3>3, LockSucceeds, RegisterClientSound
    <3> HIDE DEF r
    <3>5. r \in Registry BY <3>4 DEF Sound
    <3>6. /\ reg' \in Registry
          /\ reg'.playerId = r.playerId /\ reg'.closed = r.closed
          /\ reg'.clients = r.clients /\ reg'.count = r.count
          /\ reg'.players = r.players /\ reg'.ticket = r.ticket
          /\ reg'.started = r.started /\ reg'.ended = r.ended
      BY <3>1, <3>2, <3>5, ApplyInputFields
    <3>7. Connected(reg') = Connected(r) /\ Waiting(reg') = Waiting(r)
      BY <3>6 DEF Connected, Waiting
    <3>8. Sound(reg') /\ (Counted(reg) => Counted(reg'))
      BY <3>4, <3>6, <3>7 DEF Sound, Counted
    <3>9. \A u \in Session : reg.closed[u] \in BOOLEAN /\ r.closed[u] \in BOOLEAN
      BY <2>1, <3>5 DEF Registry
    <3>10. \A u \in Session : r.playerId[u] = IF u = s THEN p ELSE reg.playerId[u]
      BY <2>1, <3>4 DEF Registry
    <3> QED BY <3>2, <3>4, <3>6, <3>8, <3>9, <3>10, ServerAssumption
  <2> QED BY <2>3, <2>4, <2>5
<1>7. ASSUME NEW s \in Session, OnReadError(s) PROVE IInv'
  BY <1>7, EndSessionInvariant DEF OnReadError
<1>8. ASSUME NEW s \in Session, OnWriteError(s) PROVE IInv'
  <2>1. /\ Sound(reg') /\ (Counted(reg) => Counted(reg'))
        /\ reg'.closed = [reg.closed EXCEPT ![s] = TRUE]
        /\ reg'.playerId = reg.playerId
    BY <1>8, StopSessionSound DEF IInv, OnWriteError
  <2>3. reg.closed \in [Session -> BOOLEAN] BY DEF IInv, TypeOK, Registry
  <2>2. TypeOK'
    BY <1>8, <2>1, <2>3 DEF IInv, TypeOK, Sound, OnWriteError, BlocksInStop
  <2>4. SessionsInOrder'
    BY <1>8, <2>1, <2>3 DEF IInv, SessionsInOrder, OnWriteError
  <2> QED BY <1>8, <2>1, <2>2, <2>4 DEF IInv, OnWriteError
<1>9. CASE BroadcastState
  <2>1. reg \in Registry BY DEF IInv, TypeOK
  <2>2. [p \in Player |-> Lock(reg.clients[p])] = reg.clients
    BY <2>1, LockSucceeds DEF Registry
  <2>3. reg' = reg BY <1>9, <2>1, <2>2 DEF BroadcastState, Registry
  <2>4. \A s \in Alive(reg) : s \in Session /\ reg.playerId[s] # NoPlayer
    BY LockSucceeds, ServerAssumption DEF IInv, Sound, Alive
  <2>5. sending' \in SUBSET Session /\ SessionsInOrder'
    BY <1>9, <2>3, <2>4 DEF BroadcastState, IInv, TypeOK, SessionsInOrder
  <2> QED BY <1>9, <2>3, <2>5 DEF BroadcastState, IInv, TypeOK
<1>10. CASE RunMatching
  <2> DEFINE k == [p \in Player |-> IF p \in MatchedNow(reg) THEN 0 ELSE reg.ticket[p]]
  <2>1. reg \in Registry /\ Sound(reg) BY DEF IInv, TypeOK
  <2>2. k \in [Player -> Nat] BY <2>1 DEF Registry
  <2>3. reg' = [reg EXCEPT !.ticket = k] BY <1>10 DEF RunMatching
  <2>4. \A p \in Player : k[p] # 0 => reg.ticket[p] # 0 OBVIOUS
  <2> HIDE DEF k
  <2>5. /\ reg' \in Registry /\ reg'.ticket = k
        /\ reg'.playerId = reg.playerId /\ reg'.closed = reg.closed
        /\ reg'.clients = reg.clients /\ reg'.count = reg.count
        /\ reg'.players = reg.players
        /\ reg'.started = reg.started /\ reg'.ended = reg.ended
    BY <2>1, <2>2, <2>3 DEF Registry
  <2>6. Connected(reg') = Connected(reg) /\ Waiting(reg') \subseteq Waiting(reg)
    BY <2>4, <2>5 DEF Connected, Waiting
  <2>7. Sound(reg') BY <2>1, <2>5, <2>6 DEF Sound
  <2> QED
    BY <1>10, <2>5, <2>6, <2>7
    DEF RunMatching, IInv, TypeOK, Counted, SessionsInOrder
<1>11. CASE Shutdown
  <2>1. /\ Sound(reg') /\ reg'.playerId = reg.playerId
        /\ \A s \in Session : reg.closed[s] => reg'.closed[s]
        /\ \A s \in Session : reg.playerId[s] = NoPlayer => reg'.closed[s] = reg.closed[s]
    BY <1>11, LockSucceeds, StopServerSound DEF IInv, Shutdown
  <2>2. TypeOK' BY <1>11, <2>1 DEF IInv, TypeOK, Sound, Shutdown
  <2>3. SessionsInOrder' BY <1>11, <2>1 DEF IInv, SessionsInOrder, Shutdown
  <2> QED BY <1>11, <2>1, <2>2, <2>3 DEF IInv, Shutdown
<1>12. ASSUME NEW s \in Session, SendingEnds(s) PROVE IInv'
  BY <1>12 DEF SendingEnds, IInv, TypeOK, SessionsInOrder
<1>13. CASE CallReturns
  BY <1>13 DEF CallReturns, IInv, TypeOK, SessionsInOrder
<1>14. CASE UNCHANGED vars
  BY <1>14 DEF vars, IInv, TypeOK, SessionsInOrder
<1> QED
  BY <1>1, <1>2, <1>3, <1>4, <1>5, <1>6, <1>7, <1>8, <1>9, <1>10, <1>11, <1>12,
     <1>13, <1>14
  DEF Next, SessionStep

(* The inductive invariant.                                                *)
THEOREM Invariance == Spec => []IInv
PROOF BY InitInvariant, NextInvariant, PTL DEF Spec

(* Every variable keeps its type.                                          *)
THEOREM TypeCorrect == Spec => []TypeOK
PROOF
<1>1. IInv => TypeOK BY DEF IInv
<1> QED BY <1>1, Invariance, PTL

(* clients_ names exactly the open sessions that claimed a player, however *)
(* takeovers, errors, broadcasts and the shutdown interleave, and each has *)
(* a handler pending: the expired entry BroadcastState prunes never exists.*)
THEOREM RegistryExact == Spec => []RegistryIsExact
PROOF
<1>1. IInv => RegistryIsExact
  <2> SUFFICES ASSUME IInv, NEW p \in Player, NEW s \in Session
               PROVE  /\ reg.clients[p] = s <=> reg.playerId[s] = p /\ ~reg.closed[s]
                      /\ reg.clients[p] = s => phase[s] \in {"reading", "read", "failed"}
    BY DEF RegistryIsExact
  <2>1. reg.clients[p] = s <=> reg.playerId[s] = p /\ ~reg.closed[s]
    BY DEF IInv, Sound
  <2>2. reg.clients[p] = s => phase[s] \notin {"idle", "accepting", "done"}
    BY <2>1, ServerAssumption DEF IInv, SessionsInOrder
  <2> QED BY <2>1, <2>2 DEF IInv, TypeOK, Phases
<1> QED BY <1>1, Invariance, PTL

(* The game and the match queue hold no player who is not connected, and   *)
(* the game holds every one who is.                                        *)
THEOREM NoGhostsEver == Spec => []NoGhosts
PROOF
<1>1. IInv => NoGhosts BY DEF IInv, Sound, NoGhosts
<1> QED BY <1>1, Invariance, PTL

(* The connection gauge is exact as long as the server runs.               *)
THEOREM GaugeExact == Spec => []GaugeCountsClients
PROOF
<1>1. IInv => GaugeCountsClients BY DEF IInv, Counted, GaugeCountsClients
<1> QED BY <1>1, Invariance, PTL

(* Starts and ends of sessions balance for every player.                   *)
THEOREM EventsBalance == Spec => []SessionEventsBalance
PROOF
<1>1. IInv => SessionEventsBalance BY DEF IInv, Sound, SessionEventsBalance
<1> QED BY <1>1, Invariance, PTL

-----------------------------------------------------------------------------
(* The waiting players hold tickets of their own, none newer than the      *)
(* counter they are drawn from.                                            *)
Tickets(r) ==
    /\ \A p \in Player : r.ticket[p] <= r.orders
    /\ \A p, q \in Waiting(r) : r.ticket[p] = r.ticket[q] => p = q

(* A player whose connection is the same before and after kept its place   *)
(* in the queue and was applied no older input.                            *)
Kept(r, t) ==
    \A p \in Player :
        r.clients[p] # NoSession /\ t.clients[p] = r.clients[p]
            => t.ticket[p] = r.ticket[p] /\ t.lastSeq[p] >= r.lastSeq[p]

(* Everything the queue and the inputs keep of p is the same.              *)
SameFor(r, t, p) ==
    /\ t.clients[p] = r.clients[p]
    /\ t.ticket[p] = r.ticket[p]
    /\ t.lastSeq[p] = r.lastSeq[p]

(* Stopping a session touches nobody but its own player, whose entry goes; *)
(* no ticket is drawn.                                                     *)
LEMMA StopSessionKeeps ==
    ASSUME NEW r, NEW s \in Session, Sound(r), Tickets(r)
    PROVE  LET t == StopSession(r, s)
           IN /\ Tickets(t)
              /\ Kept(r, t)
              /\ \A q \in Player : q # r.playerId[s] => SameFor(r, t, q)
              /\ \A q \in Player : t.clients[q] \in {NoSession, r.clients[q]}
              /\ t.orders = r.orders /\ t.lastSeq = r.lastSeq
PROOF
<1> DEFINE t == StopSession(r, s)
           p == r.playerId[s]
           c == [r EXCEPT !.closed[s] = TRUE]
<1>0. r \in Registry BY DEF Sound
<1>1. SUFFICES /\ \A q \in Player : q # p => SameFor(r, t, q)
               /\ t.orders = r.orders /\ t.lastSeq = r.lastSeq
               /\ p \in Player => t.ticket[p] \in {0, r.ticket[p]}
               /\ p \in Player => t.clients[p] \in {NoSession, r.clients[p]}
               /\ p \in Player => Kept(r, t)
  <2> HIDE DEF t, p
  <2>1. \A q \in Player : t.ticket[q] \in {0, r.ticket[q]} /\ r.ticket[q] \in Nat
                          /\ r.lastSeq[q] \in Nat
    BY <1>0, <1>1, ServerAssumption DEF Registry, SameFor
  <2>2. Tickets(t)
    BY <1>0, <1>1, <2>1 DEF Tickets, Registry, Waiting
  <2>3. Kept(r, t)
    BY <1>1, <2>1 DEF Kept, SameFor
  <2>4. \A q \in Player : t.clients[q] \in {NoSession, r.clients[q]}
    BY <1>1 DEF SameFor
  <2> QED BY <1>1, <2>2, <2>3, <2>4 DEF t, p
<1>2. CASE r.closed[s]
  <2>1. t = r BY <1>2 DEF StopSession
  <2>2. \A q \in Player : r.lastSeq[q] \in Nat BY <1>0, ServerAssumption DEF Registry
  <2> QED BY <2>1, <2>2 DEF SameFor, Kept
<1>3. CASE ~r.closed[s] /\ p = NoPlayer
  <2>1. t = c BY <1>3 DEF StopSession
  <2>2. /\ c.clients = r.clients /\ c.ticket = r.ticket
        /\ c.lastSeq = r.lastSeq /\ c.orders = r.orders
    BY <1>0, CloseFields
  <2> HIDE DEF t, c
  <2> QED BY <1>3, <2>1, <2>2, ServerAssumption DEF SameFor
<1>4. CASE ~r.closed[s] /\ p # NoPlayer
  <2>0. p \in Player BY <1>0, <1>4 DEF Registry
  <2>1. t = UnregisterClient(c, p) BY <1>4 DEF StopSession
  <2>2. r.clients[p] = s BY <1>0, <1>4, <2>0 DEF Sound
  <2>3. /\ c \in Registry /\ c.clients = r.clients /\ c.ticket = r.ticket
        /\ c.lastSeq = r.lastSeq /\ c.orders = r.orders
    BY <1>0, CloseFields
  <2> HIDE DEF t, c, p
  <2>4. /\ t.clients = [c.clients EXCEPT ![p] = NoSession]
        /\ t.ticket = [c.ticket EXCEPT ![p] = 0]
        /\ t.lastSeq = c.lastSeq /\ t.orders = c.orders
    BY <2>0, <2>1, <2>3, UnregisterFields, Zenon
  <2>5. \A q \in Player :
           /\ t.clients[q] = IF q = p THEN NoSession ELSE r.clients[q]
           /\ t.ticket[q] = IF q = p THEN 0 ELSE r.ticket[q]
           /\ r.lastSeq[q] \in Nat
    BY <1>0, <2>3, <2>4, ServerAssumption DEF Registry
  <2>6. Kept(r, t)
    BY <2>2, <2>3, <2>4, <2>5, ServerAssumption DEF Kept
  <2>7. \A q \in Player : q # p => SameFor(r, t, q)
    BY <2>3, <2>4, <2>5 DEF SameFor
  <2> QED BY <2>0, <2>3, <2>4, <2>5, <2>6, <2>7
<1> QED BY <1>2, <1>3, <1>4

(* Registering a session gives its player the newest ticket, no number of  *)
(* an input, and touches nobody else; whoever held the player before does  *)
(* not hold it after.                                                      *)
LEMMA RegisterClientKeeps ==
    ASSUME NEW r, NEW p \in Player, NEW s \in Session, Sound(r), Tickets(r),
           r.playerId[s] = NoPlayer, ~r.closed[s],
           Lock(r.clients[p]) = r.clients[p]
    PROVE  LET t == RegisterClient(Named(r, s, p), p, s)
           IN /\ Tickets(t)
              /\ t.clients[p] = s /\ t.clients[p] # r.clients[p]
              /\ t.ticket[p] = t.orders /\ t.lastSeq[p] = 0
              /\ \A q \in Player : q # p => SameFor(r, t, q)
PROOF
<1> DEFINE n == Named(r, s, p)
           v == r.clients[p]
           g == IF v = NoSession THEN r ELSE StopSession(r, v)
           t == Join(Named(g, s, p), p, s)
<1>0. r \in Registry BY DEF Sound
<1>1. n.clients = r.clients BY <1>0, NamedFields
<1>2. v # NoSession => /\ v \in Session /\ v # s
                       /\ r.playerId[v] = p /\ ~r.closed[v]
  BY <1>0, ServerAssumption DEF Sound, Registry
<1>3. RegisterClient(n, p, s) = t
  <2>1. v # NoSession => StopSession(n, v) = Named(StopSession(r, v), s, p)
    BY <1>0, <1>2, StopSessionNamed
  <2> QED BY <1>1, <2>1 DEF RegisterClient
<1>4. /\ g \in Registry /\ Tickets(g)
      /\ Sound(g) /\ g.clients[p] = NoSession
      /\ \A q \in Player : q # p => SameFor(r, g, q)
  <2>1. CASE v = NoSession BY <1>0, <2>1 DEF SameFor
  <2>2. CASE v # NoSession
    <3>1. g = StopSession(r, v) BY <2>2
    <3> HIDE DEF g
    <3>2. Sound(g) /\ g.clients[p] = NoSession
      <4>1. /\ v \in Session /\ r.playerId[v] = p /\ ~r.closed[v] /\ p # NoPlayer
        BY <1>2, <2>2, ServerAssumption
      <4>2. /\ Sound(g) /\ r.playerId[v] # NoPlayer
            /\ ~r.closed[v] /\ r.playerId[v] # NoPlayer => g.clients[r.playerId[v]] = NoSession
        BY <3>1, <4>1, StopSessionSound
      <4> QED BY <4>1, <4>2
    <3> QED BY <1>2, <2>2, <3>1, <3>2, StopSessionKeeps DEF Sound
  <2> QED BY <2>1, <2>2
<1> HIDE DEF g
<1>5. /\ t.clients = [g.clients EXCEPT ![p] = s]
      /\ t.ticket = [g.ticket EXCEPT ![p] = g.orders + 1]
      /\ t.orders = g.orders + 1
      /\ t.lastSeq = [g.lastSeq EXCEPT ![p] = IF p \in g.players
                                              THEN g.lastSeq[p] ELSE 0]
  <2>1. Joined(g, t, p, s) BY <1>4, JoinFields
  <2> HIDE DEF t
  <2> QED BY <2>1 DEF Joined
<1> HIDE DEF t
<1>6. Tickets(t)
  <2>1. \A q \in Player : t.ticket[q] = IF q = p THEN g.orders + 1 ELSE g.ticket[q]
    BY <1>4, <1>5 DEF Registry
  <2>2. g.orders \in Nat /\ \A q \in Player : g.ticket[q] \in Nat
    BY <1>4 DEF Registry
  <2> QED BY <1>4, <1>5, <2>1, <2>2 DEF Tickets, Waiting
<1>7. t.clients[p] = s BY <1>4, <1>5 DEF Registry
<1>8. t.clients[p] # v BY <1>2, <1>7, ServerAssumption
<1>10. t.ticket[p] = t.orders /\ t.lastSeq[p] = 0
  <2>1. p \notin g.players BY <1>4 DEF Sound, Connected
  <2> QED BY <1>4, <1>5, <2>1 DEF Registry
<1>9. \A q \in Player : q # p => SameFor(r, t, q)
  BY <1>4, <1>5 DEF SameFor, Registry
<1> QED BY <1>3, <1>6, <1>7, <1>8, <1>9, <1>10 DEF n

(* One timer tick of matching, field by field.                             *)
LEMMA RunMatchingFields ==
    ASSUME reg \in Registry, RunMatching
    PROVE  /\ reg'.ticket = [p \in Player |->
                               IF p \in MatchedNow(reg) THEN 0 ELSE reg.ticket[p]]
           /\ reg'.clients = reg.clients /\ reg'.lastSeq = reg.lastSeq
           /\ reg'.orders = reg.orders
PROOF
<1> DEFINE k == [p \in Player |-> IF p \in MatchedNow(reg) THEN 0 ELSE reg.ticket[p]]
<1>1. reg' = [reg EXCEPT !.ticket = k] BY DEF RunMatching
<1> HIDE DEF k
<1>2. /\ reg'.ticket = k /\ reg'.clients = reg.clients
      /\ reg'.lastSeq = reg.lastSeq /\ reg'.orders = reg.orders
  BY <1>1 DEF Registry
<1> QED BY <1>2 DEF k

(* What a frame may change: a registration gives its player the newest     *)
(* ticket, an input moves its player's sequence number forward.            *)
LEMMA OnReadKeeps ==
    ASSUME IInv, Tickets(reg), NEW s \in Session, OnRead(s)
    PROVE  Tickets(reg') /\ Kept(reg, reg')
PROOF
<1>0. /\ reg \in Registry /\ Sound(reg) /\ frame[s] \in Frame
      /\ \A q \in Player : reg.lastSeq[q] \in Nat
  BY ServerAssumption DEF IInv, TypeOK, Registry
<1>1. CASE frame[s] = Malformed
  <2>1. reg' = reg BY <1>1 DEF OnRead
  <2> QED BY <1>0, <2>1 DEF Kept
<1>2. CASE frame[s] # Malformed /\ reg.playerId[s] # NoPlayer
  <2> DEFINE p == reg.playerId[s]
             i == frame[s].seq
  <2>1. reg' = ApplyInput(reg, p, i) BY <1>2 DEF OnRead
  <2>2. p \in Player /\ i \in 0 .. MaxSeq BY <1>0, <1>2 DEF Registry, Frame
  <2> HIDE DEF p, i
  <2>3. /\ reg'.clients = reg.clients /\ reg'.ticket = reg.ticket
        /\ reg'.orders = reg.orders
        /\ \A q \in Player : q # p => reg'.lastSeq[q] = reg.lastSeq[q]
        /\ reg'.lastSeq[p] >= reg.lastSeq[p]
    BY <1>0, <2>1, <2>2, ApplyInputFields
  <2> QED BY <1>0, <2>3 DEF Tickets, Waiting, Kept
<1>3. CASE frame[s] # Malformed /\ reg.playerId[s] = NoPlayer
  <2> DEFINE p == frame[s].player
             i == frame[s].seq
             r == RegisterClient(Named(reg, s, p), p, s)
  <2>1. reg' = ApplyInput(r, p, i) BY <1>3 DEF OnRead, Named
  <2>2. p \in Player /\ i \in 0 .. MaxSeq BY <1>0, <1>3 DEF Frame
  <2>3. ~reg.closed[s] BY <1>3 DEF IInv, SessionsInOrder, OnRead
  <2>4. Lock(reg.clients[p]) = reg.clients[p] BY <2>2, LockSucceeds
  <2> HIDE DEF p, i
  <2>5. Sound(r) BY <1>0, <1>3, <2>2, <2>3, <2>4, RegisterClientSound
  <2>6. /\ Tickets(r) /\ r.clients[p] # reg.clients[p]
        /\ \A q \in Player : q # p => SameFor(reg, r, q)
    BY <1>0, <1>3, <2>2, <2>3, <2>4, RegisterClientKeeps
  <2> HIDE DEF r
  <2>7. /\ reg'.clients = r.clients /\ reg'.ticket = r.ticket
        /\ reg'.orders = r.orders
        /\ \A q \in Player : q # p => reg'.lastSeq[q] = r.lastSeq[q]
    BY <2>1, <2>2, <2>5, ApplyInputFields DEF Sound
  <2> QED BY <1>0, <2>6, <2>7 DEF Tickets, Waiting, Kept, SameFor
<1> QED BY <1>1, <1>2, <1>3

(* No step but a round of matching takes a place in the queue from a       *)
(* player whose connection stays, and none lets an older input through.    *)
LEMMA NextKeeps ==
    ASSUME IInv, Tickets(reg), [Next]_vars
    PROVE  Tickets(reg') /\ (Kept(reg, reg') \/ RunMatching)
PROOF
<1>0. /\ reg \in Registry /\ Sound(reg)
      /\ \A p \in Player : reg.lastSeq[p] \in Nat /\ reg.ticket[p] \in Nat
  BY ServerAssumption DEF IInv, TypeOK, Registry
<1>1. reg' = reg => Tickets(reg') /\ Kept(reg, reg') BY <1>0 DEF Kept
<1>2. ASSUME NEW s \in Session, reg' = StopSession(reg, s)
      PROVE  Tickets(reg') /\ Kept(reg, reg')
  BY <1>0, <1>2, StopSessionKeeps
<1>3. ASSUME NEW s \in Session, SessionStep(s)
      PROVE  Tickets(reg') /\ Kept(reg, reg')
  <2>1. CASE Accept(s) \/ HandshakeOk(s) \/ ReadFails(s) \/ SendingEnds(s)
             \/ \E f \in Frame : ReadCompletes(s, f)
    BY <1>1, <2>1 DEF Accept, HandshakeOk, ReadFails, ReadCompletes, SendingEnds
  <2>2. CASE HandshakeFailed(s) \/ OnReadError(s) \/ OnWriteError(s)
    BY <1>2, <2>2 DEF HandshakeFailed, OnReadError, OnWriteError
  <2>3. CASE OnRead(s) BY <2>3, OnReadKeeps
  <2> QED BY <1>3, <2>1, <2>2, <2>3 DEF SessionStep
<1>4. CASE BroadcastState
  <2>1. [p \in Player |-> Lock(reg.clients[p])] = reg.clients
    BY <1>0, LockSucceeds DEF Registry
  <2>2. reg' = reg BY <1>0, <1>4, <2>1 DEF BroadcastState, Registry
  <2> QED BY <1>1, <2>2
<1>5. CASE RunMatching
  <2>1. \A p \in Player : reg'.ticket[p] # 0 => reg'.ticket[p] = reg.ticket[p]
    BY <1>0, <1>5, RunMatchingFields
  <2>2. \A p \in Player : reg'.ticket[p] \in {0, reg.ticket[p]}
    BY <1>0, <1>5, RunMatchingFields
  <2>3. reg'.orders = reg.orders /\ reg.orders \in Nat
    BY <1>0, <1>5, RunMatchingFields DEF Registry
  <2>4. Tickets(reg') BY <1>0, <2>1, <2>2, <2>3 DEF Tickets, Waiting
  <2> QED BY <1>5, <2>4
<1>6. CASE Shutdown
  <2> DEFINE gone == {p \in Player : \E s \in {u \in Alive(reg) : ~reg.closed[u]} :
                                        reg.playerId[s] = p}
             k == [p \in Player |-> IF p \in gone THEN 0 ELSE reg.ticket[p]]
  <2>1. reg' = StopServer(reg) BY <1>6 DEF Shutdown
  <2>2. /\ reg'.clients = [p \in Player |-> NoSession]
        /\ reg'.orders = reg.orders
        /\ reg'.ticket = k
    BY <1>0, <2>1 DEF StopServer, Registry
  <2>3. \A p \in Player : reg'.ticket[p] \in {0, reg.ticket[p]} BY <2>2
  <2>4. \A p \in Player : reg'.clients[p] = NoSession BY <2>2
  <2>5. reg.orders \in Nat BY <1>0 DEF Registry
  <2> HIDE DEF k
  <2>6. Tickets(reg') BY <1>0, <2>2, <2>3, <2>5 DEF Tickets, Waiting
  <2> QED BY <2>4, <2>6 DEF Kept
<1> QED BY <1>1, <1>3, <1>4, <1>5, <1>6 DEF Next, vars, CallReturns

(* A player in new hands is in those of the session that just read its     *)
(* first frame, whose number counts and no earlier one, behind everybody   *)
(* else in the queue.                                                      *)
StartsAfresh(p) ==
    LET s == reg'.clients[p]
    IN /\ s \in Session /\ phase[s] = "read" /\ reg.playerId[s] = NoPlayer
       /\ frame[s].player = p /\ reg'.lastSeq[p] = frame[s].seq
       /\ \A q \in Waiting(reg') \ {p} : reg'.ticket[q] < reg'.ticket[p]

(* Only the first frame of a session changes hands.                        *)
LEMMA NewHands ==
    ASSUME IInv, Tickets(reg), [Next]_vars, NEW p \in Player,
           reg'.clients[p] \notin {NoSession, reg.clients[p]}
    PROVE  StartsAfresh(p)
PROOF
<1>0. /\ reg \in Registry /\ Sound(reg) /\ NoSession \notin Session
      /\ \A s \in Session : frame[s] \in Frame
  BY ServerAssumption DEF IInv, TypeOK
<1>1. reg' # reg BY <1>0
<1>2. \A s \in Session : reg' # StopSession(reg, s) BY <1>0, StopSessionKeeps
<1>3. reg'.clients # reg.clients BY <1>0
<1>4. ~BroadcastState
  <2>1. ASSUME BroadcastState PROVE FALSE
    <3>1. [q \in Player |-> Lock(reg.clients[q])] = reg.clients
      BY <1>0, LockSucceeds DEF Registry
    <3>2. reg' = reg BY <1>0, <2>1, <3>1 DEF BroadcastState, Registry
    <3> QED BY <1>1, <3>2
  <2> QED BY <2>1
<1>5. ~RunMatching BY <1>0, <1>3, RunMatchingFields
<1>6. ~Shutdown
  <2>1. ASSUME Shutdown PROVE FALSE
    <3>1. reg'.clients = [q \in Player |-> NoSession]
      BY <1>0, <2>1 DEF Shutdown, StopServer, Registry
    <3> QED BY <3>1
  <2> QED BY <2>1
<1>7. PICK s \in Session : OnRead(s)
  BY <1>1, <1>2, <1>4, <1>5, <1>6
  DEF Next, vars, SessionStep, Accept, HandshakeOk, HandshakeFailed, ReadCompletes,
      ReadFails, OnReadError, OnWriteError, SendingEnds, CallReturns
<1> DEFINE f == frame[s]
           r == RegisterClient(Named(reg, s, f.player), f.player, s)
<1>8. f # Malformed BY <1>1, <1>7 DEF OnRead
<1>9. f.player \in Player /\ f.seq \in 0 .. MaxSeq BY <1>0, <1>8 DEF Frame
<1>10. reg.playerId[s] = NoPlayer
  <2>1. ASSUME reg.playerId[s] # NoPlayer PROVE FALSE
    <3>1. reg' = ApplyInput(reg, reg.playerId[s], f.seq) BY <1>7, <1>8, <2>1 DEF OnRead
    <3>2. reg.playerId[s] \in Player BY <1>0, <2>1 DEF Registry
    <3> QED BY <1>0, <1>3, <1>9, <3>1, <3>2, ApplyInputFields
  <2> QED BY <2>1
<1>11. reg' = ApplyInput(r, f.player, f.seq) BY <1>7, <1>8, <1>10 DEF OnRead, Named
<1>12. ~reg.closed[s] /\ phase[s] = "read"
  BY <1>7, <1>10 DEF IInv, SessionsInOrder, OnRead
<1>13. Lock(reg.clients[f.player]) = reg.clients[f.player] BY <1>9, LockSucceeds
<1> HIDE DEF f
<1>14. /\ Sound(r) /\ Tickets(r)
       /\ r.clients[f.player] = s /\ r.ticket[f.player] = r.orders
       /\ r.lastSeq[f.player] = 0
       /\ \A q \in Player : q # f.player => r.clients[q] = reg.clients[q]
  <2>1. Sound(r) BY <1>0, <1>9, <1>10, <1>12, <1>13, RegisterClientSound
  <2>2. /\ Tickets(r) /\ r.clients[f.player] = s
        /\ r.ticket[f.player] = r.orders /\ r.lastSeq[f.player] = 0
        /\ \A q \in Player : q # f.player => SameFor(reg, r, q)
    BY <1>0, <1>9, <1>10, <1>12, <1>13, RegisterClientKeeps
  <2> HIDE DEF r
  <2> QED BY <2>1, <2>2 DEF SameFor
<1> HIDE DEF r
<1>15. r \in Registry /\ f.player \in r.players
  BY <1>0, <1>9, <1>14 DEF Sound, Connected
<1>16. /\ reg'.clients = r.clients /\ reg'.ticket = r.ticket
       /\ reg'.lastSeq[f.player] = f.seq
  BY <1>9, <1>11, <1>14, <1>15, ApplyInputFields
<1>17. f.player = p BY <1>14, <1>16
<1>18. ASSUME NEW q \in Waiting(reg') \ {p} PROVE reg'.ticket[q] < reg'.ticket[p]
  <2>1. /\ r.ticket[q] <= r.orders /\ q \in Player /\ r.ticket[q] # 0
        /\ r.orders \in Nat /\ r.ticket[q] \in Nat /\ r.ticket[p] = r.orders
    BY <1>14, <1>15, <1>16, <1>17, <1>18 DEF Tickets, Waiting, Registry
  <2>2. r.ticket[p] # r.ticket[q]
    <3>1. r.ticket[p] # 0 BY <2>1
    <3> QED BY <1>14, <1>18, <2>1, <3>1 DEF Tickets, Waiting
  <2> QED BY <1>16, <2>1, <2>2
<1> QED BY <1>10, <1>12, <1>14, <1>16, <1>17, <1>18 DEF StartsAfresh, f

(* The waiting players always hold tickets of their own.                   *)
THEOREM TicketsAreDistinct == Spec => []Tickets(reg)
PROOF
<1>1. Init => Tickets(reg) BY DEF Init, Tickets, Waiting
<1>2. IInv /\ Tickets(reg) /\ [Next]_vars => Tickets(reg)' BY NextKeeps
<1> QED BY <1>1, <1>2, Invariance, PTL DEF Spec

(* While one connection owns a player, its last_sequence never goes back,  *)
(* whatever else registers, fails, is matched or is stopped in between.    *)
THEOREM SequenceAdvances == Spec => SequenceNeverGoesBack
PROOF
<1>1. ASSUME IInv, Tickets(reg), [Next]_vars
      PROVE  \A p \in Player :
                reg.clients[p] # NoSession /\ reg'.clients[p] = reg.clients[p]
                    => reg'.lastSeq[p] >= reg.lastSeq[p]
  <2>1. CASE Kept(reg, reg') BY <2>1 DEF Kept
  <2>2. CASE RunMatching
    <3>1. reg \in Registry BY <1>1 DEF IInv, TypeOK
    <3>2. \A p \in Player : reg.lastSeq[p] \in Nat
      BY <3>1, ServerAssumption DEF Registry
    <3> QED BY <2>2, <3>1, <3>2, RunMatchingFields
  <2> QED BY <1>1, <2>1, <2>2, NextKeeps
<1>2. Spec => [][IInv /\ Tickets(reg) /\ [Next]_vars]_vars
  BY Invariance, TicketsAreDistinct, PTL DEF Spec
<1> QED BY <1>1, <1>2, PTL DEF SequenceNeverGoesBack

(* GameSession is right to expect that only absent players are upserted,   *)
(* and the queue that nobody gets a better place by connecting again: who  *)
(* takes a player over starts anew in both.                                *)
THEOREM TakeoversStartAfresh ==
    Spec => [][\A p \in Player :
                  reg'.clients[p] \notin {NoSession, reg.clients[p]} => StartsAfresh(p)]_vars
PROOF
<1>1. IInv /\ Tickets(reg) /\ [Next]_vars
         => \A p \in Player :
               reg'.clients[p] \notin {NoSession, reg.clients[p]} => StartsAfresh(p)
  BY NewHands
<1>2. Spec => [][IInv /\ Tickets(reg) /\ [Next]_vars]_vars
  BY Invariance, TicketsAreDistinct, PTL DEF Spec
<1> QED BY <1>1, <1>2, PTL
=============================================================================
