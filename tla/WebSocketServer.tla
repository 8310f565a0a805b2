--------------------------- MODULE WebSocketServer ---------------------------
(***************************************************************************)
(* The connection lifecycle of the duel server: WebSocketServer and its    *)
(* ClientSessions, with what they drive in GameSession (membership and     *)
(* input sequence numbers), in the matchmaker (main.cpp's lifecycle        *)
(* handlers and 200 ms timer) and in the storage (session events).         *)
(*                                                                         *)
(* Only main() runs the io_context, so a completion handler is one atomic  *)
(* step.  What is left to chance is the network (a read completes, a read, *)
(* a write or a handshake fails), the order in which queued handlers run   *)
(* (a completed read waits as `frame' while other handlers go first) and   *)
(* the calls without a timeout a handler makes on that one thread, the     *)
(* WebSocket close and the INSERT of a session event: `blocked' while one  *)
(* of them waits for a peer or for the database.                           *)
(* Messages to a client and their order are the module ClientWriter.       *)
(***************************************************************************)
EXTENDS Naturals, FiniteSets

CONSTANTS
    Session,    \* ClientSession objects, one per accepted socket
    Player,     \* player ids clients may claim
    NoSession,  \* an absent or expired weak_ptr
    NoPlayer,   \* the empty player_id_ of a session that sent no input yet
    Malformed,  \* a frame ParseInputFrame rejects
    MaxSeq,     \* bound on the sequence numbers clients send
    Sends       \* [Session -> SUBSET Frame], what the client of a session sends

ASSUME ServerAssumption ==
    /\ IsFiniteSet(Session) /\ NoSession \notin Session
    /\ IsFiniteSet(Player)  /\ NoPlayer \notin Player
    /\ MaxSeq \in Nat
    /\ Malformed \notin [player : Player, seq : 0 .. MaxSeq]

Frame == [player : Player, seq : 0 .. MaxSeq] \cup {Malformed}

ASSUME ClientsAssumption == Sends \in [Session -> SUBSET Frame]

(***************************************************************************)
(* phase[s] is the one read-side operation of s: "idle" before the accept, *)
(* "accepting" during the WebSocket handshake, "reading" while async_read  *)
(* is pending, "read" and "failed" when its handler is queued with a frame *)
(* or an error, and "done" once no read handler holds its shared_ptr.      *)
(***************************************************************************)
Phases == {"idle", "accepting", "reading", "read", "failed", "done"}

VARIABLES
    running,  \* WebSocketServer::running_; its reset also stops the io_context
    phase,    \* [Session -> Phases]
    frame,    \* frame[s]: the frame the queued OnRead of s will see
    sending,  \* sessions a queued message or an outstanding write holds
    blocked,  \* the io thread waits inside a handler's close or INSERT
    reg       \* what the handlers share, below

vars == <<running, phase, frame, sending, blocked, reg>>

(***************************************************************************)
(* The shared state the handlers pass through one another's calls:         *)
(*   playerId, closed    ClientSession::player_id_ and closed_             *)
(*   clients, count      WebSocketServer::clients_ and connection_count_   *)
(*   players, lastSeq    GameSession::players_ and their last_sequence     *)
(*   ticket, orders      the match queue: the order_ of a waiting player   *)
(*                       (0 when not waiting) and order_counter_           *)
(*   started, ended      session events handed to PostgresStorage          *)
(***************************************************************************)
Registry ==
    [playerId : [Session -> Player \cup {NoPlayer}],
     closed   : [Session -> BOOLEAN],
     clients  : [Player -> Session \cup {NoSession}],
     count    : Nat,
     players  : SUBSET Player,
     lastSeq  : [Player -> 0 .. MaxSeq],
     ticket   : [Player -> Nat],
     orders   : Nat,
     started  : [Player -> Nat],
     ended    : [Player -> Nat]]

Waiting(r) == {p \in Player : r.ticket[p] # 0}

(* A session lives while a read handler or a message to it holds it.       *)
Held(s) == phase[s] # "done" \/ s \in sending

(* weak_ptr::lock: a session nobody holds any more is gone.                *)
Lock(s) == IF s \in Session /\ ~Held(s) THEN NoSession ELSE s

-----------------------------------------------------------------------------
(* The calls, as functions on the shared state.                            *)

(* Mutant: on_leave_ does not cancel the queueing.                         *)
UnregisterClientStillQueued(r, p) ==
    [r EXCEPT !.clients[p] = NoSession,
              !.count      = IF r.clients[p] # NoSession /\ @ > 0 THEN @ - 1 ELSE @,
              !.players    = @ \ {p},
              !.ended[p]   = @ + 1]

(* Mutant: the entry is erased and the count left.                         *)
UnregisterClientUncounted(r, p) ==
    [r EXCEPT !.clients[p] = NoSession,
              !.players    = @ \ {p},
              !.ticket[p]  = 0,
              !.ended[p]   = @ + 1]

(* Erase the entry whoever holds it, lower the count without underflow,    *)
(* remove the player, then on_leave_: cancel the queueing, record "end".   *)
UnregisterClient(r, p) ==
    [r EXCEPT !.clients[p] = NoSession,
              !.count      = IF r.clients[p] # NoSession /\ @ > 0 THEN @ - 1 ELSE @,
              !.players    = @ \ {p},
              !.ticket[p]  = 0,
              !.ended[p]   = @ + 1]

(* ClientSession::Stop: only the first call has an effect.                 *)
StopSession(r, s) ==
    IF r.closed[s] THEN r
    ELSE LET closing == [r EXCEPT !.closed[s] = TRUE]
         IN IF r.playerId[s] = NoPlayer
            THEN closing
            ELSE UnregisterClient(closing, r.playerId[s])

(* RegisterClient's second critical section, GameSession::UpsertPlayer     *)
(* (a player already there would keep its sequence number) and on_join_:   *)
(* enqueue for a match, record "start".                                    *)
Join(r, p, s) ==
    [r EXCEPT !.clients[p] = s,
              !.count      = @ + 1,
              !.players    = @ \cup {p},
              !.lastSeq[p] = IF p \in r.players THEN @ ELSE 0,
              !.orders     = @ + 1,
              !.ticket[p]  = r.orders + 1,
              !.started[p] = @ + 1]

(* Mutant: the previous owner is not stopped.                              *)
RegisterClientOverwrites(r, p, s) == Join(r, p, s)

(* RegisterClient: stop the previous owner of the id, which unregisters    *)
(* it, then enter the new one.                                             *)
RegisterClient(r, p, s) ==
    LET previous == Lock(r.clients[p])
    IN Join(IF previous = NoSession THEN r ELSE StopSession(r, previous), p, s)

(* Mutant: last_sequence is the number expected next.                      *)
ApplyInputExpectsNext(r, p, seq) ==
    IF p \in r.players /\ seq >= r.lastSeq[p]
    THEN [r EXCEPT !.lastSeq[p] = seq + 1]
    ELSE r

(* Mutant: old sequence numbers are not refused.                           *)
ApplyInputAnyOrder(r, p, seq) ==
    IF p \in r.players THEN [r EXCEPT !.lastSeq[p] = seq] ELSE r

(* GameSession::ApplyInput as far as sequence numbers go: unknown players  *)
(* and older sequence numbers are ignored, an equal one is not.            *)
ApplyInput(r, p, seq) ==
    IF p \in r.players /\ seq >= r.lastSeq[p]
    THEN [r EXCEPT !.lastSeq[p] = seq]
    ELSE r

(* The sessions the registry still reaches.                                *)
Alive(r) == {s \in Session : \E p \in Player : Lock(r.clients[p]) = s}

(* Mutant: the registry is cleared and no session stopped.                 *)
StopServerClears(r) ==
    [r EXCEPT !.clients = [p \in Player |-> NoSession]]

(* WebSocketServer::Stop: clients_ is emptied first, so the Stop of each   *)
(* session finds no entry and leaves the count; the rest of its            *)
(* UnregisterClient (player, queue, "end") still happens.                  *)
StopServer(r) ==
    LET leaving == {s \in Alive(r) : ~r.closed[s]}
        gone    == {p \in Player : \E s \in leaving : r.playerId[s] = p}
    IN [r EXCEPT !.clients = [p \in Player |-> NoSession],
                 !.closed  = [s \in Session |-> @[s] \/ s \in leaving],
                 !.players = @ \ gone,
                 !.ticket  = [p \in Player |-> IF p \in gone THEN 0 ELSE @[p]],
                 !.ended   = [p \in Player |-> IF p \in gone THEN @[p] + 1 ELSE @[p]]]

(* The next request of the loop: all carry rating 1200, so the order of    *)
(* the queue is the order of arrival.                                      *)
Oldest(r, w) == CHOOSE p \in w : \A q \in w : r.ticket[p] <= r.ticket[q]

(* Mutant: the loop ends with two requests left.                           *)
MatchedNowButLast(r) ==
    LET paired[w \in SUBSET Waiting(r)] ==
            IF Cardinality(w) <= 2 THEN {}
            ELSE LET a == Oldest(r, w)
                     b == Oldest(r, w \ {a})
                 IN {a, b} \cup paired[w \ {a, b}]
    IN paired[Waiting(r)]

(* RunMatching as main.cpp uses it: every request carries rating 1200 and  *)
(* region "global", so the first partner the loop looks at is accepted and *)
(* both leave; a last one without a partner keeps waiting.  The loop for   *)
(* any ratings and regions is the module BucketMatchmaker.                 *)
MatchedNow(r) ==
    LET paired[w \in SUBSET Waiting(r)] ==
            IF Cardinality(w) < 2 THEN {}
            ELSE LET a == Oldest(r, w)
                     b == Oldest(r, w \ {a})
                 IN {a, b} \cup paired[w \ {a, b}]
    IN paired[Waiting(r)]

-----------------------------------------------------------------------------
Init ==
    /\ running = TRUE
    /\ phase = [s \in Session |-> "idle"]
    /\ frame = [s \in Session |-> Malformed]
    /\ sending = {}
    /\ blocked = FALSE
    /\ reg = [playerId |-> [s \in Session |-> NoPlayer],
              closed   |-> [s \in Session |-> FALSE],
              clients  |-> [p \in Player |-> NoSession],
              count    |-> 0,
              players  |-> {},
              lastSeq  |-> [p \in Player |-> 0],
              ticket   |-> [p \in Player |-> 0],
              orders   |-> 0,
              started  |-> [p \in Player |-> 0],
              ended    |-> [p \in Player |-> 0]]

(* The io thread polls the sockets and runs the handlers when it is not    *)
(* inside another one.                                                     *)
Free == running /\ ~blocked

(* Stop of a session that is still open makes the blocking calls.          *)
BlocksInStop(s) == blocked' = ~reg.closed[s]

(* The close or the INSERT the io thread waits for returns.                *)
CallReturns ==
    /\ blocked
    /\ blocked' = FALSE
    /\ UNCHANGED <<running, phase, frame, sending, reg>>

(* DoAccept's handler: a new session starts its handshake.                 *)
Accept(s) ==
    /\ Free
    /\ phase[s] = "idle"
    /\ phase' = [phase EXCEPT ![s] = "accepting"]
    /\ UNCHANGED <<running, frame, sending, blocked, reg>>

(* The handshake handler without error: ReadLoop.                          *)
HandshakeOk(s) ==
    /\ Free
    /\ phase[s] = "accepting"
    /\ phase' = [phase EXCEPT ![s] = "reading"]
    /\ UNCHANGED <<running, frame, sending, blocked, reg>>

(* The handshake handler with an error or the handshake timeout.           *)
HandshakeFailed(s) ==
    /\ Free
    /\ phase[s] = "accepting"
    /\ phase' = [phase EXCEPT ![s] = "done"]
    /\ reg' = StopSession(reg, s)
    /\ BlocksInStop(s)
    /\ UNCHANGED <<running, frame, sending>>

(* The network completes async_read; its handler is queued.  A stream that *)
(* was closed reads no further frame (Beast).                              *)
ReadCompletes(s, f) ==
    /\ Free
    /\ phase[s] = "reading"
    /\ ~reg.closed[s]
    /\ f \in Sends[s]
    /\ phase' = [phase EXCEPT ![s] = "read"]
    /\ frame' = [frame EXCEPT ![s] = f]
    /\ UNCHANGED <<running, sending, blocked, reg>>

(* The peer disconnects, the idle timeout expires, or the server itself    *)
(* closed the stream: the pending async_read ends with an error.           *)
ReadFails(s) ==
    /\ Free
    /\ phase[s] = "reading"
    /\ phase' = [phase EXCEPT ![s] = "failed"]
    /\ UNCHANGED <<running, frame, sending, blocked, reg>>

(* OnRead.  It does not look at closed_: the frame of a session that was   *)
(* stopped while its handler was queued is applied like any other.  The    *)
(* player id of later frames is ignored in favour of player_id_.  A first  *)
(* frame registers: the close of the previous owner, the INSERTs.          *)
OnRead(s) ==
    /\ Free
    /\ phase[s] = "read"
    /\ LET f     == frame[s]
           first == reg.playerId[s] = NoPlayer
           id    == IF first THEN f.player ELSE reg.playerId[s]
           named == [reg EXCEPT !.playerId[s] = id]
       IN /\ reg' = IF f = Malformed THEN reg
                    ELSE ApplyInput(IF first THEN RegisterClient(named, id, s) ELSE reg,
                                    id, f.seq)
          /\ blocked' = (f # Malformed /\ first)
    /\ phase' = [phase EXCEPT ![s] = "reading"]
    /\ frame' = [frame EXCEPT ![s] = Malformed]
    /\ UNCHANGED <<running, sending>>

(* Mutant: no return after Stop, so ReadLoop follows.                      *)
OnReadErrorReadsOn(s) ==
    /\ Free
    /\ phase[s] = "failed"
    /\ phase' = [phase EXCEPT ![s] = "reading"]
    /\ reg' = StopSession(reg, s)
    /\ BlocksInStop(s)
    /\ UNCHANGED <<running, frame, sending>>

(* The read handler with an error: Stop, and no further read.              *)
OnReadError(s) ==
    /\ Free
    /\ phase[s] = "failed"
    /\ phase' = [phase EXCEPT ![s] = "done"]
    /\ reg' = StopSession(reg, s)
    /\ BlocksInStop(s)
    /\ UNCHANGED <<running, frame, sending>>

(* OnWrite with an error: Stop, and no further write; posted messages may  *)
(* still hold the session, and are queued without being written.           *)
OnWriteError(s) ==
    /\ Free
    /\ s \in sending
    /\ reg' = StopSession(reg, s)
    /\ sending' \in {sending, sending \ {s}}
    /\ BlocksInStop(s)
    /\ UNCHANGED <<running, phase, frame>>

(* OnWrite with nothing left to write.                                     *)
SendingEnds(s) ==
    /\ Free
    /\ s \in sending
    /\ sending' = sending \ {s}
    /\ UNCHANGED <<running, phase, frame, blocked, reg>>

(* BroadcastState, on the game loop's thread: drop expired entries (the    *)
(* count keeps them), then post a state message to every session whose     *)
(* player GetPlayer finds.                                                 *)
BroadcastState ==
    /\ running
    /\ reg' = [reg EXCEPT !.clients = [p \in Player |-> Lock(@[p])]]
    /\ sending' = sending \cup {s \in Alive(reg) : reg.playerId[s] \in reg.players}
    /\ UNCHANGED <<running, phase, frame, blocked>>

(* The 200 ms matchmaking timer.                                           *)
RunMatching ==
    /\ Free
    /\ reg' = [reg EXCEPT !.ticket = [p \in Player |->
                                        IF p \in MatchedNow(reg) THEN 0 ELSE @[p]]]
    /\ UNCHANGED <<running, phase, frame, sending, blocked>>

(* The signal handler: server->Stop() and io_context.stop(), after which   *)
(* no queued handler runs any more.                                        *)
Shutdown ==
    /\ Free
    /\ running' = FALSE
    /\ reg' = StopServer(reg)
    /\ UNCHANGED <<phase, frame, sending, blocked>>

SessionStep(s) ==
    \/ Accept(s) \/ HandshakeOk(s) \/ HandshakeFailed(s)
    \/ \E f \in Frame : ReadCompletes(s, f)
    \/ ReadFails(s) \/ OnRead(s) \/ OnReadError(s)
    \/ OnWriteError(s) \/ SendingEnds(s)

Next ==
    \/ \E s \in Session : SessionStep(s)
    \/ CallReturns \/ BroadcastState \/ RunMatching \/ Shutdown

Spec == Init /\ [][Next]_vars

(* A free executor runs every queued handler and the timer, and a closed   *)
(* stream ends its pending read and write.  Nothing is assumed of the      *)
(* broadcast, of the signal, or of a peer or database a handler waits for: *)
(* that such a call returns is a hypothesis of the properties that need it.*)
Fairness ==
    /\ \A s \in Session : /\ WF_vars(OnRead(s) \/ OnReadError(s))
                          /\ WF_vars(reg.closed[s] /\ ReadFails(s))
                          /\ WF_vars(reg.closed[s] /\ SendingEnds(s))
    /\ WF_vars(RunMatching)

FairSpec == Spec /\ Fairness

-----------------------------------------------------------------------------
(* What the lifecycle is to guarantee.                                     *)

Connected(r) == {p \in Player : r.clients[p] # NoSession}

TypeOK ==
    /\ running \in BOOLEAN
    /\ phase \in [Session -> Phases]
    /\ frame \in [Session -> Frame]
    /\ sending \in SUBSET Session
    /\ blocked \in BOOLEAN
    /\ reg \in Registry

(* clients_ names exactly the sessions that claimed a player and were not  *)
(* stopped: two open sessions never share a player, Stop of a superseded   *)
(* session never takes the newcomer's entry, no open session drops out of  *)
(* the broadcast, and none is left in it after a shutdown.  Every entry    *)
(* still has a handler pending, so BroadcastState never meets an expired   *)
(* one, whose removal would leave the connection count too high.           *)
RegistryIsExact ==
    \A p \in Player, s \in Session :
        /\ reg.clients[p] = s <=> reg.playerId[s] = p /\ ~reg.closed[s]
        /\ reg.clients[p] = s => phase[s] \in {"reading", "read", "failed"}

(* The game holds exactly the connected players (GetPlayer never throws    *)
(* inside a broadcast), and nobody waits for a match who has left.         *)
NoGhosts ==
    /\ reg.players = Connected(reg)
    /\ Waiting(reg) \subseteq Connected(reg)

(* The gauge websocket_connections_total counts the registered clients     *)
(* through takeovers, errors and broadcasts, as long as the server runs.   *)
GaugeCountsClients == running => reg.count = Cardinality(Connected(reg))

(* Session events alternate per player: every "end" had its "start", and   *)
(* at most the connection of now has no "end" yet; none after a shutdown.  *)
SessionEventsBalance ==
    \A p \in Player :
        reg.started[p] = reg.ended[p] + (IF p \in Connected(reg) THEN 1 ELSE 0)

(* While one connection owns a player, its last_sequence never goes back.  *)
SequenceNeverGoesBack ==
    [][\A p \in Player :
          reg.clients[p] # NoSession /\ reg'.clients[p] = reg.clients[p]
              => reg'.lastSeq[p] >= reg.lastSeq[p]]_vars

(* Neither close nor INSERT has a timeout, so one silent peer holds up the *)
(* io thread and with it every session.                                    *)
CallsReturn == WF_vars(CallReturns)

(* As long as those calls return, a session that failed or was stopped is  *)
(* released: neither its read loop, kept alive by ReadLoop after Stop, nor *)
(* a message to it holds its shared_ptr for ever.                          *)
EndedSessionsAreReleased ==
    CallsReturn =>
        \A s \in Session : (phase[s] = "failed" \/ reg.closed[s]) ~> (~Held(s) \/ ~running)

(* As long as those calls return, two players never wait for each other    *)
(* for ever.                                                               *)
NoPairKeepsWaiting == CallsReturn => []<>(Cardinality(Waiting(reg)) <= 1 \/ ~running)
=============================================================================
