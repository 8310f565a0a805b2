----------------------------- MODULE ArenaServer -----------------------------
(***************************************************************************)
(* The program main() puts together: the main thread, which starts the     *)
(* game loop, runs every handler of the io_context one after another and   *)
(* shuts down on a signal, beside the loop thread of GameLoop.  Each tick  *)
(* of the loop posts a broadcast to the io_context.  The handlers of       *)
(* joining and leaving clients make calls that block the main thread for   *)
(* as long as the other side pleases: the INSERT into session_events and   *)
(* the blocking close of a stream.  What else the handlers do is in        *)
(* WebSocketServer, ClientWriter, GameSession, Matchmaker and MatchStats.  *)
(***************************************************************************)
EXTENDS GameLoop, Sequences

CONSTANT MaxClients  \* bound on the registered clients

ASSUME ArenaAssumption == MaxClients \in Nat

VARIABLES
    io,        \* where the main thread is
    calls,     \* the calls the running handler still makes that may block
    clients,   \* registered clients
    storage,   \* connection_: "none", "up", or "broken" and never made again
    tasks,     \* TickInfo of the broadcasts posted to the io_context
    lastTick,  \* last_broadcast_tick_
    played,    \* broadcasts run
    elapsed    \* elapsed_time_ of the session

server    == <<io, calls, clients, storage, tasks, lastTick, played, elapsed>>
arenaVars == <<vars, server>>

IoPlaces == {"connecting", "starting", "run", "shutdown", "stopped", "joining",
             "done"}

ArenaInit ==
    /\ Init
    /\ io = "connecting"
    /\ calls = <<>>
    /\ clients = 0
    /\ storage = "none"
    /\ tasks = <<>>
    /\ lastTick = 0 /\ played = 0 /\ elapsed = 0

-----------------------------------------------------------------------------
(* The main thread.                                                        *)

(* PostgresStorage::Connect; the server goes on without a connection.      *)
Connect ==
    /\ io = "connecting"
    /\ io' = "starting"
    /\ storage' \in {"none", "up"}
    /\ UNCHANGED <<vars, calls, clients, tasks, lastTick, played, elapsed>>

(* server->Start sets the loop's callback, then loop.Start; the io_context *)
(* runs from here on.                                                      *)
Launch ==
    /\ io = "starting"
    /\ Start
    /\ io' = "run"
    /\ UNCHANGED <<calls, clients, storage, tasks, lastTick, played, elapsed>>

Idle == io = "run" /\ calls = <<>>

(* What closing one client may block on: its stream, and the record of the *)
(* end of its session.                                                     *)
Goodbye == <<"close", "insert">>

(* A client registers, under a new name or in place of another client.     *)
ClientJoins ==
    /\ Idle
    /\ \/ /\ clients < MaxClients
          /\ clients' = clients + 1
          /\ calls' = <<"insert">>
       \/ /\ clients > 0
          /\ calls' = Goodbye \o <<"insert">>
          /\ UNCHANGED clients
    /\ UNCHANGED <<vars, io, storage, tasks, lastTick, played, elapsed>>

(* The handshake, a read or a write failed: the session is stopped.  One   *)
(* that never named a player has no client to unregister.                  *)
ClientLeaves ==
    /\ Idle
    /\ \/ /\ clients > 0
          /\ clients' = clients - 1
          /\ calls' = Goodbye
       \/ /\ calls' = <<"close">>
          /\ UNCHANGED clients
    /\ UNCHANGED <<vars, io, storage, tasks, lastTick, played, elapsed>>

(* PQexecParams and the close of a stream wait for the other side without  *)
(* a timeout; without a usable connection the INSERT fails at once.        *)
InCall == calls # <<>> /\ (Head(calls) = "insert" => storage = "up")

CallReturns ==
    /\ InCall
    /\ calls' = Tail(calls)
    /\ storage' \in IF Head(calls) = "insert" THEN {"up", "broken"} ELSE {storage}
    /\ UNCHANGED <<vars, io, clients, tasks, lastTick, played, elapsed>>

InsertFails ==
    /\ calls # <<>> /\ ~InCall
    /\ calls' = Tail(calls)
    /\ UNCHANGED <<vars, io, clients, storage, tasks, lastTick, played, elapsed>>

(* Mutant: only the newest of the posted ticks is played.                  *)
BroadcastNewest ==
    /\ Idle
    /\ tasks # <<>>
    /\ tasks' = <<>>
    /\ lastTick' = tasks[Len(tasks)].tick
    /\ played' = played + 1
    /\ elapsed' = elapsed + tasks[Len(tasks)].delta
    /\ UNCHANGED <<vars, io, calls, clients, storage>>

(* BroadcastState of the oldest posted tick; Tick adds its delta to the    *)
(* session's clock.                                                        *)
Broadcast ==
    /\ Idle
    /\ tasks # <<>>
    /\ tasks' = Tail(tasks)
    /\ lastTick' = Head(tasks).tick
    /\ played' = played + 1
    /\ elapsed' = elapsed + Head(tasks).delta
    /\ UNCHANGED <<vars, io, calls, clients, storage>>

(* The signal handler, first part: server->Stop takes the registry and     *)
(* stops the clients one by one.                                           *)
Signal ==
    /\ Idle
    /\ io' = "shutdown"
    /\ clients' = 0
    /\ calls' = [k \in 1..(2 * clients) |-> IF k % 2 = 1 THEN "close" ELSE "insert"]
    /\ UNCHANGED <<vars, storage, tasks, lastTick, played, elapsed>>

(* Second part: loop.Stop, up to its unlock.  Main calls it once more when *)
(* io_context.run has returned.                                            *)
StopLoop ==
    /\ io \in {"shutdown", "stopped"} /\ calls = <<>>
    /\ RequestStop
    /\ UNCHANGED server

(* Mutant: the handler does not stop the io_context.                       *)
StopReturnsRunning ==
    /\ NotifyAll
    /\ io' = IF io = "shutdown" THEN "run" ELSE "joining"
    /\ UNCHANGED <<calls, clients, storage, tasks, lastTick, played, elapsed>>

(* loop.Stop notifies and returns: the handler cancels the timer and stops *)
(* the io_context, so run returns and no posted broadcast is run any more; *)
(* after the second call main joins.                                       *)
StopReturns ==
    /\ NotifyAll
    /\ io' = IF io = "shutdown" THEN "stopped" ELSE "joining"
    /\ UNCHANGED <<calls, clients, storage, tasks, lastTick, played, elapsed>>

(* The second loop.Stop returns at once when the thread has ended.         *)
NothingToStop ==
    /\ io = "stopped" /\ controller = "stopping" /\ ~running
    /\ io' = "joining"
    /\ UNCHANGED <<vars, calls, clients, storage, tasks, lastTick, played, elapsed>>

JoinLoop ==
    /\ io = "joining"
    /\ Join
    /\ io' = "done"
    /\ UNCHANGED <<calls, clients, storage, tasks, lastTick, played, elapsed>>

MainThread ==
    \/ Connect \/ Launch \/ ClientJoins \/ ClientLeaves \/ CallReturns \/ InsertFails
    \/ Broadcast \/ Signal \/ StopLoop \/ StopReturns \/ NothingToStop \/ JoinLoop

-----------------------------------------------------------------------------
(* The loop thread.                                                        *)

(* Mutant: `previous' is not moved, each delta is counted from the start.  *)
PreviousFixed == start

(* `previous' of Run: the frame before, or the beginning of the thread.    *)
Previous == IF begun = 0 THEN start ELSE recent[3]

(* The callback of the loop: post the tick to the io_context.              *)
Post ==
    /\ EnterCallback
    /\ tasks' = Append(tasks, [tick |-> tickCounter,
                               delta |-> frameStart - Previous,
                               frameStart |-> frameStart])
    /\ UNCHANGED <<io, calls, clients, storage, lastTick, played, elapsed>>

WithinLoop ==
    /\ \/ Begin \/ CheckStop \/ ReadFrameStart \/ LeaveCallback
       \/ Advance \/ CatchUp \/ EnterWait \/ Wake
    /\ UNCHANGED server

ClockMoves == TimePasses /\ UNCHANGED server

ArenaNext == MainThread \/ Post \/ WithinLoop \/ ClockMoves

ArenaSpec == ArenaInit /\ [][ArenaNext]_arenaVars

(* Both threads go on while nothing blocks them.  That calls return,       *)
(* clients come or signals arrive is not assumed.                          *)
FairArenaSpec ==
    /\ ArenaSpec
    /\ WF_arenaVars(Post \/ WithinLoop)
    /\ WF_arenaVars(InsertFails \/ StopLoop \/ StopReturns \/ NothingToStop \/ JoinLoop)

-----------------------------------------------------------------------------
ArenaTypeOK ==
    /\ TypeOK
    /\ io \in IoPlaces
    /\ calls \in Seq({"close", "insert"})
    /\ clients \in 0..MaxClients
    /\ storage \in {"none", "up", "broken"}
    /\ tasks \in Seq([tick : Nat, delta : Nat, frameStart : Nat])
    /\ lastTick \in Nat /\ played \in Nat /\ elapsed \in Nat

(* However far the broadcasts fall behind the loop, none is lost, repeated *)
(* or overtaken: those still posted are the ticks from the first unplayed  *)
(* one to the last begun.                                                  *)
EveryTickIsPlayedOnce ==
    /\ played + Len(tasks) = begun
    /\ \A k \in 1..Len(tasks) : tasks[k].tick = played + k - 1
    /\ played > 0 => lastTick = played - 1

(* Where the game's time stands after k of the posted broadcasts.          *)
Reached(k) == IF k = 0 THEN start + elapsed ELSE tasks[k].frameStart

(* The clock of the session, which expires projectiles and spaces shots,   *)
(* is the loop's own: after a tick it stands where that tick began and the *)
(* next delta starts from there, whatever was late in between.             *)
GameTimeIsLoopTime ==
    begun > 0 =>
        /\ \A k \in 1..Len(tasks) :
               tasks[k].frameStart = Reached(k - 1) + tasks[k].delta
        /\ Reached(Len(tasks)) = recent[3]

(* A signal ends the program, provided each blocking call returns: no lock *)
(* order, no posted work and no sleeping loop keeps main from returning.   *)
ShutdownCompletes ==
    WF_arenaVars(CallReturns) => (io = "shutdown" ~> io = "done")
=============================================================================
