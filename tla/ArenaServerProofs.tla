-------------------------- MODULE ArenaServerProofs --------------------------
(***************************************************************************)
(* Proofs about GameLoop and about ArenaServer for any period and bounds.  *)
(* What is proved of the loop comes first.  The program implements it,     *)
(* which brings the loop's invariants over; on top of them the broadcasts  *)
(* are shown to play the loop's ticks.                                     *)
(***************************************************************************)
EXTENDS ArenaServer, SequenceTheorems, TLAPS

-----------------------------------------------------------------------------
(* The loop                                                                *)

(* Between a release and the callback: the loop is about to run the tick   *)
(* whose schedule nextFrame is, and has waited for it (or is to end).      *)
Released ==
    loop \in {"check", "frame", "enter"} /\ begun >= 1 =>
        /\ nextFrame >= recent[3]
        /\ begun >= 2 => nextFrame >= recent[2] + Period
        /\ loop = "check" /\ ~stopRequested => now >= nextFrame
        /\ loop = "frame" => now >= nextFrame
        /\ loop = "enter" => frameStart >= nextFrame

(* From the callback to the next schedule: nextFrame is still the schedule *)
(* of the tick that began last.                                            *)
InFrame ==
    /\ loop \in {"callback", "advance"} =>
        /\ begun >= 1
        /\ recent[3] <= now
        /\ begun >= 2 => nextFrame >= recent[2] /\ recent[3] >= nextFrame
    /\ loop = "enter" => frameStart <= now

(* After the frame: nextFrame is the schedule of the tick to come, and the *)
(* sleep lasts at least until then.                                        *)
AfterFrame ==
    /\ loop \in {"late", "sleep", "waiting"} =>
        /\ begun >= 1
        /\ recent[3] <= now
        /\ begun >= 2 => nextFrame >= recent[2] + Period
    /\ loop = "late" => now >= nextFrame
    /\ loop \in {"sleep", "waiting"} => nextFrame >= recent[3]
    /\ loop = "sleep" => now + deadline >= nextFrame
    /\ loop = "waiting" => deadline >= nextFrame

(* stop_requested_ is set by Stop only, and a tick that begins after it    *)
(* was already past the test; the thread ends at the next test.            *)
Stopping ==
    /\ loop = "begin" => begun = 0
    /\ loop = "none" <=> controller = "idle"
    /\ loop # "none" => (stopRequested <=> controller \in {"notifying", "stopping"})
    /\ ~stopRequested => afterStop = 0
    /\ loop \in {"begin", "frame", "enter"} => afterStop = 0

IInv ==
    /\ TypeOK /\ Released /\ InFrame /\ AfterFrame /\ Stopping
    /\ NoCatchUpBurst /\ AtMostOneTickAfterStop /\ StopIsNotSleptThrough

-----------------------------------------------------------------------------
LEMMA InitInvariant == ASSUME Init PROVE IInv
PROOF
<1>1. TypeOK
  <2>1. recent \in Nat \X Nat \X Nat BY DEF Init
  <2>2. running \in BOOLEAN /\ stopRequested \in BOOLEAN /\ notified \in BOOLEAN
    BY DEF Init
  <2> QED BY <2>1, <2>2 DEF Init, TypeOK, Places
<1>2. Released /\ InFrame /\ AfterFrame /\ Stopping
  BY DEF Init, Released, InFrame, AfterFrame, Stopping
<1>3. NoCatchUpBurst /\ AtMostOneTickAfterStop /\ StopIsNotSleptThrough
  BY DEF Init, NoCatchUpBurst, AtMostOneTickAfterStop, StopIsNotSleptThrough
<1> QED BY <1>1, <1>2, <1>3 DEF IInv

(* Indices and shifts of the triple of frame starts.                       *)
LEMMA RecentShift ==
    ASSUME NEW r \in Nat \X Nat \X Nat, NEW f \in Nat
    PROVE  LET s == <<r[2], r[3], f>>
           IN /\ r[1] \in Nat /\ r[2] \in Nat /\ r[3] \in Nat
              /\ s \in Nat \X Nat \X Nat
              /\ s[1] = r[2] /\ s[2] = r[3] /\ s[3] = f
PROOF OBVIOUS

LEMMA NextInvariant == ASSUME IInv, [Next]_vars PROVE IInv'
PROOF
<1> USE LoopAssumption
<1> USE DEF IInv, loopVars, ghosts, Places, MutexFree
<1>0. recent[1] \in Nat /\ recent[2] \in Nat /\ recent[3] \in Nat
  BY RecentShift DEF TypeOK
<1>1. CASE Start
  <2>1. /\ controller = "idle" /\ controller' = "started"
        /\ stopRequested' = FALSE /\ loop' = "begin"
        /\ begun' = 0 /\ afterStop' = 0 /\ recent' = <<0, 0, 0>>
    BY <1>1 DEF Start
  <2>2. TypeOK' BY <1>1 DEF Start, TypeOK
  <2> QED
    BY <2>1, <2>2
    DEF Released, InFrame, AfterFrame, Stopping,
        NoCatchUpBurst, AtMostOneTickAfterStop, StopIsNotSleptThrough
<1>2. CASE RequestStop
  BY <1>0, <1>2
  DEF RequestStop, TypeOK, Released, InFrame, AfterFrame, Stopping,
      NoCatchUpBurst, AtMostOneTickAfterStop, StopIsNotSleptThrough
<1>3. CASE NotifyAll
  <2>1. /\ controller = "notifying" /\ controller' = "stopping"
        /\ UNCHANGED <<now, running, stopRequested, loop, start, nextFrame,
                       frameStart, deadline, tickCounter, begun, recent, afterStop>>
    BY <1>3 DEF NotifyAll
  <2>2. notified' \in BOOLEAN /\ (loop = "waiting" => notified')
    BY <1>3, Zenon DEF NotifyAll
  <2>3. TypeOK' BY <2>1, <2>2 DEF TypeOK
  <2>4. StopIsNotSleptThrough' BY <2>1, <2>2, Zenon DEF StopIsNotSleptThrough
  <2> QED
    BY <1>0, <2>1, <2>3, <2>4
    DEF TypeOK, Released, InFrame, AfterFrame, Stopping,
        NoCatchUpBurst, AtMostOneTickAfterStop
<1>4. CASE Join
  BY <1>0, <1>4
  DEF Join, TypeOK, Released, InFrame, AfterFrame, Stopping,
      NoCatchUpBurst, AtMostOneTickAfterStop, StopIsNotSleptThrough
<1>5. CASE Begin
  BY <1>0, <1>5
  DEF Begin, TypeOK, Released, InFrame, AfterFrame, Stopping,
      NoCatchUpBurst, AtMostOneTickAfterStop, StopIsNotSleptThrough
<1>6. CASE CheckStop
  BY <1>0, <1>6
  DEF CheckStop, TypeOK, Released, InFrame, AfterFrame, Stopping,
      NoCatchUpBurst, AtMostOneTickAfterStop, StopIsNotSleptThrough
<1>7. CASE ReadFrameStart
  BY <1>0, <1>7
  DEF ReadFrameStart, TypeOK, Released, InFrame, AfterFrame, Stopping,
      NoCatchUpBurst, AtMostOneTickAfterStop, StopIsNotSleptThrough
<1>8. CASE EnterCallback
  <2>1. /\ loop = "enter" /\ loop' = "callback" /\ begun' = begun + 1
        /\ recent' = <<recent[2], recent[3], frameStart>>
        /\ afterStop' = IF stopRequested THEN afterStop + 1 ELSE afterStop
        /\ UNCHANGED <<now, controller, running, stopRequested, notified, start,
                       nextFrame, frameStart, deadline, tickCounter>>
    BY <1>8 DEF EnterCallback
  <2>2. /\ recent' \in Nat \X Nat \X Nat
        /\ recent'[1] = recent[2] /\ recent'[2] = recent[3]
        /\ recent'[3] = frameStart
    BY <2>1, RecentShift DEF TypeOK
  <2>3. TypeOK' BY <2>1, <2>2 DEF TypeOK
  <2>4. Released' /\ AfterFrame' BY <2>1 DEF Released, AfterFrame
  <2>5. InFrame' BY <1>0, <2>1, <2>2 DEF InFrame, Released, TypeOK
  <2>6. NoCatchUpBurst'
    BY <1>0, <2>1, <2>2 DEF NoCatchUpBurst, Released, TypeOK
  <2>7. Stopping' /\ AtMostOneTickAfterStop' /\ StopIsNotSleptThrough'
    BY <2>1 DEF Stopping, AtMostOneTickAfterStop, StopIsNotSleptThrough, TypeOK
  <2> QED BY <2>3, <2>4, <2>5, <2>6, <2>7
<1>9. CASE LeaveCallback
  BY <1>0, <1>9
  DEF LeaveCallback, TypeOK, Released, InFrame, AfterFrame, Stopping,
      NoCatchUpBurst, AtMostOneTickAfterStop, StopIsNotSleptThrough
<1>10. CASE Advance
  BY <1>0, <1>10
  DEF Advance, TypeOK, Released, InFrame, AfterFrame, Stopping,
      NoCatchUpBurst, AtMostOneTickAfterStop, StopIsNotSleptThrough
<1>11. CASE CatchUp
  BY <1>0, <1>11
  DEF CatchUp, TypeOK, Released, InFrame, AfterFrame, Stopping,
      NoCatchUpBurst, AtMostOneTickAfterStop, StopIsNotSleptThrough
<1>12. CASE EnterWait
  <2>1. /\ loop = "sleep"
        /\ UNCHANGED <<now, controller, running, stopRequested, start, nextFrame,
                       frameStart, tickCounter, begun, recent, afterStop>>
    BY <1>12 DEF EnterWait
  <2>2. CASE stopRequested
    <3>1. loop' = "check" /\ deadline' = deadline /\ notified' = notified
      BY <1>12, <2>2 DEF EnterWait
    <3>2. TypeOK' BY <2>1, <3>1 DEF TypeOK
    <3> QED
      BY <1>0, <2>1, <2>2, <3>1, <3>2
      DEF TypeOK, Released, InFrame, AfterFrame, Stopping,
          NoCatchUpBurst, AtMostOneTickAfterStop, StopIsNotSleptThrough
  <2>3. CASE ~stopRequested
    <3>1. loop' = "waiting" /\ deadline' = now + deadline /\ notified' = FALSE
      BY <1>12, <2>3 DEF EnterWait
    <3>2. TypeOK'
      <4>1. deadline' \in Int BY <3>1 DEF TypeOK
      <4>2. notified' \in BOOLEAN BY <3>1
      <4>3. loop' \in Places BY <3>1
      <4> QED BY <2>1, <4>1, <4>2, <4>3 DEF TypeOK
    <3> QED
      BY <1>0, <2>1, <2>3, <3>1, <3>2
      DEF TypeOK, Released, InFrame, AfterFrame, Stopping,
          NoCatchUpBurst, AtMostOneTickAfterStop, StopIsNotSleptThrough
  <2> QED BY <2>2, <2>3
<1>13. CASE Wake
  <2>1. /\ loop = "waiting"
        /\ UNCHANGED <<now, controller, running, stopRequested, start, nextFrame,
                       frameStart, deadline, tickCounter, begun, recent, afterStop>>
    BY <1>13 DEF Wake
  <2>2. CASE stopRequested \/ now >= deadline
    <3>1. loop' = "check" /\ notified' = notified BY <1>13, <2>2 DEF Wake
    <3>2. TypeOK' BY <2>1, <3>1 DEF TypeOK
    <3> QED
      BY <1>0, <2>1, <2>2, <3>1, <3>2
      DEF TypeOK, Released, InFrame, AfterFrame, Stopping,
          NoCatchUpBurst, AtMostOneTickAfterStop, StopIsNotSleptThrough
  <2>3. CASE ~(stopRequested \/ now >= deadline)
    <3>1. loop' = loop /\ notified' = FALSE BY <1>13, <2>3 DEF Wake
    <3>2. TypeOK' BY <2>1, <3>1 DEF TypeOK
    <3> QED
      BY <1>0, <2>1, <2>3, <3>1, <3>2
      DEF TypeOK, Released, InFrame, AfterFrame, Stopping,
          NoCatchUpBurst, AtMostOneTickAfterStop, StopIsNotSleptThrough
  <2> QED BY <2>2, <2>3
<1>14. CASE TimePasses
  BY <1>0, <1>14
  DEF TimePasses, TypeOK, Released, InFrame, AfterFrame, Stopping,
      NoCatchUpBurst, AtMostOneTickAfterStop, StopIsNotSleptThrough
<1>15. CASE UNCHANGED vars
  BY <1>15
  DEF vars, TypeOK, Released, InFrame, AfterFrame, Stopping,
      NoCatchUpBurst, AtMostOneTickAfterStop, StopIsNotSleptThrough
<1> QED
  BY <1>1, <1>2, <1>3, <1>4, <1>5, <1>6, <1>7, <1>8, <1>9, <1>10, <1>11, <1>12,
     <1>13, <1>14, <1>15
  DEF Next, Controller, LoopThread

-----------------------------------------------------------------------------
(* The strengthened invariant holds in every reachable state.              *)
THEOREM Invariance == Spec => []IInv
PROOF
<1>1. Init => IInv BY InitInvariant
<1>2. IInv /\ [Next]_vars => IInv' BY NextInvariant
<1> QED BY <1>1, <1>2, PTL DEF Spec

(* The loop's variables keep their types.                                  *)
THEOREM TypeCorrect == Spec => []TypeOK
PROOF
<1>1. IInv => TypeOK BY DEF IInv
<1> QED BY <1>1, Invariance, PTL

(* No overrun, however long, makes the loop run three ticks in a period.   *)
THEOREM NoBurst == Spec => []NoCatchUpBurst
PROOF
<1>1. IInv => NoCatchUpBurst BY DEF IInv
<1> QED BY <1>1, Invariance, PTL

(* At most one callback begins once Stop has set stop_requested_.          *)
THEOREM OneTickAfterStop == Spec => []AtMostOneTickAfterStop
PROOF
<1>1. IInv => AtMostOneTickAfterStop BY DEF IInv
<1> QED BY <1>1, Invariance, PTL

(* The notification of Stop is never lost on a thread that waits.          *)
THEOREM NotSleptThrough == Spec => []StopIsNotSleptThrough
PROOF
<1>1. IInv => StopIsNotSleptThrough BY DEF IInv
<1> QED BY <1>1, Invariance, PTL

-----------------------------------------------------------------------------
(* The pace of the loop.  The schedule starts one period ahead and each    *)
(* frame moves it by one, so while the tick after the first `begun' waits, *)
(* it stands at least begun + 1 periods after the beginning.               *)
Pace ==
    /\ start <= now
    /\ loop = "enter" => frameStart >= start
    /\ loop \in {"check", "frame", "enter", "late", "sleep", "waiting"} =>
          nextFrame >= start + (begun + 1) * Period
    /\ loop \in {"callback", "advance"} =>
          begun >= 1 /\ nextFrame >= start + begun * Period
    /\ NeverAheadOfTime

LEMMA PeriodsAdd ==
    ASSUME NEW b \in Nat
    PROVE  /\ b * Period \in Nat
           /\ (b + 1) * Period = b * Period + Period
           /\ b + 1 - 1 = b
           /\ b >= 1 => (b - 1) * Period \in Nat /\ b * Period = (b - 1) * Period + Period
PROOF BY LoopAssumption

LEMMA PaceInitially == ASSUME Init PROVE Pace
PROOF BY DEF Init, Pace, NeverAheadOfTime

LEMMA PaceInvariant == ASSUME IInv, Pace, [Next]_vars PROVE Pace'
PROOF
<1> USE LoopAssumption
<1> USE DEF loopVars, ghosts, Pace, NeverAheadOfTime
<1>0. /\ recent[1] \in Nat /\ recent[2] \in Nat /\ recent[3] \in Nat
      /\ now \in Nat /\ start \in Nat /\ nextFrame \in Nat /\ frameStart \in Nat
      /\ begun \in Nat
  BY RecentShift DEF IInv, TypeOK
<1>1. CASE Start
  <2>1. begun' = 0 /\ loop' = "begin" /\ UNCHANGED <<now, start, frameStart>>
    BY <1>1 DEF Start
  <2> QED BY <2>1
<1>2. CASE Begin
  <2>1. begun = 0 BY <1>2 DEF Begin, IInv, Stopping
  <2>2. /\ loop' = "check" /\ start' = now /\ nextFrame' = now + Period
        /\ now' = now /\ begun' = 0
    BY <1>2, <2>1 DEF Begin
  <2> QED BY <1>0, <2>2
<1>3. CASE ReadFrameStart
  BY <1>0, <1>3 DEF ReadFrameStart
<1>4. CASE EnterCallback
  <2>1. /\ loop = "enter" /\ loop' = "callback" /\ begun' = begun + 1
        /\ UNCHANGED <<now, start, nextFrame, frameStart>>
    BY <1>4 DEF EnterCallback
  <2>2. recent'[3] = frameStart
    <3>1. recent' = <<recent[2], recent[3], frameStart>> BY <1>4 DEF EnterCallback
    <3> QED BY <3>1
  <2>3. begun >= 1 => frameStart >= nextFrame BY <2>1 DEF IInv, Released
  <2>4. frameStart >= start + begun * Period
    <3>1. CASE begun = 0 BY <1>0, <2>1, <3>1
    <3>2. CASE begun >= 1 BY <1>0, <2>1, <2>3, <3>2, PeriodsAdd
    <3> QED BY <1>0, <3>1, <3>2
  <2> QED BY <1>0, <2>1, <2>2, <2>4, PeriodsAdd
<1>5. CASE Advance
  <2>1. /\ loop = "advance" /\ nextFrame' = nextFrame + Period
        /\ loop' \in {"sleep", "late"}
        /\ UNCHANGED <<now, start, frameStart, begun, recent>>
    BY <1>5 DEF Advance
  <2> QED BY <1>0, <2>1, PeriodsAdd
<1>6. CASE CatchUp
  <2>1. now >= nextFrame BY <1>6 DEF CatchUp, IInv, AfterFrame
  <2> QED BY <1>0, <1>6, <2>1, PeriodsAdd DEF CatchUp
<1>7. CASE TimePasses
  BY <1>0, <1>7 DEF TimePasses
<1>8. CASE RequestStop \/ NotifyAll \/ Join
  <2>1. /\ loop' = loop \/ loop' = "none"
        /\ UNCHANGED <<now, start, nextFrame, frameStart, begun, recent>>
    BY <1>8 DEF RequestStop, NotifyAll, Join
  <2> QED BY <1>0, <2>1
<1>9. CASE CheckStop \/ EnterWait \/ Wake
  <2>1. /\ loop \in {"check", "sleep", "waiting"}
        /\ loop' \in {"exited", "frame", "check", "waiting"}
        /\ UNCHANGED <<now, start, nextFrame, frameStart, begun, recent>>
    BY <1>9 DEF CheckStop, EnterWait, Wake
  <2> QED BY <1>0, <2>1
<1>10. CASE LeaveCallback
  BY <1>0, <1>10 DEF LeaveCallback
<1>11. CASE UNCHANGED vars
  BY <1>0, <1>11 DEF vars
<1> QED
  BY <1>1, <1>2, <1>3, <1>4, <1>5, <1>6, <1>7, <1>8, <1>9, <1>10, <1>11
  DEF Next, Controller, LoopThread

(* Tick k never begins before k periods have passed, whatever the delays.  *)
THEOREM NeverAhead == Spec => []NeverAheadOfTime
PROOF
<1>1. Init => Pace BY PaceInitially
<1>2. IInv /\ Pace /\ [Next]_vars => Pace' BY PaceInvariant
<1>3. Pace => NeverAheadOfTime BY DEF Pace
<1> QED BY <1>1, <1>2, <1>3, Invariance, PTL DEF Spec

-----------------------------------------------------------------------------
(* The program                                                             *)

(* Every step of the program is a step of the loop or leaves it alone.     *)
LEMMA ArenaStepIsLoopStep == ASSUME [ArenaNext]_arenaVars PROVE [Next]_vars
PROOF
<1>1. CASE MainThread
  BY <1>1
  DEF MainThread, Connect, Launch, ClientJoins, ClientLeaves, CallReturns,
      InsertFails, Broadcast, Signal, StopLoop, StopReturns, NothingToStop,
      JoinLoop, Next, Controller
<1>2. CASE Post BY <1>2 DEF Post, Next, LoopThread
<1>3. CASE WithinLoop BY <1>3 DEF WithinLoop, Next, LoopThread
<1>4. CASE ClockMoves BY <1>4 DEF ClockMoves, Next
<1>5. CASE UNCHANGED arenaVars BY <1>5 DEF arenaVars
<1> QED BY <1>1, <1>2, <1>3, <1>4, <1>5 DEF ArenaNext

(* The whole program implements the loop's specification, so whatever is   *)
(* proved of GameLoop holds beside clients, storage and shutdown.          *)
THEOREM ArenaImplementsLoop == ArenaSpec => Spec
PROOF
<1>1. ArenaInit => Init BY DEF ArenaInit
<1>2. [ArenaNext]_arenaVars => [Next]_vars BY ArenaStepIsLoopStep
<1> QED BY <1>1, <1>2, PTL DEF ArenaSpec, Spec

-----------------------------------------------------------------------------
(* tick_counter_ is behind by the tick whose callback has begun.           *)
CounterFollows ==
    begun = IF loop \in {"callback", "advance"} THEN tickCounter + 1 ELSE tickCounter

(* Before the loop is started nothing has been played.                     *)
NotStarted ==
    /\ io \in {"connecting", "starting"} => loop = "none" /\ begun = 0
    /\ begun = 0 => elapsed = 0 /\ tasks = <<>>

ArenaInv ==
    ArenaTypeOK /\ CounterFollows /\ NotStarted /\ EveryTickIsPlayedOnce
    /\ GameTimeIsLoopTime

LEMMA ArenaInitInvariant == ASSUME ArenaInit PROVE ArenaInv
PROOF
<1>1. TypeOK BY InitInvariant DEF ArenaInit, IInv
<1>2. ArenaTypeOK BY <1>1, ArenaAssumption DEF ArenaInit, ArenaTypeOK, IoPlaces
<1>3. CounterFollows /\ NotStarted /\ EveryTickIsPlayedOnce /\ GameTimeIsLoopTime
  BY DEF ArenaInit, Init, CounterFollows, NotStarted, EveryTickIsPlayedOnce,
         GameTimeIsLoopTime
<1> QED BY <1>2, <1>3 DEF ArenaInv

(* Steps that leave the queue of broadcasts, the session's clock and the   *)
(* loop's count of ticks alone keep the three relations between them.      *)
LEMMA PlayUnchanged ==
    ASSUME EveryTickIsPlayedOnce, GameTimeIsLoopTime,
           UNCHANGED <<tasks, played, lastTick, elapsed, start, begun, recent>>
    PROVE  EveryTickIsPlayedOnce' /\ GameTimeIsLoopTime'
PROOF
<1>1. EveryTickIsPlayedOnce' BY DEF EveryTickIsPlayedOnce
<1>2. \A k : Reached(k)' = Reached(k) BY DEF Reached
<1>3. GameTimeIsLoopTime' BY <1>2 DEF GameTimeIsLoopTime
<1> QED BY <1>1, <1>3

LEMMA BroadcastInvariant ==
    ASSUME IInv, ArenaInv, Broadcast
    PROVE  ArenaInv'
PROOF
<1> DEFINE Info == [tick : Nat, delta : Nat, frameStart : Nat]
<1>1. /\ tasks \in Seq(Info) /\ tasks # <<>>
      /\ played \in Nat /\ elapsed \in Nat /\ start \in Nat /\ begun \in Nat
  BY DEF ArenaInv, ArenaTypeOK, TypeOK, Broadcast
<1>2. /\ tasks' = Tail(tasks) /\ played' = played + 1
      /\ lastTick' = tasks[1].tick /\ elapsed' = elapsed + tasks[1].delta
      /\ UNCHANGED <<vars, io, calls, clients, storage>>
  BY DEF Broadcast
<1>3. /\ tasks[1] \in Info /\ Tail(tasks) \in Seq(Info)
      /\ Len(tasks) \in Nat /\ Len(tasks) >= 1
      /\ Len(Tail(tasks)) = Len(tasks) - 1
      /\ \A k \in 1 .. Len(tasks) - 1 : Tail(tasks)[k] = tasks[k + 1]
      /\ \A k \in 1 .. Len(tasks) : tasks[k] \in Info
  <2> HIDE DEF Info
  <2>1. Len(tasks) \in Nat /\ \A k \in 1 .. Len(tasks) : tasks[k] \in Info
    BY <1>1, ElementOfSeq
  <2>2. Len(tasks) # 0 BY <1>1, EmptySeq
  <2>3. /\ Tail(tasks) \in Seq(Info) /\ Len(Tail(tasks)) = Len(tasks) - 1
        /\ \A k \in 1 .. Len(Tail(tasks)) : Tail(tasks)[k] = tasks[k + 1]
    BY <1>1, HeadTailProperties
  <2> QED BY <2>1, <2>2, <2>3
<1>4. ArenaTypeOK'
  <2>1. TypeOK' BY <1>2 DEF ArenaInv, ArenaTypeOK, TypeOK, vars, loopVars, ghosts
  <2> QED BY <1>1, <1>2, <1>3, <2>1 DEF ArenaInv, ArenaTypeOK
<1>5. CounterFollows' BY <1>2 DEF ArenaInv, CounterFollows, vars, loopVars, ghosts
<1>6. begun > 0
  BY <1>1, <1>3 DEF ArenaInv, EveryTickIsPlayedOnce
<1>7. NotStarted' BY <1>1, <1>2, <1>6 DEF ArenaInv, NotStarted, vars, ghosts
<1>8. EveryTickIsPlayedOnce'
  <2>1. played' + Len(tasks') = begun'
    <3>1. begun' = begun BY <1>2 DEF vars, ghosts
    <3>2. played + Len(tasks) = begun BY DEF ArenaInv, EveryTickIsPlayedOnce
    <3>3. Len(tasks') = Len(tasks) - 1 BY <1>2, <1>3
    <3> HIDE DEF Info
    <3> QED BY <1>1, <1>2, <1>3, <3>1, <3>2, <3>3
  <2>2. lastTick' = played' - 1
    BY <1>1, <1>2, <1>3 DEF ArenaInv, EveryTickIsPlayedOnce
  <2>3. ASSUME NEW k \in 1 .. Len(tasks') PROVE tasks'[k].tick = played' + k - 1
    <3>1. k + 1 \in 1 .. Len(tasks) /\ tasks'[k] = tasks[k + 1] BY <1>2, <1>3
    <3>2. tasks[k + 1].tick = played + (k + 1) - 1
      BY <3>1 DEF ArenaInv, EveryTickIsPlayedOnce
    <3> QED BY <1>1, <1>2, <3>1, <3>2
  <2> QED BY <2>1, <2>2, <2>3 DEF EveryTickIsPlayedOnce
<1>9. ASSUME NEW k \in 0 .. Len(tasks) - 1 PROVE Reached(k)' = Reached(k + 1)
  <2>1. CASE k = 0
    <3>1. tasks[1].frameStart = Reached(0) + tasks[1].delta
      BY <1>3, <1>6 DEF ArenaInv, GameTimeIsLoopTime
    <3>2. start' = start BY <1>2 DEF vars, loopVars
    <3> QED BY <1>1, <1>2, <1>3, <2>1, <3>1, <3>2 DEF Reached
  <2>2. CASE k # 0
    <3>1. tasks'[k] = tasks[k + 1] /\ k + 1 # 0 BY <1>2, <1>3, <2>2
    <3> QED BY <2>2, <3>1 DEF Reached
  <2> QED BY <2>1, <2>2
<1>10. GameTimeIsLoopTime'
  <2>1. begun' = begun /\ recent' = recent BY <1>2 DEF vars, ghosts
  <2>2. (Reached(Len(tasks)) = recent[3])'
    <3>1. Len(tasks') = Len(tasks) - 1 /\ Len(tasks') \in 0 .. Len(tasks) - 1
          /\ Len(tasks') + 1 = Len(tasks)
      BY <1>2, <1>3
    <3>2. ASSUME NEW k \in 0 .. Len(tasks) - 1, k = Len(tasks')
          PROVE  Reached(k)' = Reached(Len(tasks))
      BY <1>9, <3>1, <3>2
    <3>3. Reached(Len(tasks))' = Reached(Len(tasks))
      BY <3>1, <3>2
    <3> QED BY <1>6, <2>1, <3>3 DEF ArenaInv, GameTimeIsLoopTime
  <2>3. ASSUME NEW k \in 1 .. Len(tasks')
        PROVE  tasks'[k].frameStart = Reached(k - 1)' + tasks'[k].delta
    <3>1. /\ k + 1 \in 1 .. Len(tasks) /\ tasks'[k] = tasks[k + 1]
          /\ k - 1 \in 0 .. Len(tasks) - 1 /\ (k - 1) + 1 = k /\ (k + 1) - 1 = k
      BY <1>2, <1>3
    <3>2. tasks[k + 1].frameStart = Reached(k) + tasks[k + 1].delta
      BY <1>6, <3>1 DEF ArenaInv, GameTimeIsLoopTime
    <3>3. Reached(k - 1)' = Reached(k) BY <1>9, <3>1
    <3> QED BY <3>1, <3>2, <3>3
  <2> QED BY <2>2, <2>3 DEF GameTimeIsLoopTime
<1> QED BY <1>4, <1>5, <1>7, <1>8, <1>10 DEF ArenaInv

LEMMA PostInvariant ==
    ASSUME IInv, Pace, ArenaInv, Post
    PROVE  ArenaInv'
PROOF
<1> DEFINE Info == [tick : Nat, delta : Nat, frameStart : Nat]
           tick == [tick |-> tickCounter, delta |-> frameStart - Previous,
                    frameStart |-> frameStart]
<1>1. /\ tasks \in Seq(Info) /\ tickCounter \in Nat /\ frameStart \in Nat
      /\ played \in Nat /\ elapsed \in Nat /\ start \in Nat /\ begun \in Nat
      /\ recent[1] \in Nat /\ recent[2] \in Nat /\ recent[3] \in Nat
      /\ nextFrame \in Nat
  BY RecentShift DEF ArenaInv, ArenaTypeOK, TypeOK
<1>2. /\ loop = "enter" /\ loop' = "callback" /\ begun' = begun + 1
      /\ recent' = <<recent[2], recent[3], frameStart>>
      /\ UNCHANGED <<start, tickCounter>>
  BY DEF Post, EnterCallback, loopVars
<1>3. tasks' = Append(tasks, tick)
      /\ UNCHANGED <<io, calls, clients, storage, lastTick, played, elapsed>>
  BY DEF Post
<1>4. tick \in Info
  <2>1. begun > 0 => frameStart >= recent[3]
    BY <1>1, <1>2 DEF IInv, Released
  <2>2. frameStart >= start BY <1>2 DEF Pace
  <2> QED BY <1>1, <2>1, <2>2 DEF Previous
<1>5. /\ tasks' \in Seq(Info) /\ tasks' # <<>> /\ Len(tasks) \in Nat
      /\ Len(tasks') = Len(tasks) + 1
      /\ \A k \in 1 .. Len(tasks) : tasks'[k] = tasks[k]
      /\ tasks'[Len(tasks) + 1] = tick
  <2> HIDE DEF Info, tick
  <2> QED BY <1>1, <1>3, <1>4, AppendProperties, LenProperties
<1>6. begun = tickCounter BY <1>2 DEF ArenaInv, CounterFollows
<1>7. ArenaTypeOK'
  <2>1. TypeOK'
    <3>1. EnterCallback BY DEF Post
    <3>2. [Next]_vars BY <3>1 DEF Next, LoopThread
    <3> QED BY <3>2, NextInvariant DEF IInv
  <2> QED BY <1>3, <1>5, <2>1 DEF ArenaInv, ArenaTypeOK
<1>8. CounterFollows' BY <1>2, <1>6 DEF CounterFollows
<1>9. NotStarted'
  <2>1. io \notin {"connecting", "starting"} BY <1>2 DEF ArenaInv, NotStarted
  <2> QED BY <1>1, <1>2, <1>3, <2>1 DEF NotStarted
<1>10. EveryTickIsPlayedOnce'
  <2>1. /\ played + Len(tasks) = begun
        /\ \A k \in 1 .. Len(tasks) : tasks[k].tick = played + k - 1
        /\ played > 0 => lastTick = played - 1
    BY DEF ArenaInv, EveryTickIsPlayedOnce
  <2>2. tasks'[Len(tasks) + 1].tick = played + (Len(tasks) + 1) - 1
    BY <1>1, <1>5, <1>6, <2>1
  <2>3. ASSUME NEW k \in 1 .. Len(tasks') PROVE tasks'[k].tick = played' + k - 1
    <3>1. k \in 1 .. Len(tasks) \/ k = Len(tasks) + 1 BY <1>5
    <3> QED BY <1>3, <1>5, <2>1, <2>2, <3>1
  <2>4. played' + Len(tasks') = begun' BY <1>1, <1>2, <1>3, <1>5, <2>1
  <2> QED BY <1>3, <2>1, <2>3, <2>4 DEF EveryTickIsPlayedOnce
<1>11. Reached(Len(tasks)) = Previous
  <2>1. CASE begun = 0
    <3>1. tasks = <<>> /\ elapsed = 0 BY <2>1 DEF ArenaInv, NotStarted
    <3> QED BY <1>1, <2>1, <3>1 DEF Reached, Previous
  <2>2. CASE begun # 0
    BY <1>1, <2>2 DEF ArenaInv, GameTimeIsLoopTime, Previous
  <2> QED BY <2>1, <2>2
<1>12. ASSUME NEW k \in 0 .. Len(tasks) PROVE Reached(k)' = Reached(k)
  BY <1>2, <1>3, <1>5 DEF Reached
<1>13. GameTimeIsLoopTime'
  <2>1. recent'[3] = frameStart BY <1>2
  <2>2. (Reached(Len(tasks)) = recent[3])'
    BY <1>5, <2>1 DEF Reached
  <2>3. ASSUME NEW k \in 1 .. Len(tasks')
        PROVE  tasks'[k].frameStart = Reached(k - 1)' + tasks'[k].delta
    <3>1. CASE k \in 1 .. Len(tasks)
      <4>1. tasks[k].frameStart = Reached(k - 1) + tasks[k].delta
        <5>1. begun > 0
          <6>1. Len(tasks) >= 1 BY <1>5, <3>1
          <6> QED BY <1>1, <1>5, <6>1 DEF ArenaInv, EveryTickIsPlayedOnce
        <5> QED BY <3>1, <5>1 DEF ArenaInv, GameTimeIsLoopTime
      <4>2. k - 1 \in 0 .. Len(tasks) BY <1>5, <3>1
      <4>3. Reached(k - 1)' = Reached(k - 1) BY <1>12, <4>2
      <4> QED BY <1>5, <3>1, <4>1, <4>3
    <3>2. CASE k = Len(tasks) + 1
      <4>1. k - 1 = Len(tasks) BY <1>5, <3>2
      <4>3. Reached(k - 1)' = Previous BY <1>5, <1>11, <1>12, <4>1
      <4>4. tasks'[k].frameStart = frameStart
            /\ tasks'[k].delta = frameStart - Previous
        BY <1>5, <3>2
      <4>5. Previous \in Nat BY <1>1 DEF Previous
      <4> QED BY <1>1, <4>3, <4>4, <4>5
    <3> QED BY <1>5, <3>1, <3>2
  <2> QED BY <2>2, <2>3 DEF GameTimeIsLoopTime
<1> QED BY <1>7, <1>8, <1>9, <1>10, <1>13 DEF ArenaInv

(* The handlers and the shutdown only touch calls, clients and storage.    *)
LEMMA HandlerTypes ==
    ASSUME ArenaInv,
           ClientJoins \/ ClientLeaves \/ CallReturns \/ InsertFails \/ Signal
    PROVE  /\ calls' \in Seq({"close", "insert"})
           /\ clients' \in 0 .. MaxClients
           /\ storage' \in {"none", "up", "broken"}
           /\ io' \in {io, "shutdown"}
           /\ UNCHANGED <<vars, tasks, lastTick, played, elapsed>>
PROOF
<1> DEFINE C == {"close", "insert"}
<1>1. /\ calls \in Seq(C) /\ clients \in 0 .. MaxClients /\ MaxClients \in Nat
      /\ storage \in {"none", "up", "broken"}
  BY ArenaAssumption DEF ArenaInv, ArenaTypeOK
<1>2. Goodbye \in Seq(C) /\ <<"insert">> \in Seq(C) /\ <<"close">> \in Seq(C)
  BY DEF Goodbye
<1>3. CASE ClientJoins
  <2>1. Goodbye \o <<"insert">> \in Seq(C) BY <1>2, ConcatProperties
  <2>2. UNCHANGED <<vars, io, storage, tasks, lastTick, played, elapsed>>
    BY <1>3 DEF ClientJoins
  <2>3. calls' \in {<<"insert">>, Goodbye \o <<"insert">>} BY <1>3 DEF ClientJoins
  <2>4. clients' = clients \/ (clients < MaxClients /\ clients' = clients + 1)
    <3>1. CASE clients < MaxClients /\ clients' = clients + 1 BY <3>1
    <3>2. CASE clients' = clients BY <3>2
    <3> QED BY <1>3, <3>1, <3>2 DEF ClientJoins
  <2>5. clients' \in 0 .. MaxClients BY <1>1, <2>4
  <2>6. calls' \in Seq(C) BY <1>2, <2>1, <2>3
  <2> QED BY <1>1, <2>2, <2>5, <2>6
<1>4. CASE ClientLeaves
  <2>1. calls' \in Seq(C)
    <3>1. calls' \in {Goodbye, <<"close">>} BY <1>4 DEF ClientLeaves
    <3> QED BY <1>2, <3>1
  <2>2. clients' \in 0 .. MaxClients BY <1>1, <1>4 DEF ClientLeaves
  <2> QED BY <1>1, <1>4, <2>1, <2>2 DEF ClientLeaves
<1>5. CASE CallReturns \/ InsertFails
  <2>1. Tail(calls) \in Seq(C)
    <3>1. calls # <<>> BY <1>5 DEF CallReturns, InCall, InsertFails
    <3> QED BY <1>1, <3>1, HeadTailProperties
  <2> QED BY <1>1, <1>5, <2>1 DEF CallReturns, InsertFails
<1>6. CASE Signal
  <2>1. calls' \in Seq(C)
    <3>1. /\ 2 * clients \in Nat
          /\ calls' = [k \in 1..(2 * clients) |-> IF k % 2 = 1 THEN "close" ELSE "insert"]
      BY <1>1, <1>6 DEF Signal
    <3>2. \A k \in 1..(2 * clients) : (IF k % 2 = 1 THEN "close" ELSE "insert") \in C
      OBVIOUS
    <3> QED BY <3>1, <3>2, IsASeq
  <2> QED BY <1>1, <1>6, <2>1 DEF Signal
<1> QED BY <1>3, <1>4, <1>5, <1>6

LEMMA MainInvariant == ASSUME IInv, ArenaInv, MainThread PROVE ArenaInv'
PROOF
<1> USE DEF ArenaInv, loopVars, ghosts
<1>1. TypeOK'
  <2>1. [Next]_vars BY ArenaStepIsLoopStep DEF ArenaNext
  <2> QED BY <2>1, NextInvariant DEF IInv
<1>2. CASE Broadcast BY <1>2, BroadcastInvariant
<1>3. CASE Launch
  <2>1. /\ io = "starting" /\ io' = "run"
        /\ UNCHANGED <<calls, clients, storage, tasks, lastTick, played, elapsed>>
        /\ begun' = 0 /\ tickCounter' = 0 /\ loop' = "begin"
    BY <1>3 DEF Launch, Start
  <2>2. begun = 0 /\ elapsed = 0 /\ tasks = <<>> BY <2>1 DEF NotStarted
  <2>3. ArenaTypeOK' BY <1>1, <2>1 DEF ArenaTypeOK, IoPlaces
  <2>4. CounterFollows' /\ NotStarted'
    BY <2>1, <2>2 DEF CounterFollows, NotStarted
  <2>5. EveryTickIsPlayedOnce' BY <2>1, <2>2 DEF EveryTickIsPlayedOnce
  <2>6. GameTimeIsLoopTime' BY <2>1 DEF GameTimeIsLoopTime
  <2> QED BY <2>3, <2>4, <2>5, <2>6
<1>4. CASE ClientJoins \/ ClientLeaves \/ CallReturns \/ InsertFails \/ Signal
  <2>1. /\ calls' \in Seq({"close", "insert"}) /\ clients' \in 0 .. MaxClients
        /\ storage' \in {"none", "up", "broken"} /\ io' \in {io, "shutdown"}
        /\ UNCHANGED <<vars, tasks, lastTick, played, elapsed>>
    BY <1>4, HandlerTypes
  <2>2. ArenaTypeOK' BY <1>1, <2>1 DEF ArenaTypeOK, IoPlaces
  <2>3. CounterFollows' /\ NotStarted' BY <2>1 DEF CounterFollows, NotStarted, vars
  <2>4. EveryTickIsPlayedOnce' /\ GameTimeIsLoopTime' BY <2>1, PlayUnchanged DEF vars
  <2> QED BY <2>2, <2>3, <2>4
<1>5. CASE Connect \/ StopLoop \/ StopReturns \/ NothingToStop \/ JoinLoop
  <2>1. /\ UNCHANGED <<calls, clients, tasks, lastTick, played, elapsed>>
        /\ UNCHANGED <<start, begun, recent, tickCounter>>
        /\ storage' \in {storage, "none", "up"}
        /\ io' \in IoPlaces
        /\ io' \in {"connecting", "starting"} => io \in {"connecting", "starting"}
        /\ loop' = loop \/ (loop = "exited" /\ loop' = "none")
    <3> HIDE DEF ArenaInv
    <3> USE DEF IoPlaces, vars
    <3>1. CASE Connect BY <3>1 DEF Connect
    <3>2. CASE StopLoop BY <3>2 DEF StopLoop, RequestStop, server
    <3>3. CASE StopReturns
      <4>1. io' \in {"stopped", "joining"} BY <3>3 DEF StopReturns
      <4> QED BY <3>3, <4>1 DEF StopReturns, NotifyAll
    <3>4. CASE NothingToStop BY <3>4 DEF NothingToStop
    <3>5. CASE JoinLoop BY <3>5 DEF JoinLoop, Join
    <3> QED BY <1>5, <3>1, <3>2, <3>3, <3>4, <3>5
  <2>2. ArenaTypeOK' BY <1>1, <2>1 DEF ArenaTypeOK
  <2>3. CounterFollows' /\ NotStarted' BY <2>1 DEF CounterFollows, NotStarted
  <2>4. EveryTickIsPlayedOnce' /\ GameTimeIsLoopTime' BY <2>1, PlayUnchanged
  <2> QED BY <2>2, <2>3, <2>4
<1> QED BY <1>2, <1>3, <1>4, <1>5 DEF MainThread

LEMMA LoopInvariant == ASSUME IInv, ArenaInv, WithinLoop \/ ClockMoves PROVE ArenaInv'
PROOF
<1> USE DEF ArenaInv, loopVars, ghosts
<1>1. TypeOK'
  <2>1. [Next]_vars BY ArenaStepIsLoopStep DEF ArenaNext
  <2> QED BY <2>1, NextInvariant DEF IInv
<1>2. UNCHANGED server BY DEF WithinLoop, ClockMoves
<1>3. ArenaTypeOK' BY <1>1, <1>2 DEF ArenaTypeOK, server
<1>4. UNCHANGED <<begun, recent>>
  BY DEF WithinLoop, ClockMoves, Begin, CheckStop, ReadFrameStart, LeaveCallback,
         Advance, CatchUp, EnterWait, Wake, TimePasses
<1>5. tickCounter \in Nat BY DEF ArenaTypeOK, TypeOK
<1>6. CounterFollows'
  BY <1>4, <1>5
  DEF CounterFollows, WithinLoop, ClockMoves, Begin, CheckStop, ReadFrameStart,
      LeaveCallback, Advance, CatchUp, EnterWait, Wake, TimePasses
<1>7. NotStarted'
  <2>1. loop = "none" => loop' = "none"
    BY DEF WithinLoop, ClockMoves, Begin, CheckStop, ReadFrameStart, LeaveCallback,
           Advance, CatchUp, EnterWait, Wake, TimePasses
  <2> QED BY <1>2, <1>4, <2>1 DEF NotStarted, server
<1>8. CASE Begin
  <2>1. begun = 0 BY <1>8 DEF Begin, IInv, Stopping
  <2>2. EveryTickIsPlayedOnce' BY <1>2, <1>4 DEF EveryTickIsPlayedOnce, server
  <2>3. GameTimeIsLoopTime' BY <1>4, <2>1 DEF GameTimeIsLoopTime
  <2> QED BY <1>3, <1>6, <1>7, <2>2, <2>3
<1>9. CASE ~Begin
  <2>1. start' = start
    BY <1>9
    DEF WithinLoop, ClockMoves, CheckStop, ReadFrameStart, LeaveCallback, Advance,
        CatchUp, EnterWait, Wake, TimePasses
  <2>2. EveryTickIsPlayedOnce' /\ GameTimeIsLoopTime'
    BY <1>2, <1>4, <2>1, PlayUnchanged DEF server
  <2> QED BY <1>3, <1>6, <1>7, <2>2
<1> QED BY <1>8, <1>9

LEMMA ArenaInvariant ==
    ASSUME IInv, Pace, ArenaInv, [ArenaNext]_arenaVars
    PROVE  ArenaInv'
PROOF
<1>1. CASE MainThread BY <1>1, MainInvariant
<1>2. CASE Post BY <1>2, PostInvariant
<1>3. CASE WithinLoop \/ ClockMoves BY <1>3, LoopInvariant
<1>4. CASE UNCHANGED arenaVars
  <2>1. UNCHANGED <<vars, server>> BY <1>4 DEF arenaVars
  <2>2. ArenaTypeOK'
    BY <2>1 DEF ArenaInv, ArenaTypeOK, TypeOK, vars, server, loopVars, ghosts
  <2>3. CounterFollows' /\ NotStarted'
    BY <2>1 DEF ArenaInv, CounterFollows, NotStarted, vars, server, loopVars, ghosts
  <2>4. EveryTickIsPlayedOnce' /\ GameTimeIsLoopTime'
    BY <2>1, PlayUnchanged DEF ArenaInv, vars, server, loopVars, ghosts
  <2> QED BY <2>2, <2>3, <2>4 DEF ArenaInv
<1> QED BY <1>1, <1>2, <1>3, <1>4 DEF ArenaNext

-----------------------------------------------------------------------------
(* The strengthened invariant holds in every reachable state.              *)
THEOREM ArenaInvariance == ArenaSpec => [](IInv /\ Pace /\ ArenaInv)
PROOF
<1>1. ArenaInit => IInv /\ Pace /\ ArenaInv
  BY InitInvariant, PaceInitially, ArenaInitInvariant DEF ArenaInit
<1>2. IInv /\ Pace /\ ArenaInv /\ [ArenaNext]_arenaVars => (IInv /\ Pace /\ ArenaInv)'
  BY ArenaStepIsLoopStep, NextInvariant, PaceInvariant, ArenaInvariant
<1> QED BY <1>1, <1>2, PTL DEF ArenaSpec

(* The program's variables keep their types.                               *)
THEOREM ArenaTypeCorrect == ArenaSpec => []ArenaTypeOK
PROOF
<1>1. ArenaInv => ArenaTypeOK BY DEF ArenaInv
<1> QED BY <1>1, ArenaInvariance, PTL

(* No tick is lost, repeated or overtaken on its way to the game.          *)
THEOREM TicksArePlayedOnce == ArenaSpec => []EveryTickIsPlayedOnce
PROOF
<1>1. ArenaInv => EveryTickIsPlayedOnce BY DEF ArenaInv
<1> QED BY <1>1, ArenaInvariance, PTL

(* However late broadcasts run, the game's clock is the loop's.            *)
THEOREM GameTimeFollows == ArenaSpec => []GameTimeIsLoopTime
PROOF
<1>1. ArenaInv => GameTimeIsLoopTime BY DEF ArenaInv
<1> QED BY <1>1, ArenaInvariance, PTL
=============================================================================
