------------------------------ MODULE GameLoop -------------------------------
(***************************************************************************)
(* The fixed-rate loop: the thread that runs GameLoop::Run and a           *)
(* controller that calls Start, Stop and Join, sharing mutex_, stop_cv_,   *)
(* stop_requested_ and running_.  Time is a clock in ticks of its own that *)
(* advances at any moment, so a thread may be delayed anywhere.  In this   *)
(* server the controller is the main thread and it joins before it starts  *)
(* again, as the tests do.                                                 *)
(***************************************************************************)
EXTENDS Integers

CONSTANTS
    Period,  \* target_delta_
    MaxTime  \* bound on the clock

ASSUME LoopAssumption == Period \in Nat \ {0} /\ MaxTime \in Nat

VARIABLES
    now,            \* steady_clock::now()
    controller,     \* "idle", "started", "notifying" inside Stop, "stopping"
    running,        \* running_
    stopRequested,  \* stop_requested_
    notified,       \* notify_all reached the waiting thread
    loop,           \* where the loop thread is
    start,          \* `previous' when the thread began
    nextFrame,      \* next_frame
    frameStart,     \* frame_start
    deadline,       \* when wait_for gives up
    tickCounter,    \* tick_counter_
    begun,          \* callbacks begun since Start
    recent,         \* frame_start of the last three of them, oldest first
    afterStop       \* callbacks begun since stop_requested_ was set

loopVars == <<start, nextFrame, frameStart, deadline, tickCounter>>
ghosts   == <<begun, recent, afterStop>>
vars     == <<now, controller, running, stopRequested, notified, loop,
              loopVars, ghosts>>

Places == {"none", "begin", "check", "frame", "enter", "callback", "advance",
           "late", "sleep", "waiting", "exited"}

(* mutex_ is held across steps only while the callback runs.               *)
MutexFree == loop # "callback"

Init ==
    /\ now = 0
    /\ controller = "idle"
    /\ running = FALSE
    /\ stopRequested = FALSE
    /\ notified = FALSE
    /\ loop = "none"
    /\ start = 0 /\ nextFrame = 0 /\ frameStart = 0 /\ deadline = 0
    /\ tickCounter = 0
    /\ begun = 0 /\ recent = <<0, 0, 0>> /\ afterStop = 0

-----------------------------------------------------------------------------
(* The controller.                                                         *)

(* Start, with no thread left from before.                                 *)
Start ==
    /\ controller = "idle" /\ ~running
    /\ controller' = "started"
    /\ running' = TRUE
    /\ tickCounter' = 0
    /\ stopRequested' = FALSE
    /\ notified' = FALSE
    /\ loop' = "begin"
    /\ begun' = 0 /\ recent' = <<0, 0, 0>> /\ afterStop' = 0
    /\ UNCHANGED <<now, start, nextFrame, frameStart, deadline>>

(* Stop up to the unlock; it returns at once when nothing runs.            *)
RequestStop ==
    /\ controller \in {"started", "stopping"} /\ running
    /\ MutexFree
    /\ controller' = "notifying"
    /\ stopRequested' = TRUE
    /\ UNCHANGED <<now, running, notified, loop, loopVars, ghosts>>

(* Mutant: Stop does not notify.                                           *)
NotifyNobody ==
    /\ controller = "notifying"
    /\ controller' = "stopping"
    /\ UNCHANGED <<now, running, stopRequested, notified, loop, loopVars, ghosts>>

(* stop_cv_.notify_all() is not remembered when nobody waits.              *)
NotifyAll ==
    /\ controller = "notifying"
    /\ controller' = "stopping"
    /\ notified' = (notified \/ loop = "waiting")
    /\ UNCHANGED <<now, running, stopRequested, loop, loopVars, ghosts>>

Join ==
    /\ controller = "stopping"
    /\ loop = "exited"
    /\ controller' = "idle"
    /\ loop' = "none"
    /\ UNCHANGED <<now, running, stopRequested, notified, loopVars, ghosts>>

-----------------------------------------------------------------------------
(* The loop thread, from one access to shared state or clock to the next.  *)

(* Mutant: `previous' is set back by a period.                             *)
BeginBackdated ==
    /\ loop = "begin"
    /\ loop' = "check"
    /\ start' = now - Period
    /\ nextFrame' = now
    /\ UNCHANGED <<now, controller, running, stopRequested, notified, frameStart,
                   deadline, tickCounter, ghosts>>

(* previous = now(); next_frame = previous + target_delta_                 *)
Begin ==
    /\ loop = "begin"
    /\ loop' = "check"
    /\ start' = now
    /\ nextFrame' = now + Period
    /\ UNCHANGED <<now, controller, running, stopRequested, notified, frameStart,
                   deadline, tickCounter, ghosts>>

CheckStop ==
    /\ loop = "check"
    /\ MutexFree
    /\ IF stopRequested
       THEN loop' = "exited" /\ running' = FALSE
       ELSE loop' = "frame" /\ UNCHANGED running
    /\ UNCHANGED <<now, controller, stopRequested, notified, loopVars, ghosts>>

ReadFrameStart ==
    /\ loop = "frame"
    /\ loop' = "enter"
    /\ frameStart' = now
    /\ UNCHANGED <<now, controller, running, stopRequested, notified, start,
                   nextFrame, deadline, tickCounter, ghosts>>

(* Lock mutex_ and call callback_; stop_requested_ is not read again.      *)
EnterCallback ==
    /\ loop = "enter"
    /\ MutexFree
    /\ loop' = "callback"
    /\ begun' = begun + 1
    /\ recent' = <<recent[2], recent[3], frameStart>>
    /\ afterStop' = IF stopRequested THEN afterStop + 1 ELSE afterStop
    /\ UNCHANGED <<now, controller, running, stopRequested, notified, loopVars>>

LeaveCallback ==
    /\ loop = "callback"
    /\ loop' = "advance"
    /\ UNCHANGED <<now, controller, running, stopRequested, notified, loopVars, ghosts>>

(* Mutant: next_frame is not advanced.                                     *)
AdvanceNot ==
    /\ loop = "advance"
    /\ tickCounter' = tickCounter + 1
    /\ deadline' = nextFrame - now
    /\ loop' = IF nextFrame > now THEN "sleep" ELSE "late"
    /\ UNCHANGED <<now, controller, running, stopRequested, notified, start,
                   nextFrame, frameStart, ghosts>>

(* next_frame += target_delta_, ++tick_counter_, and the sleep that is     *)
(* left; wait_for counts it from the moment it is called.                  *)
Advance ==
    /\ loop = "advance"
    /\ nextFrame' = nextFrame + Period
    /\ tickCounter' = tickCounter + 1
    /\ deadline' = nextFrame' - now
    /\ loop' = IF nextFrame' > now THEN "sleep" ELSE "late"
    /\ UNCHANGED <<now, controller, running, stopRequested, notified, start,
                   frameStart, ghosts>>

(* Mutant: the schedule is kept after an overrun.                          *)
CatchUpAllFrames ==
    /\ loop = "late"
    /\ loop' = "check"
    /\ UNCHANGED <<now, controller, running, stopRequested, notified, loopVars, ghosts>>

(* Mutant: an overrun goes on to the next frame without the check.         *)
CatchUpUnchecked ==
    /\ loop = "late"
    /\ loop' = "frame"
    /\ nextFrame' = now
    /\ UNCHANGED <<now, controller, running, stopRequested, notified, start,
                   frameStart, deadline, tickCounter, ghosts>>

(* The frame overran: forget the schedule and go on from now.              *)
CatchUp ==
    /\ loop = "late"
    /\ loop' = "check"
    /\ nextFrame' = now
    /\ UNCHANGED <<now, controller, running, stopRequested, notified, start,
                   frameStart, deadline, tickCounter, ghosts>>

(* Mutant: wait_for without a predicate.                                   *)
EnterWaitBlindly ==
    /\ loop = "sleep"
    /\ MutexFree
    /\ loop' = "waiting"
    /\ deadline' = now + deadline
    /\ notified' = FALSE
    /\ UNCHANGED <<now, controller, running, stopRequested, start, nextFrame,
                   frameStart, tickCounter, ghosts>>

(* wait_for with its predicate: test it under mutex_, then wait.           *)
EnterWait ==
    /\ loop = "sleep"
    /\ MutexFree
    /\ IF stopRequested
       THEN loop' = "check" /\ UNCHANGED <<deadline, notified>>
       ELSE /\ loop' = "waiting"
            /\ deadline' = now + deadline
            /\ notified' = FALSE
    /\ UNCHANGED <<now, controller, running, stopRequested, start, nextFrame,
                   frameStart, tickCounter, ghosts>>

(* Notified or timed out, and the mutex is free again.                     *)
Wake ==
    /\ loop = "waiting"
    /\ notified \/ now >= deadline
    /\ MutexFree
    /\ IF stopRequested \/ now >= deadline
       THEN loop' = "check" /\ UNCHANGED notified
       ELSE notified' = FALSE /\ UNCHANGED loop
    /\ UNCHANGED <<now, controller, running, stopRequested, loopVars, ghosts>>

TimePasses ==
    /\ now < MaxTime
    /\ now' = now + 1
    /\ UNCHANGED <<controller, running, stopRequested, notified, loop, loopVars, ghosts>>

Controller == Start \/ RequestStop \/ NotifyAll \/ Join
LoopThread == \/ Begin \/ CheckStop \/ ReadFrameStart \/ EnterCallback
              \/ LeaveCallback \/ Advance \/ CatchUp \/ EnterWait \/ Wake

Next == Controller \/ LoopThread \/ TimePasses

Spec == Init /\ [][Next]_vars

(* Threads that can run do run, the callback returns, and a Stop that was  *)
(* begun notifies.  The clock need not advance, nor anyone call Stop.      *)
FairSpec == Spec /\ WF_vars(LoopThread) /\ WF_vars(NotifyAll)

-----------------------------------------------------------------------------
TypeOK ==
    /\ now \in Nat /\ start \in Nat /\ nextFrame \in Nat /\ frameStart \in Nat
    /\ deadline \in Int
    /\ controller \in {"idle", "started", "notifying", "stopping"}
    /\ running \in BOOLEAN /\ stopRequested \in BOOLEAN /\ notified \in BOOLEAN
    /\ loop \in Places
    /\ tickCounter \in Nat /\ begun \in Nat /\ afterStop \in Nat
    /\ recent \in Nat \X Nat \X Nat

(* However late the thread wakes or the callback returns, lost frames are  *)
(* not made up in a burst: three ticks never fall within one period.       *)
NoCatchUpBurst == begun >= 3 => recent[3] - recent[1] >= Period

(* The loop never runs ahead of the clock: tick k (from 0) does not begin  *)
(* before k periods have passed since the thread began.                    *)
NeverAheadOfTime == begun > 0 => recent[3] >= start + (begun - 1) * Period

(* stop_requested_ is tested before the frame and not again before the     *)
(* callback, so at most one callback begins after Stop asked for the end.  *)
AtMostOneTickAfterStop == afterStop <= 1

(* A thread that sleeps through the notification of Stop would sleep on to *)
(* its deadline: it never does.                                            *)
StopIsNotSleptThrough ==
    stopRequested /\ loop = "waiting" /\ controller # "notifying" => notified

(* Once Stop has returned the thread ends without help from the clock, so  *)
(* Join returns.                                                           *)
StopEndsTheThread == controller = "stopping" ~> loop \in {"exited", "none"}

(* Once Stop has returned no further tick begins.                          *)
StopPreventsAdditionalTicks ==
    [][controller = "stopping" => begun' = begun]_vars
=============================================================================
