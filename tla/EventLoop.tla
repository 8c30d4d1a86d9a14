----------------------------- MODULE EventLoop -----------------------------
(***************************************************************************)
(* The event loop of one isolate: process.nextTick, setTimeout,            *)
(* setInterval, clearTimeout and runLoop of src/src/main.js, the idle      *)
(* handle of the EventLoop object (src/src/modules/loop/loop.cc), the      *)
(* Timer objects (src/src/modules/timer/timer.cc), the phases of uv_run    *)
(* and the shutdown of the process.                                        *)
(*                                                                         *)
(* nextTick and the script share one idle handle: the flag idleActive of   *)
(* main.js says whether nextTick believes it is running, the handle itself *)
(* is in idleOn, idleRef and idleCb.                                       *)
(*                                                                         *)
(* The script may create Timers without end: a member of Timers stands for *)
(* another Timer once the script forgets the one it stood for, which is    *)
(* closed.  What is left of that one is that its handle may still have to  *)
(* be freed, in forgotten.                                                 *)
(***************************************************************************)
EXTENDS Naturals, Sequences

CONSTANTS
    Timers,     \* the Timer objects the script holds at a time
    NoTimer,    \* no timer's callback is running
    Script,     \* the operations the script performs
    ClearWhen,  \* when it calls clearTimeout (see ClearKind)
    MaxQueue,   \* bound: ticks queued at a time
    Ids         \* ticks are numbered modulo Ids

Ops == {"nextTick", "setTimeout", "setInterval", "stop", "ref", "unref",
        "takeIdle", "dropIdle"}
ClearKinds == {"pending", "ownInterval", "ownTimeout", "leftOpen", "late"}

\* What a Timer is started for; "zero" is an interval of 0.
Kinds == {"timeout", "interval", "zero"}

ASSUME EventLoopAssumption ==
    /\ NoTimer \notin Timers
    /\ Script \subseteq Ops /\ ClearWhen \subseteq ClearKinds
    /\ MaxQueue \in Nat /\ Ids \in Nat /\ Ids > MaxQueue

VARIABLES
    phase,      \* where uv_run is, or which callback runs
    stopFlag,   \* loop->stop_flag
    io,         \* sockets and other handles keep the loop alive
    \* nextTick
    queue,      \* the ticks waiting
    batch,      \* len of the idle callback
    idleActive,
    \* the idle handle: active, referenced, and whose callback it has
    idleOn, idleRef, idleCb,
    \* the Timer objects
    timer,      \* "unused", "armed", "open" (inactive), "closing", "freed", or
                \* "aborted": uv_close called on a handle closing or freed
    kind,
    due,        \* its time has come
    cur,        \* whose callback runs
    forgotten,  \* handles no member of Timers stands for are closing
    \* history: the ids of the next tick to be queued and of the last one run,
    \* and the timers whose function threw
    next, last, threw

loopVars == <<phase, stopFlag, io>>
tickVars == <<queue, batch, idleActive, next, last>>
idleVars == <<idleOn, idleRef, idleCb>>
timerVars == <<timer, kind, due, cur, forgotten, threw>>
vars == <<loopVars, tickVars, idleVars, timerVars>>

Callbacks == {"main", "timer", "tick", "idlecb", "io"}
Phases == Callbacks \cup {"iterate", "timers", "idle", "ticks", "poll", "closing",
                          "exit", "done", "failed"}

After(id) == (id + 1) % Ids

Init ==
    /\ phase = "main" /\ stopFlag = FALSE /\ io \in BOOLEAN
    /\ queue = <<>> /\ batch = 0 /\ idleActive = FALSE /\ next = 0 /\ last = Ids - 1
    /\ idleOn = FALSE /\ idleRef = FALSE /\ idleCb = "none"
    /\ timer = [t \in Timers |-> "unused"] /\ kind = [t \in Timers |-> "timeout"]
    /\ due = {} /\ cur = NoTimer /\ forgotten = FALSE /\ threw = {}

Sound == \A t \in Timers : timer[t] # "aborted"
In(p) == Sound /\ phase = p
MayCall(op) == Sound /\ phase \in Callbacks /\ op \in Script

-----------------------------------------------------------------------------
(* The idle handle *)

\* uv_idle_start of an active handle does nothing; the callback is replaced.
IdleStart(cb) == idleOn' = TRUE /\ idleCb' = cb
IdleStop == idleOn' = FALSE /\ idleCb' = "none"

-----------------------------------------------------------------------------
(* What the script does in a callback *)

Fault_Referenced == idleRef
Referenced == TRUE

NextTick ==
    /\ MayCall("nextTick") /\ Len(queue) < MaxQueue
    /\ queue' = Append(queue, next)
    /\ next' = After(next)
    /\ \/ idleActive /\ UNCHANGED <<idleActive, idleVars>>
       \/ /\ ~idleActive
          /\ IdleStart("ticks")
          /\ idleRef' = Referenced
          /\ idleActive' = TRUE
    /\ UNCHANGED <<batch, last, loopVars, timerVars>>

\* setTimeout and setInterval start a new Timer; one with a delay of 0 is due at
\* once, and libuv does not repeat an interval of 0.
Repeats(k) == k = "interval"

DueAtOnce(k) ==
    CASE k = "timeout" -> BOOLEAN
      [] k = "interval" -> {FALSE}
      [] k = "zero" -> {TRUE}

SetTimer(t, k) ==
    /\ MayCall(IF k = "timeout" THEN "setTimeout" ELSE "setInterval")
    /\ t # cur /\ timer[t] \in {"unused", "freed", "closing"}
    /\ forgotten' = (forgotten \/ timer[t] = "closing")
    /\ timer' = [timer EXCEPT ![t] = "armed"]
    /\ kind' = [kind EXCEPT ![t] = k]
    /\ \E now \in DueAtOnce(k) : due' = IF now THEN due \cup {t} ELSE due
    /\ threw' = threw \ {t}
    /\ UNCHANGED <<cur, loopVars, tickVars, idleVars>>

\* uv_close: the handle must not be closing already.
Closed(t) == IF timer[t] \in {"armed", "open"} THEN "closing" ELSE "aborted"

ClearKind(t) ==
    IF timer[t] \in {"closing", "freed"} THEN "late"
    ELSE IF cur = t THEN IF kind[t] = "timeout" THEN "ownTimeout" ELSE "ownInterval"
    ELSE IF timer[t] = "open" THEN "leftOpen" ELSE "pending"

\* stop and close.
ClearTimeout(t) ==
    /\ Sound /\ phase \in Callbacks /\ timer[t] # "unused"
    /\ ClearKind(t) \in ClearWhen
    /\ timer' = [timer EXCEPT ![t] = Closed(t)]
    /\ due' = due \ {t}
    /\ UNCHANGED <<kind, cur, forgotten, threw, loopVars, tickVars, idleVars>>

Stop ==
    /\ MayCall("stop") /\ stopFlag' = TRUE
    /\ UNCHANGED <<phase, io, tickVars, idleVars, timerVars>>

Ref ==
    /\ MayCall("ref") /\ idleRef' = TRUE
    /\ UNCHANGED <<idleOn, idleCb, loopVars, tickVars, timerVars>>

UnRef ==
    /\ MayCall("unref") /\ idleRef' = FALSE
    /\ UNCHANGED <<idleOn, idleCb, loopVars, tickVars, timerVars>>

\* The script calls loop.onIdle itself, with a function or with nothing.
TakeIdle ==
    /\ MayCall("takeIdle") /\ IdleStart("script")
    /\ UNCHANGED <<idleRef, loopVars, tickVars, timerVars>>

DropIdle ==
    /\ MayCall("dropIdle") /\ IdleStop
    /\ UNCHANGED <<idleRef, loopVars, tickVars, timerVars>>

ScriptStep ==
    \/ NextTick \/ Stop \/ Ref \/ UnRef \/ TakeIdle \/ DropIdle
    \/ \E t \in Timers :
          \/ ClearTimeout(t)
          \/ \E k \in Kinds : SetTimer(t, k)

-----------------------------------------------------------------------------
(* uv_run, called by runLoop until nothing keeps the loop alive *)

Active(t) == timer[t] = "armed"
HasActiveHandles == io \/ (idleOn /\ idleRef) \/ \E t \in Timers : Active(t)
HasClosing == forgotten \/ \E t \in Timers : timer[t] = "closing"
LoopAlive == HasActiveHandles \/ HasClosing

\* uv_backend_timeout is 0.
NoWait == stopFlag \/ ~HasActiveHandles \/ idleOn \/ HasClosing

GoTo(p) == phase' = p /\ UNCHANGED <<stopFlag, io>>

\* main.js has evaluated the script and enters runLoop; a script that throws
\* ends the process instead.
MainReturns ==
    /\ In("main") /\ GoTo("iterate")
    /\ UNCHANGED <<tickVars, idleVars, timerVars>>

MainThrows ==
    /\ In("main") /\ GoTo("failed")
    /\ UNCHANGED <<tickVars, idleVars, timerVars>>

Iterate ==
    /\ In("iterate") /\ LoopAlive /\ ~stopFlag
    /\ GoTo("timers")
    /\ UNCHANGED <<tickVars, idleVars, timerVars>>

\* uv_run returns; runLoop calls it again while the loop is alive.
RunReturns ==
    /\ In("iterate") /\ (stopFlag \/ ~LoopAlive)
    /\ phase' = IF LoopAlive THEN "iterate" ELSE "exit"
    /\ stopFlag' = FALSE
    /\ UNCHANGED <<io, tickVars, idleVars, timerVars>>

\* The time of t comes: the loop reads the clock before it runs the timers and
\* after it has polled.
Elapse(t) ==
    /\ Sound /\ phase \in {"iterate", "poll"} /\ Active(t) /\ t \notin due
    /\ due' = due \cup {t}
    /\ UNCHANGED <<timer, kind, cur, forgotten, threw, loopVars, tickVars, idleVars>>

(* uv__run_timers *)
Fire(t) ==
    /\ In("timers") /\ Active(t) /\ t \in due
    /\ timer' = [timer EXCEPT ![t] = IF Repeats(kind[t]) THEN "armed" ELSE "open"]
    /\ due' = due \ {t} /\ cur' = t
    /\ GoTo("timer")
    /\ UNCHANGED <<kind, forgotten, threw, tickVars, idleVars>>

\* The function setTimeout gives the timer closes it after fn; setInterval
\* passes fn as it is.
Fault_ClosesItself(t) == TRUE
Fault_NeverCloses(t) == FALSE
ClosesItself(t) == kind[t] = "timeout"

TimerReturns ==
    /\ In("timer")
    /\ timer' = IF ClosesItself(cur) THEN [timer EXCEPT ![cur] = Closed(cur)] ELSE timer
    /\ cur' = NoTimer
    /\ GoTo("timers")
    /\ UNCHANGED <<kind, due, forgotten, threw, tickVars, idleVars>>

TimerThrows ==
    /\ In("timer")
    /\ threw' = threw \cup {cur}
    /\ cur' = NoTimer
    /\ GoTo("timers")
    /\ UNCHANGED <<timer, kind, due, forgotten, tickVars, idleVars>>

TimersRun ==
    /\ In("timers") /\ \A t \in due : ~Active(t)
    /\ GoTo("idle")
    /\ UNCHANGED <<tickVars, idleVars, timerVars>>

(* uv__run_idle: on_idle calls the callback if there is one *)
IdleNone ==
    /\ In("idle") /\ ~idleOn /\ GoTo("poll")
    /\ UNCHANGED <<tickVars, idleVars, timerVars>>

IdleScript ==
    /\ In("idle") /\ idleOn /\ idleCb = "script" /\ GoTo("idlecb")
    /\ UNCHANGED <<tickVars, idleVars, timerVars>>

IdleScriptReturns ==
    /\ In("idlecb") /\ GoTo("poll")
    /\ UNCHANGED <<tickVars, idleVars, timerVars>>

IdleTicks ==
    /\ In("idle") /\ idleOn /\ idleCb = "ticks"
    /\ batch' = Len(queue)
    /\ GoTo("ticks")
    /\ UNCHANGED <<queue, idleActive, next, last, idleVars, timerVars>>

Fault_BatchOver == queue = <<>>
BatchOver == batch = 0

Waiting(q) == Tail(q)

TickStarts ==
    /\ In("ticks") /\ ~BatchOver
    /\ last' = Head(queue)
    /\ queue' = Waiting(queue)
    /\ batch' = batch - 1
    /\ GoTo("tick")
    /\ UNCHANGED <<idleActive, next, idleVars, timerVars>>

\* The batch is what was queued when the idle callback began.
Fault_Remaining == Len(queue)
Remaining == batch

TickReturns ==
    /\ In("tick")
    /\ batch' = Remaining
    /\ GoTo("ticks")
    /\ UNCHANGED <<queue, idleActive, next, last, idleVars, timerVars>>

\* The exception leaves the idle callback: the rest of the batch stays queued
\* and the handle active.
Fault_AfterThrow(q) == SubSeq(q, batch + 1, Len(q))
AfterThrow(q) == q

TickThrows ==
    /\ In("tick")
    /\ queue' = AfterThrow(queue)
    /\ batch' = 0
    /\ GoTo("poll")
    /\ UNCHANGED <<idleActive, next, last, idleVars, timerVars>>

Fault_Stopped == FALSE
Stopped == queue = <<>>

BatchEnds ==
    /\ In("ticks") /\ BatchOver
    /\ \/ Stopped /\ idleActive' = FALSE /\ IdleStop
       \/ ~Stopped /\ UNCHANGED <<idleActive, idleOn, idleCb>>
    /\ GoTo("poll")
    /\ UNCHANGED <<queue, batch, next, last, idleRef, timerVars>>

(* uv__io_poll *)
PollDone ==
    /\ In("poll")
    /\ NoWait \/ \E t \in due : Active(t)
    /\ GoTo("closing")
    /\ UNCHANGED <<tickVars, idleVars, timerVars>>

IoEvent ==
    /\ In("poll") /\ io
    /\ phase' = "io" /\ io' \in BOOLEAN
    /\ UNCHANGED <<stopFlag, tickVars, idleVars, timerVars>>

IoReturns ==
    /\ In("io") /\ GoTo("closing")
    /\ UNCHANGED <<tickVars, idleVars, timerVars>>

(* uv__run_closing_handles *)
CloseHandles ==
    /\ In("closing")
    /\ timer' = [t \in Timers |-> IF timer[t] = "closing" THEN "freed" ELSE timer[t]]
    /\ forgotten' = FALSE
    /\ GoTo("iterate")
    /\ UNCHANGED <<kind, due, cur, threw, tickVars, idleVars>>

\* After runLoop main() walks the handles that are left and closes each.
Shutdown ==
    /\ In("exit")
    /\ timer' = [t \in Timers |-> IF timer[t] \in {"unused", "freed"} THEN timer[t]
                                                                      ELSE Closed(t)]
    /\ GoTo("done")
    /\ UNCHANGED <<kind, due, cur, forgotten, threw, tickVars, idleVars>>

LoopStep ==
    \/ Iterate \/ RunReturns \/ TimersRun \/ (\E t \in Timers : Fire(t))
    \/ IdleNone \/ IdleScript \/ IdleTicks \/ TickStarts \/ BatchEnds
    \/ PollDone \/ CloseHandles \/ Shutdown

\* A callback of the script ends, one way or the other.
CallbackEnds ==
    \/ MainReturns \/ MainThrows \/ TimerReturns \/ TimerThrows
    \/ IdleScriptReturns \/ TickReturns \/ TickThrows \/ IoReturns

Next ==
    \/ ScriptStep \/ LoopStep \/ CallbackEnds \/ IoEvent
    \/ \E t \in Timers : Elapse(t)

Spec == Init /\ [][Next]_vars

\* The loop goes on, callbacks return and time passes.  The heap of libuv orders
\* timers by their time and, at the same time, by their start: one that is due
\* fires before any that becomes due after it.
Fairness ==
    /\ WF_vars(LoopStep) /\ WF_vars(CallbackEnds)
    /\ \A t \in Timers : SF_vars(Fire(t))
    /\ \A t \in Timers : SF_vars(Elapse(t))

FairSpec == Spec /\ Fairness

-----------------------------------------------------------------------------
(* Properties *)

\* Every variable has its type.
TypeOK ==
    /\ phase \in Phases /\ stopFlag \in BOOLEAN /\ io \in BOOLEAN
    /\ queue \in Seq(0 .. Ids - 1) /\ batch \in Nat /\ idleActive \in BOOLEAN
    /\ idleOn \in BOOLEAN /\ idleRef \in BOOLEAN /\ idleCb \in {"none", "ticks", "script"}
    /\ timer \in [Timers -> {"unused", "armed", "open", "closing", "freed", "aborted"}]
    /\ kind \in [Timers -> Kinds] /\ forgotten \in BOOLEAN
    /\ due \subseteq Timers /\ cur \in Timers \cup {NoTimer} /\ threw \subseteq Timers
    /\ next \in 0 .. Ids - 1 /\ last \in 0 .. Ids - 1

\* The ticks waiting are exactly those queued after the last one run, in the
\* order of the nextTick calls: a tick that throws in the middle of a batch, or
\* queues others, loses, repeats and reorders none.
TicksInOrder ==
    /\ queue # <<>> => queue[1] = After(last)
    /\ \A i \in 1 .. Len(queue) :
          After(queue[i]) = IF i = Len(queue) THEN next ELSE queue[i + 1]
    /\ queue = <<>> => next = After(last)

\* runLoop does not return, and the process does not shut down, while a tick is
\* queued.
ExitsDrained == phase \in {"exit", "done"} => queue = <<>>

\* No timer handle is closed twice, by the callback of setTimeout, clearTimeout
\* and the final shutdown together.
NoDoubleClose == Sound

\* When runLoop returns, every timer has been closed and freed but those whose
\* function threw and the intervals of 0, which fire once and stay open: no
\* other interval ends with the loop.
TimersReleased ==
    phase = "exit" =>
        /\ ~forgotten
        /\ \A t \in Timers :
              \/ timer[t] \in {"unused", "freed"}
              \/ timer[t] = "open" /\ (t \in threw \/ kind[t] = "zero")

\* Every tick that is queued runs, unless the script throws before the loop
\* starts, or the functions of timers for ever set timers that are due at once,
\* so that uv__run_timers does not return.
SetsDue == phase = "timer" /\ \E t \in Timers : t \in due' \ due
Starved == <>[](phase \in {"timers", "timer"}) /\ []<><<SetsDue>>_vars

TicksRun ==
    \/ Starved
    \/ \A id \in 0 .. Ids - 1 :
          (\E i \in 1 .. Len(queue) : queue[i] = id) ~> (last = id \/ phase = "failed")

\* A timer whose time has come fires or is cleared, even if ticks queue new
\* ticks for ever.
TimersFire ==
    \A t \in Timers : (Active(t) /\ t \in due) ~> (cur = t \/ ~Active(t) \/ phase = "failed")

\* With nothing left that could call the script the loop ends: an idle handle
\* left running would spin for ever.
LoopEnds ==
    (phase = "poll" /\ queue = <<>> /\ ~io /\ \A t \in Timers : ~Active(t))
        ~> phase \in {"exit", "done"}
=============================================================================
