-------------------------- MODULE EventLoopProofs --------------------------
(***************************************************************************)
(* Proofs about EventLoop: its types, and that ticks are run in order and  *)
(* none is left when the loop ends, for every script, any number of timers *)
(* and any length of the queue.                                            *)
(***************************************************************************)
EXTENDS EventLoop, SequenceTheorems, TLAPS

USE DEF GoTo, In

Id == 0 .. Ids - 1

LEMMA AfterType == ASSUME NEW id \in Id PROVE After(id) \in Id
<1>1. Ids \in Nat /\ Ids > 0
  BY EventLoopAssumption
<1>2. \A a, n \in Nat : n > 0 => (a + 1) % n \in 0 .. n - 1
  OBVIOUS
<1> QED BY <1>1, <1>2 DEF After, Id

LEMMA LastType == Ids - 1 \in Id /\ 0 \in Id /\ After(Ids - 1) = 0
<1>1. Ids \in Nat /\ Ids > 0
  BY EventLoopAssumption
<1>2. \A n \in Nat : n > 0 => ((n - 1) + 1) % n = 0
  OBVIOUS
<1> QED BY <1>1, <1>2 DEF After, Id

-----------------------------------------------------------------------------
(* Types.  The batch is never longer than the queue, which is what makes   *)
(* shift() safe.                                                           *)

LoopType == phase \in Phases /\ stopFlag \in BOOLEAN /\ io \in BOOLEAN
IdleType == idleOn \in BOOLEAN /\ idleRef \in BOOLEAN /\ idleCb \in {"none", "ticks", "script"}
TimerStates == {"unused", "armed", "open", "closing", "freed", "aborted"}
TimerType ==
    /\ timer \in [Timers -> TimerStates]
    /\ kind \in [Timers -> Kinds] /\ forgotten \in BOOLEAN
    /\ due \subseteq Timers /\ cur \in Timers \cup {NoTimer} /\ threw \subseteq Timers
    /\ phase = "timer" => cur \in Timers
TickType ==
    /\ queue \in Seq(Id) /\ batch \in Nat /\ idleActive \in BOOLEAN
    /\ next \in Id /\ last \in Id
    /\ batch <= Len(queue)

Types == LoopType /\ IdleType /\ TimerType /\ TickType

LEMMA InitTypes == Init => Types
<1> SUFFICES ASSUME Init PROVE Types
  OBVIOUS
<1>1. LoopType /\ IdleType
  BY DEF Init, LoopType, IdleType, Phases, Callbacks
<1>2. TimerType
  BY DEF Init, TimerType, TimerStates, Kinds
<1>3. TickType
  <2>1. queue = <<>> /\ queue \in Seq(Id) /\ Len(queue) = 0
    BY DEF Init
  <2>2. batch = 0 /\ idleActive = FALSE /\ next \in Id /\ last \in Id
    BY LastType DEF Init
  <2>3. batch \in Nat /\ batch <= Len(queue)
    BY <2>1, <2>2
  <2>4. idleActive \in BOOLEAN
    BY <2>2
  <2> QED BY <2>1, <2>2, <2>3, <2>4 DEF TickType
<1> QED BY <1>1, <1>2, <1>3 DEF Types

\* loopVars and idleVars.
LEMMA StepLoopIdle == Types /\ [Next]_vars => LoopType' /\ IdleType'
<1> SUFFICES ASSUME LoopType, IdleType, [Next]_vars PROVE LoopType' /\ IdleType'
  BY DEF Types
<1> USE DEF LoopType, IdleType, Phases, Callbacks
<1>1. CASE ScriptStep
  <2>1. CASE NextTick
    <3>1. CASE idleActive
      BY <2>1, <3>1 DEF NextTick, loopVars, idleVars
    <3>2. CASE ~idleActive
      BY <2>1, <3>2 DEF NextTick, IdleStart, Referenced, loopVars
    <3> QED BY <3>1, <3>2
  <2>2. CASE Stop \/ Ref \/ UnRef
    BY <2>2 DEF Stop, Ref, UnRef, loopVars, idleVars
  <2>3. CASE TakeIdle \/ DropIdle
    BY <2>3 DEF TakeIdle, DropIdle, IdleStart, IdleStop, loopVars
  <2>4. CASE UNCHANGED <<loopVars, idleVars>>
    BY <2>4 DEF loopVars, idleVars
  <2> QED BY <1>1, <2>1, <2>2, <2>3, <2>4 DEF ScriptStep, ClearTimeout, SetTimer
<1>2. CASE LoopStep
  BY <1>2 DEF LoopStep, Iterate, RunReturns, TimersRun, Fire, IdleNone, IdleScript, IdleTicks,
              TickStarts, BatchEnds, PollDone, CloseHandles, Shutdown, IdleStop, loopVars, idleVars
<1>3. CASE CallbackEnds
  BY <1>3 DEF CallbackEnds, MainReturns, MainThrows, TimerReturns, TimerThrows,
              IdleScriptReturns, TickReturns, TickThrows, IoReturns, loopVars, idleVars
<1>4. CASE IoEvent \/ \E t \in Timers : Elapse(t)
  BY <1>4 DEF IoEvent, Elapse, loopVars, idleVars
<1>5. CASE UNCHANGED vars
  BY <1>5 DEF vars, loopVars, idleVars
<1> QED BY <1>1, <1>2, <1>3, <1>4, <1>5 DEF Next

LEMMA StepTimer == Types /\ [Next]_vars => TimerType'
<1> SUFFICES ASSUME Types, [Next]_vars PROVE TimerType'
  OBVIOUS
<1> USE DEF TimerType, TimerStates, Types
<1>1. CASE UNCHANGED timerVars /\ phase' # "timer"
  BY <1>1 DEF timerVars
<1>2. CASE UNCHANGED timerVars /\ phase' = phase
  BY <1>2 DEF timerVars
<1>3. ASSUME NEW t \in Timers PROVE Closed(t) \in TimerStates
  BY DEF Closed
<1>4. CASE ScriptStep
  <2>1. CASE NextTick \/ Stop \/ Ref \/ UnRef \/ TakeIdle \/ DropIdle
    BY <1>2, <2>1 DEF NextTick, Stop, Ref, UnRef, TakeIdle, DropIdle, loopVars
  <2>2. ASSUME NEW t \in Timers, ClearTimeout(t) PROVE TimerType'
    BY <1>3, <2>2 DEF ClearTimeout, loopVars
  <2>3. ASSUME NEW t \in Timers, NEW k \in Kinds, SetTimer(t, k) PROVE TimerType'
    BY <2>3 DEF SetTimer, loopVars
  <2> QED BY <1>4, <2>1, <2>2, <2>3 DEF ScriptStep
<1>5. CASE LoopStep
  <2>1. ASSUME NEW t \in Timers, Fire(t) PROVE TimerType'
    BY <2>1 DEF Fire
  <2>2. CASE CloseHandles
    BY <2>2 DEF CloseHandles
  <2>3. CASE Shutdown
    BY <1>3, <2>3 DEF Shutdown
  <2>4. CASE Iterate \/ RunReturns \/ TimersRun \/ IdleNone \/ IdleScript \/ IdleTicks
             \/ TickStarts \/ BatchEnds \/ PollDone
    BY <1>1, <2>4 DEF Iterate, RunReturns, TimersRun, IdleNone, IdleScript, IdleTicks,
                      TickStarts, BatchEnds, PollDone
  <2> QED BY <1>5, <2>1, <2>2, <2>3, <2>4 DEF LoopStep
<1>6. CASE CallbackEnds
  <2>1. CASE TimerReturns
    <3>1. cur \in Timers /\ Closed(cur) \in TimerStates
      BY <1>3, <2>1 DEF TimerReturns
    <3> QED BY <2>1, <3>1 DEF TimerReturns
  <2>2. CASE TimerThrows
    BY <2>2 DEF TimerThrows
  <2>3. CASE MainReturns \/ MainThrows \/ IdleScriptReturns \/ TickReturns \/ TickThrows \/ IoReturns
    BY <1>1, <2>3 DEF MainReturns, MainThrows, IdleScriptReturns, TickReturns, TickThrows, IoReturns
  <2> QED BY <1>6, <2>1, <2>2, <2>3 DEF CallbackEnds
<1>7. CASE IoEvent
  BY <1>1, <1>7 DEF IoEvent
<1>8. ASSUME NEW t \in Timers, Elapse(t) PROVE TimerType'
  BY <1>8 DEF Elapse, loopVars
<1>9. CASE UNCHANGED vars
  BY <1>2, <1>9 DEF vars, loopVars
<1> QED BY <1>4, <1>5, <1>6, <1>7, <1>8, <1>9 DEF Next

LEMMA StepTick == Types /\ [Next]_vars => TickType'
<1> SUFFICES ASSUME TickType, [Next]_vars PROVE TickType'
  BY DEF Types
<1> USE DEF TickType
<1>1. CASE UNCHANGED tickVars
  BY <1>1 DEF tickVars
<1>2. CASE NextTick
  <2>1. next' \in Id
    BY <1>2, AfterType DEF NextTick
  <2>2. queue' \in Seq(Id) /\ Len(queue') = Len(queue) + 1
    BY <1>2 DEF NextTick
  <2>3. batch' = batch /\ last' = last /\ idleActive' \in BOOLEAN
    BY <1>2 DEF NextTick
  <2> QED BY <2>1, <2>2, <2>3
<1>3. CASE IdleTicks
  BY <1>3 DEF IdleTicks
<1>4. CASE TickStarts
  <2>1. batch # 0 /\ queue # <<>>
    BY <1>4 DEF TickStarts, BatchOver
  <2>2. Head(queue) \in Id /\ Tail(queue) \in Seq(Id) /\ Len(Tail(queue)) = Len(queue) - 1
    BY <2>1
  <2>3. queue' = Tail(queue) /\ batch' = batch - 1 /\ last' = Head(queue)
        /\ UNCHANGED <<idleActive, next>>
    BY <1>4 DEF TickStarts, Waiting
  <2> QED BY <2>1, <2>2, <2>3
<1>5. CASE TickReturns \/ TickThrows \/ BatchEnds
  <2>1. queue' = queue /\ batch' \in {0, batch} /\ next' = next /\ last' = last
    BY <1>5 DEF TickReturns, TickThrows, BatchEnds, Remaining, AfterThrow
  <2>2. idleActive' \in BOOLEAN
    BY <1>5 DEF TickReturns, TickThrows, BatchEnds
  <2>3. batch' \in Nat /\ batch' <= Len(queue')
    BY <2>1
  <2> QED BY <2>1, <2>2, <2>3
<1>6. CASE ScriptStep
  BY <1>1, <1>2, <1>6 DEF ScriptStep, Stop, Ref, UnRef, TakeIdle, DropIdle, ClearTimeout, SetTimer
<1>7. CASE LoopStep
  BY <1>1, <1>3, <1>4, <1>5, <1>7 DEF LoopStep, Iterate, RunReturns, TimersRun, Fire, IdleNone,
     IdleScript, PollDone, CloseHandles, Shutdown
<1>8. CASE CallbackEnds
  BY <1>1, <1>5, <1>8 DEF CallbackEnds, MainReturns, MainThrows, TimerReturns, TimerThrows,
     IdleScriptReturns, IoReturns
<1>9. CASE IoEvent \/ (\E t \in Timers : Elapse(t)) \/ UNCHANGED vars
  BY <1>1, <1>9 DEF IoEvent, Elapse, vars
<1> QED BY <1>6, <1>7, <1>8, <1>9 DEF Next

\* Type correctness, for every script and any number of timers.
THEOREM TypesCorrect == Spec => []TypeOK
<1>1. Types /\ [Next]_vars => Types'
  BY StepLoopIdle, StepTimer, StepTick DEF Types
<1>2. Types => TypeOK
  BY DEF Types, TypeOK, LoopType, IdleType, TimerType, TimerStates, TickType, Id
<1> QED BY InitTypes, <1>1, <1>2, PTL DEF Spec

-----------------------------------------------------------------------------
(* The order of the ticks.  TicksInOrder is inductive once the types are   *)
(* known; only NextTick and TickStarts change what it speaks of.           *)

LEMMA OrderQueued == ASSUME Types, TicksInOrder, NextTick PROVE TicksInOrder'
<1> DEFINE n == Len(queue)
<1>1. queue \in Seq(Id) /\ n \in Nat /\ next \in Id
  BY DEF Types, TickType
<1>2. queue' = Append(queue, next) /\ next' = After(next) /\ last' = last
  BY DEF NextTick
<1>3. Len(queue') = n + 1 /\ queue'[n + 1] = next
      /\ \A i \in 1 .. n : queue'[i] = queue[i]
  BY <1>1, <1>2, AppendProperties
<1>4. queue' # <<>>
  BY <1>3, <1>1
<1>5. queue'[1] = After(last')
  <2>1. CASE queue = <<>>
    BY <1>2, <1>3, <2>1 DEF TicksInOrder
  <2>2. CASE queue # <<>>
    <3>1. 1 \in 1 .. n
      BY <1>1, <2>2
    <3> QED BY <1>2, <1>3, <2>2, <3>1 DEF TicksInOrder
  <2> QED BY <2>1, <2>2
<1>6. ASSUME NEW i \in 1 .. Len(queue')
      PROVE  After(queue'[i]) = IF i = Len(queue') THEN next' ELSE queue'[i + 1]
  <2>1. CASE i = n + 1
    BY <1>2, <1>3, <2>1
  <2>2. CASE i = n /\ n # 0
    <3>1. i \in 1 .. n /\ i # n + 1 /\ i = Len(queue)
      BY <1>1, <2>2
    <3>2. After(queue[i]) = next
      BY <3>1 DEF TicksInOrder
    <3> QED BY <1>3, <3>1, <3>2, <2>2
  <2>3. CASE i < n
    <3>1. i \in 1 .. n /\ i + 1 \in 1 .. n /\ i # n + 1 /\ i # n
      BY <1>1, <1>3, <1>6, <2>3
    <3>2. After(queue[i]) = queue[i + 1]
      BY <3>1 DEF TicksInOrder
    <3> QED BY <1>3, <3>1, <3>2
  <2>4. i \in Int /\ 1 <= i /\ i <= n + 1
    BY <1>3, <1>1, <1>6
  <2> QED BY <1>1, <2>1, <2>2, <2>3, <2>4
<1> QED BY <1>4, <1>5, <1>6 DEF TicksInOrder

LEMMA OrderTaken == ASSUME Types, TicksInOrder, TickStarts PROVE TicksInOrder'
<1> DEFINE n == Len(queue)
<1>1. queue \in Seq(Id) /\ n \in Nat /\ batch \in Nat /\ batch <= n
  BY DEF Types, TickType
<1>2. queue # <<>>
  BY <1>1 DEF TickStarts, BatchOver
<1>3. queue' = Tail(queue) /\ last' = queue[1] /\ next' = next
  BY <1>1, <1>2 DEF TickStarts, Waiting
<1>4. n > 0 /\ Len(queue') = n - 1 /\ \A i \in 1 .. n - 1 : queue'[i] = queue[i + 1]
  BY <1>1, <1>2, <1>3
<1>5. ASSUME queue' # <<>> PROVE queue'[1] = After(last')
  <2>1. n - 1 # 0
    <3>1. queue' \in Seq(Id)
      BY <1>1, <1>2, <1>3
    <3> QED BY <1>4, <1>5, <3>1, EmptySeq
  <2>2. 1 \in 1 .. n - 1 /\ 1 \in 1 .. n /\ 1 # n
    BY <1>1, <1>4, <2>1
  <2>3. After(queue[1]) = queue[1 + 1]
    BY <2>2 DEF TicksInOrder
  <2> QED BY <1>3, <1>4, <2>2, <2>3
<1>6. ASSUME NEW i \in 1 .. Len(queue')
      PROVE  After(queue'[i]) = IF i = Len(queue') THEN next' ELSE queue'[i + 1]
  <2>1. i \in 1 .. n - 1 /\ i + 1 \in 1 .. n
    BY <1>1, <1>4, <1>6
  <2>2. After(queue[i + 1]) = IF i + 1 = n THEN next ELSE queue[(i + 1) + 1]
    BY <2>1 DEF TicksInOrder
  <2>3. CASE i = n - 1
    <3>1. i + 1 = n /\ i = Len(queue')
      BY <1>1, <1>4, <2>1, <2>3
    <3> QED BY <1>3, <1>4, <2>1, <2>2, <3>1
  <2>4. CASE i # n - 1
    <3>1. i + 1 # n /\ i # Len(queue') /\ i + 1 \in 1 .. n - 1
      BY <1>1, <1>4, <2>1, <2>4
    <3> QED BY <1>4, <2>1, <2>2, <3>1
  <2> QED BY <2>3, <2>4
<1>7. ASSUME queue' = <<>> PROVE next' = After(last')
  <2>1. n = 1 /\ 1 \in 1 .. n
    BY <1>1, <1>4, <1>7
  <2> QED BY <1>3, <2>1 DEF TicksInOrder
<1> QED BY <1>5, <1>6, <1>7 DEF TicksInOrder

\* The variables TicksInOrder speaks of.
orderVars == <<queue, next, last>>

LEMMA OrderKept == Types /\ TicksInOrder /\ [Next]_vars => TicksInOrder'
<1> SUFFICES ASSUME Types, TicksInOrder, [Next]_vars PROVE TicksInOrder'
  OBVIOUS
<1>1. CASE UNCHANGED orderVars
  BY <1>1 DEF orderVars, TicksInOrder
<1>2. CASE ScriptStep
  BY <1>1, <1>2, OrderQueued DEF ScriptStep, Stop, Ref, UnRef, TakeIdle, DropIdle,
     ClearTimeout, SetTimer, tickVars, orderVars
<1>3. CASE LoopStep
  BY <1>1, <1>3, OrderTaken DEF LoopStep, Iterate, RunReturns, TimersRun, Fire, IdleNone,
     IdleScript, IdleTicks, BatchEnds, PollDone, CloseHandles, Shutdown, tickVars, orderVars
<1>4. CASE CallbackEnds
  BY <1>1, <1>4 DEF CallbackEnds, MainReturns, MainThrows, TimerReturns, TimerThrows,
     IdleScriptReturns, TickReturns, TickThrows, AfterThrow, IoReturns, tickVars, orderVars
<1>5. CASE IoEvent \/ (\E t \in Timers : Elapse(t)) \/ UNCHANGED vars
  BY <1>1, <1>5 DEF IoEvent, Elapse, vars, tickVars, orderVars
<1> QED BY <1>2, <1>3, <1>4, <1>5 DEF Next

\* Every tick runs at most once, in the order of the nextTick calls, and none is
\* dropped by a tick that throws: for every script, even one that takes the idle
\* handle for itself.
THEOREM TicksOrdered == Spec => []TicksInOrder
<1>1. Init => TicksInOrder
  <2> SUFFICES ASSUME Init PROVE TicksInOrder
    OBVIOUS
  <2>1. queue = <<>> /\ Len(queue) = 0 /\ next = After(last)
    BY LastType DEF Init
  <2> QED BY <2>1 DEF TicksInOrder
<1>2. Types /\ [Next]_vars => Types'
  BY StepLoopIdle, StepTimer, StepTick DEF Types
<1> QED BY <1>1, <1>2, InitTypes, OrderKept, PTL DEF Spec

-----------------------------------------------------------------------------
(* Ticks keep the loop alive: idleActive says truly whether the idle       *)
(* handle is active, as long as the script leaves the handle alone.        *)

Leaves == Script \cap {"takeIdle", "dropIdle", "unref"} = {}

Armed ==
    /\ idleActive = idleOn
    /\ idleOn => idleRef
    /\ queue # <<>> => idleOn
    /\ phase \in {"ticks", "tick"} => idleOn
    /\ phase \in {"exit", "done"} => queue = <<>>

LEMMA ArmedKept == ASSUME Leaves, Types, Armed, [Next]_vars PROVE Armed'
<1> USE DEF Armed
<1> idleOn \in BOOLEAN /\ idleActive \in BOOLEAN /\ idleRef \in BOOLEAN
  BY DEF Types, IdleType, TickType
<1>1. CASE UNCHANGED <<queue, idleActive, idleOn, idleRef>>
           /\ phase' \notin {"ticks", "tick", "exit", "done"}
  BY <1>1
<1>2. CASE UNCHANGED <<queue, idleActive, idleOn, idleRef, phase>>
  BY <1>2
<1>3. CASE ScriptStep
  <2>1. CASE NextTick
    <3>1. idleOn' /\ idleActive' /\ idleRef'
      <4>1. CASE idleActive
        BY <2>1, <4>1 DEF NextTick, idleVars
      <4>2. CASE ~idleActive
        BY <2>1, <4>2 DEF NextTick, IdleStart, Referenced
      <4> QED BY <4>1, <4>2
    <3>2. phase' = phase /\ phase \in Callbacks
      BY <2>1 DEF NextTick, MayCall, loopVars
    <3>3. idleOn' \in BOOLEAN /\ idleActive' \in BOOLEAN
      BY <2>1 DEF NextTick, idleVars, IdleStart
    <3>4. idleActive' = idleOn'
      BY <3>1, <3>3
    <3> QED BY <3>1, <3>2, <3>4 DEF Callbacks
  <2>2. CASE Ref
    BY <2>2 DEF Ref, loopVars, tickVars
  <2>3. CASE Stop \/ \E t \in Timers : ClearTimeout(t) \/ \E k \in Kinds : SetTimer(t, k)
    BY <1>2, <2>3 DEF Stop, ClearTimeout, SetTimer, loopVars, tickVars, idleVars
  <2>4. CASE UnRef \/ TakeIdle \/ DropIdle
    BY <2>4 DEF UnRef, TakeIdle, DropIdle, MayCall, Leaves
  <2> QED BY <1>3, <2>1, <2>2, <2>3, <2>4 DEF ScriptStep
<1>4. CASE LoopStep
  <2>1. CASE RunReturns
    <3>1. LoopAlive => phase' = "iterate"
      BY <2>1 DEF RunReturns
    <3>2. ~LoopAlive => queue = <<>>
      BY DEF LoopAlive, HasActiveHandles
    <3> QED BY <2>1, <3>1, <3>2 DEF RunReturns, tickVars, idleVars
  <2>2. CASE IdleTicks
    BY <2>2 DEF IdleTicks, idleVars
  <2>3. CASE TickStarts
    BY <2>3 DEF TickStarts, idleVars
  <2>4. CASE BatchEnds
    <3>1. CASE Stopped
      BY <2>4, <3>1 DEF BatchEnds, Stopped, IdleStop
    <3>2. CASE ~Stopped /\ UNCHANGED <<idleActive, idleOn, idleCb>>
      BY <2>4, <3>2 DEF BatchEnds
    <3> QED BY <2>4, <3>1, <3>2 DEF BatchEnds
  <2>5. CASE Shutdown
    BY <2>5 DEF Shutdown, tickVars, idleVars
  <2>6. CASE Iterate \/ TimersRun \/ (\E t \in Timers : Fire(t)) \/ IdleNone \/ IdleScript
             \/ PollDone \/ CloseHandles
    BY <1>1, <2>6 DEF Iterate, TimersRun, Fire, IdleNone, IdleScript, PollDone, CloseHandles,
       tickVars, idleVars
  <2> QED BY <1>4, <2>1, <2>2, <2>3, <2>4, <2>5, <2>6 DEF LoopStep
<1>5. CASE CallbackEnds
  <2>1. CASE TickReturns
    BY <2>1 DEF TickReturns, idleVars
  <2>2. CASE TickThrows
    BY <2>2 DEF TickThrows, AfterThrow, idleVars
  <2>3. CASE MainReturns \/ MainThrows \/ TimerReturns \/ TimerThrows \/ IdleScriptReturns
             \/ IoReturns
    BY <1>1, <2>3 DEF MainReturns, MainThrows, TimerReturns, TimerThrows, IdleScriptReturns,
       IoReturns, tickVars, idleVars
  <2> QED BY <1>5, <2>1, <2>2, <2>3 DEF CallbackEnds
<1>6. CASE IoEvent
  BY <1>1, <1>6 DEF IoEvent, tickVars, idleVars
<1>7. CASE (\E t \in Timers : Elapse(t)) \/ UNCHANGED vars
  BY <1>2, <1>7 DEF Elapse, vars, loopVars, tickVars, idleVars
<1> QED BY <1>3, <1>4, <1>5, <1>6, <1>7 DEF Next

\* If the script leaves the idle handle to nextTick, the loop never ends with a
\* tick queued.
THEOREM TicksKeepLoopAlive == ASSUME Leaves PROVE Spec => []ExitsDrained
<1>1. Init => Armed
  BY DEF Init, Armed
<1>2. Types /\ [Next]_vars => Types'
  BY StepLoopIdle, StepTimer, StepTick DEF Types
<1>3. Types /\ Armed /\ [Next]_vars => Armed'
  BY ArmedKept
<1>4. Armed => ExitsDrained
  BY DEF Armed, ExitsDrained
<1> QED BY <1>1, <1>2, <1>3, <1>4, InitTypes, PTL DEF Spec

-----------------------------------------------------------------------------
(* Timers.  The handle of a timeout is open, and not armed, only while its *)
(* function runs: who closes it then, or lets it throw, decides whether it *)
(* is closed once, and at all.  An interval of 0 is left open too.         *)

Handed ==
    /\ \A t \in Timers :
          timer[t] = "open" =>
              /\ kind[t] # "interval"
              /\ kind[t] = "zero" \/ t \in threw \/ (phase = "timer" /\ cur = t)
    /\ phase = "exit" => ~forgotten
    /\ phase = "exit" => \A t \in Timers : timer[t] \notin {"armed", "closing", "aborted"}

LEMMA HandedKept == ASSUME Types, Handed, [Next]_vars PROVE Handed'
<1> USE DEF Handed
<1>0. timer \in [Timers -> TimerStates] /\ cur \in Timers \cup {NoTimer}
          /\ kind \in [Timers -> Kinds]
  BY DEF Types, TimerType
<1>1. CASE UNCHANGED <<timer, kind, cur, forgotten, threw>> /\ phase # "timer" /\ phase' # "exit"
  BY <1>1
<1>2. CASE UNCHANGED <<timer, kind, cur, forgotten, threw, phase>>
  BY <1>2
<1>3. CASE ScriptStep
  <2>1. CASE NextTick \/ Stop \/ Ref \/ UnRef \/ TakeIdle \/ DropIdle
    BY <1>2, <2>1 DEF NextTick, Stop, Ref, UnRef, TakeIdle, DropIdle, loopVars, timerVars
  <2>2. ASSUME NEW t \in Timers, ClearTimeout(t) PROVE Handed'
    <3>1. phase' = phase /\ phase # "exit" /\ cur' = cur /\ threw' = threw /\ kind' = kind
          /\ timer' = [timer EXCEPT ![t] = Closed(t)] /\ Closed(t) # "open"
      BY <2>2 DEF ClearTimeout, loopVars, Callbacks, Closed
    <3> QED BY <1>0, <3>1
  <2>3. ASSUME NEW t \in Timers, NEW k \in Kinds, SetTimer(t, k) PROVE Handed'
    <3>1. phase' = phase /\ phase # "exit" /\ cur' = cur /\ threw' = threw \ {t}
          /\ timer' = [timer EXCEPT ![t] = "armed"] /\ kind' = [kind EXCEPT ![t] = k]
      BY <2>3 DEF SetTimer, MayCall, loopVars, Callbacks
    <3> QED BY <1>0, <3>1
  <2> QED BY <1>3, <2>1, <2>2, <2>3 DEF ScriptStep
<1>4. CASE LoopStep
  <2>1. CASE RunReturns
    <3>1. UNCHANGED <<timer, kind, cur, forgotten, threw>> /\ phase # "timer" /\ Sound
          /\ (phase' = "exit" => ~LoopAlive)
      BY <2>1 DEF RunReturns, timerVars
    <3> QED BY <3>1 DEF LoopAlive, HasActiveHandles, HasClosing, Active, Sound
  <2>2. ASSUME NEW t \in Timers, Fire(t) PROVE Handed'
    BY <1>0, <2>2 DEF Fire, Repeats, Kinds
  <2>3. CASE CloseHandles
    BY <1>0, <2>3 DEF CloseHandles
  <2>4. CASE Shutdown
    <3>1. phase # "timer" /\ phase' = "done" /\ cur' = cur /\ threw' = threw /\ kind' = kind
          /\ \A t \in Timers : timer'[t] = "open" => timer[t] = "open"
      BY <1>0, <2>4 DEF Shutdown, Closed
    <3> QED BY <3>1
  <2>5. CASE Iterate \/ TimersRun \/ IdleNone \/ IdleScript \/ IdleTicks \/ TickStarts
             \/ BatchEnds \/ PollDone
    BY <1>1, <2>5 DEF Iterate, TimersRun, IdleNone, IdleScript, IdleTicks, TickStarts, BatchEnds,
       PollDone, timerVars
  <2> QED BY <1>4, <2>1, <2>2, <2>3, <2>4, <2>5 DEF LoopStep
<1>5. CASE CallbackEnds
  <2>1. CASE TimerReturns
    <3>1. phase' = "timers" /\ threw' = threw /\ kind' = kind /\ cur \in Timers
      BY <2>1 DEF TimerReturns, Types, TimerType
    <3>2. ASSUME NEW t \in Timers, timer'[t] = "open" PROVE  kind[t] # "interval" /\ (kind[t] = "zero" \/ t \in threw)
      <4>1. CASE ClosesItself(cur)
        BY <1>0, <2>1, <3>1, <3>2, <4>1 DEF TimerReturns, Closed
      <4>2. CASE ~ClosesItself(cur)
        <5>1. timer' = timer /\ kind[cur] # "timeout"
          BY <2>1, <4>2 DEF TimerReturns, ClosesItself
        <5> QED BY <1>0, <3>1, <3>2, <5>1 DEF Kinds
      <4> QED BY <4>1, <4>2
    <3> QED BY <3>1, <3>2
  <2>2. CASE TimerThrows
    BY <2>2 DEF TimerThrows
  <2>3. CASE MainReturns \/ MainThrows \/ IdleScriptReturns \/ TickReturns \/ TickThrows \/ IoReturns
    BY <1>1, <2>3 DEF MainReturns, MainThrows, IdleScriptReturns, TickReturns, TickThrows,
       IoReturns, timerVars
  <2> QED BY <1>5, <2>1, <2>2, <2>3 DEF CallbackEnds
<1>6. CASE IoEvent
  BY <1>1, <1>6 DEF IoEvent, timerVars
<1>7. CASE (\E t \in Timers : Elapse(t)) \/ UNCHANGED vars
  BY <1>2, <1>7 DEF Elapse, vars, loopVars, timerVars
<1> QED BY <1>3, <1>4, <1>5, <1>6, <1>7 DEF Next

\* When runLoop returns every timer has been closed and freed, but those whose
\* function threw and the intervals of 0: whatever the script clears, and when.
THEOREM TimersGo == Spec => []TimersReleased
<1>1. Init => Handed
  BY DEF Init, Handed
<1>2. Types /\ [Next]_vars => Types'
  BY StepLoopIdle, StepTimer, StepTick DEF Types
<1>3. Types /\ Handed /\ [Next]_vars => Handed'
  BY HandedKept
<1>4. Types /\ Handed => TimersReleased
  BY DEF Types, TimerType, TimerStates, Handed, TimersReleased
<1> QED BY <1>1, <1>2, <1>3, <1>4, InitTypes, PTL DEF Spec

\* The script clears no timeout in its function, and none that has fired.
Timely == ClearWhen \subseteq {"pending", "ownInterval", "leftOpen"}

OnlyCloser ==
    /\ Sound
    /\ phase = "timer" => timer[cur] # "unused" /\ (kind[cur] # "timeout" \/ timer[cur] = "open")

LEMMA OnlyCloserKept ==
    ASSUME Timely, Types, Handed, OnlyCloser, [Next]_vars PROVE OnlyCloser'
<1> USE DEF OnlyCloser, Sound
<1>0. timer \in [Timers -> TimerStates] /\ kind \in [Timers -> Kinds]
      /\ cur \in Timers \cup {NoTimer} /\ (phase = "timer" => cur \in Timers)
  BY DEF Types, TimerType
<1>1. CASE UNCHANGED <<timer, kind, cur>> /\ phase' # "timer"
  BY <1>1
<1>2. CASE UNCHANGED <<timer, kind, cur, phase>>
  BY <1>2
<1>3. CASE ScriptStep
  <2>1. CASE NextTick \/ Stop \/ Ref \/ UnRef \/ TakeIdle \/ DropIdle
    BY <1>2, <2>1 DEF NextTick, Stop, Ref, UnRef, TakeIdle, DropIdle, loopVars, timerVars
  <2>2. ASSUME NEW t \in Timers, ClearTimeout(t) PROVE OnlyCloser'
    <3>1. phase' = phase /\ cur' = cur /\ kind' = kind
          /\ timer' = [timer EXCEPT ![t] = Closed(t)]
          /\ timer[t] # "unused" /\ ClearKind(t) \in {"pending", "ownInterval", "leftOpen"}
      BY <2>2 DEF ClearTimeout, loopVars, Timely
    <3>2. timer[t] \notin {"closing", "freed"} /\ (cur = t => kind[t] # "timeout")
      BY <3>1 DEF ClearKind
    <3>3. Closed(t) = "closing"
      BY <1>0, <3>1, <3>2 DEF Closed, TimerStates
    <3> QED BY <1>0, <3>1, <3>2, <3>3
  <2>3. ASSUME NEW t \in Timers, NEW k \in Kinds, SetTimer(t, k) PROVE OnlyCloser'
    BY <1>0, <2>3 DEF SetTimer, loopVars
  <2> QED BY <1>3, <2>1, <2>2, <2>3 DEF ScriptStep
<1>4. CASE LoopStep
  <2>1. ASSUME NEW t \in Timers, Fire(t) PROVE OnlyCloser'
    BY <1>0, <2>1 DEF Fire, Repeats
  <2>2. CASE CloseHandles
    BY <1>0, <2>2 DEF CloseHandles
  <2>3. CASE Shutdown
    <3>1. \A t \in Timers : timer[t] \in {"unused", "freed", "open"}
      BY <1>0, <2>3 DEF Shutdown, Handed, TimerStates
    <3>2. phase' = "done" /\ \A t \in Timers : timer'[t] # "aborted"
      BY <2>3, <3>1 DEF Shutdown, Closed
    <3> QED BY <3>2
  <2>4. CASE Iterate \/ RunReturns \/ TimersRun \/ IdleNone \/ IdleScript \/ IdleTicks
             \/ TickStarts \/ BatchEnds \/ PollDone
    BY <1>1, <2>4 DEF Iterate, RunReturns, TimersRun, IdleNone, IdleScript, IdleTicks,
       TickStarts, BatchEnds, PollDone, timerVars
  <2> QED BY <1>4, <2>1, <2>2, <2>3, <2>4 DEF LoopStep
<1>5. CASE CallbackEnds
  <2>1. CASE TimerReturns
    <3>1. phase' = "timers" /\ cur \in Timers /\ (kind[cur] # "timeout" \/ timer[cur] = "open")
      BY <1>0, <2>1 DEF TimerReturns
    <3>2. CASE kind[cur] # "timeout"
      BY <2>1, <3>1, <3>2 DEF TimerReturns, ClosesItself
    <3>3. CASE kind[cur] = "timeout"
      <4>1. timer' = [timer EXCEPT ![cur] = "closing"]
        BY <2>1, <3>1, <3>3 DEF TimerReturns, ClosesItself, Closed
      <4> QED BY <1>0, <3>1, <4>1
    <3> QED BY <3>2, <3>3
  <2>2. CASE TimerThrows
    BY <2>2 DEF TimerThrows
  <2>3. CASE MainReturns \/ MainThrows \/ IdleScriptReturns \/ TickReturns \/ TickThrows \/ IoReturns
    BY <1>1, <2>3 DEF MainReturns, MainThrows, IdleScriptReturns, TickReturns, TickThrows,
       IoReturns, timerVars
  <2> QED BY <1>5, <2>1, <2>2, <2>3 DEF CallbackEnds
<1>6. CASE IoEvent
  BY <1>1, <1>6 DEF IoEvent, timerVars
<1>7. CASE (\E t \in Timers : Elapse(t)) \/ UNCHANGED vars
  BY <1>2, <1>7 DEF Elapse, vars, loopVars, timerVars
<1> QED BY <1>3, <1>4, <1>5, <1>6, <1>7 DEF Next

\* Under Timely no timer is closed twice, by its own function, clearTimeout and
\* the walk that ends the process together.
THEOREM ClosedOnce == ASSUME Timely PROVE Spec => []NoDoubleClose
<1>1. Init => Handed /\ OnlyCloser
  BY DEF Init, Handed, OnlyCloser, Sound
<1>2. Types /\ [Next]_vars => Types'
  BY StepLoopIdle, StepTimer, StepTick DEF Types
<1>3. Types /\ Handed /\ OnlyCloser /\ [Next]_vars => Handed' /\ OnlyCloser'
  BY HandedKept, OnlyCloserKept
<1>4. OnlyCloser => NoDoubleClose
  BY DEF OnlyCloser, NoDoubleClose
<1> QED BY <1>1, <1>2, <1>3, <1>4, InitTypes, PTL DEF Spec
=============================================================================
