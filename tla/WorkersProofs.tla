--------------------------- MODULE WorkersProofs ---------------------------
(***************************************************************************)
(* For every set of threads, whether or not threads can be created and     *)
(* boot: the thread_handle is not freed under start_context, and every     *)
(* thread is answered once and truly.                                      *)
(*                                                                         *)
(* The invariant is the life of a thread, seen from both sides: what the   *)
(* parent believes of it fixes where its worker can be, what has become of *)
(* the handle, and what the flag in it says.  The handover is the signal:  *)
(* it is set exactly when the worker has done its last step, and only a    *)
(* signal makes the parent free the handle and read the flag.              *)
(***************************************************************************)
EXTENDS Workers, TLAPS

Typed ==
    /\ thread \in [Threads -> {"none", "queued", "running", "failed", "completed"}]
    /\ th \in [Threads -> {"none", "allocated", "freed"}]
    /\ async \in [Threads -> {"none", "active", "closing", "closed"}]
    /\ signal \in [Threads -> BOOLEAN] /\ hasError \in [Threads -> BOOLEAN]
    /\ worker \in [Threads -> UsesHandle \cup {"none", "done", "gone"}]
    /\ answers \in [Threads -> Seq({"null", "error", "bad status"})]
    /\ threw \in [Threads -> SUBSET {"script", "callback"}]

Unstarted(w) ==
    thread[w] \in {"none", "queued"} =>
        /\ worker[w] = "none" /\ th[w] = "none" /\ async[w] = "none" /\ ~signal[w]
        /\ answers[w] = <<>> /\ threw[w] = {}

Failed(w) ==
    thread[w] = "failed" =>
        /\ worker[w] = "none" /\ th[w] = "allocated" /\ ~signal[w]
        /\ answers[w] = <<"bad status">>

Runs_(w) ==
    thread[w] = "running" =>
        /\ worker[w] # "none" /\ th[w] = "allocated" /\ async[w] = "active"
        /\ answers[w] = <<>>
        /\ signal[w] <=> worker[w] = "done"
        /\ worker[w] # "gone" => (hasError[w] <=> "callback" \in threw[w])

Completed(w) ==
    thread[w] = "completed" =>
        /\ worker[w] = "done" /\ th[w] = "freed" /\ ~signal[w] /\ async[w] # "active"
        /\ answers[w] \in {<<"error">>, <<"null">>}
        /\ answers[w] = <<"error">> <=> "callback" \in threw[w]

Life(w) == Unstarted(w) /\ Failed(w) /\ Runs_(w) /\ Completed(w)

IInv == Typed /\ \A w \in Threads : Life(w)

\* A step leaves the life of a thread alone.
Untouched(u) ==
    /\ thread'[u] = thread[u] /\ th'[u] = th[u] /\ async'[u] = async[u]
    /\ signal'[u] = signal[u] /\ hasError'[u] = hasError[u] /\ worker'[u] = worker[u]
    /\ answers'[u] = answers[u] /\ threw'[u] = threw[u]

LEMMA UntouchedLives == ASSUME NEW u \in Threads, Life(u), Untouched(u) PROVE Life(u)'
BY DEF Life, Unstarted, Failed, Runs_, Completed, Untouched

\* It suffices to look at the thread whose step it is.
LEMMA OneThread ==
    ASSUME IInv, NEW w \in Threads, Typed', Life(w)',
           \A u \in Threads : u # w => Untouched(u)
    PROVE  IInv'
BY UntouchedLives DEF IInv

\* A step that changes nothing of any thread's life.
LEMMA NoThread ==
    ASSUME IInv, UNCHANGED <<thread, th, async, signal, hasError, worker, answers, threw>>
    PROVE  IInv'
BY DEF IInv, Typed, Life, Unstarted, Failed, Runs_, Completed

-----------------------------------------------------------------------------
(* The parent's steps                                                      *)

LEMMA Spawn_ == ASSUME IInv, NEW w \in Threads, NEW ipc \in BOOLEAN, Spawn(w, ipc) PROVE IInv'
<1>1. Typed'
  BY DEF IInv, Typed, Spawn, workerVars
<1>2. Life(w)'
  BY DEF IInv, Typed, Spawn, workerVars, Life, Unstarted, Failed, Runs_, Completed
<1>3. \A u \in Threads : u # w => Untouched(u)
  BY DEF IInv, Typed, Spawn, workerVars, Untouched
<1> QED BY <1>1, <1>2, <1>3, OneThread

LEMMA Start_ == ASSUME IInv, NEW w \in Threads, NEW r \in {0, 1}, Start(w, r) PROVE IInv'
<1>1. /\ thread[w] = "queued" /\ th' = [th EXCEPT ![w] = "allocated"]
      /\ hasError' = [hasError EXCEPT ![w] = FALSE] /\ async' = [async EXCEPT ![w] = "active"]
      /\ thread' = [thread EXCEPT ![w] = IF r = 0 THEN "running" ELSE "failed"]
      /\ worker' = [worker EXCEPT ![w] = IF r = 0 THEN "boot" ELSE "none"]
      /\ signal' = signal /\ threw' = threw
  BY DEF Start, InitialError
<1>2. answers' = [answers EXCEPT ![w] = IF r = 0 THEN answers[w] ELSE <<"bad status">>]
  <2>1. answers[w] = <<>> /\ answers \in [Threads -> Seq({"null", "error", "bad status"})]
    BY <1>1 DEF IInv, Life, Unstarted, Typed
  <2>2. CASE r = 0
    <3>1. answers' = answers
      BY <2>2 DEF Start, AnswersAtStart
    <3>2. answers = [answers EXCEPT ![w] = answers[w]]
      BY <2>1
    <3> QED BY <2>2, <3>1, <3>2
  <2>3. CASE r # 0
    <3>1. answers' = [answers EXCEPT ![w] = Append(answers[w], "bad status")]
      BY <2>3 DEF Start, AnswersAtStart, Answer
    <3>2. Append(<<>>, "bad status") = <<"bad status">>
      OBVIOUS
    <3>3. Append(answers[w], "bad status") = <<"bad status">>
      BY <2>1, <3>2
    <3> QED BY <2>3, <3>1, <3>3
  <2> QED BY <2>2, <2>3
<1>3. Typed /\ Life(w) /\ <<"bad status">> \in Seq({"null", "error", "bad status"})
  BY DEF IInv
<1>4. Typed'
  BY <1>1, <1>2, <1>3 DEF Typed, UsesHandle
<1>5. Life(w)'
  <2>1. CASE r = 0
    BY <1>1, <1>2, <1>3, <2>1 DEF Typed, Life, Unstarted, Failed, Runs_, Completed
  <2>2. CASE r # 0
    BY <1>1, <1>2, <1>3, <2>2 DEF Typed, Life, Unstarted, Failed, Runs_, Completed
  <2> QED BY <2>1, <2>2
<1>6. \A u \in Threads : u # w => Untouched(u)
  BY <1>1, <1>2, <1>3 DEF Typed, Untouched
<1> QED BY <1>4, <1>5, <1>6, OneThread

\* The signal says that the worker is done: the handle may go, and its flag is
\* what the callbacks left in it.
LEMMA OnContextComplete_ == ASSUME IInv, NEW w \in Threads, OnContextComplete(w) PROVE IInv'
<1>1. Typed /\ Life(w)
  BY DEF IInv
<1>2. /\ thread[w] = "running" /\ worker[w] = "done" /\ answers[w] = <<>>
      /\ hasError[w] <=> "callback" \in threw[w]
  <2>1. async[w] = "active" /\ signal[w]
    BY DEF OnContextComplete
  <2>2. thread[w] = "running"
    BY <1>1, <2>1 DEF Typed, Life, Unstarted, Failed, Completed
  <2> QED BY <1>1, <2>1, <2>2 DEF Life, Runs_
<1>3. answers' = [answers EXCEPT ![w] = <<IF hasError[w] THEN "error" ELSE "null">>]
  <2> DEFINE how == IF hasError[w] THEN "error" ELSE "null"
  <2>1. answers' = [answers EXCEPT ![w] = Append(answers[w], how)]
    BY DEF OnContextComplete, Answer
  <2>2. Append(<<>>, how) = <<how>>
    OBVIOUS
  <2>3. Append(answers[w], how) = <<how>>
    BY <1>2, <2>2
  <2> QED BY <2>1, <2>3
<1>4. /\ thread' = [thread EXCEPT ![w] = "completed"] /\ th' = [th EXCEPT ![w] = "freed"]
      /\ async' = [async EXCEPT ![w] = "closing"] /\ signal' = [signal EXCEPT ![w] = FALSE]
      /\ hasError' = hasError /\ worker' = worker /\ threw' = threw
  BY DEF OnContextComplete, AsyncServed, workerVars
<1>5. <<"error">> \in Seq({"null", "error", "bad status"})
      /\ <<"null">> \in Seq({"null", "error", "bad status"}) /\ <<"error">> # <<"null">>
  OBVIOUS
<1>6. Typed'
  <2>1. <<IF hasError[w] THEN "error" ELSE "null">> \in Seq({"null", "error", "bad status"})
    OBVIOUS
  <2> QED BY <1>1, <1>3, <1>4, <2>1 DEF Typed
<1>7. Life(w)'
  <2>1. CASE hasError[w]
    BY <1>1, <1>2, <1>3, <1>4, <1>5, <2>1 DEF Typed, Life, Unstarted, Failed, Runs_, Completed
  <2>2. CASE ~hasError[w]
    BY <1>1, <1>2, <1>3, <1>4, <1>5, <2>2 DEF Typed, Life, Unstarted, Failed, Runs_, Completed
  <2> QED BY <2>1, <2>2
<1>8. \A u \in Threads : u # w => Untouched(u)
  BY <1>1, <1>3, <1>4 DEF Typed, Untouched
<1> QED BY <1>6, <1>7, <1>8, OneThread

LEMMA OnThreadClose_ == ASSUME IInv, NEW w \in Threads, OnThreadClose(w) PROVE IInv'
<1>1. Typed'
  BY DEF IInv, Typed, OnThreadClose, sharedVars, workerVars
<1>2. Life(w)'
  BY DEF IInv, Typed, OnThreadClose, sharedVars, workerVars, Life, Unstarted, Failed, Runs_, Completed
<1>3. \A u \in Threads : u # w => Untouched(u)
  BY DEF IInv, Typed, OnThreadClose, sharedVars, workerVars, Untouched
<1> QED BY <1>1, <1>2, <1>3, OneThread

-----------------------------------------------------------------------------
(* The worker's steps                                                      *)

\* A worker is somewhere in start_context: the parent takes it for running.
LEMMA InContext ==
    ASSUME IInv, NEW w \in Threads, worker[w] \in UsesHandle
    PROVE  thread[w] = "running"
BY DEF IInv, Typed, Life, Unstarted, Failed, Completed, UsesHandle

\* A step of the worker of w, from one place in start_context to another.
Moves(w, from, to, error, thrown) ==
    /\ from \in UsesHandle /\ worker[w] = from
    /\ UNCHANGED <<thread, th, async, answers>>
    /\ worker' = [worker EXCEPT ![w] = to]
    /\ signal' = [signal EXCEPT ![w] = @ \/ to = "done"]
    /\ hasError' = [hasError EXCEPT ![w] = error]
    /\ threw' = [threw EXCEPT ![w] = thrown]

LEMMA MovesLive ==
    ASSUME IInv, NEW w \in Threads, NEW from, NEW to \in UsesHandle \cup {"done", "gone"},
           NEW error \in BOOLEAN, NEW thrown \in SUBSET {"script", "callback"},
           Moves(w, from, to, error, thrown),
           to # "gone" => (error <=> "callback" \in thrown)
    PROVE  IInv'
<1>1. Typed /\ Life(w) /\ thread[w] = "running"
  BY InContext DEF IInv, Moves
<1>2. worker[w] # "done" /\ ~signal[w]
  BY <1>1 DEF Life, Runs_, Moves, UsesHandle, Typed
<1>3. Typed'
  BY <1>1 DEF Typed, Moves
<1>4. /\ worker'[w] = to /\ to # "none" /\ (signal'[w] <=> to = "done")
      /\ (hasError'[w] <=> error) /\ threw'[w] = thrown
  BY <1>1, <1>2 DEF Typed, Moves, UsesHandle
<1>5. Life(w)'
  BY <1>1, <1>4 DEF Life, Unstarted, Failed, Runs_, Completed, Moves
<1>6. \A u \in Threads : u # w => Untouched(u)
  BY <1>1 DEF Typed, Moves, Untouched
<1> QED BY <1>3, <1>5, <1>6, OneThread

LEMMA WorkerMoves ==
    ASSUME IInv, NEW w \in Threads, WorkerStep(w) \/ CallbackThrows(w) \/ WorkerCloses(w)
    PROVE  IInv'
<1>1. Typed /\ hasError[w] \in BOOLEAN /\ threw[w] \in SUBSET {"script", "callback"}
  BY DEF IInv, Typed
<1>2. worker[w] \in UsesHandle => (hasError[w] <=> "callback" \in threw[w])
  BY InContext DEF IInv, Life, Runs_, UsesHandle
<1>3. /\ hasError = [hasError EXCEPT ![w] = hasError[w]]
      /\ threw = [threw EXCEPT ![w] = threw[w]]
  BY <1>1 DEF Typed
<1>4. CASE BootThrows(w)
  <2>1. Moves(w, "boot", "gone", TRUE, threw[w])
    BY <1>3, <1>4 DEF BootThrows, Goes, Moves, UsesHandle, SignalAt, parentVars
  <2> QED BY <1>1, <2>1, MovesLive
<1>5. CASE CallbackThrows(w)
  <2>1. Moves(w, "loop", "loop", TRUE, threw[w] \cup {"callback"})
    BY <1>5 DEF CallbackThrows, Goes, Moves, UsesHandle, SignalAt, parentVars
  <2> QED BY <1>1, <2>1, MovesLive DEF UsesHandle
<1>6. CASE ScriptThrows(w)
  <2>1. Moves(w, "script", "leaving", hasError[w], threw[w] \cup {"script"})
    BY <1>3, <1>6 DEF ScriptThrows, Goes, Moves, UsesHandle, SignalAt, parentVars
  <2>2. hasError[w] <=> "callback" \in threw[w] \cup {"script"}
    BY <1>2, <2>1 DEF Moves
  <2> QED BY <1>1, <2>1, <2>2, MovesLive DEF UsesHandle
<1>7. ASSUME NEW from \in UsesHandle, NEW to \in UsesHandle \cup {"done"}, Goes(w, from, to),
             UNCHANGED <<hasError, threw>>
      PROVE  IInv'
  <2>1. Moves(w, from, to, hasError[w], threw[w])
    BY <1>3, <1>7 DEF Goes, Moves, SignalAt, parentVars
  <2>2. hasError[w] <=> "callback" \in threw[w]
    BY <1>2, <1>7 DEF Goes
  <2> QED BY <1>1, <2>1, <2>2, MovesLive
<1>8. CASE Boots(w) \/ ScriptReturns(w) \/ WorkerCloses(w) \/ WorkerEnd(w) \/ LoopReturns(w)
           \/ Leaves(w)
  BY <1>7, <1>8 DEF Boots, ScriptReturns, WorkerCloses, WorkerEnd, LoopReturns, Leaves, UsesHandle
<1> QED BY <1>4, <1>5, <1>6, <1>8 DEF WorkerStep

-----------------------------------------------------------------------------
LEMMA Invariant == Spec => []IInv
<1>1. Init => IInv
  BY DEF Init, IInv, Typed, Life, Unstarted, Failed, Runs_, Completed
<1>2. IInv /\ [Next]_vars => IInv'
  <2> SUFFICES ASSUME IInv, [Next]_vars PROVE IInv'
    OBVIOUS
  <2>1. CASE UNCHANGED vars
    BY <2>1, NoThread DEF vars, parentVars, sharedVars, workerVars
  <2>2. CASE ScriptEnds
    BY <2>2, NoThread DEF ScriptEnds, sharedVars, workerVars
  <2>3. CASE ParentExits
    BY <2>3, NoThread DEF ParentExits, sharedVars, workerVars
  <2>4. ASSUME NEW w \in Threads, ParentCloses(w) PROVE IInv'
    BY <2>4, NoThread DEF ParentCloses, parentVars, workerVars
  <2>5. ASSUME NEW w \in Threads, ParentEnd(w) PROVE IInv'
    BY <2>5, NoThread DEF ParentEnd, parentVars, workerVars
  <2> QED BY <2>1, <2>2, <2>3, <2>4, <2>5, Spawn_, Start_, OnContextComplete_, OnThreadClose_,
             WorkerMoves DEF Next, ParentStep
<1> QED BY <1>1, <1>2, PTL DEF Spec

\* start_context never uses a handle that on_context_complete has freed, however
\* the two threads are scheduled.
THEOREM HandleOutlivesWorker == Spec => []HandleLives
<1>1. IInv => HandleLives
  BY InContext DEF IInv, Life, Runs_, HandleLives
<1> QED BY <1>1, Invariant, PTL

\* onComplete is called at most once for a thread, and tells of an error
\* exactly if a callback of the worker threw.
THEOREM OneTrueAnswer == Spec => []AnsweredTruly
<1>1. IInv => AnsweredTruly
  <2> SUFFICES ASSUME IInv, NEW w \in Threads
               PROVE  /\ Len(answers[w]) <= 1
                      /\ thread[w] = "completed" =>
                            (answers[w] = <<"error">>) = ("callback" \in threw[w])
    BY DEF AnsweredTruly
  <2>1. Life(w) /\ thread[w] \in {"none", "queued", "running", "failed", "completed"}
    BY DEF IInv, Typed
  <2>2. \/ answers[w] = <<>> \/ answers[w] = <<"bad status">>
        \/ answers[w] = <<"error">> \/ answers[w] = <<"null">>
    <3>1. CASE thread[w] \in {"none", "queued"}
      BY <2>1, <3>1 DEF Life, Unstarted
    <3>2. CASE thread[w] = "failed"
      BY <2>1, <3>2 DEF Life, Failed
    <3>3. CASE thread[w] = "running"
      BY <2>1, <3>3 DEF Life, Runs_
    <3>4. CASE thread[w] = "completed"
      BY <2>1, <3>4 DEF Life, Completed
    <3> QED BY <2>1, <3>1, <3>2, <3>3, <3>4
  <2>3. Len(answers[w]) <= 1
    <3>1. Len(<<>>) = 0 /\ \A how : Len(<<how>>) = 1
      OBVIOUS
    <3>2. Len(answers[w]) \in {0, 1}
      BY <2>2, <3>1
    <3>3. \A n \in {0, 1} : n <= 1
      OBVIOUS
    <3> QED BY <3>2, <3>3
  <2>4. ASSUME thread[w] = "completed"
        PROVE  (answers[w] = <<"error">>) = ("callback" \in threw[w])
    <3>1. answers[w] = <<"error">> <=> "callback" \in threw[w]
      BY <2>1, <2>4 DEF Life, Completed
    <3> QED BY <3>1, SMT
  <2> QED BY <2>3, <2>4
<1> QED BY <1>1, Invariant, PTL
=============================================================================
