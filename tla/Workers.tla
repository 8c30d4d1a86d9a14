------------------------------ MODULE Workers ------------------------------
(***************************************************************************)
(* process.spawn of src/src/main.js and the Thread object under it         *)
(* (src/src/modules/thread/thread.cc).  The parent runs on its event loop; *)
(* every worker runs start_context on a thread of its own, at the same     *)
(* time.  They share the thread_handle th, which start() allocates and     *)
(* on_context_complete frees, and, if the script asks for ipc, the two     *)
(* ends of a socketpair.                                                   *)
(***************************************************************************)
EXTENDS Naturals, Sequences

CONSTANTS
    Threads,        \* the Thread objects the parent may create
    CreateFails,    \* uv_thread_create may fail
    BootFails       \* the bootstrap module may fail to compile

ASSUME WorkersAssumption == CreateFails \in BOOLEAN /\ BootFails \in BOOLEAN

VARIABLES
    parent,     \* "script" (main.js runs the script), "loop" or "exited"
    thread,     \* "none", "queued" (its start is a tick), "running",
                \* "failed" (start returned an error) or "completed"
    threads,    \* the map process.threads
    th,         \* the thread_handle: "none", "allocated", "freed"
    async,      \* th->async: "none", "active", "closing", "closed"
    signal,     \* uv_async_send was called and not yet served
    hasError,   \* th->error.hasError
    worker,     \* where start_context is
    ends,       \* the sockets of the parent and of the worker
    answers,    \* history: the calls of onComplete
    threw       \* history: exceptions of the worker, "script" or "callback"

parentVars == <<parent, thread, threads, async, answers>>
sharedVars == <<th, signal, hasError, ends>>
workerVars == <<worker, threw>>
vars == <<parentVars, sharedVars, workerVars>>

\* A worker goes from "none" through these to "done", or from "boot" to "gone":
\* start_context has returned without telling anybody.
UsesHandle == {"boot", "script", "loop", "leaving"}

Init ==
    /\ parent = "script"
    /\ thread = [w \in Threads |-> "none"] /\ threads = {}
    /\ th = [w \in Threads |-> "none"] /\ async = [w \in Threads |-> "none"]
    /\ signal = [w \in Threads |-> FALSE] /\ hasError = [w \in Threads |-> FALSE]
    /\ worker = [w \in Threads |-> "none"]
    /\ ends = [w \in Threads |-> [parent |-> "none", worker |-> "none"]]
    /\ answers = [w \in Threads |-> <<>>] /\ threw = [w \in Threads |-> {}]

-----------------------------------------------------------------------------
(* The parent *)

\* What keeps the parent's loop alive.
Holds(w) == thread[w] = "queued" \/ async[w] \in {"active", "closing"} \/ ends[w].parent = "open"

Runs == parent = "script" \/ (parent = "loop" /\ \E w \in Threads : Holds(w))

\* process.spawn: the thread is started by the next tick.
Spawn(w, ipc) ==
    /\ Runs /\ thread[w] = "none"
    /\ thread' = [thread EXCEPT ![w] = "queued"]
    /\ threads' = threads \cup {w}
    /\ ends' = [ends EXCEPT ![w] = IF ipc THEN [parent |-> "open", worker |-> "open"] ELSE @]
    /\ UNCHANGED <<parent, async, answers, th, signal, hasError, workerVars>>

ScriptEnds ==
    /\ parent = "script" /\ parent' \in {"loop", "exited"}      \* returns, throws
    /\ UNCHANGED <<thread, threads, async, answers, sharedVars, workerVars>>

Answer(w, how) == answers' = [answers EXCEPT ![w] = Append(@, how)]

Fault_InitialError == BOOLEAN
InitialError == {FALSE}

\* Thread::Start, in the tick: with r = 0 the worker runs; otherwise the
\* script is told, but the map keeps the thread and the async stays active.
AnswersAtStart(r) == r # 0

Start(w, r) ==
    /\ parent = "loop" /\ thread[w] = "queued"
    /\ r # 0 => CreateFails
    /\ th' = [th EXCEPT ![w] = "allocated"]
    /\ \E b \in InitialError : hasError' = [hasError EXCEPT ![w] = b]
    /\ async' = [async EXCEPT ![w] = "active"]
    /\ thread' = [thread EXCEPT ![w] = IF r = 0 THEN "running" ELSE "failed"]
    /\ worker' = [worker EXCEPT ![w] = IF r = 0 THEN "boot" ELSE "none"]
    /\ \/ AnswersAtStart(r) /\ Answer(w, "bad status")
       \/ ~AnswersAtStart(r) /\ UNCHANGED answers
    /\ UNCHANGED <<parent, threads, signal, ends, threw>>

\* on_context_complete, and the callback process.spawn gave to start: hasError
\* is read after free, when nothing has reused the memory yet.
Fault_AsyncServed == "active"
AsyncServed == "closing"

OnContextComplete(w) ==
    /\ parent = "loop" /\ async[w] = "active" /\ signal[w]
    /\ signal' = [signal EXCEPT ![w] = FALSE]
    /\ async' = [async EXCEPT ![w] = AsyncServed]
    /\ th' = [th EXCEPT ![w] = "freed"]
    /\ threads' = threads \ {w}
    /\ thread' = [thread EXCEPT ![w] = "completed"]
    /\ Answer(w, IF hasError[w] THEN "error" ELSE "null")
    /\ UNCHANGED <<parent, hasError, ends, workerVars>>

OnThreadClose(w) ==
    /\ parent = "loop" /\ async[w] = "closing"
    /\ async' = [async EXCEPT ![w] = "closed"]
    /\ UNCHANGED <<parent, thread, threads, answers, sharedVars, workerVars>>

\* thread.sock.close().
ParentCloses(w) ==
    /\ Runs /\ ends[w].parent = "open"
    /\ ends' = [ends EXCEPT ![w].parent = "closed"]
    /\ UNCHANGED <<parentVars, th, signal, hasError, workerVars>>

\* The end of the worker's stream: sock.onEnd closes.
ParentEnd(w) ==
    /\ parent = "loop" /\ ends[w] = [parent |-> "open", worker |-> "closed"]
    /\ ends' = [ends EXCEPT ![w].parent = "closed"]
    /\ UNCHANGED <<parentVars, th, signal, hasError, workerVars>>

ParentExits ==
    /\ parent = "loop" /\ \A w \in Threads : ~Holds(w)
    /\ parent' = "exited"
    /\ UNCHANGED <<thread, threads, async, answers, sharedVars, workerVars>>

-----------------------------------------------------------------------------
(* The worker: start_context, which evaluates main.js, which evaluates the *)
(* function's source and runs the loop.  An exited parent takes it along.  *)

\* The stage at which uv_async_send has been called.
Fault_SignalAt == "leaving"
Fault_Never == "gone"
SignalAt == "done"

Goes(w, from, to) ==
    /\ parent # "exited" /\ worker[w] = from
    /\ worker' = [worker EXCEPT ![w] = to]
    /\ signal' = [signal EXCEPT ![w] = @ \/ to = SignalAt]
    /\ UNCHANGED <<parentVars, th>>

Boots(w) ==
    /\ Goes(w, "boot", "script")
    /\ UNCHANGED <<hasError, ends, threw>>

\* CompileModule fails: the exception is reported, and start_context returns.
BootThrows(w) ==
    /\ BootFails /\ Goes(w, "boot", "gone")
    /\ hasError' = [hasError EXCEPT ![w] = TRUE]
    /\ UNCHANGED <<ends, threw>>

ScriptReturns(w) ==
    /\ Goes(w, "script", "loop")
    /\ UNCHANGED <<hasError, ends, threw>>

\* The function itself throws: main.js never gets to runLoop, and nobody looks
\* at what Evaluate returns.
ScriptThrows(w) ==
    /\ Goes(w, "script", "leaving")
    /\ threw' = [threw EXCEPT ![w] = @ \cup {"script"}]
    /\ UNCHANGED <<hasError, ends>>

\* A callback throws: ReportException.
CallbackThrows(w) ==
    /\ Goes(w, "loop", "loop")
    /\ hasError' = [hasError EXCEPT ![w] = TRUE]
    /\ threw' = [threw EXCEPT ![w] = @ \cup {"callback"}]
    /\ UNCHANGED ends

\* process.sock.close().
WorkerCloses(w) ==
    /\ Goes(w, "loop", "loop") /\ ends[w].worker = "open"
    /\ ends' = [ends EXCEPT ![w].worker = "closed"]
    /\ UNCHANGED <<hasError, threw>>

WorkerEnd(w) ==
    /\ Goes(w, "loop", "loop") /\ ends[w] = [parent |-> "closed", worker |-> "open"]
    /\ ends' = [ends EXCEPT ![w].worker = "closed"]
    /\ UNCHANGED <<hasError, threw>>

\* Nothing keeps the worker's loop alive: its socket would.
LoopReturns(w) ==
    /\ ends[w].worker # "open"
    /\ Goes(w, "loop", "leaving")
    /\ UNCHANGED <<hasError, ends, threw>>

\* Isolate::Dispose, uv_async_send.
Leaves(w) ==
    /\ Goes(w, "leaving", "done")
    /\ UNCHANGED <<hasError, ends, threw>>

-----------------------------------------------------------------------------
ParentStep(w) ==
    \/ \E r \in {0, 1} : Start(w, r)
    \/ OnContextComplete(w) \/ OnThreadClose(w) \/ ParentEnd(w)
WorkerStep(w) ==
    \/ Boots(w) \/ BootThrows(w) \/ ScriptReturns(w) \/ ScriptThrows(w)
    \/ WorkerEnd(w) \/ LoopReturns(w) \/ Leaves(w)

Next ==
    \/ ScriptEnds \/ ParentExits
    \/ \E w \in Threads :
          \/ \E ipc \in BOOLEAN : Spawn(w, ipc)
          \/ ParentCloses(w) \/ ParentStep(w)
          \/ CallbackThrows(w) \/ WorkerCloses(w) \/ WorkerStep(w)

Spec == Init /\ [][Next]_vars

\* The parent serves its events and the system schedules every thread; the
\* worker's function returns or throws.  Nobody has to close a channel.
Fairness ==
    /\ WF_vars(ScriptEnds) /\ WF_vars(ParentExits)
    /\ \A w \in Threads : WF_vars(ParentStep(w)) /\ WF_vars(WorkerStep(w))

FairSpec == Spec /\ Fairness

-----------------------------------------------------------------------------
(* Properties *)

\* While start_context may still use the thread_handle, to store an error or to
\* find the async, the parent has not freed it.
HandleLives ==
    \A w \in Threads : worker[w] \in UsesHandle => th[w] = "allocated"

\* onComplete is called at most once for a thread, by the tick that failed to
\* start it or by on_context_complete, and a thread that has completed reports
\* an error exactly if one of its callbacks threw: the exception of the function
\* itself is never seen.
AnsweredTruly ==
    \A w \in Threads :
        /\ Len(answers[w]) <= 1
        /\ thread[w] = "completed" =>
              (answers[w] = <<"error">>) = ("callback" \in threw[w])

\* A thread that starts and has no channel, or whose parent has closed it, is
\* answered, unless its bootstrap failed.
Answered ==
    \A w \in Threads :
        (thread[w] \in {"queued", "running"} /\ ends[w].parent # "open")
            ~> (answers[w] # <<>> \/ worker[w] = "gone" \/ parent = "exited")

\* The process ends, unless both ends of some channel stay open, or a thread
\* failed to start or to boot: its last handles are closed when the threads
\* have completed.
ProcessEnds ==
    \/ <>(parent = "exited")
    \/ <>[](\E w \in Threads :
              \/ ends[w] = [parent |-> "open", worker |-> "open"]
              \/ thread[w] = "failed" \/ worker[w] = "gone")
=============================================================================
