---------------------------- MODULE RequestQueue ----------------------------
(***************************************************************************)
(* internal/orchestrator/queue.go: the callers of SubmitWithAccepted, the  *)
(* dispatcher goroutine, one goroutine per started job and Shutdown.       *)
(*                                                                         *)
(* Sections under q.mu are single steps, except the dispatcher's pass: it  *)
(* expires jobs (Sweep) and then starts jobs one by one while it holds the *)
(* mutex (dpc = "start"), and the callers' timers and contexts, which need *)
(* no mutex, may fire in between.  The clock is abstract: waited[j] says   *)
(* that queueWait has passed since enqueuedAt, ctxDone that the request    *)
(* context is done (300 s deadline, outer cancellation, or cancel()).      *)
(***************************************************************************)
EXTENDS Naturals, FiniteSets

CONSTANTS Jobs,         \* one per SubmitWithAccepted call
          KeyOf,        \* conversationKey of each call
          MaxQueued,    \* QueueConfig.MaxQueued
          MaxRunning,   \* QueueConfig.MaxRunning
          Disturbed     \* bound: the calls whose callback may fail, whose context
                        \* may end early and whose queue wait may elapse

ASSUME QueueAssumption ==
    /\ IsFiniteSet(Jobs)
    /\ Disturbed \subseteq Jobs
    /\ MaxQueued \in Nat \ {0}
    /\ MaxRunning \in Nat \ {0}

VARIABLES
    queue,      \* q.queue: the queued jobs ...
    ahead,      \* ... and its order: the jobs queued when j was appended
    ready,      \* job.ready
    waited,     \* time.Since(job.enqueuedAt) >= queueWait
    ctxDone,    \* job.ctx is done
    started,    \* job.started is closed
    result,     \* what was sent on job.result ("none" before the send)
    sub,        \* where the caller's SubmitWithAccepted stands
    ret,        \* what it returned
    worker,     \* where the job's goroutine stands
    cancelled,  \* jobs whose workCtx Shutdown cancelled through q.active
    active,     \* the keys in q.active
    running,    \* the dispatcher's local counter
    dpc,        \* where the dispatcher stands; "start" holds q.mu
    wake,       \* the token in the wake channel (capacity 1)
    shut,       \* where Shutdown stands; closed is set in its first section
    owed        \* history: same-key jobs that were ready when j was appended

callVars   == <<sub, ret, ready, waited>>
workerVars == <<worker, cancelled, active, running, started>>
vars == <<queue, ahead, ready, waited, ctxDone, started, result, sub, ret,
          worker, cancelled, active, running, dpc, wake, shut, owed>>

-----------------------------------------------------------------------------
(* "work": whatever the work function returned, nil or an error *)
Outcomes == {"work", "ctx", "closed", "waitTimeout"}

Closed == shut # "open"

Unlocked == dpc # "start"

(* Callers inside SubmitWithAccepted. *)
Pending(j) == sub[j] \notin {"idle", "returned"}

(* Jobs counted by the WaitGroup q.running. *)
InFlight == {j \in Jobs : worker[j] \in {"working", "sent", "released"}}

Init ==
    /\ queue = {}
    /\ ahead = [j \in Jobs |-> {}]
    /\ ready = {}
    /\ waited = {}
    /\ ctxDone = {}
    /\ started = {}
    /\ result = [j \in Jobs |-> "none"]
    /\ sub = [j \in Jobs |-> "idle"]
    /\ ret = [j \in Jobs |-> "none"]
    /\ worker = [j \in Jobs |-> "none"]
    /\ cancelled = {}
    /\ active = {}
    /\ running = 0
    /\ dpc = "sweep"
    /\ wake = FALSE
    /\ shut = "open"
    /\ owed = [j \in Jobs |-> {}]

-----------------------------------------------------------------------------
(* The caller. *)

(* return r, after cancel() (explicit or deferred) *)
Return(j, r) ==
    /\ sub' = [sub EXCEPT ![j] = "returned"]
    /\ ret' = [ret EXCEPT ![j] = r]
    /\ ctxDone' = ctxDone \cup {j}

(* First section, refused: the queue is closed or full. *)
Refuse(j) ==
    /\ Unlocked
    /\ sub[j] = "idle"
    /\ Closed \/ Cardinality(queue) >= MaxQueued
    /\ sub' = [sub EXCEPT ![j] = "returned"]
    /\ ret' = [ret EXCEPT ![j] = IF Closed THEN "closed" ELSE "busy"]
    /\ UNCHANGED <<queue, ahead, owed, ready, waited, ctxDone, result, workerVars,
                   dpc, wake, shut>>

(* Mutant of Reserve: an off-by-one in the capacity test. *)
ReserveOneMore(j) ==
    /\ Unlocked
    /\ sub[j] = "idle"
    /\ ~Closed
    /\ Cardinality(queue) <= MaxQueued
    /\ queue' = queue \cup {j}
    /\ ahead' = [ahead EXCEPT ![j] = queue]
    /\ owed' = [owed EXCEPT ![j] = {k \in queue \cap ready : KeyOf[k] = KeyOf[j]}]
    /\ sub' = [sub EXCEPT ![j] = "accepting"]
    /\ UNCHANGED <<ret, ready, waited, ctxDone, result, workerVars, dpc, wake, shut>>

(* First section, admitted: a slot is taken before the callback runs. *)
Reserve(j) ==
    /\ Unlocked
    /\ sub[j] = "idle"
    /\ ~Closed
    /\ Cardinality(queue) < MaxQueued
    /\ queue' = queue \cup {j}
    /\ ahead' = [ahead EXCEPT ![j] = queue]
    /\ owed' = [owed EXCEPT ![j] = {k \in queue \cap ready : KeyOf[k] = KeyOf[j]}]
    /\ sub' = [sub EXCEPT ![j] = "accepting"]
    /\ UNCHANGED <<ret, ready, waited, ctxDone, result, workerVars, dpc, wake, shut>>

(* The accepted callback fails: the slot is given back. *)
AcceptFails(j) ==
    /\ j \in Disturbed
    /\ Unlocked
    /\ sub[j] = "accepting"
    /\ queue' = queue \ {j}
    /\ wake' = (wake \/ j \in queue)
    /\ Return(j, CASE j \in queue -> "acceptErr"
                   [] j \notin queue /\ Closed -> "closed"
                   [] j \notin queue /\ ~Closed /\ result[j] # "none" -> result[j]
                   [] OTHER -> "acceptErr")
    /\ UNCHANGED <<ahead, owed, ready, waited, result, workerVars, dpc, shut>>

(* Second section: the slot is gone. *)
EnqueueGone(j) ==
    /\ Unlocked
    /\ sub[j] = "accepting"
    /\ j \notin queue \/ Closed
    /\ Return(j, IF Closed THEN "closed"
                 ELSE IF result[j] # "none" THEN result[j] ELSE "ctx")
    /\ UNCHANGED <<queue, ahead, owed, ready, waited, result, workerVars, dpc,
                   wake, shut>>

(* Second section: the context ended while the callback ran. *)
EnqueueExpired(j) ==
    /\ Unlocked
    /\ sub[j] = "accepting"
    /\ j \in queue /\ ~Closed
    /\ j \in ctxDone
    /\ queue' = queue \ {j}
    /\ wake' = TRUE
    /\ Return(j, "ctx")
    /\ UNCHANGED <<ahead, owed, ready, waited, result, workerVars, dpc, shut>>

(* Second section: the job becomes dispatchable. *)
Enqueue(j) ==
    /\ Unlocked
    /\ sub[j] = "accepting"
    /\ j \in queue /\ ~Closed
    /\ j \notin ctxDone
    /\ ready' = ready \cup {j}
    /\ sub' = [sub EXCEPT ![j] = "waiting"]
    /\ wake' = TRUE
    /\ UNCHANGED <<queue, ahead, owed, waited, ctxDone, result, ret, workerVars,
                   dpc, shut>>

(* select: a result is there (both selects, and the wait of the timer branch) *)
TakeResult(j) ==
    /\ sub[j] \in {"waiting", "running", "awaiting"}
    /\ result[j] # "none"
    /\ Return(j, result[j])
    /\ UNCHANGED <<queue, ahead, owed, ready, waited, result, workerVars, dpc,
                   wake, shut>>

(* first select, context branch: a result already sent is preferred *)
WaitCtxDone(j) ==
    /\ sub[j] = "waiting"
    /\ j \in ctxDone
    /\ Return(j, IF result[j] # "none" THEN result[j] ELSE "ctx")
    /\ UNCHANGED <<queue, ahead, owed, ready, waited, result, workerVars, dpc,
                   wake, shut>>

(* second select, context branch: either ready branch may be taken *)
RunCtxDone(j) ==
    /\ sub[j] = "running"
    /\ j \in ctxDone
    /\ Return(j, "ctx")
    /\ UNCHANGED <<queue, ahead, owed, ready, waited, result, workerVars, dpc,
                   wake, shut>>

(* first select, timer branch: a started job is awaited without the context;
   otherwise the timeout is reported once the deferred cancel has run *)
TimerFires(j) ==
    /\ sub[j] = "waiting"
    /\ j \in waited
    /\ \/ /\ j \in started
          /\ sub' = [sub EXCEPT ![j] = "awaiting"]
          /\ UNCHANGED ret
       \/ /\ j \notin started
          /\ sub' = [sub EXCEPT ![j] = "timedOut"]
          /\ ret' = [ret EXCEPT ![j] = "waitTimeout"]
    /\ UNCHANGED <<queue, ahead, owed, ready, waited, ctxDone, result, workerVars,
                   dpc, wake, shut>>

DeferredCancel(j) ==
    /\ sub[j] = "timedOut"
    /\ Return(j, "waitTimeout")
    /\ UNCHANGED <<queue, ahead, owed, ready, waited, result, workerVars, dpc,
                   wake, shut>>

(* first select, started branch *)
SeeStarted(j) ==
    /\ sub[j] = "waiting"
    /\ j \in started
    /\ sub' = [sub EXCEPT ![j] = "running"]
    /\ UNCHANGED <<queue, ahead, owed, ret, ready, waited, ctxDone, result,
                   workerVars, dpc, wake, shut>>

-----------------------------------------------------------------------------
(* Time and the outer context. *)

CtxEnds(j) ==
    /\ j \in Disturbed
    /\ Pending(j)
    /\ j \notin ctxDone
    /\ ctxDone' = ctxDone \cup {j}
    /\ UNCHANGED <<queue, ahead, owed, callVars, result, workerVars, dpc, wake, shut>>

WaitElapses(j) ==
    /\ j \in Disturbed
    /\ j \in ready
    /\ j \notin waited
    /\ j \in queue \/ sub[j] = "waiting"
    /\ waited' = waited \cup {j}
    /\ UNCHANGED <<queue, ahead, owed, sub, ret, ready, ctxDone, result, workerVars,
                   dpc, wake, shut>>

-----------------------------------------------------------------------------
(* The dispatcher. *)

Expired == {j \in queue \cap ready : j \in ctxDone \cup waited}

(* lock; every dispatchable job that is too late is answered and removed *)
Sweep ==
    /\ dpc = "sweep"
    /\ queue' = queue \ Expired
    /\ result' = [j \in Jobs |-> IF j \notin Expired THEN result[j]
                                 ELSE IF j \in ctxDone THEN "ctx" ELSE "waitTimeout"]
    /\ ctxDone' = ctxDone \cup Expired
    /\ dpc' = "start"
    /\ UNCHANGED <<ahead, owed, callVars, workerVars, wake, shut>>

(* Mutants of Startable: a busy key, or a job still in its callback, is accepted. *)
StartableBusyKey == queue \cap ready

StartableUnready == {j \in queue : KeyOf[j] \notin active}

Startable == {j \in queue \cap ready : KeyOf[j] \notin active}

(* Mutant of Start: any dispatchable job, not the first one. *)
StartAny(j) ==
    /\ dpc = "start"
    /\ running < MaxRunning
    /\ j \in Startable
    /\ queue' = queue \ {j}
    /\ started' = started \cup {j}
    /\ active' = active \cup {KeyOf[j]}
    /\ running' = running + 1
    /\ worker' = [worker EXCEPT ![j] = "working"]
    /\ UNCHANGED <<ahead, owed, callVars, ctxDone, result, cancelled, dpc, wake, shut>>

(* start the first dispatchable job whose key is idle *)
Start(j) ==
    /\ dpc = "start"
    /\ running < MaxRunning
    /\ j \in Startable
    /\ ahead[j] \cap Startable = {}
    /\ queue' = queue \ {j}
    /\ started' = started \cup {j}
    /\ active' = active \cup {KeyOf[j]}
    /\ running' = running + 1
    /\ worker' = [worker EXCEPT ![j] = "working"]
    /\ UNCHANGED <<ahead, owed, callVars, ctxDone, result, cancelled, dpc, wake, shut>>

(* Mutant of EndPass: an idle dispatcher returns although the queue is open. *)
EndPassWhenIdle ==
    /\ dpc = "start"
    /\ running >= MaxRunning \/ Startable = {}
    /\ dpc' = IF (Closed /\ running = 0) \/ queue = {} THEN "exited" ELSE "asleep"
    /\ UNCHANGED <<queue, ahead, owed, callVars, ctxDone, result, workerVars, wake,
                   shut>>

(* nothing more to start: unlock, and return or wait *)
EndPass ==
    /\ dpc = "start"
    /\ running >= MaxRunning \/ Startable = {}
    /\ dpc' = IF Closed /\ queue = {} /\ running = 0 THEN "exited" ELSE "asleep"
    /\ UNCHANGED <<queue, ahead, owed, callVars, ctxDone, result, workerVars, wake,
                   shut>>

(* Mutant of WakeUp: no ticker. *)
WakeUpBySignal ==
    /\ dpc = "asleep"
    /\ dpc' = "sweep"
    /\ wake
    /\ wake' = FALSE
    /\ UNCHANGED <<queue, ahead, owed, callVars, ctxDone, result, workerVars, shut>>

(* the select at the end of the loop: the wake token or the 100 ms ticker *)
WakeUp ==
    /\ dpc = "asleep"
    /\ dpc' = "sweep"
    /\ \/ wake /\ wake' = FALSE
       \/ UNCHANGED wake
    /\ UNCHANGED <<queue, ahead, owed, callVars, ctxDone, result, workerVars, shut>>

-----------------------------------------------------------------------------
(* The goroutine of a started job. *)

(* work returns; its error is sent on the buffered result channel *)
Work(j) ==
    /\ worker[j] = "working"
    /\ result' = [result EXCEPT ![j] = "work"]
    /\ worker' = [worker EXCEPT ![j] = "sent"]
    /\ UNCHANGED <<queue, ahead, owed, callVars, ctxDone, started, cancelled, active,
                   running, dpc, wake, shut>>

(* Mutant of ReleaseKey: the counter goes down here too. *)
ReleaseKeyAndWorker(j) ==
    /\ Unlocked
    /\ worker[j] = "sent"
    /\ active' = active \ {KeyOf[j]}
    /\ running' = running - 1
    /\ worker' = [worker EXCEPT ![j] = "released"]
    /\ UNCHANGED <<queue, ahead, owed, callVars, ctxDone, result, started, cancelled,
                   dpc, wake, shut>>

(* delete(q.active, job.key) *)
ReleaseKey(j) ==
    /\ Unlocked
    /\ worker[j] = "sent"
    /\ active' = active \ {KeyOf[j]}
    /\ worker' = [worker EXCEPT ![j] = "released"]
    /\ UNCHANGED <<queue, ahead, owed, callVars, ctxDone, result, started, cancelled,
                   running, dpc, wake, shut>>

(* q.running.Done() and q.signal(), before the counter goes down *)
DoneAndSignal(j) ==
    /\ worker[j] = "released"
    /\ worker' = [worker EXCEPT ![j] = "signalled"]
    /\ wake' = TRUE
    /\ UNCHANGED <<queue, ahead, owed, callVars, ctxDone, result, started, cancelled,
                   active, running, dpc, shut>>

(* running-- *)
FreeWorker(j) ==
    /\ Unlocked
    /\ worker[j] = "signalled"
    /\ worker' = [worker EXCEPT ![j] = "exited"]
    /\ running' = running - 1
    /\ UNCHANGED <<queue, ahead, owed, callVars, ctxDone, result, started, cancelled,
                   active, dpc, wake, shut>>

-----------------------------------------------------------------------------
(* Shutdown. *)

(* Mutant of ShutdownBegin: the queue is answered but not emptied. *)
ShutdownKeepsQueue ==
    /\ Unlocked
    /\ shut = "open"
    /\ shut' = "waiting"
    /\ result' = [j \in Jobs |-> IF j \in queue THEN "closed" ELSE result[j]]
    /\ ctxDone' = ctxDone \cup queue
    /\ wake' = TRUE
    /\ UNCHANGED <<queue, ahead, owed, callVars, workerVars, dpc>>

(* closed = true; everything queued, dispatchable or not, is answered *)
ShutdownBegin ==
    /\ Unlocked
    /\ shut = "open"
    /\ shut' = "waiting"
    /\ queue' = {}
    /\ result' = [j \in Jobs |-> IF j \in queue THEN "closed" ELSE result[j]]
    /\ ctxDone' = ctxDone \cup queue
    /\ wake' = TRUE
    /\ UNCHANGED <<ahead, owed, callVars, workerVars, dpc>>

(* Mutants of ShutdownCancel: nothing is cancelled, or nothing is awaited. *)
ShutdownOnlyWaits ==
    /\ Unlocked
    /\ shut = "waiting"
    /\ shut' = "cancelling"
    /\ UNCHANGED <<queue, ahead, owed, callVars, ctxDone, result, workerVars, dpc,
                   wake>>

ShutdownGivesUp ==
    /\ Unlocked
    /\ shut = "waiting"
    /\ shut' = "returned"
    /\ cancelled' = {j \in Jobs : worker[j] \in {"working", "sent"}}
    /\ UNCHANGED <<queue, ahead, owed, callVars, ctxDone, result, started, worker,
                   active, running, dpc, wake>>

(* grace is over: cancel the active work, then keep waiting for it *)
ShutdownCancel ==
    /\ Unlocked
    /\ shut = "waiting"
    /\ shut' = "cancelling"
    /\ cancelled' = {j \in Jobs : worker[j] \in {"working", "sent"}}
    /\ UNCHANGED <<queue, ahead, owed, callVars, ctxDone, result, started, worker,
                   active, running, dpc, wake>>

(* the WaitGroup is at zero *)
ShutdownReturn ==
    /\ shut \in {"waiting", "cancelling"}
    /\ InFlight = {}
    /\ shut' = "returned"
    /\ UNCHANGED <<queue, ahead, owed, callVars, ctxDone, result, workerVars, dpc,
                   wake>>

-----------------------------------------------------------------------------
Submitting(j) ==
    \/ Refuse(j) \/ Reserve(j)
    \/ AcceptFails(j)
    \/ EnqueueGone(j) \/ EnqueueExpired(j) \/ Enqueue(j)
    \/ TakeResult(j) \/ WaitCtxDone(j) \/ RunCtxDone(j)
    \/ TimerFires(j) \/ DeferredCancel(j) \/ SeeStarted(j)

Passing(j) == CtxEnds(j) \/ WaitElapses(j)

Working(j) == Work(j) \/ ReleaseKey(j) \/ DoneAndSignal(j) \/ FreeWorker(j)

Dispatching == Sweep \/ (\E j \in Jobs : Start(j)) \/ EndPass \/ WakeUp

ShuttingDown == ShutdownBegin \/ ShutdownCancel \/ ShutdownReturn

Next ==
    \/ \E j \in Jobs : Submitting(j) \/ Passing(j) \/ Working(j)
    \/ Dispatching
    \/ ShuttingDown

Safety == Init /\ [][Next]_vars

(* A work may hang until its context is done: by its deadline, or by a Shutdown,
   whose grace period ends. *)
WorkInterrupted(j) == j \in ctxDone \cup cancelled /\ Work(j)

(* What goroutines do by themselves.  Nothing forces calls, callbacks, deadlines,
   timers or a Shutdown, nor a work that hangs. *)
MustRun(j) ==
    \/ EnqueueGone(j) \/ EnqueueExpired(j) \/ Enqueue(j)
    \/ TakeResult(j) \/ WaitCtxDone(j) \/ RunCtxDone(j) \/ DeferredCancel(j)
    \/ WorkInterrupted(j) \/ ReleaseKey(j) \/ DoneAndSignal(j) \/ FreeWorker(j)

(* Fairness: a goroutine that can run does run, and the mutex is starvation-free,
   so that a section that can be entered again and again is entered (strong
   fairness).  A call takes each step at most once, as Shutdown does: one condition
   on all these steps together says the same as one on each. *)
HangingSpec ==
    /\ Safety
    /\ WF_vars(Dispatching)
    /\ SF_vars((\E j \in Jobs : MustRun(j)) \/ ShutdownCancel \/ ShutdownReturn)

-----------------------------------------------------------------------------
(* Properties. *)

TypeOK ==
    /\ queue \subseteq Jobs /\ ready \subseteq Jobs /\ waited \subseteq Jobs
    /\ ctxDone \subseteq Jobs /\ started \subseteq Jobs /\ cancelled \subseteq Jobs
    /\ ahead \in [Jobs -> SUBSET Jobs] /\ owed \in [Jobs -> SUBSET Jobs]
    /\ result \in [Jobs -> Outcomes \cup {"none"}]
    /\ sub \in [Jobs -> {"idle", "accepting", "waiting", "running", "awaiting",
                         "timedOut", "returned"}]
    /\ ret \in [Jobs -> Outcomes \cup {"none", "busy", "acceptErr"}]
    /\ worker \in [Jobs -> {"none", "working", "sent", "released", "signalled",
                            "exited"}]
    /\ active \subseteq {KeyOf[j] : j \in Jobs}
    /\ running \in Nat
    /\ dpc \in {"sweep", "start", "asleep", "exited"}
    /\ wake \in BOOLEAN
    /\ shut \in {"open", "waiting", "cancelling", "returned"}

(* queue.go:32 "preventing overlapping work for a single conversation key": two
   jobs of one key are never between the start of their work and the end of it,
   although a key is released in another section than the counter. *)
KeyExclusion ==
    \A j, k \in Jobs : /\ worker[j] \in {"working", "sent"}
                       /\ worker[k] \in {"working", "sent"}
                       /\ KeyOf[j] = KeyOf[k]
                       => j = k

(* maxQueued and maxRunning hold for the waiting jobs and for the works in
   progress, although the dispatcher counts workers in a variable of its own that
   each goroutine decrements last. *)
CapacityRespected ==
    /\ Cardinality(queue) <= MaxQueued
    /\ Cardinality({j \in Jobs : worker[j] \in {"working", "sent"}}) <= MaxRunning

(* The result channel has room for one value and is written by the sweep (with
   q.mu held), by Shutdown (with q.mu held) and by the job's goroutine.  Whoever
   may still write finds it unwritten: no send ever blocks the mutex holder. *)
SendNeverBlocks ==
    \A j \in Jobs : j \in queue \/ worker[j] = "working" => result[j] = "none"

(* What a caller was told is true and stays true: work reported as done was done,
   and a job refused, rejected by its callback or cut off by Shutdown was never
   started and never will be. *)
OutcomeHonest ==
    \A j \in Jobs :
        /\ ret[j] = "work" => worker[j] \notin {"none", "working"}
        /\ ret[j] \in {"busy", "acceptErr", "closed"} => worker[j] = "none"

(* FIFO per key, in the form the code keeps: a job that was dispatchable when
   another one of its key took its slot is not overtaken by it. *)
NoOvertaking == \A j \in started : owed[j] \cap queue = {}

(* Once Shutdown returned, no work runs and none will: main closes the gateway,
   the search client and the database right after it. *)
QuiescentAfterShutdown ==
    shut = "returned" => \A j \in Jobs : worker[j] \notin {"working", "sent"}

(* The dispatcher returns only when no caller depends on it any more. *)
NobodyStranded ==
    dpc = "exited" =>
        /\ queue = {}
        /\ \A j \in Jobs : sub[j] \in {"waiting", "running", "awaiting"}
                           => result[j] # "none"

(* Both: what has ended leaves nobody behind. *)
EndsClean == NobodyStranded /\ QuiescentAfterShutdown

(* If works do not hang, every call of SubmitWithAccepted whose callback returns is
   answered, with no help from deadline, timer or Shutdown: a worker signals before
   it decrements the counter, so that the wake-up can be consumed too early, and
   only the ticker repairs that. *)
EveryCallReturns ==
    WF_vars(\E j \in Jobs : Work(j)) => \A j \in Jobs : Pending(j) ~> (sub[j] = "returned")

(* Shutdown returns even if works hang until they are cancelled, and then the
   dispatcher ends too and every caller past its callback has its answer. *)
ShutdownCompletes ==
    (shut = "waiting") ~> /\ shut = "returned"
                          /\ dpc = "exited"
                          /\ \A j \in Jobs : sub[j] \in {"idle", "accepting", "returned"}

-----------------------------------------------------------------------------
(* The abstract executor this queue implements. *)
Phase(j) ==
    CASE j \in queue /\ j \in ready                       -> "ready"
      [] j \in queue /\ j \notin ready                    -> "reserved"
      [] j \notin queue /\ worker[j] \in {"working", "sent"} -> "running"
      [] j \notin queue /\ worker[j] \in {"released", "signalled", "exited"} -> "done"
      [] j \notin queue /\ worker[j] = "none" /\ sub[j] = "idle" -> "new"
      [] OTHER                                            -> "dropped"

Executor == INSTANCE SerialExecutor
            WITH phase <- [j \in Jobs |-> Phase(j)], open <- ~Closed

(* Every step of the queue is a step of SerialExecutor or changes nothing there. *)
ImplementsExecutor == Executor!SSpec

-----------------------------------------------------------------------------
(* What the documentation says and the code does not do. *)

(* queue_test.go:218, TestRequestQueueWaitTimeoutDoesNotStartExpiredWork: a job
   whose caller was told ErrQueueWaitTimeout is not started. *)
ExpiredWorkNotStarted ==
    \A j \in Jobs : ret[j] = "waitTimeout" => worker[j] = "none"
=============================================================================
