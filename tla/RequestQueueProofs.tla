------------------------- MODULE RequestQueueProofs -------------------------
(***************************************************************************)
(* The queue keeps its promises for every number of calls, keys, slots and *)
(* workers: type correctness, the inductive invariant IInv and what        *)
(* follows from it, and the refinement of SerialExecutor.                  *)
(***************************************************************************)
EXTENDS RequestQueue, FiniteSetTheorems, TLAPS

(* Jobs whose goroutine still counts in the dispatcher's counter. *)
Busy == {j \in Jobs : worker[j] \in {"working", "sent", "released", "signalled"}}

(* Jobs whose key is held. *)
Holding == {j \in Jobs : worker[j] \in {"working", "sent"}}

(* What one job's flags, channel, caller and goroutine know of each other. *)
JobInv(j) ==
    /\ sub[j] = "idle" => /\ j \notin queue /\ j \notin ready
                          /\ worker[j] = "none" /\ result[j] = "none"
                          /\ ret[j] = "none"
    /\ sub[j] = "accepting" => j \notin ready /\ worker[j] = "none" /\ ret[j] = "none"
    /\ j \in queue => worker[j] = "none" /\ result[j] = "none"
    /\ j \in started <=> worker[j] # "none"
    /\ result[j] = "work" <=> worker[j] \notin {"none", "working"}
    /\ worker[j] # "none" => result[j] \in {"none", "work"}
    /\ sub[j] \in {"waiting", "running", "awaiting"} =>
         /\ ret[j] = "none"
         /\ result[j] # "none" \/ j \in queue \/ worker[j] = "working"
    /\ sub[j] = "timedOut" => ret[j] = "waitTimeout"
    /\ ret[j] \in {"busy", "acceptErr", "closed"} => worker[j] = "none" /\ j \notin queue
    /\ ret[j] = "work" => result[j] = "work"

KeyInv == /\ \A j \in Holding : KeyOf[j] \in active
          /\ KeyExclusion

CountInv == /\ running = Cardinality(Busy)
            /\ running <= MaxRunning
            /\ Cardinality(queue) <= MaxQueued

OrderInv == /\ \A j \in Jobs : \A k \in owed[j] :
                 k \in ahead[j] /\ k \in ready /\ KeyOf[k] = KeyOf[j]
            /\ NoOvertaking

ShutInv == /\ Closed => queue = {}
           /\ shut = "returned" => InFlight = {}
           /\ dpc = "exited" => Closed /\ running = 0

IInv == /\ TypeOK
        /\ \A j \in Jobs : JobInv(j)
        /\ KeyInv
        /\ CountInv
        /\ OrderInv
        /\ ShutInv

-----------------------------------------------------------------------------
(* The invariant holds in the initial state. *)
LEMMA InitIInv == Init => IInv
<1> SUFFICES ASSUME Init PROVE IInv
    OBVIOUS
<1>1. TypeOK
    BY DEF Init, TypeOK, Outcomes
<1>2. ASSUME NEW j \in Jobs PROVE JobInv(j)
    BY DEF Init, JobInv
<1>3. KeyInv
    BY DEF Init, KeyInv, KeyExclusion, Holding
<1>4. CountInv
    <2>1. Busy = {}
        BY DEF Init, Busy
    <2>2. Cardinality({}) = 0
        BY FS_EmptySet
    <2> QED
        BY <2>1, <2>2, QueueAssumption DEF Init, CountInv
<1>5. OrderInv
    BY DEF Init, OrderInv, NoOvertaking
<1>6. ShutInv
    BY DEF Init, ShutInv, Closed
<1> QED
    BY <1>1, <1>2, <1>3, <1>4, <1>5, <1>6 DEF IInv

(* The dispatcher's counter is the number of busy goroutines. *)
LEMMA BusyCounted ==
    ASSUME IInv, NEW j \in Busy
    PROVE  /\ IsFiniteSet(Busy)
           /\ running - 1 \in Nat
           /\ Cardinality(Busy \ {j}) = running - 1
<1>1. IsFiniteSet(Busy)
    BY QueueAssumption, FS_Subset DEF Busy
<1>2. Cardinality(Busy \ {j}) = Cardinality(Busy) - 1
    BY <1>1, FS_RemoveElement
<1>3. Cardinality(Busy \ {j}) \in Nat
    BY <1>1, FS_RemoveElement, FS_CardinalityType
<1> QED
    BY <1>1, <1>2, <1>3 DEF IInv, CountInv

(* Sets of busy jobs are finite, so that they can be counted. *)
LEMMA BusyFinite == IsFiniteSet(Busy) /\ IsFiniteSet(Holding)
    BY QueueAssumption, FS_Subset DEF Busy, Holding

(* Every step keeps the types. *)
LEMMA TypeNext == IInv /\ [Next]_vars => TypeOK'
<1> SUFFICES ASSUME IInv, [Next]_vars PROVE TypeOK'
    OBVIOUS
<1>0. TypeOK
    BY DEF IInv
<1> USE <1>0 DEF TypeOK, Outcomes, callVars, workerVars
<1>1. ASSUME NEW j \in Jobs, Submitting(j) PROVE TypeOK'
    <2>1. CASE Refuse(j)
        BY <2>1 DEF Refuse
    <2>2. CASE Reserve(j)
        BY <2>2 DEF Reserve
    <2>3. CASE AcceptFails(j)
        <3> DEFINE r == CASE j \in queue -> "acceptErr"
                          [] j \notin queue /\ Closed -> "closed"
                          [] j \notin queue /\ ~Closed /\ result[j] # "none" -> result[j]
                          [] OTHER -> "acceptErr"
        <3>1. r \in Outcomes \cup {"none", "busy", "acceptErr"}
            OBVIOUS
        <3>2. Return(j, r)
            BY <2>3 DEF AcceptFails
        <3> HIDE DEF r
        <3> QED
            BY <2>3, <3>1, <3>2 DEF AcceptFails, Return
    <2>4. CASE EnqueueGone(j)
        BY <2>4 DEF EnqueueGone, Return
    <2>5. CASE EnqueueExpired(j)
        BY <2>5 DEF EnqueueExpired, Return
    <2>6. CASE Enqueue(j)
        BY <2>6 DEF Enqueue
    <2>7. CASE TakeResult(j)
        BY <2>7 DEF TakeResult, Return
    <2>8. CASE WaitCtxDone(j)
        BY <2>8 DEF WaitCtxDone, Return
    <2>9. CASE RunCtxDone(j)
        BY <2>9 DEF RunCtxDone, Return
    <2>10. CASE TimerFires(j)
        BY <2>10 DEF TimerFires
    <2>11. CASE DeferredCancel(j)
        BY <2>11 DEF DeferredCancel, Return
    <2>12. CASE SeeStarted(j)
        BY <2>12 DEF SeeStarted
    <2> QED
        BY <1>1, <2>1, <2>2, <2>3, <2>4, <2>5, <2>6, <2>7, <2>8, <2>9, <2>10, <2>11,
           <2>12 DEF Submitting
<1>2. ASSUME NEW j \in Jobs, Passing(j) PROVE TypeOK'
    BY <1>2 DEF Passing, CtxEnds, WaitElapses
<1>3. ASSUME NEW j \in Jobs, Working(j) PROVE TypeOK'
    <2>1. CASE Work(j)
        BY <2>1 DEF Work
    <2>2. CASE ReleaseKey(j)
        BY <2>2 DEF ReleaseKey
    <2>3. CASE DoneAndSignal(j)
        BY <2>3 DEF DoneAndSignal
    <2>4. CASE FreeWorker(j)
        <3>1. running - 1 \in Nat
            BY <2>4, BusyCounted DEF FreeWorker, Busy
        <3> QED
            BY <2>4, <3>1 DEF FreeWorker
    <2> QED
        BY <1>3, <2>1, <2>2, <2>3, <2>4 DEF Working
<1>4. ASSUME Dispatching PROVE TypeOK'
    <2>1. CASE Sweep
        BY <2>1 DEF Sweep, Expired
    <2>2. ASSUME NEW j \in Jobs, Start(j) PROVE TypeOK'
        BY <2>2 DEF Start, Startable
    <2>3. CASE EndPass
        BY <2>3 DEF EndPass
    <2>4. CASE WakeUp
        BY <2>4 DEF WakeUp
    <2> QED
        BY <1>4, <2>1, <2>2, <2>3, <2>4 DEF Dispatching
<1>5. ASSUME ShuttingDown PROVE TypeOK'
    <2>1. CASE ShutdownBegin
        BY <2>1 DEF ShutdownBegin
    <2>2. CASE ShutdownCancel
        BY <2>2 DEF ShutdownCancel
    <2>3. CASE ShutdownReturn
        BY <2>3 DEF ShutdownReturn
    <2> QED
        BY <1>5, <2>1, <2>2, <2>3 DEF ShuttingDown
<1>6. CASE UNCHANGED vars
    BY <1>6 DEF vars
<1> QED
    BY <1>1, <1>2, <1>3, <1>4, <1>5, <1>6 DEF Next

(* Every step keeps the flags, channel, caller and goroutine of each job consistent. *)
LEMMA JobNext == IInv /\ [Next]_vars => \A k \in Jobs : JobInv(k)'
<1> SUFFICES ASSUME IInv, [Next]_vars, NEW k \in Jobs PROVE JobInv(k)'
    OBVIOUS
<1>0. TypeOK /\ (\A j \in Jobs : JobInv(j)) /\ ShutInv
    BY DEF IInv
<1> USE <1>0 DEF JobInv, TypeOK, Outcomes, callVars, workerVars
<1>1. ASSUME NEW j \in Jobs, Submitting(j) PROVE JobInv(k)'
    <2>1. CASE Refuse(j)
        BY <2>1 DEF Refuse
    <2>2. CASE Reserve(j)
        BY <2>2 DEF Reserve
    <2>3. CASE AcceptFails(j)
        BY <2>3 DEF AcceptFails, Return, ShutInv
    <2>4. CASE EnqueueGone(j)
        BY <2>4 DEF EnqueueGone, Return, ShutInv
    <2>5. CASE EnqueueExpired(j)
        BY <2>5 DEF EnqueueExpired, Return
    <2>6. CASE Enqueue(j)
        BY <2>6 DEF Enqueue
    <2>7. CASE TakeResult(j)
        BY <2>7 DEF TakeResult, Return
    <2>8. CASE WaitCtxDone(j)
        BY <2>8 DEF WaitCtxDone, Return
    <2>9. CASE RunCtxDone(j)
        BY <2>9 DEF RunCtxDone, Return
    <2>10. CASE TimerFires(j)
        BY <2>10 DEF TimerFires
    <2>11. CASE DeferredCancel(j)
        BY <2>11 DEF DeferredCancel, Return
    <2>12. CASE SeeStarted(j)
        BY <2>12 DEF SeeStarted
    <2> QED
        BY <1>1, <2>1, <2>2, <2>3, <2>4, <2>5, <2>6, <2>7, <2>8, <2>9, <2>10,
           <2>11, <2>12 DEF Submitting
<1>2. ASSUME NEW j \in Jobs, Passing(j) PROVE JobInv(k)'
    <2>1. CASE CtxEnds(j)
        BY <2>1 DEF CtxEnds
    <2>2. CASE WaitElapses(j)
        BY <2>2 DEF WaitElapses
    <2> QED
        BY <1>2, <2>1, <2>2 DEF Passing
<1>3. ASSUME NEW j \in Jobs, Working(j) PROVE JobInv(k)'
    <2>1. CASE Work(j)
        BY <2>1 DEF Work
    <2>2. CASE ReleaseKey(j)
        BY <2>2 DEF ReleaseKey
    <2>3. CASE DoneAndSignal(j)
        BY <2>3 DEF DoneAndSignal
    <2>4. CASE FreeWorker(j)
        BY <2>4 DEF FreeWorker
    <2> QED
        BY <1>3, <2>1, <2>2, <2>3, <2>4 DEF Working
<1>4. ASSUME Dispatching PROVE JobInv(k)'
    <2>1. CASE Sweep
        BY <2>1 DEF Sweep, Expired
    <2>2. ASSUME NEW j \in Jobs, Start(j) PROVE JobInv(k)'
        BY <2>2 DEF Start, Startable
    <2>3. CASE EndPass
        BY <2>3 DEF EndPass
    <2>4. CASE WakeUp
        BY <2>4 DEF WakeUp
    <2> QED
        BY <1>4, <2>1, <2>2, <2>3, <2>4 DEF Dispatching
<1>5. ASSUME ShuttingDown PROVE JobInv(k)'
    <2>1. CASE ShutdownBegin
        BY <2>1 DEF ShutdownBegin
    <2>2. CASE ShutdownCancel
        BY <2>2 DEF ShutdownCancel
    <2>3. CASE ShutdownReturn
        BY <2>3 DEF ShutdownReturn
    <2> QED
        BY <1>5, <2>1, <2>2, <2>3 DEF ShuttingDown
<1>6. CASE UNCHANGED vars
    BY <1>6 DEF vars
<1> QED
    BY <1>1, <1>2, <1>3, <1>4, <1>5, <1>6 DEF Next

(* Steps that start nothing, end nothing and append nothing to the queue. *)
Quiet == /\ UNCHANGED <<worker, active, running, started, owed, ahead>>
         /\ queue' \subseteq queue
         /\ ready \subseteq ready'

(* The steps of the module, named one by one. *)
LEMMA NextCases ==
    ASSUME [Next]_vars
    PROVE  \/ Quiet
           \/ \E j \in Jobs : Reserve(j)
           \/ \E j \in Jobs : Start(j)
           \/ \E j \in Jobs : Work(j) \/ ReleaseKey(j) \/ DoneAndSignal(j) \/ FreeWorker(j)
<1> USE DEF Quiet, callVars, workerVars
<1>1. ASSUME NEW j \in Jobs, Submitting(j) PROVE Quiet \/ Reserve(j)
    BY <1>1 DEF Submitting, Refuse, AcceptFails, EnqueueGone, EnqueueExpired,
       Enqueue, TakeResult, WaitCtxDone, RunCtxDone, TimerFires, DeferredCancel,
       SeeStarted
<1>2. ASSUME NEW j \in Jobs, Passing(j) PROVE Quiet
    BY <1>2 DEF Passing, CtxEnds, WaitElapses
<1>3. CASE Sweep \/ EndPass \/ WakeUp
    BY <1>3 DEF Sweep, EndPass, WakeUp
<1>4. CASE ShuttingDown
    BY <1>4 DEF ShuttingDown, ShutdownBegin, ShutdownCancel, ShutdownReturn
<1>5. CASE UNCHANGED vars
    BY <1>5 DEF vars
<1> QED
    BY <1>1, <1>2, <1>3, <1>4, <1>5 DEF Next, Working, Dispatching

(* Keys: only Start takes one, only ReleaseKey gives one back. *)
LEMMA KeyNext == IInv /\ [Next]_vars => KeyInv'
<1> SUFFICES ASSUME IInv, [Next]_vars PROVE KeyInv'
    OBVIOUS
<1>0. TypeOK /\ KeyInv
    BY DEF IInv
<1> USE <1>0 DEF KeyInv, KeyExclusion, Holding, TypeOK
<1>1. CASE Quiet
    BY <1>1 DEF Quiet
<1>2. ASSUME NEW j \in Jobs, Start(j) PROVE KeyInv'
    BY <1>2 DEF Start, Startable, workerVars
<1>3. ASSUME NEW j \in Jobs, Work(j) PROVE KeyInv'
    BY <1>3 DEF Work, workerVars
<1>4. ASSUME NEW j \in Jobs, ReleaseKey(j) PROVE KeyInv'
    BY <1>4 DEF ReleaseKey, workerVars
<1>5. ASSUME NEW j \in Jobs, DoneAndSignal(j) \/ FreeWorker(j) PROVE KeyInv'
    BY <1>5 DEF DoneAndSignal, FreeWorker, workerVars
<1>6. ASSUME NEW j \in Jobs, Reserve(j) PROVE KeyInv'
    BY <1>6 DEF Reserve, workerVars
<1> QED
    BY <1>1, <1>2, <1>3, <1>4, <1>5, <1>6, NextCases

(* Counters: Start increments, FreeWorker decrements; Reserve adds to the queue. *)
LEMMA CountNext == IInv /\ [Next]_vars => CountInv'
<1> SUFFICES ASSUME IInv, [Next]_vars PROVE CountInv'
    OBVIOUS
<1>0. TypeOK /\ CountInv /\ IsFiniteSet(Busy) /\ IsFiniteSet(queue)
    BY BusyFinite, QueueAssumption, FS_Subset DEF IInv, TypeOK
<1>1. queue' \subseteq queue => Cardinality(queue') <= MaxQueued
    <2> SUFFICES ASSUME queue' \subseteq queue PROVE Cardinality(queue') <= MaxQueued
        OBVIOUS
    <2>1. Cardinality(queue') <= Cardinality(queue) /\ IsFiniteSet(queue')
        BY <1>0, FS_Subset
    <2>2. Cardinality(queue') \in Nat /\ Cardinality(queue) \in Nat
        BY <1>0, <2>1, FS_CardinalityType
    <2> QED
        BY <1>0, <2>1, <2>2, QueueAssumption DEF CountInv
<1>2. CASE Quiet
    <2>1. Busy' = Busy
        BY <1>2 DEF Busy, Quiet
    <2> QED
        BY <1>0, <1>1, <1>2, <2>1 DEF CountInv, Quiet
<1>3. ASSUME NEW j \in Jobs, Reserve(j) PROVE CountInv'
    <2>1. Busy' = Busy /\ running' = running
        BY <1>3 DEF Reserve, Busy, workerVars
    <2>2. j \notin queue
        BY <1>3 DEF Reserve, IInv, JobInv
    <2>3. Cardinality(queue') = Cardinality(queue) + 1
        BY <1>0, <1>3, <2>2, FS_AddElement DEF Reserve
    <2>4. Cardinality(queue) \in Nat
        BY <1>0, FS_CardinalityType
    <2> QED
        BY <1>0, <1>3, <2>1, <2>3, <2>4, QueueAssumption DEF CountInv, Reserve
<1>4. ASSUME NEW j \in Jobs, Start(j) PROVE CountInv'
    <2>1. j \notin Busy
        BY <1>4 DEF Start, Startable, Busy, IInv, JobInv
    <2>2. Busy' = Busy \cup {j}
        BY <1>0, <1>4 DEF Start, Busy, TypeOK
    <2>3. Cardinality(Busy') = Cardinality(Busy) + 1
        BY <1>0, <2>1, <2>2, FS_AddElement
    <2>4. queue' \subseteq queue /\ running' = running + 1 /\ running < MaxRunning
        BY <1>4 DEF Start
    <2> QED
        BY <1>0, <1>1, <2>3, <2>4, QueueAssumption DEF CountInv, TypeOK
<1>5. ASSUME NEW j \in Jobs, Work(j) \/ ReleaseKey(j) \/ DoneAndSignal(j)
      PROVE CountInv'
    <2>1. Busy' = Busy
        BY <1>0, <1>5 DEF Work, ReleaseKey, DoneAndSignal, Busy, TypeOK
    <2> QED
        BY <1>0, <1>5, <2>1 DEF CountInv, Work, ReleaseKey, DoneAndSignal
<1>6. ASSUME NEW j \in Jobs, FreeWorker(j) PROVE CountInv'
    <2>1. j \in Busy /\ running' = running - 1 /\ queue' = queue
        BY <1>6 DEF FreeWorker, Busy
    <2>2. Busy' = Busy \ {j}
        BY <1>0, <1>6 DEF FreeWorker, Busy, TypeOK
    <2>3. Cardinality(Busy') = running - 1
        BY <2>1, <2>2, BusyCounted
    <2> QED
        BY <1>0, <2>1, <2>3, QueueAssumption DEF CountInv, TypeOK
<1> QED
    BY <1>2, <1>3, <1>4, <1>5, <1>6, NextCases

(* Order: Reserve records whom a job may not overtake, Start respects it. *)
LEMMA OrderNext == IInv /\ [Next]_vars => OrderInv'
<1> SUFFICES ASSUME IInv, [Next]_vars PROVE OrderInv'
    OBVIOUS
<1>0. TypeOK /\ OrderInv /\ KeyInv /\ \A j \in Jobs : JobInv(j)
    BY DEF IInv
<1> USE <1>0 DEF OrderInv, NoOvertaking, TypeOK
<1>1. CASE Quiet
    BY <1>1 DEF Quiet
<1>2. ASSUME NEW j \in Jobs, Reserve(j) PROVE OrderInv'
    <2>1. j \notin ready /\ j \notin started /\ j \notin queue
        BY <1>2 DEF Reserve, JobInv
    <2>2. UNCHANGED <<ready, started>> /\ queue' = queue \cup {j}
        BY <1>2 DEF Reserve, workerVars
    <2>3. ASSUME NEW i \in Jobs, NEW k \in owed'[i]
          PROVE k \in ahead'[i] /\ k \in ready' /\ KeyOf[k] = KeyOf[i]
        BY <1>2, <2>2 DEF Reserve
    <2>4. NoOvertaking'
        <3> SUFFICES ASSUME NEW i \in started PROVE owed'[i] \cap queue' = {}
            BY <2>2
        <3>1. i # j /\ i \in Jobs /\ owed'[i] = owed[i] /\ j \notin owed[i]
            BY <1>2, <2>1 DEF Reserve
        <3> QED
            BY <2>2, <3>1
    <2> QED
        BY <2>3, <2>4
<1>3. ASSUME NEW j \in Jobs, Start(j) PROVE OrderInv'
    <2>1. owed[j] \cap queue = {}
        <3> SUFFICES ASSUME NEW k \in owed[j], k \in queue PROVE FALSE
            OBVIOUS
        <3>1. k \in Startable /\ k \in ahead[j]
            BY <1>3 DEF Start, Startable
        <3> QED
            BY <1>3, <3>1 DEF Start
    <2> QED
        BY <1>3, <2>1 DEF Start, callVars
<1>4. ASSUME NEW j \in Jobs,
             Work(j) \/ ReleaseKey(j) \/ DoneAndSignal(j) \/ FreeWorker(j)
      PROVE OrderInv'
    BY <1>4 DEF Work, ReleaseKey, DoneAndSignal, FreeWorker, callVars
<1> QED
    BY <1>1, <1>2, <1>3, <1>4, NextCases

(* Shutdown empties the queue for good; its return and the dispatcher's are final. *)
LEMMA ShutNext == IInv /\ [Next]_vars => ShutInv'
<1> SUFFICES ASSUME IInv, [Next]_vars PROVE ShutInv'
    OBVIOUS
<1>0. TypeOK /\ ShutInv
    BY DEF IInv
<1> USE <1>0 DEF ShutInv, Closed, InFlight, TypeOK, workerVars
<1>1. CASE UNCHANGED vars
    BY <1>1 DEF vars
<1>2. ASSUME NEW j \in Jobs, Submitting(j) \/ Passing(j) PROVE ShutInv'
    <2>1. UNCHANGED <<worker, running, dpc, shut>>
        BY <1>2 DEF Submitting, Passing, Refuse, Reserve, AcceptFails, EnqueueGone,
           EnqueueExpired, Enqueue, TakeResult, WaitCtxDone, RunCtxDone, TimerFires,
           DeferredCancel, SeeStarted, CtxEnds, WaitElapses
    <2>2. Closed => queue' \subseteq queue
        BY <1>2 DEF Submitting, Passing, Refuse, Reserve, AcceptFails, EnqueueGone,
           EnqueueExpired, Enqueue, TakeResult, WaitCtxDone, RunCtxDone, TimerFires,
           DeferredCancel, SeeStarted, CtxEnds, WaitElapses
    <2> QED
        BY <2>1, <2>2
<1>3. ASSUME NEW j \in Jobs, Start(j) PROVE ShutInv'
    BY <1>3 DEF Start, Startable
<1>4. ASSUME NEW j \in Jobs, Work(j) \/ ReleaseKey(j) \/ DoneAndSignal(j) PROVE ShutInv'
    BY <1>4 DEF Work, ReleaseKey, DoneAndSignal
<1>5. ASSUME NEW j \in Jobs, FreeWorker(j) PROVE ShutInv'
    <2>1. j \in Busy
        BY <1>5 DEF FreeWorker, Busy
    <2>2. running - 1 \in Nat
        BY <2>1, BusyCounted
    <2>3. running # 0
        BY <2>2
    <2> QED
        BY <1>5, <2>3 DEF FreeWorker
<1>6. CASE Sweep \/ EndPass \/ WakeUp
    BY <1>6 DEF Sweep, Expired, EndPass, WakeUp
<1>7. CASE ShuttingDown
    BY <1>7 DEF ShuttingDown, ShutdownBegin, ShutdownCancel, ShutdownReturn
<1> QED
    BY <1>1, <1>2, <1>3, <1>4, <1>5, <1>6, <1>7 DEF Next, Working, Dispatching

-----------------------------------------------------------------------------
(* The inductive invariant of the queue, for any number of calls, keys and slots. *)
THEOREM InductiveInvariant == Safety => []IInv
<1>1. IInv /\ [Next]_vars => IInv'
    BY TypeNext, JobNext, KeyNext, CountNext, OrderNext, ShutNext DEF IInv
<1> QED
    BY InitIInv, <1>1, PTL DEF Safety

(* Type correctness of every reachable state. *)
THEOREM TypeCorrect == Safety => []TypeOK
BY InductiveInvariant, PTL DEF IInv

(* No two works of one conversation key overlap. *)
THEOREM KeysExclusive == Safety => []KeyExclusion
<1>1. IInv => KeyExclusion
    BY DEF IInv, KeyInv
<1> QED
    BY <1>1, InductiveInvariant, PTL

(* At most MaxQueued jobs wait and at most MaxRunning works are in progress. *)
THEOREM CapacityHolds == Safety => []CapacityRespected
<1>1. IInv => CapacityRespected
    <2> SUFFICES ASSUME IInv PROVE CapacityRespected
        OBVIOUS
    <2>1. Cardinality(Holding) <= Cardinality(Busy)
        BY BusyFinite, FS_Subset DEF Holding, Busy
    <2>2. Cardinality(Holding) \in Nat /\ Cardinality(Busy) \in Nat
        BY BusyFinite, FS_CardinalityType
    <2>3. Cardinality(Holding) <= MaxRunning
        BY <2>1, <2>2, QueueAssumption DEF IInv, CountInv
    <2> QED
        BY <2>3 DEF IInv, CountInv, CapacityRespected, Holding
<1> QED
    BY <1>1, InductiveInvariant, PTL

(* No send on a result channel can block. *)
THEOREM SendsNeverBlock == Safety => []SendNeverBlocks
<1>1. IInv => SendNeverBlocks
    BY DEF IInv, JobInv, SendNeverBlocks
<1> QED
    BY <1>1, InductiveInvariant, PTL

(* What a caller is told about its job is true, then and later. *)
THEOREM OutcomesHonest == Safety => []OutcomeHonest
<1>1. IInv => OutcomeHonest
    BY DEF IInv, JobInv, OutcomeHonest
<1> QED
    BY <1>1, InductiveInvariant, PTL

(* A job is never overtaken by one that came when it was already dispatchable. *)
THEOREM NobodyOvertaken == Safety => []NoOvertaking
<1>1. IInv => NoOvertaking
    BY DEF IInv, OrderInv
<1> QED
    BY <1>1, InductiveInvariant, PTL

(* After Shutdown no work runs. *)
THEOREM ShutdownIsQuiescent == Safety => []QuiescentAfterShutdown
<1>1. IInv => QuiescentAfterShutdown
    BY DEF IInv, ShutInv, InFlight, QuiescentAfterShutdown
<1> QED
    BY <1>1, InductiveInvariant, PTL

(* When the dispatcher ends, every waiting caller has its answer. *)
THEOREM DispatcherStrandsNobody == Safety => []NobodyStranded
<1>1. IInv => NobodyStranded
    <2> SUFFICES ASSUME IInv, dpc = "exited" PROVE NobodyStranded
        BY DEF NobodyStranded
    <2>1. queue = {} /\ Cardinality(Busy) = 0
        BY DEF IInv, ShutInv, CountInv
    <2>2. Busy = {}
        BY <2>1, BusyFinite, FS_EmptySet
    <2> QED
        BY <2>1, <2>2 DEF IInv, JobInv, Busy, NobodyStranded
<1> QED
    BY <1>1, InductiveInvariant, PTL

(* Neither the dispatcher nor Shutdown leaves anybody behind (queue.go 260 and 290). *)
THEOREM NobodyLeftBehind == Safety => []EndsClean
<1>1. NobodyStranded /\ QuiescentAfterShutdown => EndsClean
    BY DEF EndsClean
<1> QED
    BY <1>1, ShutdownIsQuiescent, DispatcherStrandsNobody, PTL

-----------------------------------------------------------------------------
(* The refinement. *)

AbstractPhase == [j \in Jobs |-> Phase(j)]

(* What the phases of SerialExecutor are in terms of the queue. *)
LEMMA PhaseSets ==
    ASSUME IInv
    PROVE  /\ Executor!InPhase({"reserved", "ready"}) = queue
           /\ Executor!InPhase({"ready"}) = queue \cap ready
           /\ Executor!InPhase({"running"}) = Holding
           /\ \A j \in Jobs : Phase(j) = "new" <=> sub[j] = "idle"
<1>1. \A j \in Jobs : /\ Phase(j) \in {"reserved", "ready"} <=> j \in queue
                      /\ Phase(j) = "ready" <=> j \in queue /\ j \in ready
    BY DEF Phase
<1>2. \A j \in Jobs : Phase(j) = "running" <=> j \in Holding
    BY DEF Phase, Holding, IInv, JobInv
<1>3. \A j \in Jobs : Phase(j) = "new" <=> sub[j] = "idle"
    BY DEF Phase, IInv, JobInv
<1>4. queue \subseteq Jobs
    BY DEF IInv, TypeOK
<1> QED
    BY <1>1, <1>2, <1>3, <1>4 DEF Executor!InPhase, Holding

(* The abstract module counts with the same operator. *)
LEMMA SameCardinality ==
    ASSUME NEW S PROVE Executor!Cardinality(S) = Cardinality(S)
BY DEF Executor!Cardinality, Cardinality

(* A step that moves no job between queue, goroutine and idle callers stutters. *)
LEMMA Stutter ==
    ASSUME AbstractPhase' = AbstractPhase, owed' = owed, Closed' = Closed
    PROVE  UNCHANGED Executor!svars
BY DEF Executor!svars, AbstractPhase

(* Removing what is not there removes nothing. *)
LEMMA SetWithout == \A S, e : e \notin S => S \ {e} = S
OBVIOUS

(* Every step of the queue is a step of SerialExecutor or a stutter. *)
LEMMA StepRefines == IInv /\ IInv' /\ [Next]_vars => [Executor!SNext]_(Executor!svars)
<1> SUFFICES ASSUME IInv, IInv', [Next]_vars
             PROVE  Executor!SNext \/ UNCHANGED Executor!svars
    OBVIOUS
<1>0. TypeOK /\ (\A j \in Jobs : JobInv(j))
    BY DEF IInv
<1> USE <1>0 DEF callVars, workerVars, TypeOK
<1>1. ASSUME NEW j \in Jobs, Submitting(j)
      PROVE  Executor!SNext \/ UNCHANGED Executor!svars
    <2>1. CASE Refuse(j)
        <3>1. Phase(j) = "new" /\ Phase(j)' = "dropped" /\ Closed' = Closed
            BY <2>1, PhaseSets DEF Refuse, Phase, JobInv, Closed
        <3>2. \A k \in Jobs : k # j => Phase(k)' = Phase(k)
            BY <2>1 DEF Refuse, Phase
        <3>3. Executor!SDrop({j})
            BY <2>1, <3>1, <3>2 DEF Refuse, Executor!SDrop, Executor!InPhase
        <3> QED
            BY <3>3 DEF Executor!SNext
    <2>2. CASE Reserve(j)
        <3>1. Phase(j) = "new" /\ Phase(j)' = "reserved" /\ Closed' = Closed
            BY <2>2, PhaseSets DEF Reserve, Phase, JobInv, Closed
        <3>2. \A k \in Jobs : k # j => Phase(k)' = Phase(k)
            BY <2>2 DEF Reserve, Phase
        <3>3. AbstractPhase' = [AbstractPhase EXCEPT ![j] = "reserved"]
            BY <3>1, <3>2 DEF AbstractPhase
        <3>4. owed' = [owed EXCEPT ![j] = Executor!SameKey(j)
                                          \cap Executor!InPhase({"ready"})]
            <4>1. {k \in queue \cap ready : KeyOf[k] = KeyOf[j]}
                  = Executor!SameKey(j) \cap (queue \cap ready)
                BY DEF Executor!SameKey
            <4> QED
                BY <2>2, <4>1, PhaseSets DEF Reserve
        <3>5. Executor!Cardinality(Executor!InPhase({"reserved", "ready"})) < MaxQueued
            BY <2>2, PhaseSets, SameCardinality DEF Reserve
        <3>6. Executor!SReserve(j)
            BY <2>2, <3>1, <3>3, <3>4, <3>5
               DEF Reserve, Executor!SReserve, AbstractPhase
        <3> QED
            BY <3>6 DEF Executor!SNext
    <2>3. CASE (AcceptFails(j) \/ EnqueueExpired(j)) /\ j \in queue
        <3>1. Phase(j) = "reserved" /\ Phase(j)' = "dropped" /\ Closed' = Closed
            BY <2>3 DEF AcceptFails, EnqueueExpired, Return, Phase, JobInv, Closed
        <3>2. \A k \in Jobs : k # j => Phase(k)' = Phase(k)
            BY <2>3 DEF AcceptFails, EnqueueExpired, Return, Phase
        <3>3. Executor!SDrop({j})
            BY <2>3, <3>1, <3>2
               DEF AcceptFails, EnqueueExpired, Executor!SDrop, Executor!InPhase
        <3> QED
            BY <3>3 DEF Executor!SNext
    <2>4. CASE Enqueue(j)
        <3>1. Phase(j) = "reserved" /\ Phase(j)' = "ready" /\ Closed' = Closed
            BY <2>4 DEF Enqueue, Phase, JobInv, Closed
        <3>2. \A k \in Jobs : k # j => Phase(k)' = Phase(k)
            BY <2>4 DEF Enqueue, Phase
        <3>3. AbstractPhase' = [AbstractPhase EXCEPT ![j] = "ready"]
            BY <3>1, <3>2 DEF AbstractPhase
        <3>4. Executor!SEnqueue(j)
            BY <2>4, <3>1, <3>3 DEF Enqueue, Executor!SEnqueue, AbstractPhase
        <3> QED
            BY <3>4 DEF Executor!SNext
    <2>5. CASE \/ (AcceptFails(j) \/ EnqueueExpired(j)) /\ j \notin queue
               \/ EnqueueGone(j) \/ TakeResult(j) \/ WaitCtxDone(j) \/ RunCtxDone(j)
               \/ TimerFires(j) \/ DeferredCancel(j) \/ SeeStarted(j)
        <3>1. UNCHANGED <<queue, ready, worker, owed, shut>>
            BY <2>5, SetWithout DEF AcceptFails, EnqueueExpired, EnqueueGone, TakeResult,
               WaitCtxDone, RunCtxDone, TimerFires, DeferredCancel, SeeStarted, Return
        <3>2. sub[j] # "idle" /\ \E p : p # "idle" /\ sub' = [sub EXCEPT ![j] = p]
            BY <2>5 DEF AcceptFails, EnqueueExpired, EnqueueGone, TakeResult,
               WaitCtxDone, RunCtxDone, TimerFires, DeferredCancel, SeeStarted, Return
        <3>3. \A k \in Jobs : sub'[k] = "idle" <=> sub[k] = "idle"
            BY <3>2
        <3>4. \A k \in Jobs : Phase(k)' = Phase(k)
            BY <3>1, <3>3 DEF Phase
        <3> QED
            BY <3>1, <3>4, Stutter DEF AbstractPhase, Closed
    <2> QED
        BY <1>1, <2>1, <2>2, <2>3, <2>4, <2>5 DEF Submitting
<1>2. ASSUME \/ UNCHANGED vars
             \/ EndPass \/ WakeUp \/ ShutdownCancel \/ ShutdownReturn
             \/ \E j \in Jobs : Passing(j) \/ Work(j) \/ DoneAndSignal(j) \/ FreeWorker(j)
      PROVE  UNCHANGED Executor!svars
    <2>1. UNCHANGED <<queue, ready, sub, owed, Closed>>
        BY <1>2 DEF vars, EndPass, WakeUp, ShutdownCancel, ShutdownReturn, Passing,
           CtxEnds, WaitElapses, Work, DoneAndSignal, FreeWorker, Closed
    <2>2. \A k \in Jobs :
            \/ worker'[k] = worker[k]
            \/ {worker'[k], worker[k]} \subseteq {"working", "sent"}
            \/ {worker'[k], worker[k]} \subseteq {"released", "signalled", "exited"}
        BY <1>2 DEF vars, EndPass, WakeUp, ShutdownCancel, ShutdownReturn, Passing,
           CtxEnds, WaitElapses, Work, DoneAndSignal, FreeWorker
    <2>3. \A k \in Jobs : Phase(k)' = Phase(k)
        BY <2>1, <2>2 DEF Phase
    <2> QED
        BY <2>1, <2>3, Stutter DEF AbstractPhase
<1>3. ASSUME NEW j \in Jobs, Start(j) PROVE Executor!SNext
    <2>1. Phase(j) = "ready" /\ Phase(j)' = "running" /\ Closed' = Closed
        BY <1>3 DEF Start, Startable, Phase, Closed
    <2>2. \A k \in Jobs : k # j => Phase(k)' = Phase(k)
        BY <1>3 DEF Start, Phase
    <2>3. AbstractPhase' = [AbstractPhase EXCEPT ![j] = "running"]
        BY <2>1, <2>2 DEF AbstractPhase
    <2>4. Executor!SameKey(j) \cap Executor!InPhase({"running"}) = {}
        BY <1>3, PhaseSets DEF Start, Startable, IInv, KeyInv, Executor!SameKey, Holding
    <2>5. owed[j] \cap Executor!InPhase({"ready"}) = {}
        <3> SUFFICES ASSUME NEW k \in owed[j], k \in queue, k \in ready PROVE FALSE
            BY PhaseSets
        <3>1. k \in Startable /\ k \in ahead[j]
            BY <1>3 DEF Start, Startable, IInv, OrderInv
        <3> QED
            BY <1>3, <3>1 DEF Start
    <2>6. Executor!Cardinality(Executor!InPhase({"running"})) < MaxRunning
        <3>1. Cardinality(Holding) <= Cardinality(Busy)
            BY BusyFinite, FS_Subset DEF Holding, Busy
        <3>2. Cardinality(Holding) \in Nat /\ Cardinality(Busy) \in Nat
            BY BusyFinite, FS_CardinalityType
        <3> QED
            BY <1>3, <3>1, <3>2, PhaseSets, SameCardinality, QueueAssumption
               DEF Start, IInv, CountInv
    <2>7. Executor!SStart(j)
        BY <1>3, <2>1, <2>3, <2>4, <2>5, <2>6
           DEF Start, Executor!SStart, AbstractPhase
    <2> QED
        BY <2>7 DEF Executor!SNext
<1>4. ASSUME NEW j \in Jobs, ReleaseKey(j) PROVE Executor!SNext
    <2>1. Phase(j) = "running" /\ Phase(j)' = "done" /\ Closed' = Closed
        BY <1>4 DEF ReleaseKey, Phase, JobInv, Closed
    <2>2. \A k \in Jobs : k # j => Phase(k)' = Phase(k)
        BY <1>4 DEF ReleaseKey, Phase
    <2>3. AbstractPhase' = [AbstractPhase EXCEPT ![j] = "done"]
        BY <2>1, <2>2 DEF AbstractPhase
    <2>4. Executor!SFinish(j)
        BY <1>4, <2>1, <2>3 DEF ReleaseKey, Executor!SFinish, AbstractPhase
    <2> QED
        BY <2>4 DEF Executor!SNext
<1>5. CASE Sweep
    <2>1. Closed' = Closed /\ owed' = owed /\ Expired \subseteq Jobs
        BY <1>5 DEF Sweep, Closed, Expired
    <2>2. \A k \in Jobs : Phase(k)' = IF k \in Expired THEN "dropped" ELSE Phase(k)
        BY <1>5 DEF Sweep, Phase, Expired, JobInv
    <2>3. Expired \subseteq Executor!InPhase({"new", "reserved", "ready"})
        BY DEF Expired, Phase, Executor!InPhase
    <2>4. Executor!SDrop(Expired)
        BY <2>1, <2>2, <2>3 DEF Executor!SDrop
    <2> QED
        BY <2>1, <2>4 DEF Executor!SNext
<1>6. CASE ShutdownBegin
    <2>1. Closed' /\ ~Closed /\ owed' = owed
        BY <1>6 DEF ShutdownBegin, Closed
    <2>2. \A k \in Jobs : Phase(k)' = IF Phase(k) \in {"reserved", "ready"}
                                      THEN "dropped" ELSE Phase(k)
        BY <1>6 DEF ShutdownBegin, Phase, JobInv
    <2>3. Executor!SClose
        BY <2>1, <2>2 DEF Executor!SClose
    <2> QED
        BY <2>3 DEF Executor!SNext
<1> QED
    BY <1>1, <1>2, <1>3, <1>4, <1>5, <1>6
       DEF Next, Working, Dispatching, ShuttingDown

(* The request queue implements the abstract executor. *)
THEOREM QueueImplementsExecutor == Safety => ImplementsExecutor
<1>1. Init => Executor!SInit
    BY DEF Init, Executor!SInit, Phase, Closed
<1> QED
    BY <1>1, StepRefines, InductiveInvariant, PTL
       DEF Safety, ImplementsExecutor, Executor!SSpec
=============================================================================
