--------------------------- MODULE LifecycleProofs ---------------------------
(***************************************************************************)
(* Nothing is closed under a work and the grace period is for everybody,   *)
(* for every number of messages, keys, slots and workers.                  *)
(***************************************************************************)
EXTENDS Lifecycle, SequenceTheorems, TLAPS

Waiting == {"reserved", "ready"}

Types ==
    /\ phase \in [Jobs -> Phases]
    /\ handler \in [Jobs -> {"idle", "submitting", "waiting", "ignored", "done"}]
    /\ outcome \in [Jobs -> {"none", "busy", "closed", "timeout", "served"}]
    /\ main \in {"serving", "waiting", "stopping", "draining", "cancelling", "closing",
                 "exited"}
    /\ grace \in {"none", "running", "over"}

(* How far main is, against the queue and what is closed. *)
ClosedInv ==
    /\ open <=> main \in {"serving", "waiting", "stopping"}
    /\ ~open => \A j \in Jobs : phase[j] \notin Waiting
    /\ main \in {"closing", "exited"} => \A j \in Jobs : phase[j] # "running"
    /\ held # Resources => main \in {"closing", "exited"}

(* Within the grace period main shuts the queue down only after the last handler
   has ended, and no handler begins after the signal. *)
GraceInv ==
    /\ grace = "none" <=> main = "serving"
    /\ main \notin {"serving", "waiting"} /\ grace # "over" => Admitted = {}
    /\ GraceIsForEverybody

IInv == Types /\ ClosedInv /\ GraceInv

-----------------------------------------------------------------------------
(* The invariant holds when the Gateway is connected. *)
LEMMA InitIInv == Init => IInv
BY DEF Init, SInit, IInv, Types, ClosedInv, GraceInv, GraceIsForEverybody, Admitted,
       Phases, Waiting

(* Every step keeps the types. *)
LEMMA TypeNext == IInv /\ [Next]_vars => Types'
<1> SUFFICES ASSUME IInv, [Next]_vars PROVE Types'
    OBVIOUS
<1> USE DEF IInv, Types, Phases
<1>1. ASSUME NEW j \in Jobs, Others(j) PROVE Types'
    <2>1. CASE Handle(j)
        BY <2>1 DEF Handle, queueVars
    <2>2. CASE SubmitRefused(j)
        BY <2>2 DEF SubmitRefused, SDrop, InPhase, HandlerEnds
    <2>3. CASE SubmitReserves(j)
        BY <2>3 DEF SubmitReserves, SReserve
    <2>4. CASE SubmitEnqueues(j)
        BY <2>4 DEF SubmitEnqueues, SEnqueue
    <2>5. CASE SubmitReturns(j)
        BY <2>5 DEF SubmitReturns, HandlerEnds, queueVars
    <2>6. CASE StartWork(j)
        BY <2>6 DEF StartWork, SStart
    <2>7. CASE FinishWork(j)
        BY <2>7 DEF FinishWork, SFinish
    <2>8. CASE ExpireInQueue(j)
        BY <2>8 DEF ExpireInQueue, SDrop, InPhase
    <2> QED
        BY <1>1, <2>1, <2>2, <2>3, <2>4, <2>5, <2>6, <2>7, <2>8 DEF Others
<1>2. CASE StopAccepting \/ GraceEnds \/ CancelWorks
    BY <1>2 DEF StopAccepting, GraceEnds, CancelWorks, queueVars
<1>3. CASE Main
    BY <1>3 DEF Main, WaitReturns, CloseQueue, SClose, ShutdownReturns, CloseNext, Exit,
                queueVars
<1>4. CASE UNCHANGED vars
    BY <1>4 DEF vars, queueVars
<1> QED
    BY <1>1, <1>2, <1>3, <1>4 DEF Next

(* A job that waits, or runs, after a step did so before, or a step of the queue
   brought it there, which needs an open queue or a waiting job. *)
LEMMA ClosedNext == IInv /\ [Next]_vars => ClosedInv'
<1> SUFFICES ASSUME IInv, [Next]_vars PROVE ClosedInv'
    OBVIOUS
<1> USE DEF IInv, Types, ClosedInv, Waiting
<1>1. ASSUME NEW j \in Jobs, Others(j), main # "exited" PROVE ClosedInv'
    <2>1. CASE Handle(j)
        BY <2>1 DEF Handle, queueVars
    <2>2. CASE SubmitRefused(j)
        BY <2>2 DEF SubmitRefused, SDrop, InPhase, HandlerEnds
    <2>3. CASE SubmitReserves(j)
        BY <2>3 DEF SubmitReserves, SReserve
    <2>4. CASE SubmitEnqueues(j)
        BY <2>4 DEF SubmitEnqueues, SEnqueue
    <2>5. CASE SubmitReturns(j)
        BY <2>5 DEF SubmitReturns, HandlerEnds, queueVars
    <2>6. CASE StartWork(j)
        BY <2>6 DEF StartWork, SStart
    <2>7. CASE FinishWork(j)
        BY <2>7 DEF FinishWork, SFinish
    <2>8. CASE ExpireInQueue(j)
        BY <2>8 DEF ExpireInQueue, SDrop, InPhase
    <2> QED
        BY <1>1, <2>1, <2>2, <2>3, <2>4, <2>5, <2>6, <2>7, <2>8 DEF Others
<1>2. CASE StopAccepting \/ GraceEnds \/ CancelWorks
    BY <1>2 DEF StopAccepting, GraceEnds, CancelWorks, queueVars
<1>3. CASE WaitReturns
    BY <1>3 DEF WaitReturns, queueVars
<1>4. CASE CloseQueue
    BY <1>4 DEF CloseQueue, SClose
<1>5. CASE ShutdownReturns
    BY <1>5 DEF ShutdownReturns, InPhase, queueVars
<1>6. CASE CloseNext \/ Exit
    BY <1>6 DEF CloseNext, Exit, queueVars
<1>7. CASE UNCHANGED vars
    BY <1>7 DEF vars, queueVars
<1> QED
    BY <1>1, <1>2, <1>3, <1>4, <1>5, <1>6, <1>7 DEF Next, Main

(* Only a handler that is under way learns that the queue is closed. *)
LEMMA GraceNext == IInv /\ [Next]_vars => GraceInv'
<1> SUFFICES ASSUME IInv, [Next]_vars PROVE GraceInv'
    OBVIOUS
<1> USE DEF IInv, Types, GraceInv, GraceIsForEverybody, Admitted
<1>1. ASSUME NEW j \in Jobs, Others(j) PROVE GraceInv'
    <2>1. CASE Handle(j)
        BY <2>1 DEF Handle, Accepting
    <2>2. CASE SubmitRefused(j)
        <3>1. open \/ grace = "over"
            BY <2>2 DEF SubmitRefused, ClosedInv
        <3> QED
            BY <2>2, <3>1 DEF SubmitRefused, HandlerEnds
    <2>3. CASE SubmitReserves(j)
        BY <2>3 DEF SubmitReserves
    <2>4. CASE SubmitEnqueues(j)
        BY <2>4 DEF SubmitEnqueues
    <2>5. CASE SubmitReturns(j)
        <3>1. open \/ grace = "over"
            BY <2>5 DEF SubmitReturns, ClosedInv
        <3> QED
            BY <2>5, <3>1 DEF SubmitReturns, HandlerEnds
    <2>6. CASE StartWork(j) \/ FinishWork(j) \/ ExpireInQueue(j)
        BY <2>6 DEF StartWork, FinishWork, ExpireInQueue
    <2> QED
        BY <1>1, <2>1, <2>2, <2>3, <2>4, <2>5, <2>6 DEF Others
<1>2. CASE StopAccepting \/ GraceEnds \/ CancelWorks
    BY <1>2 DEF StopAccepting, GraceEnds, CancelWorks
<1>3. CASE Main
    BY <1>3 DEF Main, WaitReturns, CloseQueue, ShutdownReturns, CloseNext, Exit
<1>4. CASE UNCHANGED vars
    BY <1>4 DEF vars
<1> QED
    BY <1>1, <1>2, <1>3, <1>4 DEF Next

(* The inductive invariant holds in every reachable state. *)
THEOREM InductiveInvariant == Spec => []IInv
<1>1. IInv /\ [Next]_vars => IInv'
    BY TypeNext, ClosedNext, GraceNext DEF IInv
<1> QED
    BY InitIInv, <1>1, PTL DEF Spec

-----------------------------------------------------------------------------
(* What the works use is closed only when no work runs and none will (main.go
   210-214). *)
THEOREM NoWorkLosesItsMeans == Spec => []NothingClosedUnderWork
<1>1. IInv => NothingClosedUnderWork
    BY DEF IInv, ClosedInv, NothingClosedUnderWork, InPhase, Waiting
<1> QED
    BY InductiveInvariant, <1>1, PTL

(* Within the grace period no accepted message is thrown away for the shutdown
   (main.go 206-209). *)
THEOREM GraceForAll == Spec => []GraceIsForEverybody
<1>1. IInv => GraceIsForEverybody
    BY DEF IInv, GraceInv
<1> QED
    BY InductiveInvariant, <1>1, PTL

(* main closes the resources in their order, one by one. *)
HeldInv ==
    /\ \E n \in 0 .. Len(Resources) : held = SubSeq(Resources, n + 1, Len(Resources))
    /\ cut \subseteq Jobs

(* The resources are a sequence. *)
LEMMA ResourcesSeq ==
    Resources \in Seq({"gateway", "search", "llm", "db"}) /\ Len(Resources) = 4
BY DEF Resources

(* Only CloseNext closes anything, the first that is left. *)
LEMMA HeldNext == HeldInv /\ [Next]_vars => HeldInv'
<1> SUFFICES ASSUME HeldInv, [Next]_vars PROVE HeldInv'
    OBVIOUS
<1>1. CASE CloseNext
    <2>1. cut' \subseteq Jobs /\ held # <<>> /\ held' = Tail(held)
        BY <1>1 DEF CloseNext, HeldInv
    <2>2. PICK n \in 0 .. 4 : held = SubSeq(Resources, n + 1, 4)
        BY ResourcesSeq DEF HeldInv
    <2>3. n # 4
        <3>1. SubSeq(Resources, 5, 4) = <<>>
            BY SubSeqEmpty
        <3> QED
            BY <2>1, <2>2, <3>1
    <2>4. n + 1 \in 1 .. Len(Resources) /\ Len(Resources) \in n + 1 .. Len(Resources)
        BY <2>3, ResourcesSeq
    <2>5. Tail(SubSeq(Resources, n + 1, Len(Resources)))
            = SubSeq(Resources, (n + 1) + 1, Len(Resources))
        BY <2>4, ResourcesSeq, HeadTailOfSubSeq
    <2>6. held' = SubSeq(Resources, (n + 1) + 1, 4) /\ n + 1 \in 0 .. 4
        BY <2>1, <2>2, <2>3, <2>5, ResourcesSeq
    <2> QED
        BY <2>1, <2>6, ResourcesSeq DEF HeldInv
<1>2. CASE CancelWorks
    BY <1>2 DEF CancelWorks, InPhase, HeldInv
<1>3. CASE UNCHANGED <<held, cut>>
    BY <1>3 DEF HeldInv
<1>4. CASE WaitReturns \/ CloseQueue \/ ShutdownReturns \/ Exit \/ StopAccepting \/ GraceEnds
    BY <1>3, <1>4 DEF WaitReturns, CloseQueue, ShutdownReturns, Exit, StopAccepting, GraceEnds
<1>5. ASSUME NEW j \in Jobs, Others(j) PROVE HeldInv'
    <2>1. CASE Handle(j) \/ SubmitRefused(j)
        BY <1>3, <2>1 DEF Handle, SubmitRefused, HandlerEnds
    <2>2. CASE SubmitReserves(j) \/ SubmitEnqueues(j)
        BY <1>3, <2>2 DEF SubmitReserves, SubmitEnqueues
    <2>3. CASE SubmitReturns(j)
        BY <1>3, <2>3 DEF SubmitReturns, HandlerEnds
    <2>4. CASE StartWork(j) \/ FinishWork(j) \/ ExpireInQueue(j)
        BY <1>3, <2>4 DEF StartWork, FinishWork, ExpireInQueue
    <2> QED
        BY <1>5, <2>1, <2>2, <2>3, <2>4 DEF Others
<1>6. CASE UNCHANGED vars
    BY <1>3, <1>6 DEF vars
<1> QED
    BY <1>1, <1>2, <1>4, <1>5, <1>6 DEF Next, Main

(* Type correctness; what is held is always the rest of the list. *)
THEOREM TypeCorrect == Spec => []TypeOK
<1>1. Init => HeldInv
    <2>1. SubSeq(Resources, 1, Len(Resources)) = Resources
        BY ResourcesSeq, SubSeqFull
    <2>2. 0 \in 0 .. Len(Resources) /\ 0 + 1 = 1
        BY ResourcesSeq
    <2>3. Init => held = Resources /\ cut = {}
        BY DEF Init
    <2> QED
        BY <2>1, <2>2, <2>3 DEF HeldInv
<1>2. IInv /\ HeldInv => TypeOK
    BY DEF IInv, Types, GraceInv, HeldInv, TypeOK
<1>3. Spec => []HeldInv
    BY <1>1, HeldNext, PTL DEF Spec
<1> QED
    BY <1>2, <1>3, InductiveInvariant, PTL

-----------------------------------------------------------------------------
(* Handlers, workers and main use the queue as its executor allows: the shutdown closes it
   once and no handler submits behind it; with QueueImplementsExecutor of RequestQueueProofs,
   what holds of them holds above the real queue. *)
THEOREM ShutdownUsesExecutor == Spec => SSpec
<1>1. Init => SInit
    BY DEF Init
<1>2. [Next]_vars => [SNext]_svars
    <2> SUFFICES ASSUME [Next]_vars PROVE [SNext]_svars
        OBVIOUS
    <2>1. ASSUME NEW j \in Jobs, Others(j) PROVE [SNext]_svars
        <3>1. CASE SubmitRefused(j) \/ ExpireInQueue(j)
            <4>1. SDrop({j})
                BY <3>1 DEF SubmitRefused, ExpireInQueue
            <4> QED
                BY <4>1 DEF SNext
        <3>2. CASE SubmitReserves(j) \/ SubmitEnqueues(j) \/ StartWork(j) \/ FinishWork(j)
            BY <3>2 DEF SubmitReserves, SubmitEnqueues, StartWork, FinishWork, SNext
        <3>3. CASE Handle(j) \/ SubmitReturns(j)
            BY <3>3 DEF Handle, SubmitReturns, queueVars, svars
        <3> QED
            BY <2>1, <3>1, <3>2, <3>3 DEF Others
    <2>2. CASE CloseQueue
        BY <2>2 DEF CloseQueue, SNext
    <2>3. CASE WaitReturns \/ ShutdownReturns \/ CloseNext \/ Exit
        BY <2>3 DEF WaitReturns, ShutdownReturns, CloseNext, Exit, queueVars, svars
    <2>4. CASE StopAccepting \/ GraceEnds \/ CancelWorks \/ UNCHANGED vars
        BY <2>4 DEF StopAccepting, GraceEnds, CancelWorks, vars, queueVars, svars
    <2> QED
        BY <2>1, <2>2, <2>3, <2>4 DEF Next, Main
<1> QED
    BY <1>1, <1>2, PTL DEF Spec, SSpec
=============================================================================
