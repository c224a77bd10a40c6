------------------------------ MODULE Lifecycle ------------------------------
(***************************************************************************)
(* cmd/zii/main.go from the Gateway's connection to the end of the         *)
(* process, composed with the handlers of the adapter and the request      *)
(* queue.  On a signal main stops intake, waits for the handlers, shuts    *)
(* the queue down and closes what the works use, while messages that the   *)
(* Gateway has delivered, handlers and works go on by themselves.  One     *)
(* grace period of 60 s bounds both waits.  The queue is the executor that *)
(* RequestQueue implements; what a work does is the subject of Delivery.   *)
(***************************************************************************)
EXTENDS SerialExecutor, Sequences

VARIABLES
    main,       \* where run() stands
    grace,      \* graceCtx: "none" yet, "running" or "over"
    held,       \* what main has not closed yet, in the order it will
    handler,    \* where each Handle goroutine stands
    outcome,    \* what Submit returned to it
    cut         \* jobs whose context was cancelled

queueVars == <<phase, owed, open>>
vars == <<queueVars, main, grace, held, handler, outcome, cut>>

Resources == <<"gateway", "search", "llm", "db">>

Init ==
    /\ SInit
    /\ main = "serving"
    /\ grace = "none"
    /\ held = Resources
    /\ handler = [j \in Jobs |-> "idle"]
    /\ outcome = [j \in Jobs |-> "none"]
    /\ cut = {}

-----------------------------------------------------------------------------
(* Handlers. *)

(* a.closed is not set *)
Accepting == main = "serving"

(* Jobs counted by the WaitGroup a.active. *)
Admitted == {j \in Jobs : handler[j] \in {"submitting", "waiting"}}

(* The Gateway hands a message to a goroutine of its own, which may be late. *)
Handle(j) ==
    /\ handler[j] = "idle"
    /\ handler' = [handler EXCEPT ![j] = IF Accepting THEN "submitting" ELSE "ignored"]
    /\ UNCHANGED <<queueVars, main, grace, held, outcome, cut>>

HandlerEnds(j, how) ==
    /\ handler' = [handler EXCEPT ![j] = "done"]
    /\ outcome' = [outcome EXCEPT ![j] = how]
    /\ UNCHANGED <<main, grace, held, cut>>

SubmitRefused(j) ==
    /\ handler[j] = "submitting"
    /\ phase[j] = "new"
    /\ ~open \/ Cardinality(InPhase({"reserved", "ready"})) >= MaxQueued
    /\ SDrop({j})
    /\ HandlerEnds(j, IF open THEN "busy" ELSE "closed")

SubmitReserves(j) ==
    /\ handler[j] = "submitting"
    /\ SReserve(j)
    /\ UNCHANGED <<main, grace, held, handler, outcome, cut>>

SubmitEnqueues(j) ==
    /\ handler[j] = "submitting"
    /\ SEnqueue(j)
    /\ handler' = [handler EXCEPT ![j] = "waiting"]
    /\ UNCHANGED <<main, grace, held, outcome, cut>>

(* The work is over, its deadline has passed, or the job was dropped. *)
SubmitReturns(j) ==
    /\ \/ phase[j] = "done" /\ HandlerEnds(j, "served")
       \/ phase[j] \in {"dropped", "running"} /\ HandlerEnds(j, "timeout")
       \/ phase[j] = "dropped" /\ ~open /\ HandlerEnds(j, "closed")
    /\ j \in Admitted
    /\ UNCHANGED queueVars

-----------------------------------------------------------------------------
(* The queue. *)

StartWork(j) ==
    /\ SStart(j)
    /\ UNCHANGED <<main, grace, held, handler, outcome, cut>>

(* The work returns, by itself or because it was cut. *)
FinishWork(j) ==
    /\ SFinish(j)
    /\ UNCHANGED <<main, grace, held, handler, outcome, cut>>

(* Too long in the queue. *)
ExpireInQueue(j) ==
    /\ phase[j] = "ready"
    /\ SDrop({j})
    /\ UNCHANGED <<main, grace, held, handler, outcome, cut>>

-----------------------------------------------------------------------------
(* run() after the signal. *)

(* Mutant of StopAccepting: the waits are not bounded. *)
StopAcceptingUntimed ==
    /\ main = "serving"
    /\ main' = "waiting"
    /\ UNCHANGED <<queueVars, grace, held, handler, outcome, cut>>

(* StopAccepting; the grace period begins. *)
StopAccepting ==
    /\ main = "serving"
    /\ main' = "waiting"
    /\ grace' = "running"
    /\ UNCHANGED <<queueVars, held, handler, outcome, cut>>

GraceEnds ==
    /\ grace = "running"
    /\ grace' = "over"
    /\ UNCHANGED <<queueVars, main, held, handler, outcome, cut>>

(* Mutant of WaitReturns: main does not wait for the handlers. *)
WaitReturnsAtOnce ==
    /\ main = "waiting"
    /\ main' = "stopping"
    /\ UNCHANGED <<queueVars, grace, held, handler, outcome, cut>>

(* Adapter.Wait; its error is ignored. *)
WaitReturns ==
    /\ main = "waiting"
    /\ Admitted = {} \/ grace = "over"
    /\ main' = "stopping"
    /\ UNCHANGED <<queueVars, grace, held, handler, outcome, cut>>

(* First section of queue.Shutdown. *)
CloseQueue ==
    /\ main = "stopping"
    /\ SClose
    /\ main' = "draining"
    /\ UNCHANGED <<grace, held, handler, outcome, cut>>

(* Mutant of CancelWorks: the works are left alone. *)
CancelNobody ==
    /\ main = "draining" /\ grace = "over"
    /\ main' = "cancelling"
    /\ UNCHANGED <<queueVars, grace, held, handler, outcome, cut>>

(* The grace period ends while works go on. *)
CancelWorks ==
    /\ main = "draining" /\ grace = "over"
    /\ main' = "cancelling"
    /\ cut' = cut \cup InPhase({"running"})
    /\ UNCHANGED <<queueVars, grace, held, handler, outcome>>

(* Mutant of ShutdownReturns: cancelled works are not waited for. *)
ShutdownReturnsEarly ==
    /\ main \in {"draining", "cancelling"}
    /\ InPhase({"running"}) = {} \/ main = "cancelling"
    /\ main' = "closing"
    /\ UNCHANGED <<queueVars, grace, held, handler, outcome, cut>>

ShutdownReturns ==
    /\ main \in {"draining", "cancelling"}
    /\ InPhase({"running"}) = {}
    /\ main' = "closing"
    /\ UNCHANGED <<queueVars, grace, held, handler, outcome, cut>>

(* Gateway (which cancels the handlers' contexts), search, llm, db. *)
CloseNext ==
    /\ main = "closing" /\ held # <<>>
    /\ held' = Tail(held)
    /\ cut' = IF Head(held) = "gateway" THEN Jobs ELSE cut
    /\ UNCHANGED <<queueVars, main, grace, handler, outcome>>

Exit ==
    /\ main = "closing" /\ held = <<>>
    /\ main' = "exited"
    /\ UNCHANGED <<queueVars, grace, held, handler, outcome, cut>>

-----------------------------------------------------------------------------
Main == \/ WaitReturns \/ CloseQueue \/ ShutdownReturns \/ CloseNext \/ Exit

(* The steps of the goroutines, all of which the end of run() kills. *)
Others(j) == \/ Handle(j) \/ SubmitRefused(j) \/ SubmitReserves(j) \/ SubmitEnqueues(j)
             \/ SubmitReturns(j) \/ StartWork(j) \/ FinishWork(j) \/ ExpireInQueue(j)

Next ==
    \/ main # "exited" /\ \E j \in Jobs : Others(j)
    \/ StopAccepting \/ GraceEnds \/ CancelWorks \/ Main

(* Time passes, main runs, and a work whose context is cancelled returns; a *)
(* work that is left alone may hang, and so may handlers.                   *)
LifecycleFairness ==
    /\ WF_vars(Main) /\ WF_vars(CancelWorks) /\ WF_vars(GraceEnds)
    /\ \A j \in Jobs : WF_vars(j \in cut /\ main # "exited" /\ FinishWork(j))

Spec == Init /\ [][Next]_vars /\ LifecycleFairness

-----------------------------------------------------------------------------
TypeOK ==
    /\ phase \in [Jobs -> Phases]
    /\ main \in {"serving", "waiting", "stopping", "draining", "cancelling", "closing",
                 "exited"}
    /\ grace \in {"none", "running", "over"}
    /\ \E n \in 0..Len(Resources) : held = SubSeq(Resources, n + 1, Len(Resources))
    /\ handler \in [Jobs -> {"idle", "submitting", "waiting", "ignored", "done"}]
    /\ outcome \in [Jobs -> {"none", "busy", "closed", "timeout", "served"}]
    /\ cut \subseteq Jobs
    /\ grace = "none" <=> main = "serving"

(* Nothing is closed under a work that may use it: the works record, ask the
   model, search, edit and save up to their very end, and a cancelled work is
   waited for too (main.go:210-214). *)
NothingClosedUnderWork == held # Resources => InPhase({"reserved", "ready", "running"}) = {}

(* A message accepted before the signal is not thrown away for the shutdown as
   long as the grace period lasts: it waits for its turn, runs and is answered,
   whatever it had reached (main.go:206-209). *)
GraceIsForEverybody ==
    grace # "over" => \A j \in Jobs : outcome[j] # "closed"

(* A process that was told to stop stops, even if the works and the handlers hang:
   a work has to return only when its context is cancelled. *)
ShutdownEnds == (main = "waiting") ~> (main = "exited")

(* Violated.  design/zii_Discord_Bot_Orchestrator設計.md:1254: a request that is
   still waiting in the queue when the shutdown begins is cancelled. *)
WaitingRequestsCancelled ==
    [][\A j \in Jobs : main # "serving" => ~(phase[j] = "ready" /\ phase'[j] = "running")]_vars
=============================================================================
