------------------------------ MODULE Delivery ------------------------------
(***************************************************************************)
(* internal/discordbot/adapter.go Handle composed with Service and the     *)
(* request queue: what a Discord user sees, what the database keeps.       *)
(*                                                                         *)
(* A job is one invocation of Handle: the gateway may deliver a message    *)
(* again, so several jobs can carry the same message.  Two goroutines work *)
(* for a job: the handler, blocked in Submit, and the queue's worker,      *)
(* which registers the question, sends the receipt, generates the answer,  *)
(* edits it in and saves it.  They share processingReply.  The queue is    *)
(* the executor that RequestQueue implements (QueueImplementsExecutor).    *)
(* ctxDone[j] stands for the request context: deadline, cancel() after a   *)
(* queue timeout, cancellation by Shutdown or by the gateway.              *)
(***************************************************************************)
EXTENDS SerialExecutor

CONSTANTS Deliveries,   \* bound: the ways in which messages are given to jobs
          MayBeCut,     \* bound: the jobs whose context may end
          NetFails      \* bound: whether calls to Discord may fail

ASSUME DeliveryAssumption ==
    /\ MayBeCut \subseteq Jobs
    /\ NetFails \in BOOLEAN
    /\ \A d \in Deliveries : \A i, j \in Jobs : d[i] = d[j] => KeyOf[i] = KeyOf[j]

VARIABLES
    msgOf,      \* the Discord message of each job
    handler,    \* where the handler goroutine stands
    err,        \* what ProcessQueuedWithAccepted returned to it
    worker,     \* where the worker stands
    result,     \* the value in the job's result channel
    ctxDone,    \* the request context is done
    outerDone,  \* the gateway's context is done
    known,      \* processingReply.ID is set
    receipt,    \* text shown by the processing reply: "none" if there is none
    rest,       \* the answer goes on after its first chunk
    extra,      \* the other chunks were posted
    errorMsg,   \* a separate error reply was posted
    netFailed,  \* history: a Discord call of the job failed
    questions,  \* messages with a stored user row
    answers     \* messages with a stored assistant row

queueVars == <<phase, owed, open>>
discordVars == <<receipt, rest, extra, errorMsg, netFailed>>
dbVars == <<questions, answers>>
vars == <<phase, owed, open, msgOf, handler, err, worker, result, ctxDone, outerDone, known,
          receipt, rest, extra, errorMsg, netFailed, questions, answers>>

Silent == {"delivery", "duplicate", "closed"}
Errors == Silent \cup {"busy", "waitTimeout", "ctx", "failed"}

Init ==
    /\ SInit
    /\ msgOf \in Deliveries
    /\ handler = [j \in Jobs |-> "idle"]
    /\ err = [j \in Jobs |-> "none"]
    /\ worker = [j \in Jobs |-> "none"]
    /\ result = [j \in Jobs |-> "none"]
    /\ ctxDone = {}
    /\ outerDone = FALSE
    /\ known = {}
    /\ receipt = [j \in Jobs |-> "none"]
    /\ rest = {}
    /\ extra = {}
    /\ errorMsg = {}
    /\ netFailed = {}
    /\ questions = {}
    /\ answers = {}

-----------------------------------------------------------------------------
(* Handler: admission. *)

Handling(m) == {j \in Jobs : msgOf[j] = m /\ handler[j] \notin {"idle", "done"}}

(* in flight already, rate limited, or closed: dropped without a word *)
Ignore(j) ==
    /\ handler[j] = "idle"
    /\ handler' = [handler EXCEPT ![j] = "done"]
    /\ UNCHANGED <<queueVars, err, worker, result, ctxDone, outerDone, known,
                   discordVars, dbVars, msgOf>>

Handle(j) ==
    /\ handler[j] = "idle"
    /\ Handling(msgOf[j]) = {}
    /\ handler' = [handler EXCEPT ![j] = "submitting"]
    /\ UNCHANGED <<queueVars, err, worker, result, ctxDone, outerDone, known,
                   discordVars, dbVars, msgOf>>

(* Submit returns e to the handler. *)
SubmitReturns(j, e) ==
    /\ handler' = [handler EXCEPT ![j] = "returned"]
    /\ err' = [err EXCEPT ![j] = e]

SubmitRefused(j) ==
    /\ handler[j] = "submitting"
    /\ phase[j] = "new"
    /\ ~open \/ Cardinality(InPhase({"reserved", "ready"})) >= MaxQueued
    /\ SubmitReturns(j, IF open THEN "busy" ELSE "closed")
    /\ SDrop({j})
    /\ UNCHANGED <<worker, result, ctxDone, outerDone, known, discordVars, dbVars, msgOf>>

SubmitReserves(j) ==
    /\ handler[j] = "submitting"
    /\ SReserve(j)
    /\ UNCHANGED <<handler, err, worker, result, ctxDone, outerDone, known,
                   discordVars, dbVars, msgOf>>

SubmitEnqueues(j) ==
    /\ handler[j] = "submitting"
    /\ j \notin ctxDone
    /\ SEnqueue(j)
    /\ handler' = [handler EXCEPT ![j] = "waiting"]
    /\ UNCHANGED <<err, worker, result, ctxDone, outerDone, known, discordVars, dbVars, msgOf>>

(* the context ended, or Shutdown came, between the two sections *)
SubmitTooLate(j) ==
    /\ handler[j] = "submitting"
    /\ \/ /\ phase[j] = "reserved" /\ j \in ctxDone
          /\ SDrop({j})
          /\ SubmitReturns(j, "ctx")
       \/ /\ phase[j] = "dropped"
          /\ SubmitReturns(j, "closed")
          /\ UNCHANGED queueVars
    /\ UNCHANGED <<worker, result, ctxDone, outerDone, known, discordVars, dbVars, msgOf>>

SubmitTakesResult(j) ==
    /\ handler[j] = "waiting"
    /\ result[j] # "none"
    /\ SubmitReturns(j, result[j])
    /\ UNCHANGED <<queueVars, worker, result, ctxDone, outerDone, known, discordVars,
                   dbVars, msgOf>>

(* queue.go:188: once the job has started, a done context may win over a result *)
SubmitSeesCtx(j) ==
    /\ handler[j] = "waiting"
    /\ j \in ctxDone
    /\ result[j] = "none" \/ worker[j] # "none"
    /\ SubmitReturns(j, "ctx")
    /\ UNCHANGED <<queueVars, worker, result, ctxDone, outerDone, known, discordVars,
                   dbVars, msgOf>>

(* the caller's timer, also when a result of the sweep or of Shutdown is there
   already; the deferred cancel ends the context *)
SubmitTimesOut(j) ==
    /\ handler[j] = "waiting"
    /\ phase[j] \in {"ready", "dropped"}
    /\ SubmitReturns(j, "waitTimeout")
    /\ ctxDone' = ctxDone \cup {j}
    /\ UNCHANGED <<queueVars, worker, result, outerDone, known, discordVars, dbVars, msgOf>>

-----------------------------------------------------------------------------
(* Handler: what the user is told. *)

(* success, and the errors that are not answered *)
Finish(j) ==
    /\ handler[j] = "returned"
    /\ err[j] \in Silent \cup {"ok"} \/ outerDone
    /\ handler' = [handler EXCEPT ![j] = "done"]
    /\ UNCHANGED <<queueVars, err, worker, result, ctxDone, outerDone, known,
                   discordVars, dbVars, msgOf>>

(* The handler reads processingReply.  After a result was received, the worker's
   write happened before; after the context branch the read races with it and may
   miss it. *)
ReadReply(j) ==
    /\ handler[j] = "returned"
    /\ err[j] \notin Silent \cup {"ok"} /\ ~outerDone
    /\ \E seen \in BOOLEAN :
         /\ seen => j \in known
         /\ ~seen => j \notin known \/ err[j] \in {"ctx", "waitTimeout"}
         /\ handler' = [handler EXCEPT ![j] = IF seen THEN "editing" ELSE "sending"]
    /\ UNCHANGED <<queueVars, err, worker, result, ctxDone, outerDone, known,
                   discordVars, dbVars, msgOf>>

(* A call to Discord that failed, or was cut off, may have been carried out all the same;
   cut is the end of the context it was made with. *)
CallFails(j, cut) == (NetFails \/ cut) /\ netFailed' = netFailed \cup {j}
Shows(j, text) == receipt' = [receipt EXCEPT ![j] = text]
MayShow(j, text) == Shows(j, text) \/ UNCHANGED receipt

(* editProcessingError, with the handler's own context *)
EditError(j) ==
    /\ handler[j] = "editing"
    /\ \/ Shows(j, "error") /\ UNCHANGED netFailed
       \/ CallFails(j, outerDone) /\ MayShow(j, "error")
    /\ handler' = [handler EXCEPT ![j] = "done"]
    /\ UNCHANGED <<queueVars, err, worker, result, ctxDone, outerDone, known, rest, extra,
                   errorMsg, dbVars, msgOf>>

(* sendChunks of the error text; the retries of retryDiscord are in its outcome *)
SendError(j) ==
    /\ handler[j] = "sending"
    /\ \/ errorMsg' = errorMsg \cup {j} /\ UNCHANGED netFailed
       \/ CallFails(j, outerDone) /\ errorMsg' \in {errorMsg, errorMsg \cup {j}}
    /\ handler' = [handler EXCEPT ![j] = "done"]
    /\ UNCHANGED <<queueVars, err, worker, result, ctxDone, outerDone, known, receipt,
                   rest, extra, dbVars, msgOf>>

-----------------------------------------------------------------------------
(* The queue, and the contexts. *)

StartWork(j) ==
    /\ SStart(j)
    /\ worker' = [worker EXCEPT ![j] = "recording"]
    /\ UNCHANGED <<handler, err, result, ctxDone, outerDone, known, discordVars, dbVars, msgOf>>

(* Mutant of Expire: the caller gets no answer. *)
ExpireSilently(j) ==
    /\ phase[j] = "ready"
    /\ SDrop({j})
    /\ UNCHANGED <<handler, err, worker, result, ctxDone, outerDone, known, discordVars,
                   dbVars, msgOf>>

(* the dispatcher's sweep *)
Expire(j) ==
    /\ phase[j] = "ready"
    /\ SDrop({j})
    /\ result' = [result EXCEPT ![j] = IF j \in ctxDone THEN "ctx" ELSE "waitTimeout"]
    /\ UNCHANGED <<handler, err, worker, ctxDone, outerDone, known, discordVars, dbVars, msgOf>>

(* the worker's result is out; its key is released *)
Release(j) ==
    /\ worker[j] = "finished"
    /\ SFinish(j)
    /\ UNCHANGED <<handler, err, worker, result, ctxDone, outerDone, known, discordVars,
                   dbVars, msgOf>>

(* Mutant of CloseQueue: the answer is an error the handler does not know. *)
CloseQueueOddly ==
    /\ SClose
    /\ result' = [j \in Jobs |-> IF phase[j] \in {"reserved", "ready"} THEN "shutdown"
                                 ELSE result[j]]
    /\ UNCHANGED <<handler, err, worker, ctxDone, outerDone, known, discordVars, dbVars, msgOf>>

CloseQueue ==
    /\ SClose
    /\ result' = [j \in Jobs |-> IF phase[j] \in {"reserved", "ready"} THEN "closed"
                                 ELSE result[j]]
    /\ UNCHANGED <<handler, err, worker, ctxDone, outerDone, known, discordVars, dbVars, msgOf>>

Cut(j) ==
    /\ j \in MayBeCut \ ctxDone
    /\ handler[j] \in {"submitting", "waiting"} \/ worker[j] \notin {"none", "finished"}
    /\ ctxDone' = ctxDone \cup {j}
    /\ UNCHANGED <<queueVars, handler, err, worker, result, outerDone, known,
                   discordVars, dbVars, msgOf>>

(* Gateway.Close, after the queue's Shutdown *)
CloseGateway ==
    /\ ~open /\ ~outerDone
    /\ InPhase({"running"}) = {}
    /\ outerDone' = TRUE
    /\ UNCHANGED <<queueVars, handler, err, worker, result, ctxDone, known, discordVars,
                   dbVars, msgOf>>

-----------------------------------------------------------------------------
(* Worker. *)

(* work returns r and its result is sent *)
WorkReturns(j, r) ==
    /\ worker' = [worker EXCEPT ![j] = "finished"]
    /\ result' = [result EXCEPT ![j] = r]

(* Mutant of Record: a message stored before is not recognised. *)
RecordAgain(j) ==
    /\ worker[j] = "recording"
    /\ j \notin ctxDone
    /\ questions' = questions \cup {msgOf[j]}
    /\ worker' = [worker EXCEPT ![j] = "recorded"]
    /\ UNCHANGED <<queueVars, handler, err, result, ctxDone, outerDone, known,
                   discordVars, answers, msgOf>>

(* RecordUserMessage commits, finds a duplicate, or fails *)
Record(j) ==
    /\ worker[j] = "recording"
    /\ \/ /\ msgOf[j] \notin questions /\ j \notin ctxDone
          /\ questions' = questions \cup {msgOf[j]}
          /\ worker' = [worker EXCEPT ![j] = "recorded"]
          /\ UNCHANGED result
       \/ /\ msgOf[j] \in questions /\ j \notin ctxDone
          /\ WorkReturns(j, "duplicate")
          /\ UNCHANGED questions
       \/ /\ WorkReturns(j, "failed")
          /\ UNCHANGED questions
    /\ UNCHANGED <<queueVars, handler, err, ctxDone, outerDone, known, discordVars,
                   answers, msgOf>>

(* the receipt reaches Discord, or the accepted callback gives up *)
SendReceipt(j) ==
    /\ worker[j] = "recorded"
    /\ \/ /\ j \notin ctxDone
          /\ Shows(j, "processing")
          /\ worker' = [worker EXCEPT ![j] = "sent"]
          /\ UNCHANGED <<result, netFailed>>
       \/ /\ CallFails(j, j \in ctxDone)
          /\ MayShow(j, "processing")
          /\ WorkReturns(j, "delivery")
    /\ UNCHANGED <<queueVars, handler, err, ctxDone, outerDone, known, rest, extra, errorMsg,
                   dbVars, msgOf>>

(* Mutant of NoteReceipt: the closure assigns a variable of its own. *)
NoteReceiptLocally(j) ==
    /\ worker[j] = "sent"
    /\ worker' = [worker EXCEPT ![j] = "accepted"]
    /\ UNCHANGED <<queueVars, handler, err, result, ctxDone, outerDone, known,
                   discordVars, dbVars, msgOf>>

(* processingReply = sent *)
NoteReceipt(j) ==
    /\ worker[j] = "sent"
    /\ known' = known \cup {j}
    /\ worker' = [worker EXCEPT ![j] = "accepted"]
    /\ UNCHANGED <<queueVars, handler, err, result, ctxDone, outerDone, discordVars,
                   dbVars, msgOf>>

(* history, context, tool loop *)
Answer(j) ==
    /\ worker[j] = "accepted"
    /\ \/ /\ j \notin ctxDone
          /\ worker' = [worker EXCEPT ![j] = "answered"]
          /\ UNCHANGED result
       \/ WorkReturns(j, "failed")
    /\ UNCHANGED <<queueVars, handler, err, ctxDone, outerDone, known, discordVars,
                   dbVars, msgOf>>

(* The guard blocks the answer, or nothing is left of it, or the edit of the first
   chunk failed: the receipt is edited into the error text, if that works. *)
ReplaceByError(j) ==
    /\ WorkReturns(j, "delivery")
    /\ \/ j \notin ctxDone /\ Shows(j, "error") /\ UNCHANGED netFailed
       \/ CallFails(j, j \in ctxDone) /\ MayShow(j, "error")

(* Mutant of RejectAnswer: the receipt is left alone. *)
RejectSilently(j) ==
    /\ worker[j] = "answered"
    /\ WorkReturns(j, "delivery")
    /\ UNCHANGED <<queueVars, handler, err, ctxDone, outerDone, known, discordVars,
                   dbVars, msgOf>>

RejectAnswer(j) ==
    /\ worker[j] = "answered"
    /\ ReplaceByError(j)
    /\ UNCHANGED <<queueVars, handler, err, ctxDone, outerDone, known, rest, extra, errorMsg,
                   dbVars, msgOf>>

(* the first chunk is edited in *)
EditAnswer(j) ==
    /\ worker[j] = "answered"
    /\ j \notin ctxDone
    /\ Shows(j, "answer")
    /\ \/ worker' = [worker EXCEPT ![j] = "chunks"] /\ rest' = rest \cup {j}
       \/ worker' = [worker EXCEPT ![j] = "shown"] /\ UNCHANGED rest
    /\ UNCHANGED <<queueVars, handler, err, result, ctxDone, outerDone, known, extra,
                   errorMsg, netFailed, dbVars, msgOf>>

EditFails(j) ==
    /\ worker[j] = "answered"
    /\ CallFails(j, j \in ctxDone)
    /\ MayShow(j, "answer")
    /\ worker' = [worker EXCEPT ![j] = "unedited"]
    /\ UNCHANGED <<queueVars, handler, err, result, ctxDone, outerDone, known, rest, extra,
                   errorMsg, dbVars, msgOf>>

(* ... and editProcessingError follows *)
ErrorAfterEdit(j) ==
    /\ worker[j] = "unedited"
    /\ ReplaceByError(j)
    /\ UNCHANGED <<queueVars, handler, err, ctxDone, outerDone, known, rest, extra, errorMsg,
                   dbVars, msgOf>>

(* Mutant of SendChunks: a failure is logged, and the answer counts as shown. *)
SendChunksLogged(j) ==
    /\ worker[j] = "chunks"
    /\ \/ j \notin ctxDone /\ extra' = extra \cup {j} /\ UNCHANGED netFailed
       \/ CallFails(j, j \in ctxDone) /\ extra' \in {extra, extra \cup {j}}
    /\ worker' = [worker EXCEPT ![j] = "shown"]
    /\ UNCHANGED <<queueVars, handler, err, result, ctxDone, outerDone, known, receipt, rest,
                   errorMsg, dbVars, msgOf>>

(* the remaining chunks; a failure leaves the answer incomplete *)
SendChunks(j) ==
    /\ worker[j] = "chunks"
    /\ \/ /\ j \notin ctxDone
          /\ worker' = [worker EXCEPT ![j] = "shown"]
          /\ extra' = extra \cup {j}
          /\ UNCHANGED <<result, netFailed>>
       \/ /\ CallFails(j, j \in ctxDone)
          /\ extra' \in {extra, extra \cup {j}}
          /\ WorkReturns(j, "delivery")
    /\ UNCHANGED <<queueVars, handler, err, ctxDone, outerDone, known, receipt, rest,
                   errorMsg, dbVars, msgOf>>

(* Mutant of Save: the answer is saved as soon as it is generated. *)
SaveEarly(j) ==
    /\ worker[j] \in {"answered", "shown"}
    /\ j \notin ctxDone
    /\ answers' = answers \cup {msgOf[j]}
    /\ IF worker[j] = "shown" THEN WorkReturns(j, "ok") ELSE UNCHANGED <<worker, result>>
    /\ UNCHANGED <<queueVars, handler, err, ctxDone, outerDone, known, discordVars,
                   questions, msgOf>>

(* RecordSuccessfulReply *)
Save(j) ==
    /\ worker[j] = "shown"
    /\ \/ /\ j \notin ctxDone
          /\ answers' = answers \cup {msgOf[j]}
          /\ WorkReturns(j, "ok")
       \/ /\ WorkReturns(j, "delivery")
          /\ UNCHANGED answers
    /\ UNCHANGED <<queueVars, handler, err, ctxDone, outerDone, known, discordVars,
                   questions, msgOf>>

-----------------------------------------------------------------------------
SubmitSteps(j) ==
    \/ SubmitRefused(j) \/ SubmitReserves(j) \/ SubmitEnqueues(j) \/ SubmitTooLate(j)
    \/ SubmitTakesResult(j) \/ SubmitSeesCtx(j)

ReplySteps(j) == Finish(j) \/ ReadReply(j) \/ EditError(j) \/ SendError(j)

WorkSteps(j) ==
    \/ Record(j) \/ SendReceipt(j) \/ NoteReceipt(j) \/ Answer(j) \/ RejectAnswer(j)
    \/ EditAnswer(j) \/ EditFails(j) \/ ErrorAfterEdit(j) \/ SendChunks(j) \/ Save(j)
    \/ Release(j)

Next ==
    \/ \E j \in Jobs : \/ Ignore(j) \/ Handle(j) \/ SubmitSteps(j) \/ SubmitTimesOut(j)
                       \/ ReplySteps(j) \/ StartWork(j) \/ Expire(j) \/ Cut(j)
                       \/ WorkSteps(j)
    \/ CloseQueue
    \/ CloseGateway

Safety == Init /\ [][Next]_vars

(* Goroutines make progress; no context ends and no timer fires by necessity.  A job
   takes each of these steps at most once, so that one condition on all of them says
   the same as one on each.  It is strong for the start of a work, which the limit
   and the key may prevent for a while. *)
Spec ==
    /\ Safety
    /\ SF_vars(\E j \in Jobs : SubmitSteps(j) \/ ReplySteps(j) \/ StartWork(j) \/ WorkSteps(j))

-----------------------------------------------------------------------------
TypeOK ==
    /\ phase \in [Jobs -> Phases]
    /\ handler \in [Jobs -> {"idle", "submitting", "waiting", "returned", "editing",
                             "sending", "done"}]
    /\ err \in [Jobs -> Errors \cup {"none", "ok"}]
    /\ result \in [Jobs -> Errors \cup {"none", "ok"}]
    /\ worker \in [Jobs -> {"none", "recording", "recorded", "sent", "accepted",
                            "answered", "unedited", "chunks", "shown", "finished"}]
    /\ receipt \in [Jobs -> {"none", "processing", "answer", "error"}]
    /\ ctxDone \cup known \cup rest \cup extra \cup errorMsg \cup netFailed \subseteq Jobs
    /\ outerDone \in BOOLEAN

(* A question gets one receipt and one answer, however often the gateway delivers
   it, and even when an earlier handler gave up while its worker went on. *)
OneReceiptPerQuestion ==
    \A i, j \in Jobs :
        i # j /\ msgOf[i] = msgOf[j] => receipt[i] = "none" \/ receipt[j] = "none"

ShownWhole(i) == receipt[i] = "answer" /\ (i \in rest => i \in extra)

(* An answer is saved only while Discord shows it, whole: the processing reply
   holds its first chunk and the other chunks, if there are any, are posted. *)
SavedWhileShown ==
    [][\A j \in Jobs : msgOf[j] \in answers' \ answers =>
         \E i \in Jobs : msgOf[i] = msgOf[j] /\ ShownWhole(i)]_vars

(* Only a cut context can leave the user with both a receipt and a separate error
   reply: every other failure after the receipt is edited into it. *)
TwoRepliesOnlyIfCut ==
    \A j \in Jobs : j \in errorMsg /\ receipt[j] # "none" => j \in ctxDone

Quiet(j) == handler[j] = "done" /\ worker[j] = "finished"

(* A receipt left saying "processing" is explained by a cut context, a failed
   Discord call or the end of the program, never by a path that forgot it. *)
StuckReceiptExplained ==
    \A j \in Jobs : Quiet(j) /\ receipt[j] = "processing" =>
        j \in ctxDone \/ j \in netFailed \/ outerDone

(* Both: whatever the user sees but one reply to the question has an excuse outside of
   the program's logic. *)
RepliesAreExplained == TwoRepliesOnlyIfCut /\ StuckReceiptExplained

(* Every handler that was admitted ends: the in-flight entry is removed, and
   Adapter.Wait returns. *)
HandlersEnd ==
    \A j \in Jobs : (handler[j] \notin {"idle", "done"}) ~> (handler[j] = "done")

-----------------------------------------------------------------------------
(* Violated.  design/zii_Discord_Bot_Orchestrator設計.md:1029: no answer that does
   not exist in Discord is in the history. *)
HistoryIsInDiscord ==
    \A j \in Jobs : msgOf[j] \in answers =>
        \E i \in Jobs : msgOf[i] = msgOf[j] /\ receipt[i] = "answer"
=============================================================================
