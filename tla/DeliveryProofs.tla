--------------------------- MODULE DeliveryProofs ---------------------------
(***************************************************************************)
(* What the user sees and what is stored, for any messages, deliveries and *)
(* conversations, whatever fails and whenever contexts end.                *)
(***************************************************************************)
EXTENDS Delivery, TLAPS

Waiting == {"new", "reserved", "ready"}

(* the work has not ended *)
Busy(j) == worker[j] \notin {"none", "finished"}

(* the receipt is known to the handler *)
Noted == {"accepted", "answered", "unedited", "chunks", "shown"}

(* The executor's phase, the worker, its result and what the handler may do agree. *)
PhaseInv(j) ==
    /\ phase[j] \in Waiting => worker[j] = "none" /\ result[j] = "none"
    /\ phase[j] = "new" => handler[j] \in {"idle", "submitting", "done"}
    /\ phase[j] = "reserved" => handler[j] = "submitting"
    /\ phase[j] = "ready" => handler[j] \notin {"idle", "submitting"}
    /\ phase[j] = "dropped" =>
         worker[j] = "none" /\ result[j] \in {"none", "ctx", "waitTimeout", "closed"}
    /\ phase[j] \in {"running", "done"} => worker[j] # "none"
    /\ phase[j] = "done" => worker[j] = "finished"
    /\ Busy(j) => result[j] = "none"
    /\ worker[j] = "finished" => result[j] \in {"duplicate", "failed", "delivery", "ok"}

(* As long as its context lasts a handler leaves the queue only with the result, and its
   error tells that the work was not started or has failed. *)
HandlerInv(j) ==
    /\ handler[j] \in {"idle", "submitting", "waiting"} => err[j] = "none"
    /\ handler[j] = "returned" => err[j] # "none"
    /\ j \notin ctxDone =>
         /\ Busy(j) \/ phase[j] = "ready" => handler[j] = "waiting"
         /\ result[j] # "ctx" /\ err[j] # "ctx"
         /\ err[j] \in {"busy", "waitTimeout"} => phase[j] = "dropped"
         /\ err[j] = "failed" => worker[j] = "finished" /\ result[j] = "failed"

(* The receipt, and who knows of it. *)
ReceiptInv(j) ==
    /\ worker[j] \in {"none", "recording", "recorded"} => receipt[j] = "none"
    /\ worker[j] = "sent" => receipt[j] # "none"
    /\ worker[j] \in Noted => j \in known
    /\ j \in known => receipt[j] # "none"
    /\ handler[j] = "editing" => j \in known
    /\ receipt[j] # "none" /\ j \notin known =>
         worker[j] = "sent" \/ (worker[j] = "finished" /\ result[j] = "delivery")
    /\ worker[j] \in {"chunks", "shown"} /\ j \notin ctxDone => receipt[j] = "answer"
    /\ j \in rest => worker[j] \in {"chunks", "shown", "finished"}
    /\ worker[j] = "shown" /\ j \in rest => j \in extra

(* A separate error reply means that there is no receipt and will be none. *)
ErrorInv(j) ==
    /\ j \in errorMsg => handler[j] = "done"
    /\ handler[j] = "sending" \/ j \in errorMsg =>
         j \in ctxDone \/ (receipt[j] = "none" /\ worker[j] \in {"none", "finished"}
                           /\ phase[j] \notin Waiting)

(* A receipt that is left alone by the worker is one that the handler edits. *)
StuckInv(j) ==
    \/ worker[j] # "finished" \/ receipt[j] # "processing"
    \/ j \in ctxDone \/ j \in netFailed \/ outerDone
    \/ /\ j \in known /\ result[j] = "failed"
       /\ \/ handler[j] \in {"waiting", "editing"}
          \/ handler[j] = "returned" /\ err[j] = "failed"

(* A job that stored its question; there is one for each question. *)
Past(j) == worker[j] \in Noted \cup {"recorded", "sent"} \/ receipt[j] # "none"

QuestionInv ==
    /\ \A j \in Jobs : Past(j) => msgOf[j] \in questions
    /\ \A i, j \in Jobs : i # j /\ msgOf[i] = msgOf[j] => ~Past(i) \/ ~Past(j)

JobInv(j) == PhaseInv(j) /\ HandlerInv(j) /\ ReceiptInv(j) /\ ErrorInv(j) /\ StuckInv(j)

IInv ==
    /\ TypeOK
    /\ \A j \in Jobs : JobInv(j)
    /\ QuestionInv

-----------------------------------------------------------------------------
(* the steps of one job *)
JobStep(j) ==
    \/ Ignore(j) \/ Handle(j) \/ SubmitSteps(j) \/ SubmitTimesOut(j) \/ ReplySteps(j)
    \/ StartWork(j) \/ Expire(j) \/ Cut(j) \/ WorkSteps(j)

(* A step is one of a job, or the end of the queue or of the gateway. *)
LEMMA NextCases ==
    [Next]_vars => (\E j \in Jobs : JobStep(j)) \/ CloseQueue \/ CloseGateway \/ UNCHANGED vars
BY DEF Next, JobStep

(* The invariant holds when the gateway is connected. *)
LEMMA InitIInv == Init => IInv
<1> SUFFICES ASSUME Init PROVE IInv
    OBVIOUS
<1>1. TypeOK
    BY DEF Init, SInit, TypeOK, Phases, Errors, Silent
<1>2. ASSUME NEW j \in Jobs
      PROVE  JobInv(j)
    BY DEF Init, SInit, JobInv, PhaseInv, HandlerInv, ReceiptInv, ErrorInv, StuckInv,
       Waiting, Busy, Noted
<1>3. QuestionInv
    BY DEF Init, QuestionInv, Past, Noted
<1> QED
    BY <1>1, <1>2, <1>3 DEF IInv

(* Every step keeps the types. *)
LEMMA TypeNext == IInv /\ [Next]_vars => TypeOK'
<1> SUFFICES ASSUME IInv, [Next]_vars PROVE TypeOK'
    OBVIOUS
<1>0. TypeOK
    BY DEF IInv
<1> USE <1>0 DEF TypeOK, Phases, Errors, Silent, queueVars, discordVars, dbVars
<1>1. ASSUME NEW j \in Jobs, JobStep(j) PROVE TypeOK'
    <2>1. CASE Ignore(j)
        BY <2>1 DEF Ignore
    <2>2. CASE Handle(j)
        BY <2>2 DEF Handle
    <2>3. CASE SubmitRefused(j)
        BY <2>3 DEF SubmitRefused, SubmitReturns, SDrop, InPhase
    <2>4. CASE SubmitReserves(j)
        BY <2>4 DEF SubmitReserves, SReserve, InPhase
    <2>5. CASE SubmitEnqueues(j)
        BY <2>5 DEF SubmitEnqueues, SEnqueue
    <2>6. CASE SubmitTooLate(j)
        BY <2>6 DEF SubmitTooLate, SubmitReturns, SDrop, InPhase
    <2>7. CASE SubmitTakesResult(j)
        BY <2>7 DEF SubmitTakesResult, SubmitReturns
    <2>8. CASE SubmitSeesCtx(j)
        BY <2>8 DEF SubmitSeesCtx, SubmitReturns
    <2>9. CASE SubmitTimesOut(j)
        BY <2>9 DEF SubmitTimesOut, SubmitReturns
    <2>10. CASE Finish(j)
        BY <2>10 DEF Finish
    <2>11. CASE ReadReply(j)
        BY <2>11 DEF ReadReply
    <2>12. CASE EditError(j)
        BY <2>12 DEF EditError, Shows, CallFails, MayShow
    <2>13. CASE SendError(j)
        BY <2>13 DEF SendError, CallFails
    <2>14. CASE StartWork(j)
        BY <2>14 DEF StartWork, SStart
    <2>15. CASE Expire(j)
        BY <2>15 DEF Expire, SDrop, InPhase
    <2>16. CASE Cut(j)
        BY <2>16 DEF Cut
    <2>17. CASE Record(j)
        BY <2>17 DEF Record, WorkReturns
    <2>18. CASE SendReceipt(j)
        BY <2>18 DEF SendReceipt, Shows, CallFails, MayShow, WorkReturns
    <2>19. CASE NoteReceipt(j)
        BY <2>19 DEF NoteReceipt
    <2>20. CASE Answer(j)
        BY <2>20 DEF Answer, WorkReturns
    <2>21. CASE RejectAnswer(j)
        BY <2>21 DEF RejectAnswer, ReplaceByError, WorkReturns, Shows, CallFails, MayShow
    <2>22. CASE EditAnswer(j)
        BY <2>22 DEF EditAnswer, Shows
    <2>23. CASE EditFails(j)
        BY <2>23 DEF EditFails, CallFails, MayShow, Shows
    <2>24. CASE ErrorAfterEdit(j)
        BY <2>24 DEF ErrorAfterEdit, ReplaceByError, WorkReturns, Shows, CallFails, MayShow
    <2>25. CASE SendChunks(j)
        BY <2>25 DEF SendChunks, WorkReturns, CallFails
    <2>26. CASE Save(j)
        BY <2>26 DEF Save, WorkReturns
    <2>27. CASE Release(j)
        BY <2>27 DEF Release, SFinish
    <2> QED
        BY <1>1, <2>1, <2>2, <2>3, <2>4, <2>5, <2>6, <2>7, <2>8, <2>9, <2>10, <2>11, <2>12,
           <2>13, <2>14, <2>15, <2>16, <2>17, <2>18, <2>19, <2>20, <2>21, <2>22, <2>23,
           <2>24, <2>25, <2>26, <2>27 DEF JobStep, SubmitSteps, ReplySteps, WorkSteps
<1>2. CASE CloseQueue
    BY <1>2 DEF CloseQueue, SClose
<1>3. CASE CloseGateway
    BY <1>3 DEF CloseGateway
<1>4. CASE UNCHANGED vars
    BY <1>4 DEF vars
<1> QED
    BY <1>1, <1>2, <1>3, <1>4, NextCases

(* what the invariant says of k is not touched *)
Same(k) ==
    /\ phase'[k] = phase[k] /\ handler'[k] = handler[k] /\ err'[k] = err[k]
    /\ worker'[k] = worker[k] /\ result'[k] = result[k] /\ receipt'[k] = receipt[k]
    /\ k \in ctxDone' <=> k \in ctxDone
    /\ k \in known' <=> k \in known
    /\ k \in errorMsg' <=> k \in errorMsg
    /\ k \in netFailed' <=> k \in netFailed
    /\ k \in rest' <=> k \in rest
    /\ k \in extra' <=> k \in extra

(* A step of one job does not touch what belongs to another. *)
LEMMA OthersStay ==
    ASSUME TypeOK, NEW j \in Jobs, NEW k \in Jobs, k # j, JobStep(j)
    PROVE  Same(k) /\ UNCHANGED <<outerDone, msgOf>>
<1> USE DEF Same, TypeOK, queueVars, discordVars, dbVars
<1>1. CASE Ignore(j)
    BY <1>1 DEF Ignore
<1>2. CASE Handle(j)
    BY <1>2 DEF Handle
<1>3. CASE SubmitRefused(j)
    BY <1>3 DEF SubmitRefused, SubmitReturns, SDrop, InPhase
<1>4. CASE SubmitReserves(j)
    BY <1>4 DEF SubmitReserves, SReserve, InPhase
<1>5. CASE SubmitEnqueues(j)
    BY <1>5 DEF SubmitEnqueues, SEnqueue
<1>6. CASE SubmitTooLate(j)
    BY <1>6 DEF SubmitTooLate, SubmitReturns, SDrop, InPhase
<1>7. CASE SubmitTakesResult(j)
    BY <1>7 DEF SubmitTakesResult, SubmitReturns
<1>8. CASE SubmitSeesCtx(j)
    BY <1>8 DEF SubmitSeesCtx, SubmitReturns
<1>9. CASE SubmitTimesOut(j)
    BY <1>9 DEF SubmitTimesOut, SubmitReturns
<1>10. CASE Finish(j)
    BY <1>10 DEF Finish
<1>11. CASE ReadReply(j)
    BY <1>11 DEF ReadReply
<1>12. CASE EditError(j)
    BY <1>12 DEF EditError, Shows, CallFails, MayShow
<1>13. CASE SendError(j)
    BY <1>13 DEF SendError, CallFails
<1>14. CASE StartWork(j)
    BY <1>14 DEF StartWork, SStart
<1>15. CASE Expire(j)
    BY <1>15 DEF Expire, SDrop, InPhase
<1>16. CASE Cut(j)
    BY <1>16 DEF Cut
<1>17. CASE Record(j)
    BY <1>17 DEF Record, WorkReturns
<1>18. CASE SendReceipt(j)
    BY <1>18 DEF SendReceipt, Shows, CallFails, MayShow, WorkReturns
<1>19. CASE NoteReceipt(j)
    BY <1>19 DEF NoteReceipt
<1>20. CASE Answer(j)
    BY <1>20 DEF Answer, WorkReturns
<1>21. CASE RejectAnswer(j)
    BY <1>21 DEF RejectAnswer, ReplaceByError, WorkReturns, Shows, CallFails, MayShow
<1>22. CASE EditAnswer(j)
    BY <1>22 DEF EditAnswer, Shows
<1>23. CASE EditFails(j)
    BY <1>23 DEF EditFails, CallFails, MayShow, Shows
<1>24. CASE ErrorAfterEdit(j)
    BY <1>24 DEF ErrorAfterEdit, ReplaceByError, WorkReturns, Shows, CallFails, MayShow
<1>25. CASE SendChunks(j)
    BY <1>25 DEF SendChunks, WorkReturns, CallFails
<1>26. CASE Save(j)
    BY <1>26 DEF Save, WorkReturns
<1>27. CASE Release(j)
    BY <1>27 DEF Release, SFinish
<1> QED
    BY <1>1, <1>2, <1>3, <1>4, <1>5, <1>6, <1>7, <1>8, <1>9, <1>10, <1>11, <1>12, <1>13,
       <1>14, <1>15, <1>16, <1>17, <1>18, <1>19, <1>20, <1>21, <1>22, <1>23, <1>24, <1>25,
       <1>26, <1>27 DEF JobStep, SubmitSteps, ReplySteps, WorkSteps

(* What the invariant says of a job is kept by its own steps. *)
LEMMA OwnStep ==
    ASSUME TypeOK, NEW j \in Jobs, JobInv(j), JobStep(j)
    PROVE  JobInv(j)'
<1> USE DEF TypeOK, JobInv, PhaseInv, HandlerInv, ReceiptInv, ErrorInv, StuckInv, Waiting,
            Busy, Noted, Phases, Errors, Silent, queueVars, discordVars, dbVars
<1>1. CASE Ignore(j)
    BY <1>1 DEF Ignore
<1>2. CASE Handle(j)
    BY <1>2 DEF Handle
<1>3. CASE SubmitRefused(j)
    BY <1>3 DEF SubmitRefused, SubmitReturns, SDrop, InPhase
<1>4. CASE SubmitReserves(j)
    BY <1>4 DEF SubmitReserves, SReserve, InPhase
<1>5. CASE SubmitEnqueues(j)
    BY <1>5 DEF SubmitEnqueues, SEnqueue
<1>6. CASE SubmitTooLate(j)
    BY <1>6 DEF SubmitTooLate, SubmitReturns, SDrop, InPhase
<1>7. CASE SubmitTakesResult(j)
    BY <1>7 DEF SubmitTakesResult, SubmitReturns
<1>8. CASE SubmitSeesCtx(j)
    BY <1>8 DEF SubmitSeesCtx, SubmitReturns
<1>9. CASE SubmitTimesOut(j)
    BY <1>9 DEF SubmitTimesOut, SubmitReturns
<1>10. CASE Finish(j)
    BY <1>10 DEF Finish
<1>11. CASE ReadReply(j)
    BY <1>11 DEF ReadReply
<1>12. CASE EditError(j)
    BY <1>12 DEF EditError, Shows, CallFails, MayShow
<1>13. CASE SendError(j)
    BY <1>13 DEF SendError, CallFails
<1>14. CASE StartWork(j)
    BY <1>14 DEF StartWork, SStart
<1>15. CASE Expire(j)
    BY <1>15 DEF Expire, SDrop, InPhase
<1>16. CASE Cut(j)
    BY <1>16 DEF Cut
<1>17. CASE Record(j)
    BY <1>17 DEF Record, WorkReturns
<1>18. CASE SendReceipt(j)
    BY <1>18 DEF SendReceipt, Shows, CallFails, MayShow, WorkReturns
<1>19. CASE NoteReceipt(j)
    BY <1>19 DEF NoteReceipt
<1>20. CASE Answer(j)
    BY <1>20 DEF Answer, WorkReturns
<1>21. CASE RejectAnswer(j)
    BY <1>21 DEF RejectAnswer, ReplaceByError, WorkReturns, Shows, CallFails, MayShow
<1>22. CASE EditAnswer(j)
    BY <1>22 DEF EditAnswer, Shows
<1>23. CASE EditFails(j)
    BY <1>23 DEF EditFails, CallFails, MayShow, Shows
<1>24. CASE ErrorAfterEdit(j)
    BY <1>24 DEF ErrorAfterEdit, ReplaceByError, WorkReturns, Shows, CallFails, MayShow
<1>25. CASE SendChunks(j)
    BY <1>25 DEF SendChunks, WorkReturns, CallFails
<1>26. CASE Save(j)
    BY <1>26 DEF Save, WorkReturns
<1>27. CASE Release(j)
    BY <1>27 DEF Release, SFinish
<1> QED
    BY <1>1, <1>2, <1>3, <1>4, <1>5, <1>6, <1>7, <1>8, <1>9, <1>10, <1>11, <1>12, <1>13,
       <1>14, <1>15, <1>16, <1>17, <1>18, <1>19, <1>20, <1>21, <1>22, <1>23, <1>24, <1>25,
       <1>26, <1>27 DEF JobStep, SubmitSteps, ReplySteps, WorkSteps

(* What the invariant says of each job is kept by every step. *)
LEMMA JobNext == IInv /\ [Next]_vars => \A k \in Jobs : JobInv(k)'
<1> SUFFICES ASSUME IInv, [Next]_vars, NEW k \in Jobs PROVE JobInv(k)'
    OBVIOUS
<1>0. TypeOK /\ JobInv(k)
    BY DEF IInv
<1>1. ASSUME NEW j \in Jobs, JobStep(j) PROVE JobInv(k)'
    <2>1. CASE k = j
        BY <1>0, <1>1, <2>1, OwnStep
    <2>2. CASE k # j
        BY <1>0, <1>1, <2>2, OthersStay
           DEF Same, JobInv, PhaseInv, HandlerInv, ReceiptInv, ErrorInv, StuckInv, Busy
    <2> QED
        BY <2>1, <2>2
<1> USE <1>0 DEF TypeOK, JobInv, PhaseInv, HandlerInv, ReceiptInv, ErrorInv, StuckInv,
Waiting,
            Busy, Noted, Phases, queueVars, discordVars, dbVars
<1>2. CASE CloseQueue
    BY <1>2 DEF CloseQueue, SClose
<1>3. CASE CloseGateway
    BY <1>3 DEF CloseGateway
<1>4. CASE UNCHANGED vars
    BY <1>4 DEF vars
<1> QED
    BY <1>1, <1>2, <1>3, <1>4, NextCases

-----------------------------------------------------------------------------
(* A job gets past Record only with a question that was not stored, and stores it. *)
LEMMA PastGrows ==
    ASSUME TypeOK, NEW j \in Jobs, JobInv(j), JobStep(j)
    PROVE  /\ questions \subseteq questions'
           /\ Past(j)' => Past(j) \/ (msgOf[j] \notin questions /\ msgOf[j] \in questions')
<1> USE DEF TypeOK, JobInv, ReceiptInv, Past, Noted, queueVars, discordVars, dbVars
<1>1. CASE Ignore(j)
    BY <1>1 DEF Ignore
<1>2. CASE Handle(j)
    BY <1>2 DEF Handle
<1>3. CASE SubmitRefused(j)
    BY <1>3 DEF SubmitRefused, SubmitReturns, SDrop, InPhase
<1>4. CASE SubmitReserves(j)
    BY <1>4 DEF SubmitReserves, SReserve, InPhase
<1>5. CASE SubmitEnqueues(j)
    BY <1>5 DEF SubmitEnqueues, SEnqueue
<1>6. CASE SubmitTooLate(j)
    BY <1>6 DEF SubmitTooLate, SubmitReturns, SDrop, InPhase
<1>7. CASE SubmitTakesResult(j)
    BY <1>7 DEF SubmitTakesResult, SubmitReturns
<1>8. CASE SubmitSeesCtx(j)
    BY <1>8 DEF SubmitSeesCtx, SubmitReturns
<1>9. CASE SubmitTimesOut(j)
    BY <1>9 DEF SubmitTimesOut, SubmitReturns
<1>10. CASE Finish(j)
    BY <1>10 DEF Finish
<1>11. CASE ReadReply(j)
    BY <1>11 DEF ReadReply
<1>12. CASE EditError(j)
    BY <1>12 DEF EditError, Shows, CallFails, MayShow
<1>13. CASE SendError(j)
    BY <1>13 DEF SendError, CallFails
<1>14. CASE StartWork(j)
    BY <1>14 DEF StartWork, SStart
<1>15. CASE Expire(j)
    BY <1>15 DEF Expire, SDrop, InPhase
<1>16. CASE Cut(j)
    BY <1>16 DEF Cut
<1>17. CASE Record(j)
    BY <1>17 DEF Record, WorkReturns
<1>18. CASE SendReceipt(j)
    BY <1>18 DEF SendReceipt, Shows, CallFails, MayShow, WorkReturns
<1>19. CASE NoteReceipt(j)
    BY <1>19 DEF NoteReceipt
<1>20. CASE Answer(j)
    BY <1>20 DEF Answer, WorkReturns
<1>21. CASE RejectAnswer(j)
    BY <1>21 DEF RejectAnswer, ReplaceByError, WorkReturns, Shows, CallFails, MayShow
<1>22. CASE EditAnswer(j)
    BY <1>22 DEF EditAnswer, Shows
<1>23. CASE EditFails(j)
    BY <1>23 DEF EditFails, CallFails, MayShow, Shows
<1>24. CASE ErrorAfterEdit(j)
    BY <1>24 DEF ErrorAfterEdit, ReplaceByError, WorkReturns, Shows, CallFails, MayShow
<1>25. CASE SendChunks(j)
    BY <1>25 DEF SendChunks, WorkReturns, CallFails
<1>26. CASE Save(j)
    BY <1>26 DEF Save, WorkReturns
<1>27. CASE Release(j)
    BY <1>27 DEF Release, SFinish
<1> QED
    BY <1>1, <1>2, <1>3, <1>4, <1>5, <1>6, <1>7, <1>8, <1>9, <1>10, <1>11, <1>12, <1>13,
       <1>14, <1>15, <1>16, <1>17, <1>18, <1>19, <1>20, <1>21, <1>22, <1>23, <1>24, <1>25,
       <1>26, <1>27 DEF JobStep, SubmitSteps, ReplySteps, WorkSteps

(* Every step keeps one job for each stored question. *)
LEMMA QuestionNext == IInv /\ [Next]_vars => QuestionInv'
<1> SUFFICES ASSUME IInv, [Next]_vars PROVE QuestionInv'
    OBVIOUS
<1>0. TypeOK /\ (\A j \in Jobs : JobInv(j)) /\ QuestionInv
    BY DEF IInv
<1>1. ASSUME NEW j \in Jobs, JobStep(j) PROVE QuestionInv'
    <2>1. ASSUME NEW k \in Jobs, k # j
          PROVE  (Past(k)' <=> Past(k)) /\ msgOf' = msgOf
        BY <1>0, <1>1, <2>1, OthersStay DEF Same, Past
    <2>2. /\ questions \subseteq questions'
          /\ Past(j)' => Past(j) \/ (msgOf[j] \notin questions /\ msgOf[j] \in questions')
        BY <1>0, <1>1, PastGrows
    <2>3. msgOf' = msgOf
        BY <1>1 DEF JobStep, SubmitSteps, ReplySteps, WorkSteps, Ignore, Handle,
           SubmitRefused, SubmitReserves, SubmitEnqueues, SubmitTooLate, SubmitTakesResult,
           SubmitSeesCtx, SubmitTimesOut, Finish, ReadReply, EditError, SendError,
           StartWork, Expire, Cut, Record, SendReceipt, NoteReceipt, Answer, RejectAnswer,
           EditAnswer, EditFails, ErrorAfterEdit, SendChunks, Save, Release
    <2> QED
        BY <1>0, <2>1, <2>2, <2>3 DEF QuestionInv
<1>2. CASE CloseQueue
    BY <1>0, <1>2 DEF CloseQueue, QuestionInv, Past, discordVars, dbVars
<1>3. CASE CloseGateway
    BY <1>0, <1>3 DEF CloseGateway, QuestionInv, Past, discordVars, dbVars
<1>4. CASE UNCHANGED vars
    BY <1>0, <1>4 DEF vars, QuestionInv, Past
<1> QED
    BY <1>1, <1>2, <1>3, <1>4, NextCases

(* Every step keeps the invariant. *)
LEMMA IInvNext == IInv /\ [Next]_vars => IInv'
BY TypeNext, JobNext, QuestionNext DEF IInv

(* The invariant holds in every reachable state. *)
THEOREM InductiveInvariant == Safety => []IInv
BY InitIInv, IInvNext, PTL DEF Safety

-----------------------------------------------------------------------------
(* Type correctness of the adapter, its handlers and its workers. *)
THEOREM TypeCorrect == Spec => []TypeOK
<1>1. IInv => TypeOK
    BY DEF IInv
<1> QED
    BY InductiveInvariant, <1>1, PTL DEF Spec

(* A question gets at most one receipt, however often it is delivered and whatever fails
   (adapter.go Handle, service.go ProcessQueuedWithAccepted). *)
THEOREM QuestionsGetOneReceipt == Spec => []OneReceiptPerQuestion
<1>1. IInv => OneReceiptPerQuestion
    BY DEF IInv, QuestionInv, Past, OneReceiptPerQuestion
<1> QED
    BY InductiveInvariant, <1>1, PTL DEF Spec

(* Two replies to one question, or a receipt left saying "processing", have an excuse that
   lies outside of the adapter (adapter.go Handle, editProcessingError). *)
THEOREM RepliesHaveReasons == Spec => []RepliesAreExplained
<1>1. IInv => RepliesAreExplained
    BY DEF IInv, JobInv, ErrorInv, StuckInv, RepliesAreExplained, TwoRepliesOnlyIfCut,
           StuckReceiptExplained, Quiet
<1> QED
    BY InductiveInvariant, <1>1, PTL DEF Spec

(* An answer is saved only while Discord shows all of it, the chunks after the first one
   included (adapter.go:201, service.go RecordSuccessfulReply after the delivery). *)
THEOREM AnswersSavedWhileShown == Spec => SavedWhileShown
<1>1. IInv /\ [Next]_vars =>
        [\A j \in Jobs : msgOf[j] \in answers' \ answers =>
            \E i \in Jobs : msgOf[i] = msgOf[j] /\ ShownWhole(i)]_vars
    <2> SUFFICES ASSUME IInv, [Next]_vars, NEW j \in Jobs, msgOf[j] \in answers' \ answers
                 PROVE  \E i \in Jobs : msgOf[i] = msgOf[j] /\ ShownWhole(i)
        OBVIOUS
    <2>1. PICK i \in Jobs : Save(i)
        BY NextCases DEF JobStep, SubmitSteps, ReplySteps, WorkSteps, vars, dbVars,
           CloseQueue,
           CloseGateway, Ignore, Handle, SubmitRefused, SubmitReserves, SubmitEnqueues,
           SubmitTooLate, SubmitTakesResult, SubmitSeesCtx, SubmitTimesOut, Finish,
           ReadReply, EditError, SendError, StartWork, Expire, Cut, Record, SendReceipt,
           NoteReceipt, Answer, RejectAnswer, EditAnswer, EditFails, ErrorAfterEdit,
           SendChunks, Release
    <2>2. ShownWhole(i) /\ msgOf[i] = msgOf[j]
        BY <2>1 DEF Save, IInv, JobInv, ReceiptInv, ShownWhole
    <2> QED
        BY <2>2
<1> QED
    BY InductiveInvariant, <1>1, PTL DEF Spec, Safety, SavedWhileShown

-----------------------------------------------------------------------------
(* Handlers and workers use the queue as its executor allows: with QueueImplementsExecutor
   of RequestQueueProofs, what holds of them holds above the real queue. *)
THEOREM UsesExecutor == Spec => SSpec
<1>1. Init => SInit
    BY DEF Init
<1>2. [Next]_vars => [SNext]_svars
    <2> SUFFICES ASSUME [Next]_vars PROVE [SNext]_svars
        OBVIOUS
    <2>1. ASSUME NEW j \in Jobs, JobStep(j) PROVE [SNext]_svars
        <3>1. CASE SubmitRefused(j) \/ SubmitTooLate(j) \/ Expire(j)
            <4>1. SDrop({j}) \/ UNCHANGED svars
                BY <3>1 DEF SubmitRefused, SubmitTooLate, Expire, queueVars, svars
            <4> QED
                BY <4>1 DEF SNext
        <3>2. CASE SubmitReserves(j) \/ SubmitEnqueues(j) \/ StartWork(j) \/ Release(j)
            BY <3>2 DEF SubmitReserves, SubmitEnqueues, StartWork, Release, SNext
        <3>3. CASE UNCHANGED queueVars
            BY <3>3 DEF queueVars, svars
        <3> QED
            BY <2>1, <3>1, <3>2, <3>3 DEF JobStep, SubmitSteps, ReplySteps, WorkSteps,
               Ignore, Handle, SubmitTakesResult, SubmitSeesCtx, SubmitTimesOut, Finish,
               ReadReply, EditError, SendError, Cut, Record, SendReceipt, NoteReceipt,
               Answer, RejectAnswer, EditAnswer, EditFails, ErrorAfterEdit, SendChunks, Save
    <2>2. CASE CloseQueue
        BY <2>2 DEF CloseQueue, SNext
    <2>3. CASE CloseGateway \/ UNCHANGED vars
        BY <2>3 DEF CloseGateway, vars, queueVars, svars
    <2> QED
        BY <2>1, <2>2, <2>3, NextCases
<1> QED
    BY <1>1, <1>2, PTL DEF Spec, Safety, SSpec

(* the types of the executor *)
ExecutorTypes == phase \in [Jobs -> Phases] /\ owed \in [Jobs -> SUBSET Jobs]

(* Two works of one conversation key are never in progress together. *)
KeyApart ==
    \A i, j \in Jobs :
        i # j /\ KeyOf[i] = KeyOf[j] => phase[i] # "running" \/ phase[j] # "running"

(* The executor keeps the works of a key apart: between RecordUserMessage and
   RecordSuccessfulReply a conversation has one worker (queue.go, activeKeys). *)
THEOREM WorksOfAKeyApart == SSpec => []KeyApart
<1> DEFINE KInv == ExecutorTypes /\ KeyApart
<1>1. SInit => KInv
    BY DEF SInit, ExecutorTypes, KeyApart, Phases
<1>2. KInv /\ [SNext]_svars => KInv'
    <2> SUFFICES ASSUME KInv, [SNext]_svars PROVE KInv'
        OBVIOUS
    <2> USE DEF ExecutorTypes, KeyApart, Phases
    <2>1. ASSUME NEW j \in Jobs, SReserve(j) PROVE KInv'
        BY <2>1 DEF SReserve, InPhase, SameKey
    <2>2. ASSUME NEW j \in Jobs, SEnqueue(j) PROVE KInv'
        BY <2>2 DEF SEnqueue
    <2>3. ASSUME NEW j \in Jobs, SStart(j) PROVE KInv'
        BY <2>3 DEF SStart, InPhase, SameKey
    <2>4. ASSUME NEW j \in Jobs, SFinish(j) PROVE KInv'
        BY <2>4 DEF SFinish
    <2>5. ASSUME NEW S \in SUBSET Jobs, SDrop(S) PROVE KInv'
        BY <2>5 DEF SDrop
    <2>6. CASE SClose
        BY <2>6 DEF SClose
    <2>7. CASE UNCHANGED svars
        BY <2>7 DEF svars
    <2> QED
        BY <2>1, <2>2, <2>3, <2>4, <2>5, <2>6, <2>7 DEF SNext
<1> QED
    BY <1>1, <1>2, PTL DEF SSpec

(* What Conversations takes for granted: while one worker records, answers or saves, no
   other worker of the same conversation key, of the same message for instance, does. *)
THEOREM OneWorkerPerKey ==
    Spec => [](\A i, j \in Jobs : i # j /\ KeyOf[i] = KeyOf[j] => ~Busy(i) \/ ~Busy(j))
<1>1. IInv /\ KeyApart =>
        (\A i, j \in Jobs : i # j /\ KeyOf[i] = KeyOf[j] => ~Busy(i) \/ ~Busy(j))
    BY DEF IInv, TypeOK, JobInv, PhaseInv, KeyApart, Busy, Waiting, Phases
<1> QED
    BY <1>1, InductiveInvariant, UsesExecutor, WorksOfAKeyApart, PTL DEF Spec
=============================================================================
