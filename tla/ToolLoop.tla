------------------------------ MODULE ToolLoop ------------------------------
(***************************************************************************)
(* internal/orchestrator/tool_loop.go: the loop that asks the model, runs  *)
(* the tools it calls and asks again, for several requests at once.  The   *)
(* requests share one thing, the LLM slots.  A message is abstracted to    *)
(* what the loop decides on; the model (the LLM) is free to answer         *)
(* anything at any time, also to call tools it was not offered.            *)
(* The inside of invoke is the subject of SearchClient.                    *)
(***************************************************************************)
EXTENDS Integers, Sequences, FiniteSets

CONSTANTS Runs,       \* requests being answered
          Tools,      \* registered tools
          Args,       \* normalised arguments of a call
          Limit,      \* callLimits
          MaxCalls,   \* maxToolCalls
          LlmSlots,   \* capacity of llmSlots
          MaxBatch    \* bound on the tool calls of one completion

ASSUME ToolLoopAssumption ==
    /\ MaxCalls \in Nat \ {0} /\ LlmSlots \in Nat \ {0} /\ MaxBatch \in Nat \ {0}
    /\ Limit \in [Tools -> Nat \ {0}]
    /\ IsFiniteSet(Runs)

VARIABLES
    profile,    \* capabilities of the model profile, and whether the client is llm.Client
    pc,         \* where each run is
    turn,       \* the loop counter
    batch,      \* calls of the last completion not answered yet
    total,      \* totalCalls
    counts,     \* callCounts
    seen,       \* seenCalls
    disabled,   \* toolsDisabled
    retried,    \* finalRetryUsed
    told,       \* toolLimitInstructionAdded
    used,       \* len(llmSlots)
    expired,    \* the request's context has ended
    outcome,    \* what Run returned
    executed,   \* history: calls handed to Search MCP, with their number
    obeyed      \* history: the model called tools only when they were offered

local == <<batch, total, counts, seen, disabled, retried, told>>
history == <<executed, obeyed>>
vars == <<profile, pc, turn, local, used, expired, outcome, history>>

Profiles == [tools : BOOLEAN, parallel : BOOLEAN, strict : BOOLEAN]
Places == {"top", "llm", "compact", "calls", "mcp", "fit", "done"}
Outcomes == {"none", "answer", "error", "context", "limit"}

(* What a tool call in a completion can look like to the loop. *)
Unusable == {[form |-> f, tool |-> "none", args |-> "none"] :
                f \in {"malformed", "unparsable", "unknown", "invalid"}}
Usable == [form : {"valid"}, tool : Tools, args : Args]
Batches == UNION {[1..n -> Unusable \cup Usable] : n \in 1..MaxBatch}

Init ==
    /\ profile \in Profiles
    /\ pc = [r \in Runs |-> "top"]
    /\ turn = [r \in Runs |-> 0]
    /\ batch = [r \in Runs |-> <<>>]
    /\ total = [r \in Runs |-> 0]
    /\ counts = [r \in Runs |-> [t \in Tools |-> 0]]
    /\ seen = [r \in Runs |-> {}]
    /\ disabled = [r \in Runs |-> FALSE]
    /\ retried = [r \in Runs |-> FALSE]
    /\ told = [r \in Runs |-> FALSE]
    /\ used = 0
    /\ expired = [r \in Runs |-> FALSE]
    /\ outcome = [r \in Runs |-> "none"]
    /\ executed = [r \in Runs |-> {}]
    /\ obeyed = [r \in Runs |-> TRUE]

-----------------------------------------------------------------------------
Goto(r, place) == pc' = [pc EXCEPT ![r] = place]

Return(r, how) == Goto(r, "done") /\ outcome' = [outcome EXCEPT ![r] = how]

(* The deadline of the request, or the shutdown of the queue. *)
CtxEnds(r) ==
    /\ pc[r] # "done" /\ ~expired[r]
    /\ expired' = [expired EXCEPT ![r] = TRUE]
    /\ UNCHANGED <<profile, pc, turn, local, used, outcome, history>>

(* The top of the loop, and the wait for an LLM slot. *)
(* Mutant of TurnsLeft: no turn is left for the retry. *)
TurnsLeftForCalls(r) == turn[r] <= MaxCalls

TurnsLeft(r) == turn[r] <= MaxCalls + 1

AskModel(r) ==
    /\ pc[r] = "top" /\ TurnsLeft(r)
    /\ used < LlmSlots
    /\ Goto(r, "llm")
    /\ used' = used + 1
    /\ told' = [told EXCEPT ![r] = @ \/ (disabled[r] /\ total[r] >= MaxCalls)]
    /\ UNCHANGED <<profile, turn, batch, total, counts, seen, disabled, retried, expired,
                   outcome, history>>

StopAtTop(r) ==
    /\ pc[r] = "top" /\ TurnsLeft(r) /\ expired[r]
    /\ Return(r, "context")
    /\ UNCHANGED <<profile, turn, local, used, expired, history>>

GiveUp(r) ==
    /\ pc[r] = "top" /\ ~TurnsLeft(r)
    /\ Return(r, "limit")
    /\ UNCHANGED <<profile, turn, local, used, expired, history>>

Offered(r) == profile.tools /\ ~disabled[r]

-----------------------------------------------------------------------------
(* The completion arrives; the slot is given back whatever it is. *)

(* Mutant of Arrives: the slot is not given back. *)
ArrivesHoldingSlot(r) == pc[r] = "llm" /\ used' = used

Arrives(r) == pc[r] = "llm" /\ used' = used - 1

(* The call failed, also when tried again (postJSON), or the client or the *)
(* loop rejects the completion: no choice, another role, an unsupported    *)
(* finish reason, an empty answer.                                         *)
Unacceptable(r) ==
    /\ Arrives(r)
    /\ Return(r, "error")
    /\ UNCHANGED <<profile, turn, local, expired, history>>

Answer(r) ==
    /\ Arrives(r)
    /\ Return(r, "answer")
    /\ UNCHANGED <<profile, turn, local, expired, history>>

(* Mutant of Unfinished: a truncated response is retried before the slot is given back. *)
UnfinishedHoldingSlot(r) ==
    /\ pc[r] = "llm"
    /\ IF retried[r] THEN Return(r, "error") ELSE Goto(r, "compact") /\ UNCHANGED outcome
    /\ UNCHANGED <<profile, turn, local, used, expired, history>>

(* A truncated response, or an answer that contains tool-call markup: one  *)
(* more attempt, with what has been collected made compact.                *)
Unfinished(r) ==
    /\ Arrives(r)
    /\ IF retried[r] THEN Return(r, "error") ELSE Goto(r, "compact") /\ UNCHANGED outcome
    /\ UNCHANGED <<profile, turn, local, expired, history>>

Compacted(r) ==
    /\ pc[r] = "compact"
    /\ Goto(r, "top")
    /\ turn' = [turn EXCEPT ![r] = @ + 1]
    /\ retried' = [retried EXCEPT ![r] = TRUE]
    /\ disabled' = [disabled EXCEPT ![r] = TRUE]
    /\ UNCHANGED <<profile, batch, total, counts, seen, told, used, expired, outcome, history>>

CompactFails(r) ==
    /\ pc[r] = "compact"
    /\ Return(r, "error")
    /\ UNCHANGED <<profile, turn, local, used, expired, history>>

Accepts(r, b) == profile.tools /\ ~retried[r] /\ (Len(b) > 1 => profile.parallel)

(* llm.Client fails on a completion with such a call; another ChatClient   *)
(* hands it to the loop.                                                   *)
Garbled(b) == \E i \in 1..Len(b) : b[i].form \in {"malformed", "unparsable"}

RejectGarbled(r, b) ==
    /\ Arrives(r)
    /\ profile.strict /\ Garbled(b)
    /\ Return(r, "error")
    /\ UNCHANGED <<profile, turn, local, expired, history>>

CallTools(r, b) ==
    /\ Arrives(r)
    /\ profile.strict => ~Garbled(b)
    /\ obeyed' = [obeyed EXCEPT ![r] = @ /\ Offered(r)]
    /\ IF Accepts(r, b)
       THEN Goto(r, "calls") /\ batch' = [batch EXCEPT ![r] = b] /\ UNCHANGED outcome
       ELSE Return(r, "error") /\ UNCHANGED batch
    /\ UNCHANGED <<profile, turn, total, counts, seen, disabled, retried, told, expired, executed>>

-----------------------------------------------------------------------------
(* The calls of a completion, one after the other. *)

Call(r) == Head(batch[r])
Signature(c) == <<c.tool, c.args>>

(* The call is counted before it is looked at. *)
Count(r) ==
    /\ pc[r] = "calls" /\ Call(r).form # "malformed"
    /\ total' = [total EXCEPT ![r] = @ + 1]
    /\ UNCHANGED <<profile, turn, batch, retried, told, used, expired, outcome, obeyed>>

CountTool(r) == counts' = [counts EXCEPT ![r][Call(r).tool] = @ + 1]

(* Mutant of OverLimit: only the number of calls is looked at. *)
OverCount(r) == total[r] + 1 > MaxCalls
OverLimit(r) == disabled[r] \/ total[r] + 1 > MaxCalls
(* Mutant of OverToolLimit: the call is compared before it is counted. *)
OverToolLimitLate(r) == counts[r][Call(r).tool] > Limit[Call(r).tool]
OverToolLimit(r) == counts[r][Call(r).tool] + 1 > Limit[Call(r).tool]
Duplicate(r) == Signature(Call(r)) \in seen[r]

Malformed(r) ==
    /\ pc[r] = "calls" /\ Call(r).form = "malformed"
    /\ Return(r, "error")
    /\ UNCHANGED <<profile, turn, local, used, expired, history>>

(* not_found, invalid_argument *)
RefuseForm(r) ==
    /\ Count(r)
    /\ Call(r).form # "valid"
    /\ Goto(r, "fit")
    /\ UNCHANGED <<counts, seen, disabled, executed>>

(* tool_limit_reached *)
RefuseOverLimit(r) ==
    /\ Count(r)
    /\ Call(r).form = "valid" /\ CountTool(r)
    /\ OverLimit(r)
    /\ disabled' = [disabled EXCEPT ![r] = TRUE]
    /\ Goto(r, "fit")
    /\ UNCHANGED <<seen, executed>>

(* rate_limited, duplicate_call *)
RefuseRepeat(r) ==
    /\ Count(r)
    /\ Call(r).form = "valid" /\ CountTool(r)
    /\ ~OverLimit(r) /\ (OverToolLimit(r) \/ Duplicate(r))
    /\ Goto(r, "fit")
    /\ UNCHANGED <<seen, disabled, executed>>

Invoke(r) ==
    /\ Count(r)
    /\ Call(r).form = "valid" /\ CountTool(r)
    /\ ~OverLimit(r) /\ ~OverToolLimit(r) /\ ~Duplicate(r)
    /\ seen' = [seen EXCEPT ![r] = @ \cup {Signature(Call(r))}]
    /\ executed' = [executed EXCEPT ![r] = @ \cup
           {[n |-> total'[r], k |-> counts'[r][Call(r).tool], sig |-> Signature(Call(r))]}]
    /\ Goto(r, "mcp")
    /\ UNCHANGED disabled

(* A result, a tool error or tool_unavailable: all become a tool message.  *)
(* With the context ended an error ends the run instead.                   *)
Invoked(r) ==
    /\ pc[r] = "mcp"
    /\ \/ Goto(r, "fit") /\ UNCHANGED outcome
       \/ expired[r] /\ Return(r, "context")
    /\ UNCHANGED <<profile, turn, local, used, expired, history>>

(* Mutant of Fit: reaching the number of calls withdraws nothing. *)
FitOnlyBudget(r, full) ==
    /\ pc[r] = "fit"
    /\ batch' = [batch EXCEPT ![r] = Tail(@)]
    /\ disabled' = [disabled EXCEPT ![r] = @ \/ full]
    /\ IF Len(batch[r]) > 1
       THEN Goto(r, "calls") /\ UNCHANGED turn
       ELSE Goto(r, "top") /\ turn' = [turn EXCEPT ![r] = @ + 1]
    /\ UNCHANGED <<profile, total, counts, seen, retried, told, used, expired, outcome, history>>

(* The tool message is cut to the budget and appended; it may use it up.   *)
Fit(r, full) ==
    /\ pc[r] = "fit"
    /\ batch' = [batch EXCEPT ![r] = Tail(@)]
    /\ disabled' = [disabled EXCEPT ![r] = @ \/ full \/ total[r] >= MaxCalls]
    /\ IF Len(batch[r]) > 1
       THEN Goto(r, "calls") /\ UNCHANGED turn
       ELSE Goto(r, "top") /\ turn' = [turn EXCEPT ![r] = @ + 1]
    /\ UNCHANGED <<profile, total, counts, seen, retried, told, used, expired, outcome, history>>

FitFails(r) ==
    /\ pc[r] = "fit"
    /\ Return(r, "error")
    /\ UNCHANGED <<profile, turn, local, used, expired, history>>

-----------------------------------------------------------------------------
Completion(r) == \/ Unacceptable(r) \/ Answer(r) \/ Unfinished(r)
                 \/ \E b \in Batches : CallTools(r, b) \/ RejectGarbled(r, b)
HandleCall(r) == \/ Malformed(r) \/ RefuseForm(r) \/ RefuseOverLimit(r) \/ RefuseRepeat(r)
                 \/ Invoke(r)
Continue(r) == \/ Compacted(r) \/ CompactFails(r) \/ HandleCall(r) \/ Invoked(r)
               \/ \E full \in BOOLEAN : Fit(r, full) \/ FitFails(r)

AllDone == (\A r \in Runs : pc[r] = "done") /\ UNCHANGED vars

Next ==
    \/ \E r \in Runs : \/ CtxEnds(r) \/ AskModel(r) \/ StopAtTop(r) \/ GiveUp(r)
                       \/ Completion(r) \/ Continue(r)
    \/ AllDone

Safety == Init /\ [][Next]_vars

(* LLM calls, counting requests and MCP calls return (each has a timeout); *)
(* goroutines that wait on a channel are served in their order, so a run   *)
(* that waits while slots keep coming free gets one.  No deadline is       *)
(* needed: expiry is not fair here.  A run takes finitely many of these    *)
(* steps, so that one condition on all says the same as one on each.       *)
Spec ==
    /\ Safety
    /\ SF_vars(\E r \in Runs : Completion(r) \/ Continue(r) \/ GiveUp(r) \/ AskModel(r))

-----------------------------------------------------------------------------
(* The state is well formed; the slots in use are those of the runs that   *)
(* wait for the model.                                                     *)
TypeOK ==
    /\ profile \in Profiles
    /\ pc \in [Runs -> Places]
    /\ turn \in [Runs -> 0..MaxCalls + 2]
    /\ \A r \in Runs : batch[r] \in Seq(Unusable \cup Usable) /\ Len(batch[r]) <= MaxBatch
    /\ total \in [Runs -> Nat]
    /\ counts \in [Runs -> [Tools -> Nat]]
    /\ seen \in [Runs -> SUBSET (Tools \X Args)]
    /\ disabled \in [Runs -> BOOLEAN] /\ retried \in [Runs -> BOOLEAN]
    /\ told \in [Runs -> BOOLEAN] /\ expired \in [Runs -> BOOLEAN]
    /\ outcome \in [Runs -> Outcomes]
    /\ executed \in [Runs -> SUBSET [n : Nat, k : Nat, sig : Tools \X Args]]
    /\ obeyed \in [Runs -> BOOLEAN]
    /\ used = Cardinality({r \in Runs : pc[r] = "llm"}) /\ used <= LlmSlots

(* Whatever the model calls, in whatever batches, a request makes no more  *)
(* searches than the limits allow in total and per tool, and never the     *)
(* same search twice (OR-09 of the design).                                *)
SearchesBounded ==
    \A r \in Runs :
        /\ Cardinality(executed[r]) <= MaxCalls
        /\ \A t \in Tools : Cardinality({e \in executed[r] : e.sig[1] = t}) <= Limit[t]
        /\ \A e, f \in executed[r] : e.sig = f.sig => e = f

Withdrawn(r) ==
    /\ disabled[r] => disabled'[r] /\ executed'[r] = executed[r]
    /\ (retried[r] /\ pc[r] = "llm" /\ pc'[r] # "llm") => pc'[r] = "done"

AllWithdrawn == \A r \in Runs : Withdrawn(r)

(* Tools that were withdrawn stay withdrawn: nothing is searched any more, *)
(* and after the final retry has been asked for, the next completion ends  *)
(* the run.                                                                *)
WithdrawnForGood == [][AllWithdrawn]_vars

(* A request that has used up its calls asks the model only with the       *)
(* instruction to answer from what it has (OR-09).                         *)
LimitIsTold ==
    \A r \in Runs : (pc[r] = "llm" /\ total[r] >= MaxCalls) => (told[r] /\ ~Offered(r))

(* The turns suffice: a model that calls tools only when it is offered     *)
(* some never runs into the inference limit, the retry included.           *)
ObedienceIsEnough == \A r \in Runs : outcome[r] = "limit" => ~obeyed[r]

(* Every run ends, also when the model never stops calling tools and the   *)
(* runs compete for the slots.                                             *)
EveryRunEnds == <>(\A r \in Runs : pc[r] = "done")
=============================================================================
