--------------------------- MODULE ToolLoopProofs ---------------------------
(***************************************************************************)
(* The tool loop keeps its bounds for every number of runs, tools and      *)
(* limits, and whatever the model answers: the inductive invariant IInv    *)
(* and what follows from it.                                               *)
(***************************************************************************)
EXTENDS ToolLoop, FunctionTheorems, FiniteSetTheorems, TLAPS

Waiting == {r \in Runs : pc[r] = "llm"}

Short == {b \in Seq(Unusable \cup Usable) : Len(b) <= MaxBatch}

(* TypeOK without the count of the slots. *)
Types ==
    /\ profile \in Profiles
    /\ pc \in [Runs -> Places]
    /\ turn \in [Runs -> 0..MaxCalls + 2]
    /\ batch \in [Runs -> Short]
    /\ total \in [Runs -> Nat]
    /\ counts \in [Runs -> [Tools -> Nat]]
    /\ seen \in [Runs -> SUBSET (Tools \X Args)]
    /\ disabled \in [Runs -> BOOLEAN] /\ retried \in [Runs -> BOOLEAN]
    /\ told \in [Runs -> BOOLEAN] /\ expired \in [Runs -> BOOLEAN]
    /\ outcome \in [Runs -> Outcomes]
    /\ executed \in [Runs -> SUBSET [n : Nat, k : Nat, sig : Tools \X Args]]
    /\ obeyed \in [Runs -> BOOLEAN]

SlotInv == used = Cardinality(Waiting) /\ used <= LlmSlots

InBatch(r) == pc[r] \in {"calls", "mcp", "fit"}
Between(r) == pc[r] \in {"top", "llm", "compact"}
RetryTurn(r) == IF retried[r] THEN 1 ELSE 0

(* Where a run is and what it may still do. *)
RunInv(r) ==
    /\ retried[r] => disabled[r]
    /\ pc[r] \in {"llm", "compact"} \/ InBatch(r) => TurnsLeft(r)
    /\ pc[r] = "compact" => ~retried[r]
    /\ InBatch(r) => batch[r] # <<>> /\ ~retried[r]
    /\ Between(r) /\ total[r] >= MaxCalls => disabled[r]
    /\ pc[r] = "llm" /\ total[r] >= MaxCalls => told[r]
    /\ outcome[r] = "limit" => ~obeyed[r]

(* The turns a run has used up are its completions with calls, each of     *)
(* which counted a call, and its retry.                                    *)
TurnInv(r) ==
    obeyed[r] =>
        /\ Between(r) => turn[r] <= total[r] + RetryTurn(r) /\ turn[r] <= MaxCalls + RetryTurn(r)
        /\ InBatch(r) => turn[r] <= total[r] /\ turn[r] < MaxCalls
        /\ pc[r] \in {"mcp", "fit"} => turn[r] < total[r]

(* Searches are numbered, in the run and per tool, without repetition. *)
ExecInv(r) ==
    /\ \A e \in executed[r] :
          /\ e.n \in 1..MaxCalls /\ e.n <= total[r]
          /\ e.k \in 1..Limit[e.sig[1]] /\ e.k <= counts[r][e.sig[1]]
          /\ e.sig \in seen[r]
    /\ \A e, f \in executed[r] :
          e.n = f.n \/ e.sig = f.sig \/ (e.sig[1] = f.sig[1] /\ e.k = f.k) => e = f

IInv == /\ Types
        /\ SlotInv
        /\ \A r \in Runs : RunInv(r) /\ TurnInv(r) /\ ExecInv(r)

-----------------------------------------------------------------------------
(* The invariant holds when the runs begin. *)
LEMMA InitIInv == Init => IInv
<1> SUFFICES ASSUME Init PROVE IInv
    OBVIOUS
<1>1. Types
    BY ToolLoopAssumption DEF Init, Types, Places, Outcomes, Short
<1>2. SlotInv
    <2>1. Waiting = {}
        BY DEF Init, Waiting
    <2>2. Cardinality({}) = 0
        BY FS_EmptySet
    <2> QED
        BY <2>1, <2>2, ToolLoopAssumption DEF Init, SlotInv
<1>3. ASSUME NEW r \in Runs PROVE RunInv(r) /\ TurnInv(r) /\ ExecInv(r)
    BY ToolLoopAssumption DEF Init, RunInv, TurnInv, ExecInv, Between, InBatch, RetryTurn
<1> QED
    BY <1>1, <1>2, <1>3 DEF IInv

(* What the head of a batch can be, and what is left without it. *)
LEMMA BatchHead ==
    ASSUME IInv, NEW r \in Runs, InBatch(r)
    PROVE  /\ Call(r) \in Unusable \cup Usable
           /\ Len(batch[r]) \in Nat \ {0}
           /\ Tail(batch[r]) \in Seq(Unusable \cup Usable)
           /\ Len(Tail(batch[r])) = Len(batch[r]) - 1
           /\ Len(batch[r]) > 1 => Tail(batch[r]) # <<>>
<1> DEFINE E == Unusable \cup Usable
<1> HIDE DEF E
<1>1. batch[r] \in Seq(E) /\ batch[r] # <<>>
    BY DEF IInv, Types, RunInv, E, Short
<1>2. /\ Head(batch[r]) \in E /\ Len(batch[r]) \in Nat \ {0}
      /\ Tail(batch[r]) \in Seq(E) /\ Len(Tail(batch[r])) = Len(batch[r]) - 1
    BY <1>1
<1>3. Len(batch[r]) > 1 => Tail(batch[r]) # <<>>
    BY <1>2
<1> QED
    BY <1>2, <1>3 DEF Call, E

(* A batch is a short sequence of calls. *)
LEMMA BatchInSeq ==
    ASSUME NEW b \in Batches
    PROVE  b \in Seq(Unusable \cup Usable) /\ Len(b) <= MaxBatch /\ b # <<>>
BY ToolLoopAssumption DEF Batches

(* A call in good form names a tool. *)
LEMMA ValidCall ==
    ASSUME IInv, NEW r \in Runs, pc[r] = "calls", Call(r).form = "valid"
    PROVE  Call(r).tool \in Tools /\ Call(r).args \in Args
<1>1. Call(r) \in Unusable \cup Usable
    BY BatchHead DEF InBatch
<1>2. Call(r) \notin Unusable
    BY DEF Unusable
<1> QED
    BY <1>1, <1>2 DEF Usable

(* Every step keeps the types. *)
LEMMA TypeNext == IInv /\ [Next]_vars => Types'
<1> SUFFICES ASSUME IInv, [Next]_vars PROVE Types'
    OBVIOUS
<1>0. Types /\ (\A r \in Runs : RunInv(r))
    BY DEF IInv
<1> USE <1>0, ToolLoopAssumption DEF Types, Profiles, local, history, Places, Outcomes
<1>1. ASSUME NEW r \in Runs,
             \/ CtxEnds(r) \/ AskModel(r) \/ StopAtTop(r) \/ GiveUp(r)
             \/ Completion(r) \/ Continue(r)
      PROVE  Types'
    <2>1. CASE CtxEnds(r)
        BY <2>1 DEF CtxEnds
    <2>2. CASE AskModel(r)
        BY <2>2 DEF AskModel, Goto
    <2>3. CASE StopAtTop(r)
        BY <2>3 DEF StopAtTop, Goto, Return
    <2>4. CASE GiveUp(r)
        BY <2>4 DEF GiveUp, Goto, Return
    <2>5. CASE Unacceptable(r)
        BY <2>5 DEF Unacceptable, Goto, Return, Arrives
    <2>6. CASE Answer(r)
        BY <2>6 DEF Answer, Goto, Return, Arrives
    <2>7. CASE Unfinished(r)
        BY <2>7 DEF Unfinished, Goto, Return, Arrives
    <2>8. ASSUME NEW b \in Batches, CallTools(r, b) PROVE Types'
        <3>1. b \in Short
            BY BatchInSeq DEF Short
        <3>2. Offered(r) \in BOOLEAN
            BY DEF Offered
        <3>3. obeyed' \in [Runs -> BOOLEAN] /\ batch' \in [Runs -> Short]
            BY <2>8, <3>1, <3>2 DEF CallTools
        <3>4. pc' \in [Runs -> Places] /\ outcome' \in [Runs -> Outcomes]
            BY <2>8 DEF CallTools, Goto, Return
        <3> QED
            BY <2>8, <3>3, <3>4 DEF CallTools
    <2>9. ASSUME NEW b \in Batches, RejectGarbled(r, b) PROVE Types'
        BY <2>9 DEF RejectGarbled, Goto, Return, Arrives
    <2>10. CASE Compacted(r)
        <3>1. turn[r] + 1 \in 0..MaxCalls + 2
            BY <2>10 DEF Compacted, RunInv, TurnsLeft
        <3> QED
            BY <2>10, <3>1 DEF Compacted, Goto
    <2>11. CASE CompactFails(r)
        BY <2>11 DEF CompactFails, Goto, Return
    <2>12. CASE Malformed(r)
        BY <2>12 DEF Malformed, Goto, Return
    <2>13. CASE RefuseForm(r)
        BY <2>13 DEF RefuseForm, Goto, Count
    <2>14. CASE RefuseOverLimit(r)
        <3>2. Call(r).tool \in Tools /\ Call(r).args \in Args
            BY <2>14, ValidCall DEF RefuseOverLimit, Count
        <3>3. counts[r][Call(r).tool] + 1 \in Nat /\ total[r] + 1 \in Nat
            BY <3>2
        <3> DEFINE t == Call(r).tool
        <3>4. counts' = [counts EXCEPT ![r][t] = counts[r][t] + 1]
            BY <2>14 DEF RefuseOverLimit, CountTool
        <3>5. total' = [total EXCEPT ![r] = total[r] + 1]
            BY <2>14 DEF RefuseOverLimit, Count
        <3>6. counts' \in [Runs -> [Tools -> Nat]] /\ total' \in [Runs -> Nat]
            BY <3>2, <3>3, <3>4, <3>5
        <3> HIDE DEF t
        <3> QED
            BY <2>14, <3>6 DEF RefuseOverLimit, Goto, Count
    <2>15. CASE RefuseRepeat(r)
        <3>2. Call(r).tool \in Tools /\ Call(r).args \in Args
            BY <2>15, ValidCall DEF RefuseRepeat, Count
        <3>3. counts[r][Call(r).tool] + 1 \in Nat /\ total[r] + 1 \in Nat
            BY <3>2
        <3> DEFINE t == Call(r).tool
        <3>4. counts' = [counts EXCEPT ![r][t] = counts[r][t] + 1]
            BY <2>15 DEF RefuseRepeat, CountTool
        <3>5. total' = [total EXCEPT ![r] = total[r] + 1]
            BY <2>15 DEF RefuseRepeat, Count
        <3>6. counts' \in [Runs -> [Tools -> Nat]] /\ total' \in [Runs -> Nat]
            BY <3>2, <3>3, <3>4, <3>5
        <3> HIDE DEF t
        <3> QED
            BY <2>15, <3>6 DEF RefuseRepeat, Goto, Count
    <2>16. CASE Invoke(r)
        <3>2. Call(r).tool \in Tools /\ Call(r).args \in Args
            BY <2>16, ValidCall DEF Invoke, Count
        <3>3. counts[r][Call(r).tool] + 1 \in Nat /\ total[r] + 1 \in Nat
            BY <3>2
        <3> DEFINE t == Call(r).tool
        <3>4. counts' = [counts EXCEPT ![r][t] = counts[r][t] + 1]
            BY <2>16 DEF Invoke, CountTool
        <3>5. total' = [total EXCEPT ![r] = total[r] + 1]
            BY <2>16 DEF Invoke, Count
        <3>6. counts' \in [Runs -> [Tools -> Nat]] /\ total' \in [Runs -> Nat]
            BY <3>2, <3>3, <3>4, <3>5
        <3>7. total'[r] = total[r] + 1 /\ counts'[r][t] = counts[r][t] + 1
            BY <3>2, <3>4, <3>5
        <3> DEFINE e == [n |-> total'[r], k |-> counts'[r][t], sig |-> Signature(Call(r))]
        <3>8. e \in [n : Nat, k : Nat, sig : Tools \X Args] /\ Signature(Call(r)) \in Tools \X Args
            BY <3>2, <3>3, <3>7 DEF Signature
        <3>9. executed' = [executed EXCEPT ![r] = executed[r] \cup {e}]
            BY <2>16 DEF Invoke
        <3> HIDE DEF t, e
        <3>10. executed' \in [Runs -> SUBSET [n : Nat, k : Nat, sig : Tools \X Args]]
            BY <3>8, <3>9
        <3> QED
            BY <2>16, <3>6, <3>8, <3>10 DEF Invoke, Goto, Count
    <2>17. CASE Invoked(r)
        BY <2>17 DEF Invoked, Goto, Return
    <2>18. ASSUME NEW full \in BOOLEAN, Fit(r, full) PROVE Types'
        <3>1. turn[r] + 1 \in 0..MaxCalls + 2
            BY <2>18 DEF Fit, RunInv, TurnsLeft, InBatch
        <3>2. Tail(batch[r]) \in Short
            BY <2>18, BatchHead DEF Fit, InBatch, Short
        <3>3. disabled' \in [Runs -> BOOLEAN] /\ batch' \in [Runs -> Short]
            BY <2>18, <3>2 DEF Fit
        <3>4. pc' \in [Runs -> Places] /\ turn' \in [Runs -> 0..MaxCalls + 2]
            <4>1. CASE Len(batch[r]) > 1
                BY <2>18, <4>1 DEF Fit, Goto
            <4>2. CASE ~(Len(batch[r]) > 1)
                <5>1. /\ turn' = [turn EXCEPT ![r] = turn[r] + 1]
                      /\ pc' = [pc EXCEPT ![r] = "top"]
                    BY <2>18, <4>2 DEF Fit, Goto
                <5> QED
                    BY <3>1, <5>1
            <4> QED
                BY <4>1, <4>2
        <3> QED
            BY <2>18, <3>3, <3>4 DEF Fit
    <2>19. CASE FitFails(r)
        BY <2>19 DEF FitFails, Goto, Return
    <2> QED
        BY <1>1, <2>1, <2>2, <2>3, <2>4, <2>5, <2>6, <2>7, <2>8, <2>9, <2>10, <2>11,
           <2>12, <2>13, <2>14, <2>15, <2>16, <2>17, <2>18, <2>19
        DEF Completion, Continue, HandleCall
<1>2. CASE UNCHANGED vars
    BY <1>2 DEF vars
<1> QED
    BY <1>1, <1>2 DEF Next, AllDone

(* Every step keeps what each run may still do. *)
LEMMA RunNext == IInv /\ [Next]_vars => \A k \in Runs : RunInv(k)'
<1> SUFFICES ASSUME IInv, [Next]_vars, NEW k \in Runs PROVE RunInv(k)'
    OBVIOUS
<1>0. Types /\ RunInv(k) /\ TurnInv(k)
    BY DEF IInv
<1> USE <1>0, ToolLoopAssumption DEF Types, RunInv, InBatch, Between, TurnsLeft, local, history
<1>1. ASSUME NEW r \in Runs,
             \/ CtxEnds(r) \/ AskModel(r) \/ StopAtTop(r) \/ GiveUp(r)
             \/ Completion(r) \/ Continue(r)
      PROVE  RunInv(k)'
    <2>1. CASE CtxEnds(r)
        BY <2>1 DEF CtxEnds
    <2>2. CASE AskModel(r)
        BY <2>2 DEF AskModel, Goto
    <2>3. CASE StopAtTop(r)
        BY <2>3 DEF StopAtTop, Goto, Return
    <2>4. CASE GiveUp(r)
        BY <2>4 DEF GiveUp, Goto, Return, TurnInv, RetryTurn
    <2>5. CASE Unacceptable(r)
        BY <2>5 DEF Unacceptable, Goto, Return, Arrives
    <2>6. CASE Answer(r)
        BY <2>6 DEF Answer, Goto, Return, Arrives
    <2>7. CASE Unfinished(r)
        BY <2>7 DEF Unfinished, Goto, Return, Arrives
    <2>8. ASSUME NEW b \in Batches, CallTools(r, b) PROVE RunInv(k)'
        BY <2>8, BatchInSeq DEF CallTools, Goto, Return, Arrives, Accepts
    <2>9. ASSUME NEW b \in Batches, RejectGarbled(r, b) PROVE RunInv(k)'
        BY <2>9 DEF RejectGarbled, Goto, Return, Arrives
    <2>10. CASE Compacted(r)
        BY <2>10 DEF Compacted, Goto
    <2>11. CASE CompactFails(r)
        BY <2>11 DEF CompactFails, Goto, Return
    <2>12. CASE Malformed(r)
        BY <2>12 DEF Malformed, Goto, Return
    <2>13. CASE RefuseForm(r)
        BY <2>13 DEF RefuseForm, Goto, Count
    <2>14. CASE RefuseOverLimit(r)
        BY <2>14 DEF RefuseOverLimit, Goto, Count, CountTool
    <2>15. CASE RefuseRepeat(r)
        BY <2>15 DEF RefuseRepeat, Goto, Count, CountTool
    <2>16. CASE Invoke(r)
        BY <2>16 DEF Invoke, Goto, Count, CountTool
    <2>17. CASE Invoked(r)
        BY <2>17 DEF Invoked, Goto, Return
    <2>18. ASSUME NEW full \in BOOLEAN, Fit(r, full) PROVE RunInv(k)'
        BY <2>18, BatchHead DEF Fit, Goto
    <2>19. CASE FitFails(r)
        BY <2>19 DEF FitFails, Goto, Return
    <2> QED
        BY <1>1, <2>1, <2>2, <2>3, <2>4, <2>5, <2>6, <2>7, <2>8, <2>9, <2>10, <2>11,
           <2>12, <2>13, <2>14, <2>15, <2>16, <2>17, <2>18, <2>19
        DEF Completion, Continue, HandleCall
<1>2. CASE UNCHANGED vars
    BY <1>2 DEF vars
<1> QED
    BY <1>1, <1>2 DEF Next, AllDone

(* Every step keeps the account of the turns. *)
LEMMA TurnNext == IInv /\ [Next]_vars => \A k \in Runs : TurnInv(k)'
<1> SUFFICES ASSUME IInv, [Next]_vars, NEW k \in Runs PROVE TurnInv(k)'
    OBVIOUS
<1>0. Types /\ RunInv(k) /\ TurnInv(k)
    BY DEF IInv
<1> USE <1>0, ToolLoopAssumption DEF Types, RunInv, TurnInv, RetryTurn, InBatch, Between, local, history
<1>1. ASSUME NEW r \in Runs,
             \/ CtxEnds(r) \/ AskModel(r) \/ StopAtTop(r) \/ GiveUp(r)
             \/ Completion(r) \/ Continue(r)
      PROVE  TurnInv(k)'
    <2>1. CASE CtxEnds(r)
        BY <2>1 DEF CtxEnds
    <2>2. CASE AskModel(r)
        BY <2>2 DEF AskModel, Goto
    <2>3. CASE StopAtTop(r)
        BY <2>3 DEF StopAtTop, Goto, Return
    <2>4. CASE GiveUp(r)
        BY <2>4 DEF GiveUp, Goto, Return
    <2>5. CASE Unacceptable(r)
        BY <2>5 DEF Unacceptable, Goto, Return, Arrives
    <2>6. CASE Answer(r)
        BY <2>6 DEF Answer, Goto, Return, Arrives
    <2>7. CASE Unfinished(r)
        BY <2>7 DEF Unfinished, Goto, Return, Arrives
    <2>8. ASSUME NEW b \in Batches, CallTools(r, b) PROVE TurnInv(k)'
        BY <2>8 DEF CallTools, Goto, Return, Arrives, Accepts, Offered
    <2>9. ASSUME NEW b \in Batches, RejectGarbled(r, b) PROVE TurnInv(k)'
        BY <2>9 DEF RejectGarbled, Goto, Return, Arrives
    <2>10. CASE Compacted(r)
        BY <2>10 DEF Compacted, Goto
    <2>11. CASE CompactFails(r)
        BY <2>11 DEF CompactFails, Goto, Return
    <2>12. CASE Malformed(r)
        BY <2>12 DEF Malformed, Goto, Return
    <2>13. CASE RefuseForm(r)
        BY <2>13 DEF RefuseForm, Goto, Count
    <2>14. CASE RefuseOverLimit(r)
        BY <2>14 DEF RefuseOverLimit, Goto, Count, CountTool
    <2>15. CASE RefuseRepeat(r)
        BY <2>15 DEF RefuseRepeat, Goto, Count, CountTool
    <2>16. CASE Invoke(r)
        BY <2>16 DEF Invoke, Goto, Count, CountTool
    <2>17. CASE Invoked(r)
        BY <2>17 DEF Invoked, Goto, Return
    <2>18. ASSUME NEW full \in BOOLEAN, Fit(r, full) PROVE TurnInv(k)'
        BY <2>18 DEF Fit, Goto
    <2>19. CASE FitFails(r)
        BY <2>19 DEF FitFails, Goto, Return
    <2> QED
        BY <1>1, <2>1, <2>2, <2>3, <2>4, <2>5, <2>6, <2>7, <2>8, <2>9, <2>10, <2>11,
           <2>12, <2>13, <2>14, <2>15, <2>16, <2>17, <2>18, <2>19
        DEF Completion, Continue, HandleCall
<1>2. CASE UNCHANGED vars
    BY <1>2 DEF vars
<1> QED
    BY <1>1, <1>2 DEF Next, AllDone

(* Every step keeps the searches numbered. *)
LEMMA ExecNext == IInv /\ [Next]_vars => \A k \in Runs : ExecInv(k)'
<1> SUFFICES ASSUME IInv, [Next]_vars, NEW k \in Runs PROVE ExecInv(k)'
    OBVIOUS
<1>0. Types /\ ExecInv(k)
    BY DEF IInv
<1> USE <1>0, ToolLoopAssumption DEF Types, ExecInv, local, history
<1>1. ASSUME NEW r \in Runs,
             \/ CtxEnds(r) \/ AskModel(r) \/ StopAtTop(r) \/ GiveUp(r)
             \/ Completion(r) \/ Continue(r)
      PROVE  ExecInv(k)'
    <2>1. CASE CtxEnds(r)
        BY <2>1 DEF CtxEnds
    <2>2. CASE AskModel(r)
        BY <2>2 DEF AskModel, Goto
    <2>3. CASE StopAtTop(r)
        BY <2>3 DEF StopAtTop, Goto, Return
    <2>4. CASE GiveUp(r)
        BY <2>4 DEF GiveUp, Goto, Return
    <2>5. CASE Unacceptable(r)
        BY <2>5 DEF Unacceptable, Goto, Return, Arrives
    <2>6. CASE Answer(r)
        BY <2>6 DEF Answer, Goto, Return, Arrives
    <2>7. CASE Unfinished(r)
        BY <2>7 DEF Unfinished, Goto, Return, Arrives
    <2>8. ASSUME NEW b \in Batches, CallTools(r, b) PROVE ExecInv(k)'
        BY <2>8 DEF CallTools, Goto, Return, Arrives
    <2>9. ASSUME NEW b \in Batches, RejectGarbled(r, b) PROVE ExecInv(k)'
        BY <2>9 DEF RejectGarbled, Goto, Return, Arrives
    <2>10. CASE Compacted(r)
        BY <2>10 DEF Compacted, Goto
    <2>11. CASE CompactFails(r)
        BY <2>11 DEF CompactFails, Goto, Return
    <2>12. CASE Malformed(r)
        BY <2>12 DEF Malformed, Goto, Return
    <2>13. CASE RefuseForm(r)
        BY <2>13 DEF RefuseForm, Goto, Count
    <2>14. CASE RefuseOverLimit(r)
        BY <2>14 DEF RefuseOverLimit, Goto, Count, CountTool
    <2>15. CASE RefuseRepeat(r)
        BY <2>15 DEF RefuseRepeat, Goto, Count, CountTool
    <2>16. CASE Invoke(r)
        <3>0. CASE k /= r
            BY <2>16, <3>0 DEF Invoke, Goto, Count, CountTool
        <3>1. CASE k = r
            <4>1. Call(r).tool \in Tools /\ Call(r).args \in Args
                BY <2>16, ValidCall DEF Invoke, Count
            <4> DEFINE t == Call(r).tool
            <4> DEFINE s == Signature(Call(r))
            <4>2. t \in Tools /\ s \in Tools \X Args /\ s[1] = t
                BY <4>1 DEF Signature
            <4>3. /\ total' = [total EXCEPT ![r] = total[r] + 1]
                  /\ counts' = [counts EXCEPT ![r][t] = counts[r][t] + 1]
                  /\ seen' = [seen EXCEPT ![r] = seen[r] \cup {s}]
                  /\ s \notin seen[r]
                  /\ total[r] + 1 <= MaxCalls /\ counts[r][t] + 1 <= Limit[t]
                BY <2>16, <4>2 DEF Invoke, Count, CountTool, OverLimit, OverToolLimit, Duplicate
            <4> DEFINE e == [n |-> total[r] + 1, k |-> counts[r][t] + 1, sig |-> s]
            <4>4. total'[r] = total[r] + 1 /\ counts'[r][t] = counts[r][t] + 1
                BY <4>2, <4>3
            <4>5. executed' = [executed EXCEPT ![r] = executed[r] \cup {e}]
                BY <2>16, <4>4 DEF Invoke
            <4>6. e.n = total[r] + 1 /\ e.k = counts[r][t] + 1 /\ e.sig = s
                OBVIOUS
            <4>7. \A u \in Tools : counts'[r][u] \in Nat /\ counts[r][u] <= counts'[r][u]
                BY <4>2, <4>3
            <4> HIDE DEF t, s, e
            <4>8. executed'[r] = executed[r] \cup {e} /\ seen'[r] = seen[r] \cup {s}
                BY <4>3, <4>5
            <4>9. \A f \in executed[r] :
                      /\ f.n \in Nat /\ f.k \in Nat /\ f.sig[1] \in Tools
                      /\ f.n <= total[r] /\ f.sig \in seen[r]
                      /\ f.k <= counts[r][f.sig[1]]
                BY <3>1
            <4>10. ASSUME NEW f \in executed'[r]
                   PROVE  /\ f.n \in 1..MaxCalls /\ f.n <= total'[r]
                          /\ f.k \in 1..Limit[f.sig[1]] /\ f.k <= counts'[r][f.sig[1]]
                          /\ f.sig \in seen'[r]
                <5>1. CASE f = e
                    BY <5>1, <4>2, <4>3, <4>4, <4>6, <4>8
                <5>2. CASE f \in executed[r]
                    <6>1. counts[r][f.sig[1]] <= counts'[r][f.sig[1]] /\ counts[r][f.sig[1]] \in Nat
                          /\ counts'[r][f.sig[1]] \in Nat
                        BY <5>2, <4>7, <4>9
                    <6> QED
                        BY <3>1, <5>2, <6>1, <4>4, <4>8, <4>9
                <5> QED
                    BY <5>1, <5>2, <4>8
            <4>11. ASSUME NEW f \in executed[r]
                   PROVE  f.n /= e.n /\ f.sig /= e.sig /\ ~(f.sig[1] = e.sig[1] /\ f.k = e.k)
                BY <4>2, <4>3, <4>6, <4>9
            <4>12. \A f, g \in executed'[r] :
                      f.n = g.n \/ f.sig = g.sig \/ (f.sig[1] = g.sig[1] /\ f.k = g.k) => f = g
                BY <3>1, <4>8, <4>11
            <4> QED
                BY <3>1, <4>10, <4>12
        <3> QED
            BY <3>0, <3>1
    <2>17. CASE Invoked(r)
        BY <2>17 DEF Invoked, Goto, Return
    <2>18. ASSUME NEW full \in BOOLEAN, Fit(r, full) PROVE ExecInv(k)'
        BY <2>18 DEF Fit, Goto
    <2>19. CASE FitFails(r)
        BY <2>19 DEF FitFails, Goto, Return
    <2> QED
        BY <1>1, <2>1, <2>2, <2>3, <2>4, <2>5, <2>6, <2>7, <2>8, <2>9, <2>10, <2>11,
           <2>12, <2>13, <2>14, <2>15, <2>16, <2>17, <2>18, <2>19
        DEF Completion, Continue, HandleCall
<1>2. CASE UNCHANGED vars
    BY <1>2 DEF vars
<1> QED
    BY <1>1, <1>2 DEF Next, AllDone

(* The slots in use are those of the runs that wait for the model. *)
LEMMA SlotNext == IInv /\ [Next]_vars => SlotInv'
<1> SUFFICES ASSUME IInv, [Next]_vars PROVE SlotInv'
    OBVIOUS
<1>0. Types /\ SlotInv /\ IsFiniteSet(Waiting)
    BY ToolLoopAssumption, FS_Subset DEF IInv, Waiting
<1>1. CASE Waiting' = Waiting /\ used' = used
    BY <1>0, <1>1 DEF SlotInv
<1>2. ASSUME NEW r \in Runs, AskModel(r) PROVE SlotInv'
    <2>1. r \notin Waiting /\ Waiting' = Waiting \cup {r}
        BY <1>0, <1>2 DEF Types, AskModel, Goto, Waiting
    <2>2. Cardinality(Waiting') = Cardinality(Waiting) + 1
        BY <1>0, <2>1, FS_AddElement
    <2>3. Cardinality(Waiting) \in Nat
        BY <1>0, FS_CardinalityType
    <2> QED
        BY <1>0, <1>2, <2>2, <2>3, ToolLoopAssumption DEF SlotInv, AskModel
<1>3. ASSUME NEW r \in Runs, Arrives(r), pc' = [pc EXCEPT ![r] = pc'[r]], pc'[r] # "llm"
      PROVE  SlotInv'
    <2>1. r \in Waiting /\ Waiting' = Waiting \ {r}
        BY <1>0, <1>3 DEF Types, Arrives, Waiting
    <2>2. Cardinality(Waiting') = Cardinality(Waiting) - 1
        BY <1>0, <2>1, FS_RemoveElement
    <2>3. Cardinality(Waiting) \in Nat
        BY <1>0, FS_CardinalityType
    <2> QED
        BY <1>0, <1>3, <2>2, <2>3, ToolLoopAssumption DEF SlotInv, Arrives
<1>4. ASSUME NEW r \in Runs, Completion(r) PROVE SlotInv'
    <2>1. /\ Arrives(r)
          /\ pc' = [pc EXCEPT ![r] = pc'[r]] /\ pc'[r] # "llm"
        BY <1>0, <1>4
        DEF Types, Completion, Unacceptable, Answer, Unfinished, CallTools, RejectGarbled, Arrives, Return, Goto
    <2> QED
        BY <1>3, <2>1
<1>5. ASSUME NEW r \in Runs,
             CtxEnds(r) \/ StopAtTop(r) \/ GiveUp(r) \/ Continue(r)
      PROVE  Waiting' = Waiting /\ used' = used
    BY <1>0, <1>5
    DEF Types, Waiting, CtxEnds, StopAtTop, GiveUp, Continue, HandleCall, Compacted, CompactFails,
        Malformed, RefuseForm, RefuseOverLimit, RefuseRepeat, Invoke, Count, Invoked, Fit, FitFails,
        Return, Goto
<1>6. CASE UNCHANGED vars
    BY <1>1, <1>6 DEF vars, Waiting
<1> QED
    BY <1>1, <1>2, <1>4, <1>5, <1>6 DEF Next, AllDone

(* The invariant, for all constants. *)
THEOREM InductiveInvariant == Safety => []IInv
<1>1. IInv /\ [Next]_vars => IInv'
    BY TypeNext, SlotNext, RunNext, TurnNext, ExecNext DEF IInv
<1> QED
    BY <1>1, InitIInv, PTL DEF Safety

-----------------------------------------------------------------------------
(* The state is well formed, and the LLM slots are conserved (TypeOK).     *)
THEOREM TypeCorrect == Safety => []TypeOK
<1>1. IInv => TypeOK
    BY DEF IInv, Types, SlotInv, Waiting, TypeOK, Short
<1> QED
    BY <1>1, InductiveInvariant, PTL

(* A set whose members carry distinct numbers of 1..n has at most n.       *)
LEMMA Numbered ==
    ASSUME NEW S, NEW n \in Nat, NEW num \in [S -> 1..n],
           \A e, f \in S : num[e] = num[f] => e = f
    PROVE  Cardinality(S) <= n
<1>1. num \in Injection(S, 1..n)
    BY Fun_IsInj
<1>2. IsFiniteSet(1..n) /\ Cardinality(1..n) = n
    BY FS_Interval
<1> QED
    BY <1>1, <1>2, FS_Injection

(* Whatever the model calls, a request makes no more searches than the     *)
(* limits allow, and none twice (SearchesBounded).                         *)
THEOREM SearchesAreBounded == Safety => []SearchesBounded
<1>1. ASSUME IInv, NEW r \in Runs
      PROVE  /\ Cardinality(executed[r]) <= MaxCalls
             /\ \A t \in Tools : Cardinality({e \in executed[r] : e.sig[1] = t}) <= Limit[t]
             /\ \A e, f \in executed[r] : e.sig = f.sig => e = f
    <2>1. ExecInv(r)
        BY <1>1 DEF IInv
    <2>2. Cardinality(executed[r]) <= MaxCalls
        <3> DEFINE num == [e \in executed[r] |-> e.n]
        <3>1. num \in [executed[r] -> 1..MaxCalls]
            BY <2>1 DEF ExecInv
        <3>2. \A e, f \in executed[r] : num[e] = num[f] => e = f
            BY <2>1 DEF ExecInv
        <3> HIDE DEF num
        <3> QED
            BY <3>1, <3>2, Numbered, ToolLoopAssumption
    <2>3. ASSUME NEW t \in Tools
          PROVE  Cardinality({e \in executed[r] : e.sig[1] = t}) <= Limit[t]
        <3> DEFINE S == {e \in executed[r] : e.sig[1] = t}
        <3> DEFINE num == [e \in S |-> e.k]
        <3>1. num \in [S -> 1..Limit[t]]
            BY <2>1 DEF ExecInv
        <3>2. \A e, f \in S : num[e] = num[f] => e = f
            BY <2>1 DEF ExecInv
        <3>3. Limit[t] \in Nat
            BY ToolLoopAssumption
        <3> HIDE DEF num, S
        <3>4. Cardinality(S) <= Limit[t]
            BY <3>1, <3>2, <3>3, Numbered
        <3> QED
            BY <3>4 DEF S
    <2> QED
        BY <2>1, <2>2, <2>3 DEF ExecInv
<1>2. IInv => SearchesBounded
    BY <1>1 DEF SearchesBounded
<1> QED
    BY <1>2, InductiveInvariant, PTL

(* Once its calls are used up a request asks the model only with the       *)
(* instruction to answer, and offers it no tool (LimitIsTold).             *)
THEOREM LimitIsAlwaysTold == Safety => []LimitIsTold
<1>1. IInv => LimitIsTold
    BY DEF IInv, RunInv, Between, LimitIsTold, Offered
<1> QED
    BY <1>1, InductiveInvariant, PTL

(* A model that calls tools only when they are offered never runs into the *)
(* inference limit (ObedienceIsEnough).                                    *)
THEOREM ObedientRunsAnswer == Safety => []ObedienceIsEnough
<1>1. IInv => ObedienceIsEnough
    BY DEF IInv, RunInv, ObedienceIsEnough
<1> QED
    BY <1>1, InductiveInvariant, PTL

(* Withdrawn tools stay withdrawn: no search follows, and after the final  *)
(* retry the next completion ends the run (WithdrawnForGood).              *)
THEOREM ToolsStayWithdrawn == Safety => WithdrawnForGood
<1>1. ASSUME IInv, [Next]_vars, NEW k \in Runs
      PROVE  Withdrawn(k)
    <2>0. Types /\ RunInv(k)
        BY <1>1 DEF IInv
    <2> USE <2>0 DEF Types, RunInv, InBatch, Withdrawn, local, history
    <2>1. ASSUME NEW r \in Runs, Completion(r) PROVE Withdrawn(k)
        BY <2>1 DEF Completion, Unacceptable, Answer, Unfinished, CallTools, RejectGarbled, Accepts, Arrives,
           Return, Goto
    <2>2. ASSUME NEW r \in Runs, HandleCall(r) PROVE Withdrawn(k)
        BY <2>2 DEF HandleCall, Malformed, RefuseForm, RefuseOverLimit, RefuseRepeat, Invoke,
           Count, OverLimit, Return, Goto
    <2>3. ASSUME NEW r \in Runs,
                 \/ CtxEnds(r) \/ AskModel(r) \/ StopAtTop(r) \/ GiveUp(r) \/ Compacted(r)
                 \/ CompactFails(r) \/ Invoked(r) \/ FitFails(r)
          PROVE  Withdrawn(k)
        BY <2>3 DEF CtxEnds, AskModel, StopAtTop, GiveUp, Compacted, CompactFails, Invoked,
           FitFails, Return, Goto
    <2>4. ASSUME NEW r \in Runs, NEW full \in BOOLEAN, Fit(r, full) PROVE Withdrawn(k)
        BY <2>4 DEF Fit, Goto
    <2>5. CASE UNCHANGED vars
        BY <2>5 DEF vars
    <2> QED
        BY <1>1, <2>1, <2>2, <2>3, <2>4, <2>5 DEF Next, Continue, AllDone
<1>2. IInv /\ [Next]_vars => [AllWithdrawn]_vars
    BY <1>1 DEF AllWithdrawn
<1> QED
    BY <1>2, InductiveInvariant, PTL DEF Safety, WithdrawnForGood

=============================================================================
