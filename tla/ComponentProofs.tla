-------------------------- MODULE ComponentProofs --------------------------
(***************************************************************************)
(* Four components that share no state with the others: the rate limiter   *)
(* of the adapter, the calls to Discord and to the LLM, the evaluation     *)
(* harness, and the splitting of an answer into messages.                  *)
(***************************************************************************)
EXTENDS Admission, OutboundCalls, EvalRun, SplitMessage,
        WellFoundedInduction, SequenceTheorems, TLAPS

-----------------------------------------------------------------------------
(* Admission: sweeping the table of limiters gives nobody a message more, for every set of
   users, burst, rate, table size and age above the refill time. *)

(* A bucket has gained a token's time in every second since its user was seen. *)
Refills == \A u \in table : credit[u] = Full \/ credit[u] >= idle[u]

AdmissionInv == AdmissionTypeOK /\ SweepGivesNothing /\ Refills

(* A bucket holds a natural amount, at least one token. *)
LEMMA FullSize == Full \in Nat /\ Period <= Full
<1>1. Burst \in Nat /\ Burst >= 1 /\ Period \in Nat
    BY AdmissionAssumption
<1>2. Burst * Period = Period + (Burst - 1) * Period /\ (Burst - 1) * Period \in Nat
    BY <1>1
<1> QED
    BY <1>1, <1>2 DEF Full

(* The invariant holds in the empty table. *)
LEMMA AdmissionInitInv == AdmissionInit => AdmissionInv
BY FullSize, AdmissionAssumption
DEF AdmissionInit, AdmissionInv, AdmissionTypeOK, SweepGivesNothing, Refills

(* A message takes the same from the bucket and from what is due; an entry that is
   swept was full. *)
LEMMA ArriveKeeps == ASSUME AdmissionInv, NEW u \in Users, Arrive(u) PROVE AdmissionInv'
<1> USE FullSize, AdmissionAssumption DEF AdmissionInv, AdmissionTypeOK, SweepGivesNothing
<1> DEFINE entries == table \cup {u}
           bucket  == IF u \in table THEN credit[u] ELSE Full
           allowed == bucket >= Period
<1>1. /\ idle' = [idle EXCEPT ![u] = 0]
      /\ \/ table' = {u} \cup (entries \ Swept(entries))
         \/ table' = entries
      /\ credit' = [credit EXCEPT ![u] = IF allowed THEN bucket - Period ELSE bucket]
      /\ due' = [due EXCEPT ![u] = IF allowed THEN due[u] - Period ELSE due[u]]
    BY DEF Arrive
<1>2. bucket \in 0 .. Full /\ due[u] = bucket
    OBVIOUS
<1>3. u \in table' /\ table' \subseteq entries
    BY <1>1
<1>4. ASSUME NEW v \in table, v # u, v \notin table' PROVE credit[v] = Full
    BY <1>1, <1>4 DEF Swept, Old, Refills
<1>5. AdmissionTypeOK'
    BY <1>1, <1>2, <1>3
<1>6. ASSUME NEW v \in Users PROVE due'[v] = IF v \in table' THEN credit'[v] ELSE Full
    <2>1. CASE v = u
        BY <1>1, <1>2, <1>3, <2>1
    <2>2. CASE v # u
        BY <1>1, <1>3, <1>4, <2>2
    <2> QED
        BY <2>1, <2>2
<1>7. Refills'
    BY <1>1, <1>2, <1>3, <1>5 DEF Refills
<1> QED
    BY <1>5, <1>6, <1>7

(* A second refills every bucket and ages every entry by the same. *)
LEMMA SecondKeeps == ASSUME AdmissionInv, Second PROVE AdmissionInv'
BY FullSize, AdmissionAssumption
DEF AdmissionInv, AdmissionTypeOK, SweepGivesNothing, Refills, Second, Refilled

(* Together: the invariant holds in every state. *)
LEMMA AdmissionInvariant == AdmissionSpec => []AdmissionInv
<1>1. AdmissionInv /\ [AdmissionNext]_admissionVars => AdmissionInv'
    <2> SUFFICES ASSUME AdmissionInv, [AdmissionNext]_admissionVars PROVE AdmissionInv'
        OBVIOUS
    <2>1. CASE UNCHANGED admissionVars
        BY <2>1 DEF admissionVars, AdmissionInv, AdmissionTypeOK, SweepGivesNothing, Refills
    <2> QED
        BY <2>1, ArriveKeeps, SecondKeeps DEF AdmissionNext
<1> QED
    BY <1>1, AdmissionInitInv, PTL DEF AdmissionSpec

(* Type correctness; no bucket exceeds its brim. *)
THEOREM AdmissionTypeCorrect == AdmissionSpec => []AdmissionTypeOK
BY AdmissionInvariant, PTL DEF AdmissionInv

(* A user whose entry was removed may spend no more than with the entry kept
   (adapter.go 146). *)
THEOREM SweepingIsFair == AdmissionSpec => []SweepGivesNothing
BY AdmissionInvariant, PTL DEF AdmissionInv

-----------------------------------------------------------------------------
(* OutboundCalls: what lost, late and repeated calls can do to a text, for every number
   of retries and of chunks. *)

(* The inductive invariant. *)

MaxAttempt == IF caller = "llm" THEN 1 ELSE MaxRetries

CallsTypes ==
    /\ CallsTypeOK
    /\ caller = "llm" => parts = 1
    /\ part = 0 => caller = "answer"

(* Only an attempt that is not the last one is followed by a wait, and only a wait that
   was asked for is long. *)
WaitInv ==
    /\ place = "waiting" => attempt < MaxAttempt
    /\ stay => place = "waiting" /\ delay = "asked"

(* The last part that was called; the error text comes after part 1. *)
Reached == IF part = 0 THEN 1 ELSE part

(* Parts that were not called are not on their way; those before are shown, and only
   the error text changes the receipt once it shows the answer. *)
OrderInv ==
    /\ \A p \in 1 .. MaxParts : p > Reached => times[p] = 0 /\ late[p] = 0
    /\ late[0] > 0 \/ receipt = "error" => part = 0
    /\ part # 0 => \A p \in 1 .. part - 1 : Shown(p)
    /\ place = "ok" => part = parts /\ Shown(part)

(* A part of which nothing was lost was executed once, and not at all while the caller
   still tries. *)
LossInv ==
    \A p \in 1 .. parts : p \notin lost =>
        /\ late[p] = 0
        /\ times[p] <= 1
        /\ p = part /\ place \in {"calling", "waiting"} => times[p] = 0

CallsInv == CallsTypes /\ WaitInv /\ OrderInv /\ LossInv

(* The types, with the part called among the parts, and these among the chunks. *)
LEMMA PartTypes ==
    ASSUME CallsTypes
    PROVE  /\ caller \in {"answer", "error", "llm"} /\ MaxParts \in Nat
           /\ parts \in Nat /\ 1 <= parts /\ parts <= MaxParts
           /\ part \in Nat /\ part <= parts /\ (part = 0 => caller = "answer")
           /\ attempt \in Nat /\ attempt <= MaxAttempt /\ MaxAttempt \in Nat
           /\ receipt \in {"processing", "answer", "error"}
           /\ late \in [0 .. MaxParts -> Nat] /\ times \in [1 .. MaxParts -> Nat]
           /\ stay \in BOOLEAN /\ delay \in {"backoff", "asked"}
BY CallsAssumption DEF CallsTypes, CallsTypeOK, MaxAttempt

(* The invariant holds before the first call. *)
LEMMA CallsInitInv == CallsInit => CallsInv
<1> SUFFICES ASSUME CallsInit PROVE CallsInv
    OBVIOUS
<1> USE CallsAssumption
<1>1. parts \in 1 .. MaxParts /\ (caller = "llm" => parts = 1)
    BY DEF CallsInit
<1>2. 0 \in 0 .. IF caller = "llm" THEN 1 ELSE MaxRetries
    OBVIOUS
<1>3. CallsTypes
    <2>1. /\ caller \in {"answer", "error", "llm"} /\ part = 1 /\ attempt = 0
          /\ place = "calling" /\ delay = "backoff" /\ receipt = "processing"
          /\ ended = FALSE /\ stay = FALSE /\ lost = {}
          /\ times \in [1 .. MaxParts -> Nat] /\ late \in [0 .. MaxParts -> Nat]
        BY DEF CallsInit
    <2>2. part \in 0 .. parts /\ part # 0
        BY <1>1, <2>1
    <2> QED
        BY <1>1, <1>2, <2>1, <2>2 DEF CallsTypes, CallsTypeOK
<1>4. WaitInv /\ OrderInv /\ LossInv
    <2>1. /\ \A p \in 1 .. MaxParts : times[p] = 0 /\ late[p] = 0
          /\ late[0] = 0 /\ part = 1 /\ place = "calling" /\ ~stay /\ receipt = "processing"
        BY DEF CallsInit
    <2> QED
        BY <1>1, <2>1 DEF WaitInv, OrderInv, LossInv
<1> QED
    BY <1>3, <1>4 DEF CallsInv

-----------------------------------------------------------------------------
(* What a call may do. *)

(* The effect of a call is confined to its part, and to the receipt if it is an edit. *)
LEMMA Effect ==
    ASSUME CallsTypes, NEW p \in 0 .. parts, p = 0 => caller = "answer", Execute(p)
    PROVE  /\ times' \in [1 .. MaxParts -> Nat]
           /\ receipt' \in {"processing", "answer", "error"}
           /\ \A q \in 1 .. MaxParts : q # p => times'[q] = times[q]
           /\ Edits(p) => times' = times /\ receipt' = IF p = 0 THEN "error" ELSE "answer"
           /\ ~Edits(p) => receipt' = receipt
           /\ ~Edits(p) => p # 0 /\ times'[p] = times[p] + 1
<1>1. /\ times \in [1 .. MaxParts -> Nat] /\ p \in 0 .. MaxParts
      /\ receipt \in {"processing", "answer", "error"}
    BY PartTypes
<1>2. CASE Edits(p)
    BY <1>1, <1>2 DEF Execute
<1>3. CASE ~Edits(p)
    <2>1. receipt' = receipt /\ times' = [times EXCEPT ![p] = times[p] + 1]
        BY <1>3 DEF Execute
    <2>2. p \in 1 .. MaxParts /\ times[p] + 1 \in Nat
        BY <1>1, <1>3 DEF Edits
    <2>3. times' \in [1 .. MaxParts -> Nat]
        BY <1>1, <2>1, <2>2
    <2> QED
        BY <1>1, <1>3, <2>1, <2>2, <2>3
<1> QED
    BY <1>2, <1>3

(* An attempt: what is lost is marked, a proper answer means an effect, and any other
   answer that was not lost means none. *)
LEMMA Attempt ==
    ASSUME CallsTypes, NEW kind \in Kinds, Outcome(kind)
    PROVE  /\ times' \in [1 .. MaxParts -> Nat] /\ late' \in [0 .. MaxParts -> Nat]
           /\ receipt' \in {"processing", "answer", "error"}
           /\ lost \subseteq lost' /\ lost' \subseteq lost \cup {part}
           /\ \A q \in 1 .. MaxParts : q # part => times'[q] = times[q]
           /\ \A q \in 0 .. MaxParts : q # part => late'[q] = late[q]
           /\ receipt' # receipt => Edits(part) /\ receipt' = IF part = 0 THEN "error" ELSE "answer"
           /\ part \notin lost' =>
                /\ late' = late
                /\ kind \notin {"ok", "incomplete"} => times' = times
                /\ part # 0 => times'[part] <= times[part] + 1
           /\ part # 0 => times'[part] >= times[part]
           /\ kind = "ok" /\ part # 0 =>
                IF Edits(part) THEN receipt' = "answer" ELSE times'[part] > 0
<1>1. /\ part \in 0 .. parts /\ part \in 0 .. MaxParts
      /\ receipt \in {"processing", "answer", "error"}
      /\ times \in [1 .. MaxParts -> Nat] /\ late \in [0 .. MaxParts -> Nat]
    BY PartTypes
<1>2. CASE /\ kind \in {"ok", "incomplete"} \cup Silent /\ Execute(part)
           /\ lost' = (IF kind \in Silent THEN lost \cup {part} ELSE lost) /\ late' = late
    <2>1. /\ times' \in [1 .. MaxParts -> Nat]
          /\ receipt' \in {"processing", "answer", "error"}
          /\ \A q \in 1 .. MaxParts : q # part => times'[q] = times[q]
          /\ Edits(part) => times' = times /\ receipt' = IF part = 0 THEN "error" ELSE "answer"
          /\ ~Edits(part) => receipt' = receipt
          /\ ~Edits(part) => part # 0 /\ times'[part] = times[part] + 1
        BY <1>1, <1>2, PartTypes, Effect
    <2>2. kind \in Silent => part \in lost'
        BY <1>2
    <2>3. part # 0 => times[part] \in Nat
        BY <1>1
    <2> QED
        BY <1>1, <1>2, <2>1, <2>2, <2>3
<1>3. CASE /\ kind \in Silent /\ late' = [late EXCEPT ![part] = late[part] + 1]
           /\ lost' = lost \cup {part} /\ receipt' = receipt /\ times' = times
    BY <1>1, <1>3 DEF Silent
<1>4. CASE /\ kind \notin {"ok", "incomplete"} /\ receipt' = receipt /\ times' = times
           /\ late' = late /\ lost' = lost
    BY <1>1, <1>4
<1> QED
    BY <1>2, <1>3, <1>4 DEF Outcome

(* What the caller makes of it: it goes on, ends, or waits for another attempt. *)
LEMMA Continuation ==
    ASSUME CallsTypes, NEW kind \in Kinds, NEW asks \in BOOLEAN, Answer(kind, asks)
    PROVE  /\ place = "calling" /\ Outcome(kind) /\ UNCHANGED <<caller, parts, ended>>
           /\ kind = "incomplete" => ~Edits(part)
           /\ \/ /\ kind = "ok" /\ part \in 1 .. parts - 1
                 /\ part' = part + 1 /\ attempt' = 0 /\ place' = "calling" /\ ~stay' /\ delay' = delay
              \/ /\ kind = "ok" /\ part \notin 1 .. parts - 1
                 /\ place' = (IF part = 0 THEN "failed" ELSE "ok")
                 /\ ~stay' /\ UNCHANGED <<part, attempt, delay>>
              \/ /\ kind \notin {"ok", "incomplete"}
                 /\ attempt < MaxAttempt /\ place' = "waiting" /\ UNCHANGED <<part, attempt>>
                 /\ delay' \in {"backoff", "asked"} /\ stay' \in BOOLEAN
                 /\ stay' => delay' = "asked"
              \/ /\ kind # "ok" /\ Edits(part) /\ part = 1
                 /\ part' = 0 /\ attempt' = 0 /\ place' = "calling" /\ ~stay' /\ delay' = delay
              \/ /\ kind # "ok" /\ place' = "failed" /\ ~stay' /\ UNCHANGED <<part, attempt, delay>>
<1>1. CASE kind = "ok" /\ Succeed /\ UNCHANGED delay
    BY <1>1 DEF Answer, Succeed
<1>2. CASE kind # "ok" /\ Repeats(kind, asks) /\ place' = "waiting" /\ delay' = DelayFor(asks)
           /\ stay' = (asks /\ caller # "llm") /\ UNCHANGED <<part, attempt>>
    <2>1. kind \notin {"ok", "incomplete"} /\ attempt < MaxAttempt
        BY <1>2, CallsAssumption DEF Repeats, Silent, MaxAttempt
    <2> QED
        BY <1>2, <2>1 DEF Answer, DelayFor
<1>3. CASE kind # "ok" /\ ~Repeats(kind, asks) /\ GiveUp /\ UNCHANGED delay
    BY <1>3 DEF Answer, GiveUp
<1> QED
    BY <1>1, <1>2, <1>3 DEF Answer

-----------------------------------------------------------------------------
(* Each kind of step keeps the invariant. *)

(* What is shown stays shown, but for the answer that the error text replaces. *)
LEMMA AnswerShows ==
    ASSUME CallsInv, NEW kind \in Kinds, Outcome(kind), UNCHANGED caller,
           NEW p \in 1 .. MaxParts, Shown(p), part # 0
    PROVE  Shown(p)'
<1>1. /\ times' \in [1 .. MaxParts -> Nat] /\ times \in [1 .. MaxParts -> Nat]
      /\ p # part => times'[p] = times[p]
      /\ receipt' # receipt => receipt' = "answer"
    BY Attempt, PartTypes DEF CallsInv
<1>2. CASE Edits(p)
    BY <1>1, <1>2 DEF Shown, Edits
<1>3. CASE ~Edits(p) /\ p # part
    BY <1>1, <1>3 DEF Shown, Edits
<1>4. CASE ~Edits(p) /\ p = part
    <2>1. times'[p] >= times[p]
        BY <1>4, Attempt DEF CallsInv
    <2> QED
        BY <1>1, <1>4, <2>1 DEF Shown, Edits
<1> QED
    BY <1>2, <1>3, <1>4

(* An attempt with what the caller makes of it keeps the invariant. *)
LEMMA AnswerKeeps ==
    ASSUME CallsInv, NEW kind \in Kinds, NEW asks \in BOOLEAN, Answer(kind, asks)
    PROVE  CallsInv'
<1>1. /\ place = "calling" /\ Outcome(kind)
      /\ caller' = caller /\ parts' = parts /\ ended' = ended
      /\ kind = "incomplete" => ~Edits(part)
    BY Continuation DEF CallsInv
<1>2. /\ caller \in {"answer", "error", "llm"} /\ MaxParts \in Nat
      /\ parts \in Nat /\ 1 <= parts /\ parts <= MaxParts
      /\ part \in Nat /\ part <= parts /\ (part = 0 => caller = "answer")
      /\ attempt \in Nat /\ attempt <= MaxAttempt /\ MaxAttempt \in Nat
      /\ delay \in {"backoff", "asked"}
    BY PartTypes DEF CallsInv
<1>3. /\ times' \in [1 .. MaxParts -> Nat] /\ late' \in [0 .. MaxParts -> Nat]
      /\ receipt' \in {"processing", "answer", "error"}
      /\ lost \subseteq lost' /\ lost' \subseteq lost \cup {part}
      /\ \A q \in 1 .. MaxParts : q # part => times'[q] = times[q]
      /\ \A q \in 0 .. MaxParts : q # part => late'[q] = late[q]
      /\ receipt' # receipt => Edits(part) /\ receipt' = IF part = 0 THEN "error" ELSE "answer"
      /\ part \notin lost' =>
           /\ late' = late
           /\ kind \notin {"ok", "incomplete"} => times' = times
           /\ part # 0 => times'[part] <= times[part] + 1
    BY <1>1, Attempt DEF CallsInv
<1>4. /\ part' \in 0 .. parts /\ (part' = 0 => caller = "answer")
      /\ attempt' \in 0 .. MaxAttempt /\ place' \in {"calling", "waiting", "ok", "failed"}
      /\ delay' \in {"backoff", "asked"} /\ stay' \in BOOLEAN
    <2>1. part' \in 0 .. parts /\ (part' = 0 => caller = "answer")
        BY <1>2, Continuation DEF CallsInv, Edits
    <2>2. attempt' \in 0 .. MaxAttempt /\ place' \in {"calling", "waiting", "ok", "failed"}
        BY <1>2, Continuation DEF CallsInv
    <2>3. delay' \in {"backoff", "asked"} /\ stay' \in BOOLEAN
        BY <1>2, Continuation DEF CallsInv, Answer, Succeed, GiveUp
    <2> QED
        BY <2>1, <2>2, <2>3
<1>5. CallsTypes'
    <2>1. /\ ended \in BOOLEAN /\ lost \subseteq 0 .. MaxParts /\ parts \in 1 .. MaxParts
          /\ caller = "llm" => parts = 1
        BY DEF CallsInv, CallsTypes, CallsTypeOK
    <2>2. lost' \subseteq 0 .. MaxParts
        BY <1>2, <1>3, <2>1
    <2>3. attempt' \in 0 .. (IF caller = "llm" THEN 1 ELSE MaxRetries)
        BY <1>4 DEF MaxAttempt
    <2>4. CallsTypeOK'
        BY <1>1, <1>2, <1>3, <1>4, <2>1, <2>2, <2>3 DEF CallsTypeOK
    <2> QED
        BY <1>1, <1>4, <2>1, <2>4 DEF CallsTypes
<1>6. WaitInv'
    <2>1. /\ place' = "waiting" => attempt' = attempt /\ attempt < MaxAttempt
          /\ stay' => place' = "waiting" /\ delay' = "asked"
        BY Continuation DEF CallsInv
    <2> QED
        BY <1>1, <2>1 DEF WaitInv, MaxAttempt
<1>7. OrderInv'
    <2>1. \A p \in 1 .. MaxParts : p > Reached' => times'[p] = 0 /\ late'[p] = 0
        <3> SUFFICES ASSUME NEW p \in 1 .. MaxParts, p > Reached'
                     PROVE  times'[p] = 0 /\ late'[p] = 0
            OBVIOUS
        <3>1. part' = 0 => part \in {0, 1}
            BY <1>2, Continuation DEF CallsInv, Edits
        <3>2. part' # 0 => part' >= part
            BY <1>2, Continuation DEF CallsInv
        <3>3. p > Reached /\ p # part
            BY <1>2, <1>4, <3>1, <3>2 DEF Reached
        <3> QED
            BY <1>3, <3>3 DEF CallsInv, OrderInv
    <2>2. late'[0] > 0 \/ receipt' = "error" => part' = 0
        <3>1. part = 0 => part' = 0
            BY Continuation DEF CallsInv, Edits
        <3>2. CASE part = 0
            BY <3>1, <3>2
        <3>3. CASE part # 0
            BY <1>2, <1>3, <3>3 DEF CallsInv, OrderInv
        <3> QED
            BY <3>2, <3>3
    <2>3. ASSUME NEW p \in 1 .. MaxParts, p = part, kind = "ok" PROVE Shown(p)'
        <3>1. IF Edits(p) THEN receipt' = "answer" ELSE times'[p] > 0
            BY <1>1, <2>3, Attempt DEF CallsInv
        <3> QED
            BY <1>1, <3>1 DEF Shown, Edits
    <2>4. part' # 0 => \A p \in 1 .. part' - 1 : Shown(p)'
        <3> SUFFICES ASSUME part' # 0, NEW p \in 1 .. part' - 1 PROVE Shown(p)'
            OBVIOUS
        <3>1. part # 0 /\ (part' = part \/ (part' = part + 1 /\ kind = "ok"))
            BY <1>2, Continuation DEF CallsInv, Edits
        <3>2. p \in 1 .. MaxParts /\ (p \in 1 .. part - 1 \/ (p = part /\ kind = "ok"))
            BY <1>2, <3>1
        <3>3. CASE p \in 1 .. part - 1
            BY <1>1, <3>1, <3>2, <3>3, AnswerShows DEF CallsInv, OrderInv
        <3>4. CASE p = part /\ kind = "ok"
            BY <2>3, <3>2, <3>4
        <3> QED
            BY <3>2, <3>3, <3>4
    <2>5. place' = "ok" => part' = parts /\ kind = "ok" /\ part' = part /\ part # 0
        BY <1>2, Continuation DEF CallsInv
    <2>6. ASSUME place' = "ok" PROVE Shown(part)'
        <3>1. part \in 1 .. MaxParts
            BY <1>2, <2>5, <2>6
        <3> QED
            BY <2>3, <2>5, <2>6, <3>1
    <2> QED
        BY <1>1, <2>1, <2>2, <2>4, <2>5, <2>6 DEF OrderInv
<1>8. LossInv'
    <2> SUFFICES ASSUME NEW p \in 1 .. parts, p \notin lost'
                 PROVE  /\ late'[p] = 0 /\ times'[p] <= 1
                        /\ p = part' /\ place' \in {"calling", "waiting"} => times'[p] = 0
        BY <1>1 DEF LossInv
    <2>1. p \in 1 .. MaxParts /\ p \in 0 .. MaxParts /\ p \notin lost /\ p # 0
        BY <1>2, <1>3
    <2>2. late[p] = 0 /\ times[p] <= 1 /\ (p = part => times[p] = 0)
        BY <1>1, <2>1 DEF CallsInv, LossInv
    <2>3. CASE p # part
        <3>1. late'[p] = 0 /\ times'[p] = times[p]
            BY <1>3, <2>1, <2>2, <2>3
        <3>2. p = part' => p > Reached
            BY <1>2, <2>1, <2>3, Continuation DEF CallsInv, Reached, Edits
        <3> QED
            BY <2>1, <2>2, <3>1, <3>2 DEF CallsInv, OrderInv
    <2>4. CASE p = part
        <3>1. late'[p] = 0 /\ times'[p] <= 1
            BY <1>3, <2>1, <2>2, <2>4
        <3>2. part' = part /\ place' \in {"calling", "waiting"} => kind \notin {"ok", "incomplete"}
            BY <1>2, <2>1, <2>4, Continuation DEF CallsInv
        <3> QED
            BY <1>3, <2>1, <2>2, <2>4, <3>1, <3>2
    <2> QED
        BY <2>3, <2>4
<1> QED
    BY <1>5, <1>6, <1>7, <1>8 DEF CallsInv

(* A wait that is over is followed by one more attempt, and ends the stay asked for. *)
LEMMA WaitOverKeeps == ASSUME CallsInv, WaitOver PROVE CallsInv'
<1>1. /\ place = "waiting" /\ place' = "calling" /\ attempt' = attempt + 1 /\ ~stay'
      /\ stay' \in BOOLEAN
      /\ caller' = caller /\ parts' = parts /\ part' = part /\ delay' = delay /\ ended' = ended
      /\ receipt' = receipt /\ times' = times /\ late' = late /\ lost' = lost
    BY DEF WaitOver, CallsInv, WaitInv
<1>2. attempt' \in 0 .. MaxAttempt
    BY <1>1, PartTypes DEF CallsInv, WaitInv
<1>3. CallsTypes'
    BY <1>1, <1>2 DEF CallsInv, CallsTypes, CallsTypeOK, MaxAttempt
<1>4. OrderInv'
    BY <1>1 DEF CallsInv, OrderInv, Reached, Shown, Edits
<1>5. WaitInv' /\ LossInv'
    BY <1>1 DEF CallsInv, WaitInv, LossInv
<1> QED
    BY <1>3, <1>4, <1>5 DEF CallsInv

(* A wait that is cancelled gives the part up. *)
LEMMA WaitCancelledKeeps == ASSUME CallsInv, WaitCancelled PROVE CallsInv'
<1>1. /\ place = "waiting" /\ ~stay' /\ stay' \in BOOLEAN
      /\ \/ caller = "answer" /\ part = 1 /\ part' = 0 /\ attempt' = 0 /\ place' = "calling"
         \/ place' = "failed" /\ part' = part /\ attempt' = attempt
      /\ caller' = caller /\ parts' = parts /\ delay' = delay /\ ended' = ended
      /\ receipt' = receipt /\ times' = times /\ late' = late /\ lost' = lost
    BY DEF WaitCancelled, GiveUp, Edits
<1>2. attempt' \in 0 .. MaxAttempt /\ part' \in 0 .. parts /\ (part' = 0 => caller = "answer")
    BY <1>1, PartTypes DEF CallsInv
<1>3. CallsTypes'
    BY <1>1, <1>2 DEF CallsInv, CallsTypes, CallsTypeOK, MaxAttempt
<1>4. WaitInv' /\ LossInv'
    BY <1>1 DEF CallsInv, WaitInv, LossInv
<1>5. Reached' = Reached /\ (part' # 0 => part' = part)
    BY <1>1 DEF Reached
<1>6. OrderInv'
    BY <1>1, <1>5 DEF CallsInv, OrderInv, Shown, Edits
<1> QED
    BY <1>3, <1>4, <1>6 DEF CallsInv

(* A late effect concerns a part that was called before, and whose call was lost. *)
LEMMA LateEffectKeeps == ASSUME CallsInv, NEW p \in 0 .. MaxParts, LateEffect(p) PROVE CallsInv'
<1>1. /\ late[p] > 0 /\ late' = [late EXCEPT ![p] = late[p] - 1] /\ Execute(p)
      /\ caller' = caller /\ parts' = parts /\ part' = part /\ attempt' = attempt
      /\ place' = place /\ delay' = delay /\ ended' = ended /\ lost' = lost /\ stay' = stay
    BY DEF LateEffect
<1>2. /\ parts \in Nat /\ part \in Nat /\ part <= parts /\ 1 <= parts /\ parts <= MaxParts
      /\ MaxParts \in Nat /\ late \in [0 .. MaxParts -> Nat] /\ times \in [1 .. MaxParts -> Nat]
      /\ (part = 0 => caller = "answer")
    BY PartTypes DEF CallsInv
<1>3. p <= Reached /\ (p = 0 => part = 0)
    BY <1>1, <1>2 DEF CallsInv, OrderInv, Reached
<1>4. p \in 0 .. parts /\ (p = 0 => caller = "answer") /\ (p \in 1 .. parts => p \in lost)
    BY <1>1, <1>2, <1>3 DEF CallsInv, LossInv, Reached
<1>5. /\ times' \in [1 .. MaxParts -> Nat]
      /\ receipt' \in {"processing", "answer", "error"}
      /\ \A q \in 1 .. MaxParts : q # p => times'[q] = times[q]
      /\ Edits(p) => times' = times /\ receipt' = IF p = 0 THEN "error" ELSE "answer"
      /\ ~Edits(p) => receipt' = receipt
      /\ ~Edits(p) => p # 0 /\ times'[p] = times[p] + 1
    BY <1>1, <1>4, Effect DEF CallsInv
<1>6. late' \in [0 .. MaxParts -> Nat] /\ \A q \in 0 .. MaxParts : late'[q] <= late[q]
    BY <1>1, <1>2
<1>7. CallsTypes' /\ WaitInv'
    BY <1>1, <1>5, <1>6 DEF CallsInv, CallsTypes, CallsTypeOK, WaitInv, MaxAttempt
<1>8. \A q \in 1 .. MaxParts : times'[q] >= times[q]
    BY <1>2, <1>5
<1>9. ASSUME NEW q \in 1 .. MaxParts, Shown(q), part # 0 PROVE Shown(q)'
    BY <1>1, <1>2, <1>3, <1>5, <1>8, <1>9 DEF Shown, Edits
<1>10. OrderInv'
    <2>1. ASSUME NEW q \in 1 .. MaxParts, q > Reached PROVE times'[q] = 0 /\ late'[q] = 0
        <3>1. times[q] = 0 /\ late[q] = 0
            BY <2>1 DEF CallsInv, OrderInv
        <3>2. q # p /\ q \in 0 .. MaxParts
            BY <1>2, <1>3, <2>1 DEF Reached
        <3>3. times'[q] = 0
            BY <1>5, <3>1, <3>2
        <3>4. late'[q] = 0
            BY <1>1, <1>2, <3>1, <3>2
        <3> QED
            BY <3>3, <3>4
    <2>2. late'[0] > 0 \/ receipt' = "error" => part = 0
        BY <1>2, <1>3, <1>5, <1>6 DEF CallsInv, OrderInv
    <2>3. part # 0 => \A q \in 1 .. part - 1 : Shown(q)'
        BY <1>2, <1>9 DEF CallsInv, OrderInv
    <2>4. place = "ok" => part = parts /\ \A q \in 1 .. MaxParts : q = part => Shown(q)'
        BY <1>2, <1>9 DEF CallsInv, OrderInv
    <2>5. Reached' = Reached
        BY <1>1 DEF Reached
    <2>6. ASSUME place' = "ok" PROVE part' = parts' /\ Shown(part)'
        <3>1. part = parts /\ part' = part /\ parts' = parts /\ part \in 1 .. MaxParts
            BY <1>1, <1>2, <2>4, <2>6
        <3>2. ASSUME NEW q \in 1 .. MaxParts, q = part PROVE Shown(q)'
            BY <1>1, <2>4, <2>6, <3>2
        <3> QED
            BY <3>1, <3>2
    <2>7. \A q \in 1 .. MaxParts : q > Reached' => times'[q] = 0 /\ late'[q] = 0
        BY <2>1, <2>5
    <2>8. late'[0] > 0 \/ receipt' = "error" => part' = 0
        BY <1>1, <2>2
    <2>9. part' # 0 => \A q \in 1 .. part' - 1 : Shown(q)'
        BY <1>1, <2>3
    <2> QED
        BY <2>6, <2>7, <2>8, <2>9 DEF OrderInv
<1>11. LossInv'
    <2> SUFFICES ASSUME NEW q \in 1 .. parts', q \notin lost'
                 PROVE  /\ late'[q] = 0
                        /\ times'[q] <= 1
                        /\ q = part' /\ place' \in {"calling", "waiting"} => times'[q] = 0
        BY DEF LossInv
    <2>0. q \in 1 .. parts /\ q \notin lost /\ part' = part /\ place' = place
        BY <1>1
    <2>1. q # p /\ q \in 1 .. MaxParts /\ q \in 0 .. MaxParts
        BY <1>2, <1>4, <2>0
    <2>2. late'[q] = late[q] /\ times'[q] = times[q]
        BY <1>1, <1>2, <1>5, <2>1
    <2>3. /\ late[q] = 0
          /\ times[q] <= 1
          /\ q = part /\ place \in {"calling", "waiting"} => times[q] = 0
        BY <2>0 DEF CallsInv, LossInv
    <2> QED
        BY <2>0, <2>2, <2>3
<1> QED
    BY <1>7, <1>10, <1>11 DEF CallsInv

(* The end of the context, and a stutter, touch nothing the invariant speaks of. *)
LEMMA OthersKeep == ASSUME CallsInv, ContextEnds \/ UNCHANGED callVars PROVE CallsInv'
<1>1. /\ caller' = caller /\ parts' = parts /\ part' = part /\ attempt' = attempt
      /\ place' = place /\ delay' = delay /\ ended' \in BOOLEAN /\ receipt' = receipt
      /\ times' = times /\ late' = late /\ lost' = lost /\ stay' = stay
    BY DEF ContextEnds, callVars, CallsInv, CallsTypes, CallsTypeOK
<1>2. CallsTypes'
    BY <1>1 DEF CallsInv, CallsTypes, CallsTypeOK
<1> QED
    BY <1>1, <1>2 DEF CallsInv, WaitInv, MaxAttempt, OrderInv, Reached, Shown, Edits, LossInv

(* Together: the invariant holds in every state. *)
LEMMA CallsInvariant == CallsSpec => []CallsInv
<1>1. CallsInv /\ [CallsNext]_callVars => CallsInv'
    BY AnswerKeeps, WaitOverKeeps, WaitCancelledKeeps, LateEffectKeeps, OthersKeep
    DEF CallsNext, AnyAnswer
<1> QED
    BY <1>1, CallsInitInv, PTL DEF CallsSpec

-----------------------------------------------------------------------------
(* Type correctness; no call is attempted more often than the configuration allows. *)
THEOREM CallsTypeCorrect == CallsSpec => []CallsTypeOK
BY CallsInvariant, PTL DEF CallsInv, CallsTypes

(* A reader never sees a later chunk without the earlier ones (adapter.go 196 to 215 and
   276 to 290). *)
THEOREM PartsAppearInOrder == CallsSpec => []PartsInOrder
<1>1. CallsInv => PartsInOrder
    <2> SUFFICES ASSUME CallsInv, NEW p \in 2 .. parts, Shown(p), NEW q \in 1 .. p - 1
                 PROVE  Shown(q)
        BY DEF PartsInOrder
    <2>1. p \in 1 .. MaxParts /\ times[p] > 0
        BY PartTypes DEF CallsInv, Shown, Edits
    <2>2. p <= Reached
        BY <2>1, PartTypes DEF CallsInv, OrderInv, Reached
    <2>3. part # 0 /\ q \in 1 .. part - 1
        BY <2>2, PartTypes DEF CallsInv, Reached
    <2> QED
        BY <2>3 DEF CallsInv, OrderInv
<1> QED
    BY <1>1, CallsInvariant, PTL

(* A text that was delivered is shown as a whole, and late calls do not change that. *)
THEOREM DeliveredIsShown == CallsSpec => []OkMeansShown
<1>1. CallsInv => OkMeansShown
    <2> SUFFICES ASSUME CallsInv, place = "ok", NEW p \in 1 .. parts PROVE Shown(p)
        BY DEF OkMeansShown
    <2>1. part = parts /\ Shown(part) /\ part # 0
        BY PartTypes DEF CallsInv, OrderInv
    <2> QED
        BY <2>1, PartTypes DEF CallsInv, OrderInv
<1> QED
    BY <1>1, CallsInvariant, PTL

(* Something appears twice only if a call for it was lost (adapter.go 324). *)
THEOREM RepetitionsAreExcused == CallsSpec => []RepeatsOnlyAfterLoss
<1>1. CallsInv => RepeatsOnlyAfterLoss
    BY PartTypes DEF CallsInv, LossInv, RepeatsOnlyAfterLoss
<1> QED
    BY <1>1, CallsInvariant, PTL

(* Retry-After is respected (adapter.go 331 to 340). *)
THEOREM DiscordIsLeftAlone == CallsSpec => []StaysAway
<1>1. CallsInv => StaysAway
    BY DEF CallsInv, WaitInv, StaysAway
<1> QED
    BY <1>1, CallsInvariant, PTL

(* A reader sees a beginning of the text, and all of it once it counts as delivered. *)
THEOREM ReaderSeesText == CallsSpec => []TextIsShown
<1>1. PartsInOrder /\ OkMeansShown => TextIsShown
    BY DEF TextIsShown
<1> QED
    BY <1>1, PartsAppearInOrder, DeliveredIsShown, PTL

(* Calls are made again only after a loss, and not before the time asked for. *)
THEOREM RepeatsRightly == CallsSpec => []RepeatsAreExcused
<1>1. RepeatsOnlyAfterLoss /\ StaysAway => RepeatsAreExcused
    BY DEF RepeatsAreExcused
<1> QED
    BY <1>1, RepetitionsAreExcused, DiscordIsLeftAlone, PTL

-----------------------------------------------------------------------------
(* Natural numbers: induction is made with sets, the numbers for which a fact holds. *)

(* Every set of natural numbers has a least element, and contains all of them if it contains
   0 and with each its successor. *)
LEMMA Least ==
    ASSUME NEW S \in SUBSET Nat, NEW k \in S
    PROVE  \E n \in S : \A m \in S : n <= m
<1>1. IsWellFoundedOn(OpToRel(<, Nat), Nat)
    BY NatLessThanWellFounded, Zenon
<1>2. \E x \in S : \A y \in S : ~ (<<y, x>> \in OpToRel(<, Nat))
    BY <1>1, WFMin, Zenon
<1>3. PICK n \in S : \A m \in S : ~ (<<m, n>> \in OpToRel(<, Nat))
    BY <1>2, Zenon
<1>4. ASSUME NEW m \in S PROVE n <= m
    <2>1. <<m, n>> \notin OpToRel(<, Nat)
        BY <1>3, Zenon
    <2>2. ~(m < n)
        BY <2>1, Zenon DEF OpToRel
    <2> QED
        BY <2>2
<1> QED
    BY <1>4

LEMMA SetInduction ==
    ASSUME NEW S \in SUBSET Nat, 0 \in S, \A n \in S : n + 1 \in S
    PROVE  S = Nat
<1> SUFFICES ASSUME NEW k \in Nat, k \notin S PROVE FALSE
    OBVIOUS
<1> DEFINE T == Nat \ S
<1>1. PICK n \in T : \A m \in T : n <= m
    BY Least
<1>2. n - 1 \in S
    BY <1>1
<1> QED
    BY <1>1, <1>2

-----------------------------------------------------------------------------
(* EvalRun: what an evaluation leaves behind, for every suite, number of runs and options. *)

Samples == [id : STRING, rep : Int, warmup : BOOLEAN, status : {"PASS", "WARN", "FAIL", "SKIP"},
            cut : BOOLEAN]

EvalTypes ==
    /\ EvalTypeOK
    /\ samples \in Seq(Samples) /\ journal \in Seq(Samples)
    /\ exits \in Seq(Nat)
    /\ reports = [s \in Sides |-> reports[s]]
    /\ step # "exit" => side \in Sides

(* how far the loops have come *)
Done == IF step = "journal" THEN at ELSE at - 1

StepInv ==
    /\ step = "setup" => at = 1 /\ samples = <<>> /\ journal = <<>>
    /\ step \in {"sample", "journal"} => at <= Planned
    /\ step = "sample" => Supports(Case(at))
    /\ step \notin {"save", "exit"} => ~runErr /\ ~complete
    /\ step \in {"save", "exit"} => runErr \/ complete
    /\ complete => at = Planned + 1
    /\ step \in {"loop", "sample", "journal"} \/ complete => Chosen # <<>>

(* sample s is the one of number n in the loops *)
Matches(s, n) ==
    /\ s.id = Case(n).id /\ s.rep = Repetition(n) /\ s.warmup = Warmup(n)
    /\ s.status = "SKIP" <=> ~Supports(Case(n))

(* Every number that was passed, but a skip in the warm-up, has its sample, and the samples
   are in the order of the numbers. *)
SampleInv ==
    /\ \A n \in 1 .. Done : ~Warmup(n) => \E i \in DOMAIN samples : Matches(samples[i], n)
    /\ \A i \in DOMAIN samples : \E n \in 1 .. Done : Matches(samples[i], n)
    /\ \A i, j \in DOMAIN samples : i < j =>
         \E m, n \in 1 .. Done : m < n /\ Matches(samples[i], m) /\ Matches(samples[j], n)

(* The journal lags by the sample that is being written, unless it broke. *)
JournalInv ==
    /\ Len(journal) <= Len(samples)
    /\ \A i \in 1 .. Len(journal) : journal[i] = samples[i]
    /\ step = "journal" => Len(journal) < Len(samples)
    /\ torn => journalErr
    /\ ~journalErr => Len(samples) = Len(journal) + (IF step = "journal" THEN 1 ELSE 0)

(* After a sample that was cut none is begun. *)
CutInv ==
    \A i \in DOMAIN samples : samples[i].cut =>
        /\ i = Len(samples) /\ interrupted /\ samples[i].status = "FAIL"
        /\ step \notin {"setup", "sample"}

(* What an exit code tells. *)
ExitInv ==
    step = "exit" =>
        /\ exits # <<>>
        /\ exits[Len(exits)] # 2 => ~journalErr
        /\ exits[Len(exits)] = 0 =>
             /\ ~runErr /\ ~Counted("FAIL")
             /\ options.strict => ~Counted("WARN")

(* the cases that a call with o selects *)
Asked(o) == Selected(o.suite, o.id, o.category)

(* the sample keys of a complete run called with o, and whether they are skipped *)
Expected(o) ==
    LET size == Len(Asked(o))
        case(n) == Asked(o)[1 + ((n - 1) % size)]
    IN  {[id   |-> case(n).id,
          rep  |-> (1 + ((n - 1) \div size)) - o.warmup,
          skip |-> o.mode \notin case(n).modes] :
            n \in {k \in 1 .. (o.warmup + o.runs) * size : ~(k <= o.warmup * size)}}

ProtocolOf(o) == <<o.mode, o.runs, o.warmup, o.category, o.id>>

(* report r is one of a run called with o *)
ReportsOn(r, o) ==
    /\ r.suite = o.suite /\ r.protocol = ProtocolOf(o)
    /\ r.complete => r.index = Expected(o) /\ r.unique /\ Asked(o) # <<>>

(* A complete report holds what its suite and its protocol say. *)
ReportInv ==
    \A t \in Sides : reports[t].readable => \E o \in Options : ReportsOn(reports[t], o)

EvalInv ==
    /\ EvalTypes
    /\ StepInv /\ SampleInv /\ JournalInv /\ CutInv
    /\ ExitInv /\ ReportInv /\ SameProtocolSameSamples

-----------------------------------------------------------------------------
(* The cases that a call selects are made by going through the suite. *)
Collects(f, suite) ==
    /\ f[0] = <<>>
    /\ \A n \in 1 .. Len(suite) : f[n] \in {f[n - 1], Append(f[n - 1], suite[n])}

LEMMA SelectedUnfold ==
    ASSUME NEW suite \in Seq(Cases), NEW id, NEW category
    PROVE  \E f : Selected(suite, id, category) = f[Len(suite)] /\ Collects(f, suite)
<1> DEFINE Wanted(case) == id \in {"", case.id} /\ category \in {"", case.category}
           Rec(m, g) == g = [n \in 0 .. m |->
                IF n = 0 THEN <<>>
                ELSE IF Wanted(suite[n]) THEN Append(g[n - 1], suite[n]) ELSE g[n - 1]]
           S == {m \in Nat : \E g : Rec(m, g)}
           f == CHOOSE g : Rec(Len(suite), g)
<1>1. 0 \in S
    <2>1. Rec(0, [n \in 0 .. 0 |-> <<>>])
        OBVIOUS
    <2> HIDE DEF Rec
    <2> QED
        BY <2>1
<1>2. ASSUME NEW m \in S PROVE m + 1 \in S
    <2>1. PICK g : Rec(m, g)
        OBVIOUS
    <2> DEFINE new == IF Wanted(suite[m + 1]) THEN Append(g[m], suite[m + 1]) ELSE g[m]
               h == [n \in 0 .. m + 1 |-> IF n = m + 1 THEN new ELSE g[n]]
    <2> HIDE DEF Wanted
    <2>2. ASSUME NEW n \in 0 .. m + 1
          PROVE  h[n] = IF n = 0 THEN <<>>
                        ELSE IF Wanted(suite[n]) THEN Append(h[n - 1], suite[n]) ELSE h[n - 1]
        <3>1. CASE n = m + 1
            <4>1. h[n] = new /\ h[n - 1] = g[m] /\ n # 0
                BY <3>1
            <4> QED
                BY <3>1, <4>1
        <3>2. CASE n \in 0 .. m
            <4>1. h[n] = g[n] /\ (n # 0 => h[n - 1] = g[n - 1])
                BY <3>2
            <4> HIDE DEF h
            <4> QED
                BY <2>1, <3>2, <4>1
        <3> QED
            BY <3>1, <3>2
    <2>3. Rec(m + 1, h)
        BY <2>2
    <2> HIDE DEF h, Rec
    <2> QED
        BY <2>3
<1>3. S = Nat
    <2>1. S \subseteq Nat
        OBVIOUS
    <2> HIDE DEF S
    <2> QED
        BY <1>1, <1>2, <2>1, SetInduction
<1>4. Rec(Len(suite), f)
    <2>1. Len(suite) \in S
        <3>1. Len(suite) \in Nat
            OBVIOUS
        <3> QED
            BY <1>3, <3>1, Zenon
    <2> HIDE DEF Rec
    <2> QED
        BY <2>1
<1>5. Selected(suite, id, category) = f[Len(suite)]
    BY Zenon DEF Selected
<1>6. 0 \in 0 .. Len(suite) /\ \A n \in 1 .. Len(suite) : n \in 0 .. Len(suite) /\ n # 0
    OBVIOUS
<1> HIDE DEF f, Wanted
<1>7. f[0] = <<>>
    BY <1>4, <1>6
<1>8. \A n \in 1 .. Len(suite) : f[n] \in {f[n - 1], Append(f[n - 1], suite[n])}
    BY <1>4, <1>6
<1> QED
    BY <1>5, <1>7, <1>8, Zenon DEF Collects

(* They are different cases of the suite. *)
Different(cases) == \A i, j \in DOMAIN cases : cases[i].id = cases[j].id => i = j
SomeOf(cases, suite, n) ==
    /\ cases \in Seq(Cases) /\ Different(cases)
    /\ \A i \in DOMAIN cases : \E k \in 1 .. n : cases[i] = suite[k]

LEMMA OneMore ==
    ASSUME NEW suite \in Seq(Cases), Different(suite), NEW cases, NEW n \in 1 .. Len(suite),
           SomeOf(cases, suite, n - 1)
    PROVE  SomeOf(Append(cases, suite[n]), suite, n)
<1> DEFINE more == Append(cases, suite[n])
           last == Len(cases) + 1
<1>1. cases \in Seq(Cases) /\ suite[n] \in Cases
    BY DEF SomeOf
<1>2. /\ more \in Seq(Cases) /\ DOMAIN more = DOMAIN cases \cup {last} /\ more[last] = suite[n]
      /\ \A i \in DOMAIN cases : more[i] = cases[i]
    BY <1>1
<1> HIDE DEF more, last
<1>3. \A i \in DOMAIN cases : \E k \in 1 .. n - 1 : cases[i] = suite[k]
    BY DEF SomeOf
<1>4. ASSUME NEW i \in DOMAIN cases PROVE cases[i].id # suite[n].id
    <2>1. PICK k \in 1 .. n - 1 : cases[i] = suite[k]
        BY <1>3
    <2>2. k \in DOMAIN suite /\ n \in DOMAIN suite /\ k # n
        OBVIOUS
    <2> QED
        BY <2>1, <2>2 DEF Different
<1>5. Different(more)
    BY <1>2, <1>4 DEF Different, SomeOf
<1>6. ASSUME NEW i \in DOMAIN more PROVE \E k \in 1 .. n : more[i] = suite[k]
    <2>1. CASE i \in DOMAIN cases
        <3>1. PICK k \in 1 .. n - 1 : cases[i] = suite[k]
            BY <1>3, <2>1
        <3> QED
            BY <1>2, <2>1, <3>1
    <2>2. CASE i = last
        BY <1>2, <2>2
    <2> QED
        BY <1>2, <2>1, <2>2
<1> QED
    BY <1>2, <1>5, <1>6 DEF SomeOf, more

LEMMA SelectedIs ==
    ASSUME NEW suite \in Seq(Cases), Different(suite), NEW id, NEW category
    PROVE  /\ Selected(suite, id, category) \in Seq(Cases)
           /\ Different(Selected(suite, id, category))
<1>1. PICK f : Selected(suite, id, category) = f[Len(suite)] /\ Collects(f, suite)
    BY SelectedUnfold, Zenon
<1> DEFINE S == {m \in Nat : m <= Len(suite) => SomeOf(f[m], suite, m)}
<1>2. 0 \in S
    <2>1. SomeOf(<<>>, suite, 0)
        BY DEF SomeOf, Different
    <2> QED
        BY <1>1, <2>1 DEF Collects
<1>3. ASSUME NEW m \in S PROVE m + 1 \in S
    <2> SUFFICES ASSUME m + 1 <= Len(suite) PROVE SomeOf(f[m + 1], suite, m + 1)
        OBVIOUS
    <2>1. m \in Nat /\ m + 1 \in 1 .. Len(suite) /\ (m + 1) - 1 = m /\ SomeOf(f[m], suite, m)
        OBVIOUS
    <2>2. SomeOf(Append(f[m], suite[m + 1]), suite, m + 1)
        BY <2>1, OneMore
    <2>3. SomeOf(f[m], suite, m + 1)
        <3>1. 1 .. m \subseteq 1 .. m + 1
            BY <2>1
        <3> QED
            BY <2>1, <3>1 DEF SomeOf
    <2>4. f[m + 1] \in {f[m], Append(f[m], suite[m + 1])}
        BY <1>1, <2>1 DEF Collects
    <2> QED
        BY <2>2, <2>3, <2>4
<1>4. S = Nat
    <2>1. S \subseteq Nat
        OBVIOUS
    <2> HIDE DEF S
    <2> QED
        BY <1>2, <1>3, <2>1, SetInduction
<1>5. SomeOf(f[Len(suite)], suite, Len(suite))
    <2>1. Len(suite) \in S
        BY <1>4
    <2> QED
        BY <2>1
<1> QED
    BY <1>1, <1>5 DEF SomeOf

(* Products of sizes, and the way back from a number to its case and repetition. *)
LEMMA Products ==
    ASSUME NEW w \in Nat, NEW r \in Nat, NEW L \in Nat, r # 0, L # 0
    PROVE  w * L \in Nat /\ (w + r) * L \in Nat /\ w * L < (w + r) * L
<1>1. w * L \in Nat /\ (r - 1) * L \in Nat
    OBVIOUS
<1>2. (w + r) * L = w * L + L + (r - 1) * L
    OBVIOUS
<1> QED
    BY <1>1, <1>2

LEMMA Division ==
    ASSUME NEW L \in Nat, L # 0, NEW n \in Nat, n # 0
    PROVE  /\ (n - 1) % L \in Nat /\ (n - 1) % L < L
           /\ (n - 1) \div L \in Nat
           /\ n - 1 = L * ((n - 1) \div L) + ((n - 1) % L)
<1>1. n - 1 \in Nat
    OBVIOUS
<1>2. (n - 1) % L \in Nat /\ (n - 1) % L < L
    BY <1>1
<1>3. (n - 1) \div L \in Nat
    BY <1>1
<1>4. n - 1 = L * ((n - 1) \div L) + ((n - 1) % L)
    BY <1>1
<1> QED
    BY <1>2, <1>3, <1>4

(* The sizes of a run. *)
LEMMA RunSizes ==
    ASSUME NEW o \in Options
    PROVE  /\ o.runs \in Nat \ {0} /\ o.warmup \in Nat /\ o.strict \in BOOLEAN
           /\ Asked(o) \in Seq(Cases) /\ Different(Asked(o)) /\ Len(Asked(o)) \in Nat
           /\ o.warmup * Len(Asked(o)) \in Nat
           /\ (o.warmup + o.runs) * Len(Asked(o)) \in Nat
           /\ Len(Asked(o)) # 0 =>
                o.warmup * Len(Asked(o)) < (o.warmup + o.runs) * Len(Asked(o))
           /\ Len(Asked(o)) = 0 => (o.warmup + o.runs) * Len(Asked(o)) = 0
<1>1. /\ o.runs \in Nat \ {0} /\ o.warmup \in Nat /\ o.strict \in BOOLEAN
      /\ o.suite \in Seq(Cases) /\ Different(o.suite)
    BY EvalAssumption DEF Different
<1>2. Asked(o) \in Seq(Cases) /\ Different(Asked(o))
    BY <1>1, SelectedIs, Zenon DEF Asked
<1>3. PICK L \in Nat, w \in Nat, q \in Nat \ {0} :
         L = Len(Asked(o)) /\ w = o.warmup /\ q = o.runs
    BY <1>1, <1>2
<1>4. CASE L = 0
    <2>1. w * L \in Nat /\ (w + q) * L \in Nat /\ (w + q) * L = 0
        BY <1>4
    <2> QED
        BY <1>1, <1>2, <1>3, <1>4, <2>1, Zenon
<1>5. CASE L # 0
    <2>1. q \in Nat /\ q # 0
        OBVIOUS
    <2>2. w * L \in Nat /\ (w + q) * L \in Nat /\ w * L < (w + q) * L
        BY <1>5, <2>1, Products, Zenon
    <2> QED
        BY <1>1, <1>2, <1>3, <1>5, <2>2, Zenon
<1> QED
    BY <1>4, <1>5, Zenon

(* The number n of a run: case c + 1 in round d + 1 of L cases, w of them warm-up. *)
Numbered(n, L, d, c, w) ==
    /\ n - 1 = L * d + c /\ c < L
    /\ Position(n) = 1 + c
    /\ Warmup(n) => Repetition(n) = 1 + d
    /\ ~Warmup(n) => Repetition(n) = (1 + d) - w

LEMMA Numbers ==
    ASSUME options \in Options,
           NEW L \in Nat, L = Len(Chosen), L # 0, NEW w \in Nat, w = options.warmup,
           NEW n \in Nat, n # 0
    PROVE  \E d \in Nat, c \in Nat : Numbered(n, L, d, c, w)
<1>2. /\ (n - 1) % L \in Nat /\ (n - 1) % L < L
      /\ (n - 1) \div L \in Nat
      /\ n - 1 = L * ((n - 1) \div L) + ((n - 1) % L)
    BY Division
<1> DEFINE d == (n - 1) \div L
           c == (n - 1) % L
<1>3. d \in Nat /\ c \in Nat /\ n - 1 = L * d + c /\ c < L
    BY <1>2, Zenon
<1>4. Position(n) = 1 + c
    BY Zenon DEF Position
<1>5. Repetition(n) = IF Warmup(n) THEN 1 + d ELSE (1 + d) - w
    BY Zenon DEF Repetition
<1> HIDE DEF d, c
<1>6. Numbered(n, L, d, c, w)
    BY <1>3, <1>4, <1>5, Zenon DEF Numbered
<1> QED
    BY <1>3, <1>6, Zenon

(* The run that is being made. *)
LEMMA ThisRun ==
    ASSUME options \in Options
    PROVE  /\ Planned \in Nat /\ Chosen = Asked(options)
           /\ Chosen \in Seq(Cases) /\ Different(Chosen) /\ Len(Chosen) \in Nat
           /\ options.warmup \in Nat
           /\ \A n \in 1 .. Planned : Len(Chosen) # 0
<1>1. Chosen = Asked(options) /\ Planned = (options.warmup + options.runs) * Len(Asked(options))
    BY Zenon DEF Chosen, Asked, Planned
<1>2. /\ Asked(options) \in Seq(Cases) /\ Different(Asked(options)) /\ Len(Asked(options)) \in Nat
      /\ options.warmup \in Nat
      /\ (options.warmup + options.runs) * Len(Asked(options)) \in Nat
    BY RunSizes
<1>3. ASSUME NEW n \in 1 .. Planned PROVE Len(Chosen) # 0
    <2>1. Planned # 0
        BY <1>1, <1>2
    <2>2. Len(Asked(options)) = 0 => (options.warmup + options.runs) * Len(Asked(options)) = 0
        BY RunSizes
    <2> QED
        BY <1>1, <2>1, <2>2, Zenon
<1> QED
    BY <1>1, <1>2, <1>3, Zenon

(* The number n of the loops is one of a case of the run. *)
LEMMA NumberIs ==
    ASSUME options \in Options, NEW n \in 1 .. Planned,
           NEW L \in Nat, L = Len(Chosen), NEW w \in Nat, w = options.warmup
    PROVE  \E d \in Nat, c \in Nat : Numbered(n, L, d, c, w) /\ 1 + c \in DOMAIN Chosen
<1>1. L # 0 /\ n \in Nat /\ n # 0 /\ Chosen \in Seq(Cases)
    BY ThisRun
<1>2. PICK d \in Nat, c \in Nat : Numbered(n, L, d, c, w)
    BY <1>1, Numbers
<1>3. c < L
    BY <1>2 DEF Numbered
<1>4. 1 + c \in 1 .. L /\ DOMAIN Chosen = 1 .. L
    BY <1>1, <1>3
<1> QED
    BY <1>2, <1>4, Zenon

LEMMA RunFacts ==
    ASSUME options \in Options
    PROVE  /\ Planned \in Nat
           /\ \A n \in 1 .. Planned :
                Case(n).id \in STRING /\ Repetition(n) \in Int /\ Warmup(n) \in BOOLEAN
<1>1. PICK L \in Nat, w \in Nat : L = Len(Chosen) /\ w = options.warmup
    BY ThisRun
<1>2. ASSUME NEW n \in 1 .. Planned
      PROVE  Case(n).id \in STRING /\ Repetition(n) \in Int /\ Warmup(n) \in BOOLEAN
    <2>1. PICK d \in Nat, c \in Nat : Numbered(n, L, d, c, w) /\ 1 + c \in DOMAIN Chosen
        BY <1>1, NumberIs
    <2>2. Case(n).id \in STRING
        <3>1. Position(n) \in DOMAIN Chosen /\ Chosen \in Seq(Cases)
            BY <2>1, ThisRun DEF Numbered
        <3>2. Chosen[Position(n)] \in Cases
            BY <3>1
        <3> QED
            BY <3>2 DEF Case, Cases
    <2>3. Warmup(n) \in BOOLEAN
        BY DEF Warmup
    <2>4. Repetition(n) \in Int
        BY <2>1 DEF Numbered
    <2> QED
        BY <2>2, <2>3, <2>4
<1>3. Planned \in Nat
    BY ThisRun
<1> QED
    BY <1>2, <1>3

(* A number is found from its case and its repetition. *)
LEMMA NumbersDiffer ==
    ASSUME options \in Options, NEW m \in 1 .. Planned, NEW n \in 1 .. Planned,
           Case(m).id = Case(n).id, Repetition(m) = Repetition(n), Warmup(m) = Warmup(n)
    PROVE  m = n
<1>1. PICK L \in Nat, w \in Nat : L = Len(Chosen) /\ w = options.warmup
    BY ThisRun
<1>2. PICK d \in Nat, c \in Nat : Numbered(m, L, d, c, w) /\ 1 + c \in DOMAIN Chosen
    BY <1>1, NumberIs
<1>3. PICK d2 \in Nat, c2 \in Nat : Numbered(n, L, d2, c2, w) /\ 1 + c2 \in DOMAIN Chosen
    BY <1>1, NumberIs
<1>4. 1 + c = 1 + c2
    <2>1. Chosen[1 + c].id = Chosen[1 + c2].id
        BY <1>2, <1>3 DEF Case, Numbered
    <2> QED
        BY <1>2, <1>3, <2>1, ThisRun DEF Different
<1>5. 1 + d = 1 + d2
    <2>1. CASE Warmup(m)
        BY <1>2, <1>3, <2>1 DEF Numbered
    <2>2. CASE ~Warmup(m)
        <3>1. (1 + d) - w = (1 + d2) - w
            BY <1>2, <1>3, <2>2 DEF Numbered
        <3> QED
            BY <3>1
    <2> QED
        BY <2>1, <2>2
<1>6. c = c2 /\ d = d2
    BY <1>4, <1>5
<1> QED
    BY <1>2, <1>3, <1>6 DEF Numbered

(* The numbers mean the same as long as the options do. *)
LEMMA SameNumbers ==
    ASSUME options' = options
    PROVE  /\ Planned' = Planned
           /\ \A n : (Warmup(n)' <=> Warmup(n)) /\ (Supports(Case(n))' <=> Supports(Case(n)))
           /\ \A s, n : Matches(s, n)' <=> Matches(s, n)
BY DEF Planned, Warmup, Supports, Case, Chosen, Position, Repetition, Matches

(* A new sample is the one of the current number. *)
LEMMA SampleMatches ==
    ASSUME EvalTypes, at <= Planned, NEW status \in {"PASS", "WARN", "FAIL", "SKIP"},
           NEW wasCut \in BOOLEAN, status = "SKIP" <=> ~Supports(Case(at))
    PROVE  Sample(status, wasCut) \in Samples /\ Matches(Sample(status, wasCut), at)
<1>1. options \in Options /\ Planned \in Nat
    BY RunFacts DEF EvalTypes, EvalTypeOK
<1>2. at \in 1 .. Planned
    BY <1>1 DEF EvalTypes, EvalTypeOK
<1>3. Case(at).id \in STRING /\ Repetition(at) \in Int /\ Warmup(at) \in BOOLEAN
    BY <1>1, <1>2, RunFacts
<1> QED
    BY <1>3 DEF Sample, Samples, Matches

(* The invariant holds before the first run. *)
LEMMA EvalInitInv == EvalInit => EvalInv
<1> SUFFICES ASSUME EvalInit PROVE EvalInv
    OBVIOUS
<1>1. Planned \in Nat
    BY RunFacts DEF EvalInit
<1>2. EvalTypes
    <2>1. samples \in Seq(Samples) /\ journal \in Seq(Samples) /\ exits \in Seq(Nat)
        BY DEF EvalInit
    <2>2. at \in 1 .. Planned + 1
        BY <1>1 DEF EvalInit
    <2>3. DOMAIN samples = {} /\ DOMAIN reports = Sides
        BY DEF EvalInit
    <2>4. EvalTypeOK
        BY <2>2, <2>3 DEF EvalInit, EvalTypeOK, Sides
    <2> QED
        BY <2>1, <2>4 DEF EvalInit, EvalTypes, Sides
<1>3. StepInv /\ JournalInv /\ CutInv /\ ExitInv /\ SameProtocolSameSamples
    BY DEF EvalInit, StepInv, JournalInv, CutInv, ExitInv, SameProtocolSameSamples
<1>4. SampleInv
    BY DEF EvalInit, SampleInv, Done
<1>5. ReportInv
    BY DEF EvalInit, ReportInv, NoReport
<1> QED
    BY <1>2, <1>3, <1>4, <1>5 DEF EvalInv

-----------------------------------------------------------------------------
(* What a step does to the samples. *)

(* An action that leaves the samples alone, and the numbers that were passed. *)
Quiet ==
    /\ UNCHANGED <<options, samples>> /\ Done' = Done
    /\ ~Journal => UNCHANGED fileVars /\ (step' = "journal" <=> step = "journal")

LEMMA StepKinds ==
    ASSUME EvalTypes, StepInv, [EvalNext]_evalVars
    PROVE  \/ Quiet
           \/ RunAgain
           \/ Skip /\ Warmup(at) /\ at' = at + 1 /\ samples' = samples /\ step' = step
           \/ Skip /\ samples' = Append(samples, Sample("SKIP", FALSE))
                   /\ step' = "journal" /\ at' = at
           \/ FinishSample
<1>1. at \in Nat
    BY RunFacts DEF EvalTypes, EvalTypeOK
<1>2. CASE SetupFails \/ SetupDone \/ StopLoop \/ EndLoop \/ StartSample
    BY <1>2 DEF SetupFails, SetupDone, StopLoop, EndLoop, StartSample, Quiet, Done
<1>3. CASE Skip
    BY <1>3 DEF Skip
<1>4. CASE Journal
    BY <1>1, <1>4 DEF Journal, Quiet, Done
<1>5. CASE Save
    BY <1>5 DEF Save, Quiet, Done
<1>6. CASE Interrupt \/ CompareReports
    BY <1>6 DEF Interrupt, CompareReports, Quiet, Done
<1>7. CASE UNCHANGED evalVars
    BY <1>7 DEF evalVars, fileVars, Quiet, Done
<1> QED
    BY <1>2, <1>3, <1>4, <1>5, <1>6, <1>7 DEF EvalNext, Progress

(* The facts of a new sample: of a skip, and of one that was run. *)
NewSample(s) ==
    /\ samples' = Append(samples, s)
    /\ s \in Samples /\ Matches(s, at)
    /\ s.cut => interrupted /\ s.status = "FAIL"
    /\ step \in {"loop", "sample"} /\ step' = "journal"
    /\ at <= Planned /\ ~complete /\ ~runErr
    /\ step = "loop" => ~interrupted
    /\ UNCHANGED <<side, options, at, fileVars, interrupted, runErr, complete>>
    /\ UNCHANGED outcomeVars

LEMMA SkipIsNew ==
    ASSUME EvalTypes, StepInv, Skip, samples' = Append(samples, Sample("SKIP", FALSE)),
           step' = "journal", at' = at
    PROVE  \E s \in Samples : NewSample(s)
<1>1. ~Supports(Case(at)) /\ at <= Planned
    BY DEF Skip
<1>2. Sample("SKIP", FALSE) \in Samples /\ Matches(Sample("SKIP", FALSE), at)
    BY <1>1, SampleMatches
<1>3. Sample("SKIP", FALSE).cut = FALSE
    BY DEF Sample
<1>4. ~complete /\ ~runErr
    BY DEF Skip, StepInv
<1>5. NewSample(Sample("SKIP", FALSE))
    BY <1>2, <1>3, <1>4 DEF NewSample, Skip, Cancelled
<1> QED
    BY <1>2, <1>5

LEMMA FinishIsNew ==
    ASSUME EvalTypes, StepInv, FinishSample
    PROVE  \E s \in Samples : NewSample(s)
<1>1. PICK status \in {"PASS", "WARN", "FAIL"}, wasCut \in BOOLEAN :
             /\ wasCut => interrupted /\ status = "FAIL"
             /\ samples' = Append(samples, Sample(status, wasCut))
    BY DEF FinishSample
<1>2. Supports(Case(at)) /\ status # "SKIP" /\ at <= Planned
    BY DEF FinishSample, StepInv
<1>3. Sample(status, wasCut) \in Samples /\ Matches(Sample(status, wasCut), at)
    BY <1>2, SampleMatches
<1>4. Sample(status, wasCut).cut = wasCut /\ Sample(status, wasCut).status = status
    BY DEF Sample
<1>5. at <= Planned /\ ~complete /\ ~runErr
    BY DEF FinishSample, StepInv
<1>6. NewSample(Sample(status, wasCut))
    BY <1>1, <1>3, <1>4, <1>5 DEF NewSample, FinishSample
<1> QED
    BY <1>3, <1>6

(* A step is quiet, runs again, passes an unsupported warm-up case, or adds a sample. *)
Pass == Skip /\ Warmup(at) /\ at' = at + 1 /\ samples' = samples /\ step' = step

LEMMA EvalStepKinds ==
    ASSUME EvalTypes, StepInv, [EvalNext]_evalVars
    PROVE  Quiet \/ RunAgain \/ Pass \/ \E s \in Samples : NewSample(s)
BY StepKinds, SkipIsNew, FinishIsNew DEF Pass

-----------------------------------------------------------------------------
(* Each part of the invariant. *)

(* The samples and the lines of the journal are samples. *)
LEMMA SamplesNext ==
    ASSUME EvalTypes, StepInv, JournalInv, [EvalNext]_evalVars
    PROVE  samples' \in Seq(Samples) /\ journal' \in Seq(Samples)
<1>1. samples \in Seq(Samples) /\ journal \in Seq(Samples)
    BY DEF EvalTypes
<1>2. samples' \in Seq(Samples)
    <2>1. CASE Quiet \/ Pass
        BY <1>1, <2>1 DEF Quiet, Pass
    <2>2. CASE RunAgain
        BY <2>2 DEF RunAgain
    <2>3. CASE \E s \in Samples : NewSample(s)
        BY <1>1, <2>3 DEF NewSample
    <2> QED
        BY <2>1, <2>2, <2>3, EvalStepKinds
<1>3. journal' \in Seq(Samples)
    <2>1. CASE RunAgain
        BY <2>1 DEF RunAgain
    <2>2. CASE Journal /\ journal' = Append(journal, samples[Len(samples)])
        <3>1. samples[Len(samples)] \in Samples
            BY <1>1, <2>2 DEF JournalInv, Journal
        <3> QED
            BY <1>1, <2>2, <3>1
    <2>3. CASE UNCHANGED journal
        BY <1>1, <2>3
    <2>4. \/ RunAgain \/ UNCHANGED journal
          \/ Journal /\ journal' = Append(journal, samples[Len(samples)])
        BY DEF EvalNext, Progress, SetupFails, SetupDone, StopLoop, EndLoop, Skip, StartSample,
               FinishSample, Journal, Save, Interrupt, CompareReports, evalVars, fileVars
    <2> QED
        BY <2>1, <2>2, <2>3, <2>4
<1> QED
    BY <1>2, <1>3

(* The numbers of the next step's run. *)
LEMMA PlannedNext ==
    ASSUME EvalTypes, StepInv, [EvalNext]_evalVars
    PROVE  options' \in Options /\ Planned' \in Nat /\ at' \in 1 .. Planned' + 1
<1>1. /\ at \in 1 .. Planned + 1 /\ Planned \in Nat /\ options \in Options
    BY RunFacts DEF EvalTypes, EvalTypeOK
<1>2. CASE RunAgain
    <2>1. PICK o \in Options : options' = o
        BY <1>2 DEF RunAgain
    <2>2. Planned' = (o.warmup + o.runs) * Len(Asked(o))
        BY <2>1 DEF Planned, Chosen, Asked
    <2>3. Planned' \in Nat
        BY <2>2, RunSizes
    <2>4. at' = 1 /\ \A k \in Nat : 1 \in 1 .. k + 1
        BY <1>2 DEF RunAgain
    <2> QED
        BY <2>1, <2>3, <2>4
<1>3. CASE ~RunAgain
    <2>1. options' = options
        BY <1>3 DEF EvalNext, Progress, SetupFails, SetupDone, StopLoop, EndLoop, Skip,
            StartSample, FinishSample, Journal, Save, Interrupt, CompareReports, evalVars
    <2>2. Planned' = Planned
        BY <2>1, SameNumbers
    <2>3. at' = at \/ (at' = at + 1 /\ at <= Planned)
        BY <1>3 DEF EvalNext, Progress, SetupFails, SetupDone, StopLoop, EndLoop, Skip,
            StartSample, FinishSample, Journal, Save, Interrupt, CompareReports, evalVars, StepInv
    <2> QED
        BY <1>1, <2>1, <2>2, <2>3
<1> QED
    BY <1>2, <1>3

(* Saving adds an exit code and writes the report of the side that was run. *)
LEMMA Saved ==
    ASSUME EvalTypes, Save
    PROVE  /\ side \in Sides
           /\ ExitCode \in {0, 1, 2, 130}
           /\ exits' \in Seq(Nat) /\ exits' # <<>>
           /\ exits'[Len(exits')] \in {2, ExitCode}
           /\ \E r \in {NoReport, Report} :
                reports' = [s \in Sides |-> IF s = side THEN r ELSE reports[s]]
<1>1. side \in Sides /\ exits \in Seq(Nat) /\ reports = [s \in Sides |-> reports[s]]
    BY DEF EvalTypes, Save
<1>2. ExitCode \in {0, 1, 2, 130}
    BY DEF ExitCode
<1>3. PICK code \in {2, ExitCode} : exits' = Append(exits, code)
    BY DEF Save
<1>4. code \in Nat
    BY <1>2
<1>5. PICK r \in {NoReport, Report} : reports' = [reports EXCEPT ![side] = r]
    BY DEF Save
<1>6. reports' = [s \in Sides |-> IF s = side THEN r ELSE reports[s]]
    BY <1>1, <1>5
<1>7. exits' \in Seq(Nat) /\ exits' # <<>> /\ exits'[Len(exits')] = code
    BY <1>1, <1>3, <1>4
<1> QED
    BY <1>1, <1>2, <1>3, <1>6, <1>7

LEMMA TypesNext ==
    ASSUME EvalTypes, StepInv, JournalInv, [EvalNext]_evalVars
    PROVE  EvalTypes'
<1>1. samples' \in Seq(Samples) /\ journal' \in Seq(Samples)
    BY SamplesNext
<1>2. \A i \in DOMAIN samples' : samples'[i].status \in {"PASS", "WARN", "FAIL", "SKIP"}
    <2> TAKE i \in DOMAIN samples'
    <2>1. samples'[i] \in Samples
        BY <1>1
    <2> QED
        BY <2>1 DEF Samples
<1>3. options' \in Options /\ at' \in 1 .. Planned' + 1
    BY PlannedNext
<1>4. /\ exits' \in Seq(Nat)
      /\ reports' = [s \in Sides |-> reports'[s]] /\ DOMAIN reports' = Sides
    <2>1. CASE Save
        <3>1. PICK r \in {NoReport, Report} :
                reports' = [s \in Sides |-> IF s = side THEN r ELSE reports[s]]
            BY <2>1, Saved
        <3> QED
            BY <2>1, <3>1, Saved
    <2>2. CASE UNCHANGED <<exits, reports>>
        BY <2>2 DEF EvalTypes, EvalTypeOK
    <2>3. Save \/ UNCHANGED <<exits, reports>>
        BY DEF EvalNext, Progress, SetupFails, SetupDone, StopLoop, EndLoop, Skip,
            StartSample, FinishSample, Journal, RunAgain, Interrupt, CompareReports, evalVars,
            outcomeVars
    <2> QED
        BY <2>1, <2>2, <2>3
<1>5. /\ side' \in Sides \cup {"compared"} /\ (step' # "exit" => side' \in Sides)
      /\ step' \in {"setup", "loop", "sample", "journal", "save", "exit"}
    BY DEF EvalTypes, EvalTypeOK, EvalNext, Progress, SetupFails, SetupDone, StopLoop, EndLoop,
        Skip, StartSample, FinishSample, Journal, Save, RunAgain, Interrupt, CompareReports,
        evalVars, Sides
<1>6. {interrupted', journalErr', torn', runErr', complete'} \subseteq BOOLEAN
    <2>1. {interrupted, journalErr, torn, runErr, complete} \subseteq BOOLEAN
        BY DEF EvalTypes, EvalTypeOK
    <2> QED
        BY <2>1 DEF EvalNext, Progress, SetupFails, SetupDone, StopLoop, EndLoop,
            Skip, StartSample, FinishSample, Journal, Save, RunAgain, Interrupt, CompareReports,
            evalVars, fileVars
<1> QED
    BY <1>1, <1>2, <1>3, <1>4, <1>5, <1>6 DEF EvalTypes, EvalTypeOK

(* Where the run is. *)
LEMMA StepNext ==
    ASSUME EvalTypes, StepInv, [EvalNext]_evalVars
    PROVE  StepInv'
<1>1. at \in 1 .. Planned + 1 /\ Planned \in Nat
    BY RunFacts DEF EvalTypes, EvalTypeOK
<1>2. CASE RunAgain
    BY <1>2 DEF RunAgain, StepInv
<1>3. CASE ~RunAgain
    <2>1. options' = options
        BY <1>3 DEF EvalNext, Progress, SetupFails, SetupDone, StopLoop, EndLoop, Skip,
            StartSample, FinishSample, Journal, Save, Interrupt, CompareReports, evalVars
    <2>2. Planned' = Planned
        BY <2>1, SameNumbers
    <2>3. /\ at' = at => (Supports(Case(at))' <=> Supports(Case(at)))
          /\ Chosen' = Chosen
        BY <2>1 DEF Supports, Case, Position, Chosen
    <2>4. CASE SetupFails \/ StopLoop
        BY <2>3, <2>4 DEF SetupFails, StopLoop, StepInv
    <2>10. CASE SetupDone
        <3>1. Chosen # <<>>
            <4>1. DOMAIN Chosen # {}
                BY <2>10 DEF SetupDone, Eligible
            <4>2. DOMAIN <<>> = {}
                OBVIOUS
            <4> QED
                BY <4>1, <4>2
        <3> QED
            BY <2>3, <2>10, <3>1 DEF SetupDone, StepInv
    <2>9. CASE Skip
        <3>1. /\ step = "loop" /\ at <= Planned /\ UNCHANGED <<runErr, complete>>
              /\ step' = "loop" \/ (step' = "journal" /\ at' = at)
            BY <2>9 DEF Skip
        <3> QED
            BY <2>2, <2>3, <3>1 DEF StepInv
    <2>8. CASE StartSample
        BY <2>2, <2>3, <2>8 DEF StartSample, StepInv
    <2>5. CASE EndLoop
        BY <1>1, <2>2, <2>3, <2>5 DEF EndLoop, StepInv
    <2>6. CASE FinishSample \/ Journal \/ Save
        BY <2>2, <2>3, <2>6 DEF FinishSample, Journal, Save, StepInv
    <2>7. CASE Interrupt \/ CompareReports \/ UNCHANGED evalVars
        <3>1. UNCHANGED <<step, at, samples, journal, runErr, complete>>
            BY <2>7 DEF Interrupt, CompareReports, evalVars, fileVars
        <3> QED
            BY <2>2, <2>3, <3>1 DEF StepInv
    <2> QED
        BY <1>3, <2>4, <2>5, <2>6, <2>7, <2>8, <2>9, <2>10 DEF EvalNext, Progress
<1> QED
    BY <1>2, <1>3

(* The samples follow the numbers. *)
LEMMA SampleNext ==
    ASSUME EvalTypes, StepInv, SampleInv, [EvalNext]_evalVars
    PROVE  SampleInv'
<1>1. at \in Nat /\ at # 0 /\ Done \in Nat /\ samples \in Seq(Samples)
    BY RunFacts DEF EvalTypes, EvalTypeOK, Done
<1>2. CASE Quiet
    <2>1. \A n : Warmup(n)' <=> Warmup(n)
        BY <1>2, SameNumbers DEF Quiet
    <2>2. \A i \in DOMAIN samples : samples'[i] = samples[i]
        BY <1>2 DEF Quiet
    <2>3. \A s, n : Matches(s, n)' <=> Matches(s, n)
        BY <1>2, SameNumbers DEF Quiet
    <2> QED
        BY <1>2, <2>1, <2>2, <2>3 DEF Quiet, SampleInv
<1>3. CASE RunAgain
    <2>1. samples' = <<>> /\ Done' = 0
        BY <1>3 DEF RunAgain, Done
    <2>2. DOMAIN samples' = {} /\ 1 .. Done' = {}
        BY <2>1
    <2> QED
        BY <2>2 DEF SampleInv
<1>4. CASE Pass
    <2>1. options' = options /\ Done' = Done + 1 /\ Done' = at /\ samples' = samples /\ Warmup(at)
        BY <1>1, <1>4 DEF Pass, Skip, Done
    <2>2. \A n : (Warmup(n)' <=> Warmup(n)) /\ \A s : Matches(s, n)' <=> Matches(s, n)
        BY <2>1, SameNumbers
    <2>3. 1 .. Done' = 1 .. Done \cup {at}
        BY <1>1, <2>1
    <2> QED
        BY <2>1, <2>2, <2>3 DEF SampleInv
<1>5. ASSUME NEW s \in Samples, NewSample(s) PROVE SampleInv'
    <2>1. options' = options /\ Done' = Done + 1 /\ Done' = at
        BY <1>1, <1>5 DEF NewSample, Done
    <2>2. \A n : (Warmup(n)' <=> Warmup(n)) /\ \A t : Matches(t, n)' <=> Matches(t, n)
        BY <2>1, SameNumbers
    <2>3. 1 .. Done' = 1 .. Done \cup {at} /\ \A m \in 1 .. Done : m < at
        BY <1>1, <2>1
    <2>4. Matches(s, at)
        BY <1>5 DEF NewSample
    <2> DEFINE last == Len(samples) + 1
    <2>5. /\ DOMAIN samples' = DOMAIN samples \cup {last}
          /\ \A i \in DOMAIN samples : samples'[i] = samples[i] /\ i < last
          /\ samples'[last] = s
        BY <1>1, <1>5 DEF NewSample
    <2>6. \A i \in DOMAIN samples : ~(last < i)
        BY <1>1
    <2>7. ~(last < last)
        BY <1>1
    <2> HIDE DEF last
    <2>8. \A n \in 1 .. Done' : ~Warmup(n)' => \E i \in DOMAIN samples' : Matches(samples'[i], n)
        BY <2>2, <2>3, <2>4, <2>5 DEF SampleInv
    <2>9. \A i \in DOMAIN samples' : \E n \in 1 .. Done' : Matches(samples'[i], n)
        BY <2>3, <2>4, <2>5 DEF SampleInv
    <2>10. ASSUME NEW i \in DOMAIN samples', NEW j \in DOMAIN samples', i < j
           PROVE  \E m, n \in 1 .. Done' :
                    m < n /\ Matches(samples'[i], m) /\ Matches(samples'[j], n)
        <3>1. i \in DOMAIN samples
            BY <2>5, <2>6, <2>7, <2>10
        <3>2. CASE j \in DOMAIN samples
            BY <2>3, <2>5, <2>10, <3>1, <3>2 DEF SampleInv
        <3>3. CASE j = last
            <4>1. PICK m \in 1 .. Done : Matches(samples[i], m)
                BY <3>1 DEF SampleInv
            <4> QED
                BY <2>3, <2>4, <2>5, <3>1, <3>3, <4>1
        <3> QED
            BY <2>5, <3>2, <3>3
    <2> QED
        BY <2>2, <2>8, <2>9, <2>10 DEF SampleInv
<1> QED
    BY <1>2, <1>3, <1>4, <1>5, EvalStepKinds

(* What is in the journal. *)
LEMMA JournalNext ==
    ASSUME EvalTypes, StepInv, JournalInv, [EvalNext]_evalVars
    PROVE  JournalInv'
<1>1. samples \in Seq(Samples) /\ journal \in Seq(Samples)
    BY DEF EvalTypes
<1>2. CASE RunAgain
    BY <1>2 DEF RunAgain, JournalInv
<1>3. CASE Journal
    <2>1. CASE journal' = Append(journal, samples[Len(samples)]) /\ UNCHANGED torn
        <3>1. Len(samples) = Len(journal) + 1 /\ ~torn
            BY <1>3 DEF Journal, JournalInv
        <3>2. /\ samples' = samples /\ step' = "loop" /\ Len(journal') = Len(journal) + 1
              /\ \A i \in 1 .. Len(journal) : journal'[i] = journal[i]
              /\ journal'[Len(journal) + 1] = samples[Len(samples)]
            BY <1>1, <1>3, <2>1 DEF Journal
        <3>3. \A i \in 1 .. Len(journal') : i \in 1 .. Len(journal) \/ i = Len(journal) + 1
            BY <1>1, <3>2
        <3> QED
            BY <1>1, <2>1, <3>1, <3>2, <3>3 DEF JournalInv
    <2>2. CASE journalErr' = TRUE /\ UNCHANGED journal
        BY <1>3, <2>2 DEF Journal, JournalInv
    <2> QED
        BY <1>3, <2>1, <2>2 DEF Journal
<1>4. ASSUME NEW s \in Samples, NewSample(s) PROVE JournalInv'
    <2>1. /\ Len(samples') = Len(samples) + 1
          /\ \A i \in 1 .. Len(samples) : samples'[i] = samples[i]
          /\ journal' = journal /\ step # "journal" /\ step' = "journal"
          /\ journalErr' = journalErr /\ torn' = torn
        BY <1>1, <1>4 DEF NewSample, fileVars
    <2> QED
        BY <1>1, <2>1 DEF JournalInv
<1>5. CASE ~Journal /\ (Quiet \/ Pass)
    <2>1. /\ UNCHANGED <<samples, journal, torn, journalErr>>
          /\ step' = "journal" <=> step = "journal"
        BY <1>5 DEF Quiet, Pass, Skip, fileVars
    <2> QED
        BY <2>1 DEF JournalInv
<1> QED
    BY <1>2, <1>3, <1>4, <1>5, EvalStepKinds

(* A sample that was cut is the last. *)
LEMMA CutNext ==
    ASSUME EvalTypes, StepInv, CutInv, [EvalNext]_evalVars
    PROVE  CutInv'
<1>1. samples \in Seq(Samples)
    BY DEF EvalTypes
<1>2. CASE RunAgain
    BY <1>2 DEF RunAgain, CutInv
<1>3. ASSUME NEW s \in Samples, NewSample(s) PROVE CutInv'
    <2>1. \A i \in DOMAIN samples : ~samples[i].cut
        BY <1>3 DEF CutInv, NewSample
    <2> DEFINE last == Len(samples) + 1
    <2>2. /\ DOMAIN samples' = DOMAIN samples \cup {last} /\ Len(samples') = last
          /\ \A i \in DOMAIN samples : samples'[i] = samples[i]
          /\ samples'[last] = s
        BY <1>1, <1>3 DEF NewSample
    <2> HIDE DEF last
    <2>3. /\ s.cut => interrupted' /\ s.status = "FAIL"
          /\ step' = "journal"
        BY <1>3 DEF NewSample
    <2> QED
        BY <2>1, <2>2, <2>3 DEF CutInv
<1>4. CASE Quiet \/ Pass
    <2>1. samples' = samples
        BY <1>4 DEF Quiet, Pass
    <2>2. ASSUME NEW i \in DOMAIN samples, samples[i].cut
          PROVE  interrupted' /\ step' \notin {"setup", "sample"}
        <3>1. interrupted /\ step \in {"loop", "journal", "save", "exit"}
            BY <2>2 DEF CutInv, EvalTypes, EvalTypeOK
        <3>2. ~RunAgain
            <4>1. CASE RunAgain
                <5>1. samples = <<>>
                    BY <2>1, <4>1 DEF RunAgain
                <5>2. DOMAIN samples = {}
                    BY <5>1
                <5> QED
                    BY <2>2, <5>2
            <4> QED
                BY <4>1
        <3> QED
            BY <3>1, <3>2
            DEF EvalNext, Progress, SetupFails, SetupDone, StopLoop, EndLoop, Skip, StartSample,
                FinishSample, Journal, Save, Interrupt, CompareReports, evalVars, Cancelled
    <2> QED
        BY <2>1, <2>2 DEF CutInv
<1> QED
    BY <1>2, <1>3, <1>4, EvalStepKinds

(* What the exit code says of the run. *)
LEMMA ExitNext ==
    ASSUME EvalTypes, StepInv, ExitInv, [EvalNext]_evalVars
    PROVE  ExitInv'
<1>1. CASE Save
    <2>1. UNCHANGED <<options, samples, journalErr, runErr>>
        BY <1>1 DEF Save, fileVars
    <2>2. (Counted("FAIL")' <=> Counted("FAIL")) /\ (Counted("WARN")' <=> Counted("WARN"))
        BY <2>1 DEF Counted, Measured
    <2>3. exits' # <<>> /\ exits'[Len(exits')] \in {2, ExitCode}
        BY <1>1, Saved
    <2>4. ExitCode # 2 => ~journalErr
        BY DEF ExitCode
    <2>5. ExitCode = 0 => ~runErr /\ ~Counted("FAIL") /\ (options.strict => ~Counted("WARN"))
        BY DEF ExitCode
    <2> QED
        BY <2>1, <2>2, <2>3, <2>4, <2>5 DEF ExitInv
<1>2. CASE CompareReports \/ UNCHANGED evalVars
    <2>1. UNCHANGED <<options, step, samples, journalErr, runErr, exits>>
        BY <1>2 DEF CompareReports, evalVars, fileVars
    <2>2. (Counted("FAIL")' <=> Counted("FAIL")) /\ (Counted("WARN")' <=> Counted("WARN"))
        BY <2>1 DEF Counted, Measured
    <2> QED
        BY <2>1, <2>2 DEF ExitInv
<1>3. CASE ~Save /\ ~CompareReports /\ ~UNCHANGED evalVars
    <2>1. step' # "exit"
        BY <1>3 DEF EvalNext, Progress, SetupFails, SetupDone, StopLoop, EndLoop, Skip, StartSample,
            FinishSample, Journal, RunAgain, Interrupt
    <2> QED
        BY <2>1 DEF ExitInv
<1> QED
    BY <1>1, <1>2, <1>3

(* The keys that are expected of a complete run, in terms of the numbers. *)
LEMMA ExpectedHere ==
    Expected(options) = {[id |-> Case(n).id, rep |-> Repetition(n), skip |-> ~Supports(Case(n))] :
                            n \in {k \in 1 .. Planned : ~Warmup(k)}}
<1> DEFINE size == Len(Asked(options))
           Nth(n) == Asked(options)[1 + ((n - 1) % size)]
           Key(n) == [id |-> Nth(n).id, rep |-> (1 + ((n - 1) \div size)) - options.warmup,
                      skip |-> options.mode \notin Nth(n).modes]
           Here(n) == [id |-> Case(n).id, rep |-> Repetition(n), skip |-> ~Supports(Case(n))]
           N == {k \in 1 .. Planned : ~Warmup(k)}
<1>1. Expected(options) = {Key(n) : n \in N}
    BY Zenon DEF Expected, Planned, Warmup, Chosen, Asked
<1>2. ASSUME NEW n \in N PROVE Key(n) = Here(n)
    <2>1. ~Warmup(n)
        BY <1>2
    <2>2. Case(n) = Nth(n)
        BY Zenon DEF Case, Position, Chosen, Asked
    <2>3. Repetition(n) = (1 + ((n - 1) \div size)) - options.warmup
        BY <2>1, Zenon DEF Repetition, Chosen, Asked
    <2> HIDE DEF Nth, size
    <2> QED
        BY <2>2, <2>3, Zenon DEF Supports
<1>3. {Key(n) : n \in N} = {Here(n) : n \in N}
    <2> HIDE DEF Key, Here, N
    <2> QED
        BY <1>2, Zenon
<1> QED
    BY <1>1, <1>3

(* The report of a complete run holds every key once. *)
LEMMA ReportKeys ==
    ASSUME EvalTypes, StepInv, SampleInv, step = "save", complete
    PROVE  Report.index = Expected(options) /\ Report.unique /\ Asked(options) # <<>>
<1>1. at = Planned + 1 /\ Planned \in Nat /\ Done = Planned /\ options \in Options
    BY RunFacts DEF EvalTypes, EvalTypeOK, StepInv, Done
<1> DEFINE K(i) == [id |-> samples[i].id, rep |-> samples[i].rep,
                    skip |-> samples[i].status = "SKIP"]
           Here(n) == [id |-> Case(n).id, rep |-> Repetition(n), skip |-> ~Supports(Case(n))]
           N == {k \in 1 .. Planned : ~Warmup(k)}
<1>2. ASSUME NEW i \in DOMAIN samples, NEW n \in 1 .. Planned, Matches(samples[i], n)
      PROVE  /\ K(i) = Here(n)
             /\ i \in Measured <=> n \in N
    <2>1. samples[i].id = Case(n).id /\ samples[i].rep = Repetition(n)
        BY <1>2 DEF Matches
    <2>2. (samples[i].status = "SKIP") = ~Supports(Case(n))
        BY <1>2, Zenon DEF Matches, Supports
    <2>3. i \in Measured <=> n \in N
        BY <1>2 DEF Matches, Measured
    <2> QED
        BY <2>1, <2>2, <2>3, Zenon
<1>3. \A i \in Measured : \E n \in N : Matches(samples[i], n) /\ K(i) = Here(n)
    BY <1>1, <1>2 DEF SampleInv, Measured
<1>4. \A n \in N : \E i \in Measured : K(i) = Here(n)
    BY <1>1, <1>2 DEF SampleInv
<1>5. {K(i) : i \in Measured} = {Here(n) : n \in N}
    <2> HIDE DEF K, Here, N
    <2> QED
        BY <1>3, <1>4, Zenon
<1>6. ASSUME NEW i \in Measured, NEW j \in Measured, i < j,
             samples[i].id = samples[j].id, samples[i].rep = samples[j].rep
      PROVE  FALSE
    <2>1. PICK m \in 1 .. Done, n \in 1 .. Done :
             m < n /\ Matches(samples[i], m) /\ Matches(samples[j], n)
        BY <1>6 DEF SampleInv, Measured
    <2>2. /\ Case(m).id = Case(n).id /\ Repetition(m) = Repetition(n)
          /\ ~Warmup(m) /\ ~Warmup(n)
        BY <1>6, <2>1 DEF Matches, Measured
    <2>3. m = n
        BY <1>1, <2>1, <2>2, NumbersDiffer DEF Warmup
    <2> QED
        BY <1>1, <2>1, <2>3
<1>7. \A i, j \in Measured :
         samples[i].id = samples[j].id /\ samples[i].rep = samples[j].rep => i = j
    <2>1. \A i, j \in Measured : i = j \/ i < j \/ j < i
        BY DEF Measured, EvalTypes
    <2> QED
        BY <1>6, <2>1
<1> QED
    <2>1. Report.index = Expected(options) /\ Report.unique
        BY <1>5, <1>7, ExpectedHere DEF Report
    <2>2. Asked(options) # <<>>
        BY <1>1, ThisRun DEF StepInv
    <2> QED
        BY <2>1, <2>2

(* What the files say. *)
LEMMA ReportNext ==
    ASSUME EvalTypes, StepInv, SampleInv, ReportInv, [EvalNext]_evalVars
    PROVE  ReportInv'
<1>1. CASE Save
    <2>1. PICK r \in {NoReport, Report} :
             reports' = [s \in Sides |-> IF s = side THEN r ELSE reports[s]]
        BY <1>1, Saved
    <2>2. options \in Options /\ step = "save"
        BY <1>1 DEF Save, EvalTypes, EvalTypeOK
    <2>3. /\ NoReport.readable = FALSE
          /\ Report.suite = options.suite /\ Report.complete = complete
          /\ Report.protocol = ProtocolOf(options)
        BY DEF NoReport, Report, Protocol, ProtocolOf
    <2>4. complete => Report.index = Expected(options) /\ Report.unique /\ Asked(options) # <<>>
        BY <2>2, ReportKeys
    <2>5. ASSUME r.readable PROVE \E o \in Options : ReportsOn(r, o)
        <3>1. r = Report
            BY <2>3, <2>5
        <3> QED
            BY <2>2, <2>3, <2>4, <3>1, Zenon DEF ReportsOn
    <2>6. ASSUME NEW t \in Sides, reports'[t].readable
          PROVE  \E o \in Options : ReportsOn(reports'[t], o)
        <3>1. CASE t = side
            <4>1. reports'[t] = r
                BY <2>1, <3>1
            <4> QED
                BY <2>5, <2>6, <4>1
        <3>2. CASE t # side
            <4>1. reports'[t] = reports[t]
                BY <2>1, <3>2
            <4> QED
                BY <2>6, <4>1 DEF ReportInv
        <3> QED
            BY <3>1, <3>2
    <2> QED
        BY <2>6 DEF ReportInv, ReportsOn, Expected, Asked, ProtocolOf
<1>2. CASE UNCHANGED reports
    BY <1>2 DEF ReportInv, ReportsOn, Expected, Asked, ProtocolOf
<1>3. Save \/ UNCHANGED reports
    BY DEF EvalNext, Progress, SetupFails, SetupDone, StopLoop, EndLoop, Skip, StartSample,
        FinishSample, Journal, RunAgain, Interrupt, CompareReports, evalVars, outcomeVars
<1> QED
    BY <1>1, <1>2, <1>3

(* The keys that are expected depend on the suite and the protocol, and are not empty. *)
LEMMA ExpectedSame ==
    ASSUME NEW o \in Options, NEW p \in Options, o.suite = p.suite,
           ProtocolOf(o) = ProtocolOf(p), Asked(o) # <<>>
    PROVE  Expected(o) = Expected(p) /\ Expected(o) # {}
<1>1. /\ o.mode = p.mode /\ o.runs = p.runs /\ o.warmup = p.warmup
      /\ o.category = p.category /\ o.id = p.id
    BY DEF ProtocolOf
<1>2. Asked(o) = Asked(p)
    BY <1>1, Zenon DEF Asked
<1>3. Expected(o) = Expected(p)
    BY <1>1, <1>2, Zenon DEF Expected
<1>4. PICK first \in Nat, all \in Nat :
        /\ first = o.warmup * Len(Asked(o)) /\ all = (o.warmup + o.runs) * Len(Asked(o))
        /\ first < all
    <2>1. Len(Asked(o)) # 0
        BY RunSizes
    <2> QED
        BY <2>1, RunSizes
<1>5. first + 1 \in 1 .. all /\ ~(first + 1 <= first)
    BY <1>4
<1>6. first + 1 \in {k \in 1 .. (o.warmup + o.runs) * Len(Asked(o)) :
                        ~(k <= o.warmup * Len(Asked(o)))}
    BY <1>4, <1>5, Zenon
<1>7. Expected(o) # {}
    BY <1>6, Zenon DEF Expected
<1> QED
    BY <1>3, <1>7

(* The verdict. *)
LEMMA VerdictNext ==
    ASSUME ReportInv, SameProtocolSameSamples, [EvalNext]_evalVars
    PROVE  SameProtocolSameSamples'
<1>1. CASE CompareReports
    <2> DEFINE b == reports["before"]
               a == reports["after"]
               Keys(r) == {<<k.id, k.rep>> : k \in r.index}
    <2>1. ASSUME b.readable, a.readable, b.complete, a.complete, b.suite = a.suite,
                 b.protocol = a.protocol
          PROVE  b.index = a.index /\ b.index # {} /\ b.unique /\ a.unique
        <3>1. PICK o \in Options : ReportsOn(b, o)
            BY <2>1 DEF ReportInv, Sides
        <3>2. PICK p \in Options : ReportsOn(a, p)
            BY <2>1 DEF ReportInv, Sides
        <3>3. o.suite = p.suite /\ ProtocolOf(o) = ProtocolOf(p) /\ Asked(o) # <<>>
            BY <2>1, <3>1, <3>2, Zenon DEF ReportsOn
        <3>4. Expected(o) = Expected(p) /\ Expected(o) # {}
            BY <3>3, ExpectedSame, Zenon
        <3> QED
            BY <2>1, <3>1, <3>2, <3>4, Zenon DEF ReportsOn
    <2>2. b.index = a.index => Keys(b) = Keys(a)
        OBVIOUS
    <2>3. verdict' = IF ~b.readable \/ ~a.readable THEN "unreadable"
                     ELSE IF ~b.complete \/ ~a.complete THEN "incomplete"
                     ELSE IF b.suite # a.suite THEN "suites differ"
                     ELSE IF b.protocol # a.protocol THEN "protocol differs"
                     ELSE IF ~b.unique \/ ~a.unique THEN "duplicate sample"
                     ELSE IF Keys(b) # Keys(a) \/ b.index = {} THEN "sample sets differ"
                     ELSE IF b.index # a.index THEN "skip populations differ"
                     ELSE "compared"
        BY <1>1, Zenon DEF CompareReports
    <2> HIDE DEF b, a, Keys
    <2> QED
        BY <2>1, <2>2, <2>3 DEF SameProtocolSameSamples
<1>2. CASE UNCHANGED verdict
    BY <1>2 DEF SameProtocolSameSamples
<1>3. CompareReports \/ UNCHANGED verdict
    BY DEF EvalNext, Progress, SetupFails, SetupDone, StopLoop, EndLoop, Skip, StartSample,
        FinishSample, Journal, Save, RunAgain, Interrupt, evalVars, outcomeVars
<1> QED
    BY <1>1, <1>2, <1>3

-----------------------------------------------------------------------------
(* Together: the invariant holds in every state, for every set of options. *)
THEOREM EvalInvariant == EvalSpec => []EvalInv
<1>1. EvalInv /\ [EvalNext]_evalVars => EvalInv'
    BY TypesNext, StepNext, SampleNext, JournalNext, CutNext, ExitNext, ReportNext, VerdictNext
    DEF EvalInv
<1> QED
    BY <1>1, EvalInitInv, PTL DEF EvalSpec

(* Type correctness; the loops stop behind their last number. *)
THEOREM EvalTypeCorrect == EvalSpec => []EvalTypeOK
<1>1. EvalInv => EvalTypeOK
    BY DEF EvalInv, EvalTypes
<1> QED
    BY <1>1, EvalInvariant, PTL

(* A complete run that saw no error of the journal has every sample in it. *)
LEMMA JournalComplete ==
    ASSUME EvalInv, step = "exit", ~journalErr
    PROVE  journal = samples /\ ~torn
<1>1. journal \in Seq(Samples) /\ samples \in Seq(Samples)
    BY DEF EvalInv, EvalTypes
<1>2. /\ Len(journal) = Len(samples) /\ \A i \in 1 .. Len(journal) : journal[i] = samples[i]
      /\ ~torn
    BY <1>1 DEF EvalInv, JournalInv
<1> QED
    BY <1>1, <1>2

(* What exit code 0, the journal and a sample that was cut tell of a run
   (cmd/zii-eval/main.go, runner.go), for every suite, number of runs and options. *)
THEOREM RunsLeaveTheTruth == EvalSpec => []TracesAreHonest
<1>1. ASSUME EvalInv PROVE TracesAreHonest
    <2> USE <1>1 DEF EvalInv
    <2>1. GreenMeansGood
        <3> SUFFICES ASSUME Exited(0) PROVE
              /\ complete /\ journal = samples /\ ~torn
              /\ \A n \in 1 .. Planned : ~Warmup(n) =>
                   \E i \in DOMAIN samples :
                      /\ samples[i].id = Case(n).id /\ samples[i].rep = Repetition(n)
                      /\ ~samples[i].warmup /\ ~samples[i].cut
                      /\ samples[i].status \in
                           {"PASS", "SKIP"} \cup (IF options.strict THEN {} ELSE {"WARN"})
                      /\ samples[i].status = "SKIP" <=> ~Supports(Case(n))
            BY DEF GreenMeansGood
        <3>1. /\ step = "exit" /\ ~journalErr /\ ~runErr /\ ~Counted("FAIL")
              /\ options.strict => ~Counted("WARN")
            BY DEF Exited, ExitInv
        <3>2. complete /\ Done = Planned
            <4>1. complete /\ at = Planned + 1
                BY <3>1 DEF StepInv
            <4>2. Planned \in Nat
                BY RunFacts DEF EvalTypes, EvalTypeOK
            <4> QED
                BY <3>1, <4>1, <4>2 DEF Done
        <3>3. ASSUME NEW n \in 1 .. Planned, ~Warmup(n)
              PROVE  \E i \in DOMAIN samples :
                      /\ samples[i].id = Case(n).id /\ samples[i].rep = Repetition(n)
                      /\ ~samples[i].warmup /\ ~samples[i].cut
                      /\ samples[i].status \in
                           {"PASS", "SKIP"} \cup (IF options.strict THEN {} ELSE {"WARN"})
                      /\ samples[i].status = "SKIP" <=> ~Supports(Case(n))
            <4>1. PICK i \in DOMAIN samples : Matches(samples[i], n)
                BY <3>2, <3>3 DEF SampleInv
            <4>2. ~samples[i].warmup /\ i \in Measured
                BY <3>3, <4>1 DEF Matches, Measured
            <4>3. samples[i].status # "FAIL" /\ (options.strict => samples[i].status # "WARN")
                BY <3>1, <4>2 DEF Counted
            <4>4. ~samples[i].cut
                BY <4>3 DEF CutInv
            <4>5. samples[i].status \in {"PASS", "WARN", "FAIL", "SKIP"}
                BY DEF EvalTypes, EvalTypeOK
            <4> QED
                BY <4>1, <4>2, <4>3, <4>4, <4>5 DEF Matches
        <3> QED
            BY <3>1, <3>2, <3>3, JournalComplete
    <2>2. JournalIsPrefix
        <3>1. journal \in Seq(Samples) /\ samples \in Seq(Samples)
            BY DEF EvalTypes
        <3>2. IsPrefix(journal, samples)
            BY <3>1 DEF JournalInv, IsPrefix
        <3>3. step = "exit" /\ ~Exited(2) => journal = samples /\ ~torn
            BY JournalComplete DEF Exited, ExitInv
        <3> QED
            BY <3>2, <3>3 DEF JournalIsPrefix
    <2>3. OnlyLastCut
        BY DEF OnlyLastCut, CutInv
    <2> QED
        BY <2>1, <2>2, <2>3 DEF TracesAreHonest
<1> QED
    BY <1>1, EvalInvariant, PTL

(* Two complete reports of one suite and protocol, of which the selection of cases is a part,
   compare, whatever else the two calls differed in (Compare, compare.go). *)
THEOREM ProtocolsDecideSamples == EvalSpec => []SameProtocolSameSamples
<1>1. EvalInv => SameProtocolSameSamples
    BY DEF EvalInv
<1> QED
    BY <1>1, EvalInvariant, PTL

-----------------------------------------------------------------------------
(* SplitMessage: the chunks of an answer.  The induction along a text is made with sets:
   the positions for which a fact holds contain 0 and with each its successor. *)

LEMMA MinIs ==
    ASSUME NEW S \in SUBSET Nat, S # {}
    PROVE  Min(S) \in S /\ \A m \in S : Min(S) <= m
<1>1. PICK n \in S : \A m \in S : n <= m
    BY Least
<1> QED
    BY <1>1, Zenon DEF Min

LEMMA MaxIs ==
    ASSUME NEW b \in Nat, NEW S \in SUBSET (0 .. b), S # {}
    PROVE  Max(S) \in S /\ \A m \in S : m <= Max(S)
<1> DEFINE T == {k \in Nat : b - k \in S}
<1>1. ASSUME NEW m \in S PROVE b - m \in T
    <2>1. m \in Nat /\ b - m \in Nat /\ b - (b - m) = m
        OBVIOUS
    <2> QED
        BY <2>1
<1>2. T \in SUBSET Nat /\ T # {}
    BY <1>1
<1>3. PICK n \in T : \A k \in T : n <= k
    <2> HIDE DEF T
    <2> QED
        BY <1>2, Least
<1>4. \A m \in S : b - n >= m
    <2> TAKE m \in S
    <2>1. n <= b - m
        BY <1>1, <1>3
    <2> QED
        BY <1>3, <2>1
<1>5. b - n \in S
    BY <1>3
<1>6. Max(S) \in S /\ \A m \in S : Max(S) >= m
    BY <1>4, <1>5, Zenon DEF Max
<1> QED
    BY <1>6

-----------------------------------------------------------------------------
(* The lines of a text. *)

(* the symbols of a text, and the character of no fence *)
Runes == Symbols \cup {""}

(* The line before position i begins after position m. *)
LineStart(s, i, m) ==
    /\ m = 0 \/ s[m] = NL
    /\ \A k \in 1 .. i - 1 : s[k] = NL => k <= m

LEMMA LineBeforeIs ==
    ASSUME NEW s \in Seq(Runes), NEW i \in Nat, 1 <= i, i <= Len(s) + 1
    PROVE  \E m \in 0 .. i - 1 :
             LineBefore(s, i) = SubSeq(s, m + 1, i - 1) /\ LineStart(s, i, m)
<1> DEFINE I == {k \in 1 .. i - 1 : s[k] = NL}
           last == IF I # {} THEN Max(I) ELSE 0
<1>1. LineBefore(s, i) = SubSeq(s, 1 + last, i - 1)
    BY Zenon DEF LineBefore, SelectLastInSubSeq
<1>2. i - 1 \in Nat /\ I \in SUBSET (0 .. i - 1)
    OBVIOUS
<1>3. I # {} => last \in I /\ \A k \in I : k <= last
    <2> HIDE DEF I
    <2> QED
        BY <1>2, MaxIs, Zenon
<1>4. I = {} => last = 0
    OBVIOUS
<1> HIDE DEF last
<1>5. last \in 0 .. i - 1 /\ LineStart(s, i, last)
    BY <1>2, <1>3, <1>4 DEF LineStart
<1>6. 1 + last = last + 1
    BY <1>5
<1> QED
    BY <1>1, <1>5, <1>6, Zenon

(* A line is a sequence that ends before its newline and begins after every other. *)
LEMMA LineSize ==
    ASSUME NEW s \in Seq(Runes), NEW i \in Nat, 1 <= i, i <= Len(s) + 1
    PROVE  /\ LineBefore(s, i) \in Seq(Runes)
           /\ Len(LineBefore(s, i)) \in Nat /\ Len(LineBefore(s, i)) < i
           /\ \A k \in 1 .. i - 1 : s[k] = NL => Len(LineBefore(s, i)) < i - k
<1>1. PICK m \in 0 .. i - 1 :
             LineBefore(s, i) = SubSeq(s, m + 1, i - 1) /\ LineStart(s, i, m)
    BY LineBeforeIs
<1>2. SubSeq(s, m + 1, i - 1) \in Seq(Runes) /\ Len(SubSeq(s, m + 1, i - 1)) = i - 1 - m
    OBVIOUS
<1> QED
    BY <1>1, <1>2 DEF LineStart

(* The lines of a beginning of the text are those of the text. *)
LEMMA LineOfBeginning ==
    ASSUME NEW s \in Seq(Runes), NEW e \in 0 .. Len(s), NEW i \in 1 .. e
    PROVE  LineBefore(SubSeq(s, 1, e), i) = LineBefore(s, i)
<1>1. PICK b \in Seq(Runes) : b = SubSeq(s, 1, e)
    <2>1. SubSeq(s, 1, e) \in Seq(Runes)
        OBVIOUS
    <2> QED
        BY <2>1, Zenon
<1>2. Len(b) = e /\ \A k \in 1 .. e : b[k] = s[k]
    BY <1>1
<1>3. PICK m \in 0 .. i - 1 :
             LineBefore(s, i) = SubSeq(s, m + 1, i - 1) /\ LineStart(s, i, m)
    BY LineBeforeIs
<1>4. i \in Nat /\ 1 <= i /\ i <= Len(b) + 1
    BY <1>2
<1>5. PICK n \in 0 .. i - 1 :
             LineBefore(b, i) = SubSeq(b, n + 1, i - 1) /\ LineStart(b, i, n)
    BY <1>4, LineBeforeIs
<1>6. m <= n
    <2>1. CASE m = 0
        BY <2>1
    <2>2. CASE m # 0
        <3>1. m \in 1 .. i - 1 /\ m \in 1 .. e
            BY <2>2
        <3>2. b[m] = NL
            BY <1>2, <1>3, <2>2, <3>1 DEF LineStart
        <3> QED
            BY <1>5, <3>1, <3>2 DEF LineStart
    <2> QED
        BY <2>1, <2>2
<1>7. n <= m
    <2>1. CASE n = 0
        BY <2>1
    <2>2. CASE n # 0
        <3>1. n \in 1 .. i - 1 /\ n \in 1 .. e
            BY <2>2
        <3>2. s[n] = NL
            BY <1>2, <1>5, <2>2, <3>1 DEF LineStart
        <3> QED
            BY <1>3, <3>1, <3>2 DEF LineStart
    <2> QED
        BY <2>1, <2>2
<1>8. m = n
    BY <1>6, <1>7
<1>9. SubSeq(b, m + 1, i - 1) = SubSeq(s, m + 1, i - 1)
    BY <1>2
<1> QED
    BY <1>1, <1>3, <1>5, <1>8, <1>9, Zenon

LEMMA RunLengthIs ==
    ASSUME NEW line \in Seq(Runes)
    PROVE  RunLength(line) \in Nat /\ RunLength(line) <= Len(line)
<1> DEFINE I == {k \in 1 .. Len(line) : line[k] # line[1]}
           other == IF I # {} THEN Min(I) ELSE 0
<1>1. RunLength(line) = IF other = 0 THEN Len(line) ELSE other - 1
    BY Zenon DEF RunLength, SelectInSeq
<1>2. I \in SUBSET Nat /\ I \in SUBSET (1 .. Len(line))
    <2>1. I \in SUBSET (1 .. Len(line))
        BY Zenon
    <2> HIDE DEF I
    <2> QED
        BY <2>1
<1>3. I # {} => other \in I
    <2> HIDE DEF I
    <2> QED
        BY <1>2, MinIs, Zenon
<1>4. I = {} => other = 0
    OBVIOUS
<1> HIDE DEF other, I
<1>5. other = 0 \/ other \in 1 .. Len(line)
    BY <1>2, <1>3, <1>4
<1> QED
    BY <1>1, <1>5

LEMMA TrimLeftIs ==
    ASSUME NEW line \in Seq(Runes)
    PROVE  TrimLeft(line) \in Seq(Runes) /\ Len(TrimLeft(line)) <= Len(line)
<1> DEFINE I == {k \in 1 .. Len(line) : line[k] \notin Indent}
           first == IF I # {} THEN Min(I) ELSE 0
<1>1. TrimLeft(line) = IF first = 0 THEN <<>> ELSE SubSeq(line, first, Len(line))
    BY Zenon DEF TrimLeft, SelectInSeq
<1>2. I \in SUBSET Nat /\ I \in SUBSET (1 .. Len(line))
    <2>1. I \in SUBSET (1 .. Len(line))
        BY Zenon
    <2> HIDE DEF I
    <2> QED
        BY <2>1
<1>3. I # {} => first \in I
    <2> HIDE DEF I
    <2> QED
        BY <1>2, MinIs, Zenon
<1>4. I = {} => first = 0
    OBVIOUS
<1> HIDE DEF first, I
<1>5. first = 0 \/ first \in 1 .. Len(line)
    BY <1>2, <1>3, <1>4
<1>6. CASE first = 0
    BY <1>1, <1>6
<1>7. CASE first \in 1 .. Len(line)
    <2>1. TrimLeft(line) = SubSeq(line, first, Len(line))
        BY <1>1, <1>7
    <2> QED
        BY <1>7, <2>1
<1> QED
    BY <1>5, <1>6, <1>7

-----------------------------------------------------------------------------
(* The fences of a text: what a line makes of the open fence, and the unfolding of the
   recursion along the text. *)

FenceSet == [char : Runes, len : Nat, opening : Seq(Runes)]

LEMMA NoFenceIs == NoFence \in FenceSet /\ NoFence.len = 0
<1>1. <<>> \in Seq(Runes) /\ "" \in Runes
    BY DEF Runes
<1> QED
    BY <1>1 DEF NoFence, FenceSet

LEMMA LineEffect ==
    ASSUME NEW f \in FenceSet, NEW line \in Seq(Runes)
    PROVE  /\ AfterLine(f, line) \in FenceSet
           /\ f # NoFence /\ AfterLine(f, line) # f =>
                AfterLine(f, line) = NoFence /\ f.len <= Len(line)
           /\ f = NoFence => AfterLine(f, line).len <= Len(line)
<1> DEFINE t == TrimLeft(line)
           g == AfterLine(f, line)
<1>1. t \in Seq(Runes) /\ Len(t) <= Len(line)
    BY TrimLeftIs
<1>2. RunLength(t) \in Nat /\ RunLength(t) <= Len(line)
    BY <1>1, RunLengthIs
<1>3. NoFence \in FenceSet /\ NoFence.len = 0
    BY NoFenceIs
<1>4. g = AfterTrimmed(f, t)
    BY DEF AfterLine
<1> HIDE DEF t, g
<1>5. CASE g = f
    <2>1. f = NoFence => g.len = 0
        BY <1>3, <1>5
    <2> QED
        BY <1>1, <1>5, <2>1 DEF g
<1>6. CASE IsMarker(t) /\ f = NoFence
    <2>1. t[1] \in Runes
        BY <1>1, <1>6 DEF IsMarker
    <2>2. g = [char |-> t[1], len |-> RunLength(t), opening |-> t]
        BY <1>4, <1>6 DEF AfterTrimmed
    <2>3. g \in FenceSet /\ g.len = RunLength(t)
        BY <1>1, <1>2, <2>1, <2>2 DEF FenceSet
    <2> QED
        BY <1>2, <1>6, <2>3 DEF g
<1>7. CASE IsMarker(t) /\ f # NoFence /\ Closes(f, t)
    <2>1. g = NoFence
        BY <1>4, <1>7 DEF AfterTrimmed
    <2>2. RunLength(t) >= f.len
        BY <1>7 DEF Closes
    <2>3. f.len \in Nat
        BY DEF FenceSet
    <2> QED
        BY <1>1, <1>2, <1>3, <1>7, <2>1, <2>2, <2>3 DEF g
<1>8. g = f \/ (IsMarker(t) /\ f = NoFence) \/ (IsMarker(t) /\ f # NoFence /\ Closes(f, t))
    BY <1>4 DEF AfterTrimmed
<1> QED
    BY <1>5, <1>6, <1>7, <1>8

(* fence g follows fence f at position i *)
Follows(s, i, f, g) == g = IF s[i] = NL THEN AfterLine(f, LineBefore(s, i)) ELSE f

LEMMA FencesUnfold ==
    ASSUME NEW s \in Seq(Runes)
    PROVE  /\ Fences(s)[0] = NoFence
           /\ \A i \in 1 .. Len(s) : Follows(s, i, Fences(s)[i - 1], Fences(s)[i])
<1> DEFINE Rec(n, g) == g = [i \in 0 .. n |->
                IF i = 0 THEN NoFence
                ELSE IF s[i] = NL THEN AfterLine(g[i-1], LineBefore(s, i)) ELSE g[i-1]]
           S == {n \in Nat : \E g : Rec(n, g)}
<1>1. 0 \in S
    <2>1. Rec(0, [i \in 0 .. 0 |-> NoFence])
        OBVIOUS
    <2> HIDE DEF Rec
    <2> QED
        BY <2>1
<1>2. ASSUME NEW n \in S PROVE n + 1 \in S
    <2>1. PICK g : Rec(n, g)
        OBVIOUS
    <2> DEFINE new == IF s[n + 1] = NL THEN AfterLine(g[n], LineBefore(s, n + 1)) ELSE g[n]
               h == [i \in 0 .. n + 1 |-> IF i = n + 1 THEN new ELSE g[i]]
    <2>2. ASSUME NEW i \in 0 .. n + 1
          PROVE  h[i] = IF i = 0 THEN NoFence
                        ELSE IF s[i] = NL THEN AfterLine(h[i-1], LineBefore(s, i)) ELSE h[i-1]
        <3>1. CASE i = n + 1
            <4>1. h[i] = new /\ h[i - 1] = g[n] /\ i # 0
                BY <3>1
            <4> QED
                BY <3>1, <4>1
        <3>2. CASE i \in 0 .. n
            <4>1. h[i] = g[i] /\ (i # 0 => h[i - 1] = g[i - 1])
                BY <3>2
            <4> HIDE DEF h
            <4> QED
                BY <2>1, <3>2, <4>1
        <3> QED
            BY <3>1, <3>2
    <2>3. Rec(n + 1, h)
        BY <2>2
    <2> HIDE DEF h, Rec
    <2> QED
        BY <2>3
<1>3. S = Nat
    <2>1. S \subseteq Nat
        OBVIOUS
    <2> HIDE DEF S
    <2> QED
        BY <1>1, <1>2, <2>1, SetInduction
<1>4. \E g : Rec(Len(s), g)
    <2>1. Len(s) \in S
        BY <1>3
    <2> HIDE DEF Rec
    <2> QED
        BY <2>1
<1>5. Rec(Len(s), Fences(s))
    BY <1>4, Zenon DEF Fences
<1>6. 0 \in 0 .. Len(s) /\ \A i \in 1 .. Len(s) : i \in 0 .. Len(s) /\ i # 0
    OBVIOUS
<1> QED
    BY <1>5, <1>6 DEF Follows

(* The fences are fences. *)
LEMMA FencesType ==
    ASSUME NEW s \in Seq(Runes), NEW k \in 0 .. Len(s)
    PROVE  Fences(s)[k] \in FenceSet
<1> DEFINE S == {n \in Nat : n <= Len(s) => Fences(s)[n] \in FenceSet}
<1>1. 0 \in S
    BY FencesUnfold, NoFenceIs
<1>2. ASSUME NEW n \in S PROVE n + 1 \in S
    <2>1. SUFFICES ASSUME n + 1 <= Len(s) PROVE Fences(s)[n + 1] \in FenceSet
        OBVIOUS
    <2>2. n + 1 \in Nat /\ n + 1 \in 1 .. Len(s) /\ (n + 1) - 1 = n
        BY <2>1
    <2>3. Follows(s, n + 1, Fences(s)[n], Fences(s)[n + 1])
        BY <2>2, FencesUnfold
    <2>4. Fences(s)[n] \in FenceSet
        BY <2>1
    <2>5. LineBefore(s, n + 1) \in Seq(Runes)
        BY <2>2, LineSize
    <2> QED
        BY <2>3, <2>4, <2>5, LineEffect DEF Follows
<1>3. S = Nat
    <2>1. S \subseteq Nat
        OBVIOUS
    <2> HIDE DEF S
    <2> QED
        BY <1>1, <1>2, <2>1, SetInduction
<1> QED
    BY <1>3

(* The fences of a beginning of the text are those of the text. *)
LEMMA FencesOfBeginning ==
    ASSUME NEW s \in Seq(Runes), NEW e \in 0 .. Len(s)
    PROVE  Fences(SubSeq(s, 1, e))[e] = Fences(s)[e]
<1>1. PICK b \in Seq(Runes) : b = SubSeq(s, 1, e)
    <2>1. SubSeq(s, 1, e) \in Seq(Runes)
        OBVIOUS
    <2> QED
        BY <2>1, Zenon
<1>2. Len(b) = e /\ \A k \in 1 .. e : b[k] = s[k]
    BY <1>1
<1> DEFINE S == {n \in Nat : n <= e => Fences(b)[n] = Fences(s)[n]}
<1>3. 0 \in S
    BY FencesUnfold
<1>4. ASSUME NEW n \in S PROVE n + 1 \in S
    <2>1. SUFFICES ASSUME n + 1 <= e PROVE Fences(b)[n + 1] = Fences(s)[n + 1]
        OBVIOUS
    <2>2. /\ n + 1 \in 1 .. Len(s) /\ n + 1 \in 1 .. Len(b) /\ n + 1 \in 1 .. e
          /\ (n + 1) - 1 = n
        BY <1>2, <2>1
    <2>3. /\ Follows(s, n + 1, Fences(s)[n], Fences(s)[n + 1])
          /\ Follows(b, n + 1, Fences(b)[n], Fences(b)[n + 1])
        BY <2>2, FencesUnfold
    <2>4. Fences(b)[n] = Fences(s)[n]
        BY <2>1
    <2>5. LineBefore(b, n + 1) = LineBefore(s, n + 1) /\ b[n + 1] = s[n + 1]
        BY <1>1, <1>2, <2>2, LineOfBeginning
    <2> QED
        BY <2>3, <2>4, <2>5, Zenon DEF Follows
<1>5. S = Nat
    <2>1. S \subseteq Nat
        OBVIOUS
    <2> HIDE DEF S
    <2> QED
        BY <1>3, <1>4, <2>1, SetInduction
<1>6. e \in S
    BY <1>5
<1> QED
    BY <1>1, <1>6

-----------------------------------------------------------------------------
(* Where an answer is cut. *)

(* p is a place of kind k *)
PlaceOf(s, p, k) ==
    \/ k = 1 /\ s[p] = NL /\ s[p-1] = NL
    \/ k = 2 /\ s[p] = NL
    \/ k = 3 /\ s[p] \in SentenceEnd
    \/ k = 4 /\ s[p] = " "

(* The cut is at the last place of the best kind there is, or just at the capacity. *)
BestPlace(s, c, cut) ==
    \/ /\ cut = c
       /\ \A k \in 1 .. 4 : \A p \in 2 .. c : ~PlaceOf(s, p, k)
    \/ /\ cut \in 2 .. c
       /\ \E k \in 1 .. 4 :
             /\ PlaceOf(s, cut, k)
             /\ \A p \in 2 .. c : PlaceOf(s, p, k) => p <= cut
             /\ \A j \in 1 .. k - 1 : \A p \in 2 .. c : ~PlaceOf(s, p, j)

LEMMA CutChoice ==
    ASSUME NEW s \in Seq(Runes), s # <<>>, NEW c \in Nat, c # 0
    PROVE  /\ Len(s) <= c => CutLength(s, c) = Len(s)
           /\ Len(s) > c => BestPlace(s, c, CutLength(s, c))
<1> DEFINE places == 2 .. c
           paragraphs == {p \in places : s[p] = NL /\ s[p-1] = NL}
           newlines   == {p \in places : s[p] = NL}
           sentences  == {p \in places : s[p] \in SentenceEnd}
           spaces     == {p \in places : s[p] = " "}
           kinds == << paragraphs, newlines, sentences, spaces >>
           I == {i \in 1 .. Len(kinds) : kinds[i] # {}}
           kind == IF I # {} THEN Min(I) ELSE 0
           end == ChooseSplitCut(s, c)
<1>1. end = IF Len(s) <= c THEN Len(s) ELSE IF kind = 0 THEN c ELSE Max(kinds[kind])
    BY Zenon DEF ChooseSplitCut, SelectInSeq
<1>2. Len(s) \in Nat \ {0}
    OBVIOUS
<1>3. Len(kinds) = 4
    OBVIOUS
<1>4. /\ kinds[1] = paragraphs /\ kinds[2] = newlines
      /\ kinds[3] = sentences /\ kinds[4] = spaces
    OBVIOUS
<1> HIDE DEF kinds
<1>5. ASSUME NEW k \in 1 .. 4
      PROVE  kinds[k] \in SUBSET (0 .. c)
             /\ \A p : p \in kinds[k] <=> p \in 2 .. c /\ PlaceOf(s, p, k)
    <2>1. \A p : /\ PlaceOf(s, p, 1) <=> s[p] = NL /\ s[p-1] = NL
                 /\ PlaceOf(s, p, 2) <=> s[p] = NL
                 /\ PlaceOf(s, p, 3) <=> s[p] \in SentenceEnd
                 /\ PlaceOf(s, p, 4) <=> s[p] = " "
        BY DEF PlaceOf
    <2>2. \A p : /\ p \in paragraphs <=> p \in 2 .. c /\ PlaceOf(s, p, 1)
                 /\ p \in newlines <=> p \in 2 .. c /\ PlaceOf(s, p, 2)
                 /\ p \in sentences <=> p \in 2 .. c /\ PlaceOf(s, p, 3)
                 /\ p \in spaces <=> p \in 2 .. c /\ PlaceOf(s, p, 4)
        BY <2>1, Zenon
    <2> HIDE DEF paragraphs, newlines, sentences, spaces
    <2>3. k = 1 \/ k = 2 \/ k = 3 \/ k = 4
        OBVIOUS
    <2>4. \A p : p \in kinds[k] <=> p \in 2 .. c /\ PlaceOf(s, p, k)
        BY <1>4, <2>2, <2>3, Zenon
    <2>5. kinds[k] \in SUBSET (0 .. c)
        BY <2>4
    <2> QED
        BY <2>4, <2>5
<1> HIDE DEF paragraphs, newlines, sentences, spaces, end, places
<1>6. I \in SUBSET Nat /\ \A i : i \in I <=> i \in 1 .. 4 /\ kinds[i] # {}
    BY <1>3
<1>7. I # {} => Min(I) \in I /\ \A i \in I : Min(I) <= i
    <2> HIDE DEF I
    <2> QED
        BY <1>6, MinIs, Zenon
<1>8. \/ kind = 0 /\ I = {}
      \/ kind \in I /\ \A i \in I : kind <= i
    BY <1>7
<1> HIDE DEF kind, I
<1>9. CASE Len(s) <= c
    <2>1. end = Len(s)
        BY <1>1, <1>9
    <2> QED
        BY <1>2, <1>9, <2>1 DEF CutLength, end
<1>10. CASE Len(s) > c /\ kind = 0
    <2>1. end = c
        BY <1>1, <1>2, <1>10
    <2>2. CutLength(s, c) = c
        BY <2>1 DEF CutLength, end
    <2>3. I = {}
        BY <1>6, <1>8, <1>10
    <2>4. \A k \in 1 .. 4 : \A p \in 2 .. c : ~PlaceOf(s, p, k)
        BY <1>5, <1>6, <2>3
    <2> QED
        BY <1>2, <1>10, <2>2, <2>4 DEF BestPlace
<1>11. CASE Len(s) > c /\ kind # 0
    <2>1. kind \in 1 .. 4 /\ kinds[kind] # {} /\ \A i \in I : kind <= i
        BY <1>6, <1>8, <1>11
    <2>2. end = Max(kinds[kind])
        BY <1>1, <1>2, <1>11
    <2>3. end \in kinds[kind] /\ \A m \in kinds[kind] : m <= end
        BY <1>5, <2>1, <2>2, MaxIs
    <2>4. end \in 2 .. c /\ PlaceOf(s, end, kind)
        BY <1>5, <2>1, <2>3
    <2>5. \A p \in 2 .. c : PlaceOf(s, p, kind) => p <= end
        BY <1>5, <2>1, <2>3
    <2>6. ASSUME NEW j \in 1 .. kind - 1, NEW p \in 2 .. c PROVE ~PlaceOf(s, p, j)
        <3>1. j \in 1 .. 4 /\ j \notin I
            BY <2>1
        <3> QED
            BY <1>5, <1>6, <3>1
    <2>7. CutLength(s, c) = end
        BY <2>4 DEF CutLength, end
    <2>8. BestPlace(s, c, end)
        BY <2>1, <2>4, <2>5, <2>6 DEF BestPlace
    <2> QED
        BY <1>2, <1>11, <2>7, <2>8
<1> QED
    BY <1>2, <1>9, <1>10, <1>11

(* A cut takes something, never more than the capacity, and ends at a newline if it can. *)
LEMMA CutIs ==
    ASSUME NEW s \in Seq(Runes), s # <<>>, NEW c \in Nat, c # 0
    PROVE  /\ CutLength(s, c) \in 1 .. Len(s)
           /\ CutLength(s, c) <= c
           /\ Len(s) <= c => CutLength(s, c) = Len(s)
           /\ Len(s) > c /\ (\E p \in 2 .. c : s[p] = NL) => s[CutLength(s, c)] = NL
<1> DEFINE cut == CutLength(s, c)
<1>1. /\ Len(s) <= c => cut = Len(s)
      /\ Len(s) > c => BestPlace(s, c, cut)
    BY CutChoice
<1>2. Len(s) \in Nat \ {0}
    OBVIOUS
<1> HIDE DEF cut
<1>3. CASE Len(s) <= c
    BY <1>1, <1>2, <1>3 DEF cut
<1>4. CASE Len(s) > c
    <2>1. cut \in 1 .. c
        BY <1>1, <1>2, <1>4 DEF BestPlace
    <2>2. ASSUME NEW p \in 2 .. c, s[p] = NL PROVE s[cut] = NL
        <3>1. PlaceOf(s, p, 2)
            BY <2>2 DEF PlaceOf
        <3>2. PICK k \in 1 .. 4 :
                 PlaceOf(s, cut, k) /\ \A j \in 1 .. k - 1 : ~PlaceOf(s, p, j)
            BY <1>1, <1>2, <1>4, <3>1 DEF BestPlace
        <3>3. k = 1 \/ k = 2
            BY <3>1, <3>2
        <3>4. PlaceOf(s, cut, 1) \/ PlaceOf(s, cut, 2)
            BY <3>2, <3>3, Zenon
        <3> QED
            BY <3>4 DEF PlaceOf
    <2> QED
        BY <1>2, <1>4, <2>1, <2>2 DEF cut
<1> QED
    BY <1>2, <1>3, <1>4

(* With less room the cut is not later. *)
LEMMA CutShrinks ==
    ASSUME NEW s \in Seq(Runes), s # <<>>, NEW c \in Nat, NEW r \in Nat,
           r # 0, r <= c, Len(s) > c
    PROVE  CutLength(s, r) <= CutLength(s, c)
<1>1. PICK d, e : d = CutLength(s, c) /\ e = CutLength(s, r)
    OBVIOUS
<1>2. BestPlace(s, c, d) /\ BestPlace(s, r, e)
    BY <1>1, CutChoice
<1>3. d \in 1 .. c /\ e \in 1 .. r
    BY <1>2 DEF BestPlace
<1>4. SUFFICES ASSUME d < e PROVE FALSE
    BY <1>1, <1>3
<1>5. d \in 2 .. c /\ d \in 2 .. r /\ e \in 2 .. c
    BY <1>2, <1>3, <1>4 DEF BestPlace
<1>6. PICK k \in 1 .. 4 :
         /\ PlaceOf(s, d, k)
         /\ \A p \in 2 .. c : PlaceOf(s, p, k) => p <= d
         /\ \A j \in 1 .. k - 1 : \A p \in 2 .. c : ~PlaceOf(s, p, j)
    BY <1>2, <1>3, <1>4 DEF BestPlace
<1>7. PICK i \in 1 .. 4 :
         PlaceOf(s, e, i) /\ \A j \in 1 .. i - 1 : ~PlaceOf(s, d, j)
    BY <1>2, <1>5, <1>6 DEF BestPlace
<1>8. i <= k
    BY <1>6, <1>7
<1>9. i = k
    BY <1>5, <1>6, <1>7, <1>8
<1> QED
    BY <1>3, <1>4, <1>5, <1>6, <1>7, <1>9

-----------------------------------------------------------------------------
(* Between two places with different fences the first is closed, and the second opened:
   there are lines as long as their markers. *)

LEMMA FenceClosed ==
    ASSUME NEW s \in Seq(Runes), NEW a \in 0 .. Len(s), NEW b \in 0 .. Len(s), a < b,
           Fences(s)[a] # NoFence, Fences(s)[a] # Fences(s)[b]
    PROVE  \E p \in a + 1 .. b :
              /\ s[p] = NL /\ Fences(s)[p] = NoFence
              /\ Fences(s)[a].len <= Len(LineBefore(s, p))
<1> DEFINE S == {k \in Nat : k \in a + 1 .. b /\ Fences(s)[k] # Fences(s)[a]}
<1>1. S \in SUBSET Nat /\ b \in S
    OBVIOUS
<1>2. PICK p \in S : \A k \in S : p <= k
    <2> HIDE DEF S
    <2> QED
        BY <1>1, Least, Zenon
<1>3. /\ p \in a + 1 .. b /\ p \in 1 .. Len(s) /\ p \in Nat /\ p - 1 \in Nat
      /\ p - 1 \in 0 .. Len(s)
      /\ Fences(s)[p] # Fences(s)[a]
    OBVIOUS
<1>4. p - 1 = a \/ (p - 1 \in a + 1 .. b /\ p - 1 \notin S)
    BY <1>2, <1>3
<1>5. Fences(s)[p - 1] = Fences(s)[a]
    BY <1>3, <1>4
<1>6. Follows(s, p, Fences(s)[p - 1], Fences(s)[p])
    BY <1>3, FencesUnfold
<1>7. Fences(s)[p - 1] \in FenceSet /\ LineBefore(s, p) \in Seq(Runes)
    BY <1>3, FencesType, LineSize
<1>8. s[p] = NL /\ Fences(s)[p] = AfterLine(Fences(s)[p - 1], LineBefore(s, p))
    BY <1>3, <1>5, <1>6 DEF Follows
<1>9. Fences(s)[p] = NoFence /\ Fences(s)[a].len <= Len(LineBefore(s, p))
    BY <1>3, <1>5, <1>7, <1>8, LineEffect
<1> QED
    BY <1>3, <1>8, <1>9

LEMMA FenceOpened ==
    ASSUME NEW s \in Seq(Runes), NEW a \in 0 .. Len(s), NEW b \in 0 .. Len(s), a <= b,
           Fences(s)[a] = NoFence, Fences(s)[b] # NoFence
    PROVE  \E q \in a + 1 .. b : Fences(s)[b].len <= Len(LineBefore(s, q))
<1> DEFINE S == {k \in Nat : k <= b /\ Fences(s)[b - k] # Fences(s)[b]}
<1>1. S \in SUBSET Nat /\ b - a \in S
    <2>1. b - a \in Nat /\ b - (b - a) = a /\ b - a <= b
        OBVIOUS
    <2> QED
        BY <2>1
<1>2. PICK k \in S : \A m \in S : k <= m
    <2> HIDE DEF S
    <2> QED
        BY <1>1, Least, Zenon
<1>3. k \in Nat /\ k <= b - a /\ Fences(s)[b - k] # Fences(s)[b]
    BY <1>1, <1>2
<1>4. k # 0
    BY <1>3
<1>5. PICK q \in a + 1 .. b : q = b - k + 1
    BY <1>3, <1>4
<1>6. /\ q \in 1 .. Len(s) /\ q \in Nat /\ q - 1 \in 0 .. Len(s) /\ q - 1 = b - k
    BY <1>3, <1>5
<1>7. Fences(s)[q] = Fences(s)[b]
    <2>1. k - 1 \in Nat /\ k - 1 \notin S
        BY <1>2, <1>3, <1>4
    <2>2. k - 1 <= b /\ b - (k - 1) = q
        BY <1>3, <1>5
    <2> QED
        BY <2>1, <2>2
<1>8. Follows(s, q, Fences(s)[q - 1], Fences(s)[q])
    BY <1>6, FencesUnfold
<1>9. Fences(s)[q - 1] \in FenceSet /\ LineBefore(s, q) \in Seq(Runes)
    BY <1>6, FencesType, LineSize
<1>10. Fences(s)[q - 1] # Fences(s)[q]
    BY <1>3, <1>6, <1>7
<1>11. Fences(s)[q] = AfterLine(Fences(s)[q - 1], LineBefore(s, q))
    BY <1>8, <1>10 DEF Follows
<1>12. Fences(s)[q - 1] = NoFence
    BY <1>7, <1>9, <1>10, <1>11, LineEffect
<1>13. Fences(s)[q].len <= Len(LineBefore(s, q))
    BY <1>9, <1>11, <1>12, LineEffect
<1> QED
    BY <1>7, <1>13

(* what is left of capacity c behind the marker of the fence that is open at a *)
RoomBehind(s, c, a) == c - (1 + Fences(s)[a].len)

(* the text from o on is cut at e, at a newline if there is one in reach *)
AtNewline(s, o, reach, e) == (\E p \in 2 .. reach : s[o + p] = NL) => s[o + e] = NL

(* Two cuts, the second earlier and with room for the closing marker of the first: the
   fence that is open at the second fits behind it, even if it is another one. *)
LEMMA ClosingFits ==
    ASSUME NEW s \in Seq(Runes), NEW o \in Nat, NEW d \in Nat, NEW e \in Nat,
           e <= d, 1 <= e, o + d <= Len(s), NEW c \in Nat, d <= c,
           Fences(s)[o + d] # NoFence, Fences(s)[o + e] # NoFence,
           NEW room \in Nat, room = RoomBehind(s, c, o + d), e <= room,
           AtNewline(s, o, room, e)
    PROVE  e + (1 + Fences(s)[o + e].len) <= c
<1>1. PICK a \in 0 .. Len(s), b \in 0 .. Len(s) : a = o + d /\ b = o + e
    OBVIOUS
<1>2. Fences(s)[a].len \in Nat /\ Fences(s)[b].len \in Nat
    BY FencesType DEF FenceSet
<1>3. PICK m \in Nat, n \in Nat : m = Fences(s)[a].len /\ n = Fences(s)[b].len
    BY <1>2
<1>4. room = c - (1 + m) /\ Fences(s)[a] # NoFence /\ Fences(s)[b] # NoFence
    BY <1>1, <1>3, Zenon DEF RoomBehind
<1>5. CASE Fences(s)[a] = Fences(s)[b]
    <2>1. m = n
        BY <1>3, <1>5
    <2>2. e + (1 + n) <= c
        BY <1>4, <2>1
    <2> QED
        BY <1>1, <1>3, <2>2
<1>6. CASE Fences(s)[a] # Fences(s)[b]
    <2>1. b < a
        BY <1>1, <1>6
    <2>2. PICK p \in b + 1 .. a :
              /\ s[p] = NL /\ Fences(s)[p] = NoFence /\ n <= Len(LineBefore(s, p))
        BY <1>3, <1>4, <1>6, <2>1, FenceClosed
    <2>3. p \in 0 .. Len(s) /\ p <= a
        OBVIOUS
    <2>4. PICK q \in p + 1 .. a : m <= Len(LineBefore(s, q))
        BY <1>3, <1>4, <2>2, <2>3, FenceOpened
    <2>5. /\ q \in Nat /\ 1 <= q /\ q <= Len(s) + 1 /\ p \in 1 .. q - 1
          /\ p \in Nat /\ 1 <= p /\ p <= Len(s) + 1 /\ b \in 1 .. p - 1
        BY <1>1
    <2>6. PICK x \in Nat : x = Len(LineBefore(s, q)) /\ x < q - p
        BY <2>2, <2>5, LineSize
    <2>7. q <= o + d
        <3>1. a \in Nat /\ a = o + d
            BY <1>1
        <3> QED
            BY <3>1
    <2>8. p - o <= room
        <3>1. m <= x /\ x < q - p
            BY <2>4, <2>6, Zenon
        <3>2. m < q - p
            BY <2>5, <3>1
        <3> QED
            BY <1>4, <2>5, <2>7, <3>2
    <2>9. p - o \in 2 .. room /\ o + (p - o) = p
        BY <1>1, <2>5, <2>8
    <2>10. s[b] = NL
        BY <1>1, <2>2, <2>9 DEF AtNewline
    <2>11. PICK y \in Nat : y = Len(LineBefore(s, p)) /\ y < p - b
        BY <2>5, <2>10, LineSize
    <2>12. n < p - b
        BY <2>2, <2>11
    <2>13. e + (1 + n) <= c
        BY <1>1, <1>4, <2>5, <2>8, <2>12
    <2> QED
        BY <1>1, <1>3, <2>13
<1> QED
    BY <1>5, <1>6

(* What is left of a text. *)
LEMMA RestIs ==
    ASSUME NEW s \in Seq(Runes), NEW o \in Nat, o < Len(s)
    PROVE  LET rest == SubSeq(s, o + 1, Len(s))
           IN  /\ rest \in Seq(Runes) /\ rest # <<>> /\ Len(rest) = Len(s) - o
               /\ \A k \in 1 .. Len(rest) : rest[k] = s[o + k]
<1>1. SubSeq(s, o + 1, Len(s)) \in Seq(Runes) /\ Len(SubSeq(s, o + 1, Len(s))) = Len(s) - o
    OBVIOUS
<1>2. Len(SubSeq(s, o + 1, Len(s))) # 0
    BY <1>1
<1>3. SubSeq(s, o + 1, Len(s)) # <<>>
    <2>1. Len(<<>>) = 0
        OBVIOUS
    <2> QED
        BY <1>2, <2>1, Zenon
<1>4. ASSUME NEW k \in 1 .. Len(s) - o
      PROVE  SubSeq(s, o + 1, Len(s))[k] = s[o + k]
    <2>1. (o + 1) + k - 1 = o + k
        OBVIOUS
    <2>2. SubSeq(s, o + 1, Len(s))[k] = s[(o + 1) + k - 1]
        OBVIOUS
    <2> QED
        BY <2>1, <2>2
<1> QED
    BY <1>1, <1>3, <1>4

(* d is where what is left of a text is cut *)
CutAfter(s, o, c, d) == d = CutLength(SubSeq(s, o + 1, Len(s)), c)

LEMMA CutAfterIs ==
    ASSUME NEW s \in Seq(Runes), NEW o \in Nat, o < Len(s), NEW c \in Nat, c # 0,
           NEW d, CutAfter(s, o, c, d)
    PROVE  /\ d \in Nat /\ 1 <= d /\ d <= c /\ o + d <= Len(s)
           /\ o + d < Len(s) => c < Len(s) - o
           /\ c < Len(s) - o /\ (\E p \in 2 .. c : s[o + p] = NL) => s[o + d] = NL
<1>1. PICK rest \in Seq(Runes) :
         /\ rest = SubSeq(s, o + 1, Len(s)) /\ rest # <<>> /\ Len(rest) = Len(s) - o
         /\ \A k \in 1 .. Len(rest) : rest[k] = s[o + k]
    BY RestIs
<1>2. d = CutLength(rest, c)
    BY <1>1, Zenon DEF CutAfter
<1>3. /\ d \in 1 .. Len(rest) /\ d <= c /\ (Len(rest) <= c => d = Len(rest))
      /\ Len(rest) > c /\ (\E p \in 2 .. c : rest[p] = NL) => rest[d] = NL
    BY <1>1, <1>2, CutIs
<1>4. ASSUME c < Len(s) - o, NEW p \in 2 .. c, s[o + p] = NL PROVE s[o + d] = NL
    <2>1. p \in 1 .. Len(rest) /\ Len(rest) > c
        BY <1>1, <1>4
    <2>2. rest[p] = NL /\ rest[d] = s[o + d]
        BY <1>1, <1>3, <1>4, <2>1, Zenon
    <2> QED
        BY <1>3, <2>1, <2>2, Zenon
<1>5. Len(rest) \in Nat /\ Len(s) \in Nat
    OBVIOUS
<1>6. d \in Nat /\ 1 <= d /\ d <= c /\ o + d <= Len(s)
    BY <1>1, <1>3, <1>5
<1>7. o + d < Len(s) => c < Len(s) - o
    BY <1>1, <1>3, <1>5
<1> QED
    BY <1>4, <1>6, <1>7, Zenon

LEMMA TwoCuts ==
    ASSUME NEW s \in Seq(Runes), NEW o \in Nat, o < Len(s), NEW c \in Nat, c # 0,
           NEW d, CutAfter(s, o, c, d), o + d < Len(s), Fences(s)[o + d] # NoFence,
           NEW room \in Nat, room # 0, room = RoomBehind(s, c, o + d),
           NEW e, CutAfter(s, o, room, e), Fences(s)[o + e] # NoFence
    PROVE  e + (1 + Fences(s)[o + e].len) <= c
<1>1. d \in Nat /\ 1 <= d /\ d <= c /\ o + d <= Len(s) /\ c < Len(s) - o
    BY CutAfterIs, Zenon
<1>2. PICK m \in Nat : m = Fences(s)[o + d].len
    <2>1. o + d \in 0 .. Len(s)
        BY <1>1
    <2> QED
        BY <2>1, FencesType DEF FenceSet
<1>3. room <= c /\ room < Len(s) - o
    <2>1. room = c - (1 + m)
        BY <1>2, Zenon DEF RoomBehind
    <2>2. Len(s) \in Nat
        OBVIOUS
    <2> QED
        BY <1>1, <2>1, <2>2
<1>4. e \in Nat /\ 1 <= e /\ e <= room
    BY CutAfterIs, Zenon
<1>5. AtNewline(s, o, room, e)
    BY <1>3, CutAfterIs, Zenon DEF AtNewline
<1>6. e <= d
    <2>1. PICK rest \in Seq(Runes) :
             rest = SubSeq(s, o + 1, Len(s)) /\ rest # <<>> /\ Len(rest) = Len(s) - o
        BY RestIs
    <2>2. Len(rest) > c
        BY <1>1, <2>1
    <2>3. CutLength(rest, room) <= CutLength(rest, c)
        BY <1>3, <2>1, <2>2, CutShrinks, Zenon
    <2> QED
        BY <2>1, <2>3, Zenon DEF CutAfter
<1> QED
    BY <1>1, <1>4, <1>5, <1>6, ClosingFits, Zenon

-----------------------------------------------------------------------------
(* The iterations of the loop. *)

SplitInv ==
    /\ text \in Texts /\ text \in Seq(Runes)
    /\ limit \in Nat \ {0}
    /\ offset \in Nat /\ offset <= Len(text)
    /\ prefix \in Seq(Runes)
    /\ chunks \in Seq(Seq(Runes))
    /\ ChunksFit

LEMMA TextsAreRunes ==
    ASSUME NEW t \in Texts
    PROVE  t \in Seq(Runes)
<1>1. t \in Seq(Symbols) /\ Symbols \subseteq Runes
    BY SplitAssumption DEF Runes
<1> QED
    BY <1>1, SeqMonotonic

LEMMA SplitInitInv == SplitInit => SplitInv
<1> SUFFICES ASSUME SplitInit PROVE SplitInv
    OBVIOUS
<1>1. text \in Texts /\ limit \in Nat \ {0}
    BY SplitAssumption DEF SplitInit
<1>2. text \in Seq(Runes)
    BY <1>1, TextsAreRunes
<1>3. prefix \in Seq(Runes) /\ chunks \in Seq(Seq(Runes)) /\ DOMAIN chunks = {}
    BY DEF SplitInit
<1>4. offset \in Nat /\ offset <= Len(text)
    BY <1>2 DEF SplitInit
<1> QED
    BY <1>1, <1>2, <1>3, <1>4 DEF SplitInv, ChunksFit

(* The fence that is open at a cut is that of the text. *)
LEMMA PieceIs ==
    ASSUME SplitInv, NEW end \in 0 .. Len(text)
    PROVE  PieceUpTo(end) = [end |-> end, open |-> Fences(text)[end]]
<1>1. text \in Seq(Runes)
    BY DEF SplitInv
<1>2. Len(Before(end)) = end
    BY <1>1 DEF Before
<1>3. Fences(Before(end))[end] = Fences(text)[end]
    BY <1>1, FencesOfBeginning DEF Before
<1>4. MarkdownFenceAt(Before(end), FALSE) = Fences(Before(end))[Len(Before(end))]
    BY Zenon DEF MarkdownFenceAt
<1> QED
    BY <1>2, <1>3, <1>4, Zenon DEF PieceUpTo

LEMMA CapacityIs ==
    ASSUME SplitInv
    PROVE  /\ Capacity \in Nat /\ Capacity # 0 /\ Capacity <= limit
           /\ PrefixFits => Capacity = limit - Len(prefix)
           /\ ~PrefixFits => Capacity = limit
<1>1. Len(prefix) \in Nat /\ limit \in Nat \ {0}
    BY DEF SplitInv
<1> QED
    BY <1>1 DEF Capacity, PrefixFits

(* The next cut takes something, and leaves the room for the marker that closes it. *)
CutFits(piece, e) ==
    /\ e \in Nat /\ 1 <= e /\ e <= Capacity
    /\ piece.end = offset + e /\ offset + e <= Len(text)
    /\ piece.open \in FenceSet
    /\ piece.open # NoFence => e + (1 + piece.open.len) <= Capacity

LEMMA ClosingIs ==
    ASSUME NEW f \in FenceSet
    PROVE  Closing(f) \in Seq(Runes) /\ Len(Closing(f)) = 1 + f.len
<1>1. f.len \in Nat /\ f.char \in Runes
    BY DEF FenceSet
<1>2. PICK m \in Nat : m = f.len
    BY <1>1
<1>3. PICK marker \in Seq(Runes) : marker = [i \in 1 .. m |-> f.char] /\ Len(marker) = m
    <2>1. [i \in 1 .. m |-> f.char] \in Seq(Runes)
        BY <1>1
    <2>2. Len([i \in 1 .. m |-> f.char]) = m
        BY <1>1
    <2> QED
        BY <2>1, <2>2
<1>4. NL \in Runes
    BY DEF Runes, Symbols, Blank, Indent, TAB
<1>5. <<NL>> \in Seq(Runes) /\ Len(<<NL>>) = 1
    BY <1>4
<1>6. Closing(f) = <<NL>> \o marker
    BY <1>2, <1>3, Zenon DEF Closing
<1> QED
    BY <1>2, <1>3, <1>5, <1>6

LEMMA NextCutFits ==
    ASSUME SplitInv, offset < Len(text)
    PROVE  \E e : CutFits(NextCut, e)
<1>1. PICK s \in Seq(Runes), o \in Nat : s = text /\ o = offset /\ o < Len(s)
    BY DEF SplitInv
<1>2. PICK c \in Nat : c = Capacity /\ c # 0
    BY CapacityIs
<1>3. PICK d : CutAfter(s, o, c, d)
    BY DEF CutAfter
<1>4. d \in Nat /\ 1 <= d /\ d <= c /\ o + d <= Len(s)
    BY <1>1, <1>2, <1>3, CutAfterIs, Zenon
<1>5. PICK first : first = Piece(Capacity)
    OBVIOUS
<1>6. first = [end |-> o + d, open |-> Fences(s)[o + d]]
    <2>1. first = PieceUpTo(o + d)
        BY <1>1, <1>2, <1>3, <1>5, Zenon DEF Piece, CutAfter
    <2>2. o + d \in 0 .. Len(s)
        BY <1>4
    <2> QED
        BY <1>1, <2>1, <2>2, PieceIs
<1>7. Fences(s)[o + d] \in FenceSet
    BY <1>4, FencesType
<1>8. NextCut = WithRoomForClosing(first)
    BY <1>5, Zenon DEF NextCut
<1>9. CASE first.end = Len(text) \/ first.open = NoFence \/ Room(first.open) <= 0
    <2>1. NextCut = [first EXCEPT !.open = NoFence]
        BY <1>8, <1>9, Zenon DEF WithRoomForClosing
    <2>2. NextCut = [end |-> o + d, open |-> NoFence]
        BY <1>6, <2>1
    <2>3. NextCut.end = o + d /\ NextCut.open = NoFence
        BY <2>2
    <2> QED
        BY <1>1, <1>2, <1>4, <2>3, NoFenceIs DEF CutFits
<1>10. CASE first.end # Len(text) /\ first.open # NoFence /\ ~(Room(first.open) <= 0)
    <2>1. NextCut = Piece(Room(first.open))
        BY <1>8, <1>10, Zenon DEF WithRoomForClosing
    <2>2. PICK room \in Nat : room # 0 /\ room = Room(first.open) /\ room = RoomBehind(s, c, o + d)
        <3>1. first.open = Fences(s)[o + d]
            BY <1>6
        <3>2. Len(Closing(first.open)) = 1 + Fences(s)[o + d].len
            BY <1>7, <3>1, ClosingIs
        <3>3. Fences(s)[o + d].len \in Nat
            BY <1>7 DEF FenceSet
        <3>4. Room(first.open) = RoomBehind(s, c, o + d)
            BY <1>2, <3>2, Zenon DEF Room, RoomBehind
        <3>5. RoomBehind(s, c, o + d) \in Int
            BY <3>3 DEF RoomBehind
        <3> QED
            BY <1>10, <3>4, <3>5
    <2>3. PICK e : CutAfter(s, o, room, e)
        BY DEF CutAfter
    <2>4. e \in Nat /\ 1 <= e /\ e <= room /\ o + e <= Len(s)
        BY <1>1, <2>2, <2>3, CutAfterIs, Zenon
    <2>5. NextCut = [end |-> o + e, open |-> Fences(s)[o + e]]
        <3>1. NextCut = PieceUpTo(o + e)
            BY <1>1, <2>1, <2>2, <2>3, Zenon DEF Piece, CutAfter
        <3>2. o + e \in 0 .. Len(s)
            BY <2>4
        <3> QED
            BY <1>1, <3>1, <3>2, PieceIs
    <2>6. NextCut.end = o + e /\ NextCut.open = Fences(s)[o + e]
        BY <2>5
    <2>7. NextCut.open \in FenceSet
        BY <2>4, <2>6, FencesType
    <2>8. o + d < Len(s) /\ Fences(s)[o + d] # NoFence
        BY <1>1, <1>4, <1>6, <1>10
    <2>9. NextCut.open # NoFence => e + (1 + NextCut.open.len) <= c
        BY <1>1, <1>2, <1>3, <2>2, <2>3, <2>6, <2>8, TwoCuts, Zenon
    <2>10. e <= c
        <3>1. Fences(s)[o + d].len \in Nat
            BY <1>7 DEF FenceSet
        <3>2. room <= c
            BY <2>2, <3>1 DEF RoomBehind
        <3> QED
            BY <2>2, <2>4, <3>2
    <2>11. CutFits(NextCut, e)
        BY <1>1, <1>2, <2>4, <2>6, <2>7, <2>9, <2>10, Zenon DEF CutFits
    <2> QED
        BY <2>11
<1> QED
    BY <1>9, <1>10

(* The chunk of a cut that fits, with what closes it, is not longer than the limit. *)
LEMMA ChunkFits ==
    ASSUME SplitInv, NEW piece, NEW e, CutFits(piece, e)
    PROVE  LET chunk == Body(piece.end) \o Suffix(piece, Body(piece.end))
           IN  chunk \in Seq(Runes) /\ Len(chunk) <= limit
<1>1. PICK body \in Seq(Runes) : /\ body = Body(piece.end)
                                 /\ Len(body) = (limit - Capacity) + e
    <2>1. PICK begin \in Seq(Runes) : /\ begin = IF PrefixFits THEN prefix ELSE <<>>
                                      /\ Len(begin) = limit - Capacity
        <3>1. prefix \in Seq(Runes) /\ Len(prefix) \in Nat /\ limit \in Nat
            BY DEF SplitInv
        <3>2. <<>> \in Seq(Runes) /\ Len(<<>>) = 0
            OBVIOUS
        <3>3. CASE PrefixFits
            <4>1. limit - Capacity = Len(prefix)
                BY <3>1, <3>3, CapacityIs
            <4> QED
                BY <3>1, <3>3, <4>1, Zenon
        <3>4. CASE ~PrefixFits
            <4>1. limit - Capacity = 0
                BY <3>1, <3>4, CapacityIs
            <4> QED
                BY <3>2, <3>4, <4>1, Zenon
        <3> QED
            BY <3>3, <3>4
    <2>2. PICK rest \in Seq(Runes) : rest = SubSeq(text, offset + 1, piece.end) /\ Len(rest) = e
        <3>1. text \in Seq(Runes) /\ offset \in Nat /\ e \in Nat /\ 1 <= e /\ offset + e <= Len(text)
            BY DEF SplitInv, CutFits
        <3>2. PICK end \in Nat : end = offset + e /\ end <= Len(text)
            BY <3>1
        <3>3. SubSeq(text, offset + 1, end) \in Seq(Runes)
            BY <3>1, <3>2
        <3>4. Len(SubSeq(text, offset + 1, end)) = e
            BY <3>1, <3>2
        <3>5. piece.end = end
            BY <3>2, Zenon DEF CutFits
        <3> QED
            BY <3>3, <3>4, <3>5, Zenon
    <2>3. Body(piece.end) = begin \o rest
        BY <2>1, <2>2, Zenon DEF Body
    <2>4. begin \o rest \in Seq(Runes) /\ Len(begin \o rest) = Len(begin) + Len(rest)
        OBVIOUS
    <2> QED
        BY <2>1, <2>2, <2>3, <2>4, Zenon
<1>2. PICK suffix \in Seq(Runes) : /\ suffix = Suffix(piece, body)
                                   /\ Len(body) + Len(suffix) <= limit
    <2>1. limit \in Nat /\ Capacity \in Nat /\ Capacity <= limit /\ e \in Nat /\ e <= Capacity
        BY CapacityIs DEF SplitInv, CutFits
    <2>2. Len(body) + 0 <= limit
        BY <1>1, <2>1
    <2>3. <<>> \in Seq(Runes) /\ Len(<<>>) = 0
        OBVIOUS
    <2>4. CASE piece.end = Len(text)
        <3>1. PICK f \in FenceSet : f = MarkdownFenceAt(text, TRUE)
            <4>1. text \in Seq(Runes) /\ Len(text) \in Nat
                BY DEF SplitInv
            <4>2. LineBefore(text, Len(text) + 1) \in Seq(Runes)
                BY <4>1, LineSize
            <4>3. Fences(text)[Len(text)] \in FenceSet
                BY <4>1, FencesType
            <4>4. MarkdownFenceAt(text, TRUE) =
                     AfterLine(Fences(text)[Len(text)], LineBefore(text, Len(text) + 1))
                BY Zenon DEF MarkdownFenceAt
            <4> QED
                BY <4>2, <4>3, <4>4, LineEffect
        <3>2. Suffix(piece, body) = ClosingIfRoom(body, f)
            BY <2>4, <3>1, Zenon DEF Suffix
        <3>3. CASE f # NoFence /\ Len(body \o Closing(f)) <= limit
            <4>1. Suffix(piece, body) = Closing(f)
                BY <3>2, <3>3, Zenon DEF ClosingIfRoom
            <4>2. Closing(f) \in Seq(Runes)
                BY ClosingIs
            <4>3. Len(body) + Len(Closing(f)) <= limit
                BY <3>3, <4>2
            <4> QED
                BY <4>1, <4>2, <4>3
        <3>4. CASE ~(f # NoFence /\ Len(body \o Closing(f)) <= limit)
            <4>1. Suffix(piece, body) = <<>>
                BY <3>2, <3>4, Zenon DEF ClosingIfRoom
            <4> QED
                BY <2>2, <2>3, <4>1
        <3> QED
            BY <3>3, <3>4
    <2>5. CASE piece.end # Len(text) /\ piece.open = NoFence
        <3>1. Suffix(piece, body) = <<>>
            BY <2>5, Zenon DEF Suffix
        <3> QED
            BY <2>2, <2>3, <3>1
    <2>6. CASE piece.end # Len(text) /\ piece.open # NoFence
        <3>1. Suffix(piece, body) = Closing(piece.open)
            BY <2>6, Zenon DEF Suffix
        <3>2. /\ piece.open \in FenceSet /\ piece.open.len \in Nat
              /\ e + (1 + piece.open.len) <= Capacity
            BY <2>6 DEF CutFits, FenceSet
        <3>3. Closing(piece.open) \in Seq(Runes) /\ Len(Closing(piece.open)) = 1 + piece.open.len
            BY <3>2, ClosingIs
        <3>4. Len(body) + Len(Closing(piece.open)) <= limit
            <4>1. PICK m \in Nat : m = piece.open.len
                BY <3>2
            <4>2. Len(body) = (limit - Capacity) + e /\ e + (1 + m) <= Capacity
                BY <1>1, <3>2, <4>1, Zenon
            <4>3. Len(body) + (1 + m) <= limit
                BY <2>1, <4>2
            <4> QED
                BY <3>3, <4>1, <4>3, Zenon
        <3> QED
            BY <3>1, <3>3, <3>4
    <2> QED
        BY <2>4, <2>5, <2>6
<1>3. body \o suffix \in Seq(Runes) /\ Len(body \o suffix) = Len(body) + Len(suffix)
    OBVIOUS
<1> QED
    BY <1>1, <1>2, <1>3

LEMMA CutStep ==
    ASSUME SplitInv, Cut
    PROVE  SplitInv' /\ offset' > offset
<1>1. offset < Len(text) /\ text' = text /\ limit' = limit
    BY DEF Cut
<1>2. PICK piece, e : piece = NextCut /\ CutFits(piece, e)
    BY <1>1, NextCutFits
<1>3. CutAt(piece)
    BY <1>2, Zenon DEF Cut
<1>4. PICK chunk \in Seq(Runes) :
         /\ chunk = Body(piece.end) \o Suffix(piece, Body(piece.end))
         /\ Len(chunk) <= limit
    BY <1>2, ChunkFits
<1>5. chunks' = WithChunk(chunk) /\ offset' = piece.end /\ prefix' = Reopening(piece.open)
    BY <1>3, <1>4, Zenon DEF CutAt
<1>6. /\ text \in Texts /\ text \in Seq(Runes) /\ limit \in Nat \ {0} /\ offset \in Nat
      /\ chunks \in Seq(Seq(Runes)) /\ \A i \in DOMAIN chunks : Len(chunks[i]) <= limit
    BY DEF SplitInv, ChunksFit
<1>7. offset' \in Nat /\ offset' <= Len(text) /\ offset' > offset
    BY <1>2, <1>5, <1>6 DEF CutFits
<1>8. prefix' \in Seq(Runes)
    <2>1. piece.open.opening \in Seq(Runes) /\ <<NL>> \in Seq(Runes) /\ <<>> \in Seq(Runes)
        <3>1. piece.open.opening \in Seq(Runes)
            BY <1>2 DEF CutFits, FenceSet
        <3>2. NL \in Runes
            BY DEF Runes, Symbols, Blank, Indent, TAB
        <3> QED
            BY <3>1, <3>2
    <2>2. piece.open.opening \o <<NL>> \in Seq(Runes)
        BY <2>1
    <2> QED
        BY <1>5, <2>1, <2>2, Zenon DEF Reopening
<1>9. chunks' \in Seq(Seq(Runes)) /\ \A i \in DOMAIN chunks' : Len(chunks'[i]) <= limit
    <2>1. CASE chunks' = chunks
        BY <1>6, <2>1
    <2>2. CASE chunks' = Append(chunks, chunk)
        <3>1. /\ chunks' \in Seq(Seq(Runes)) /\ DOMAIN chunks' = 1 .. Len(chunks) + 1
              /\ \A i \in 1 .. Len(chunks) : chunks'[i] = chunks[i]
              /\ chunks'[Len(chunks) + 1] = chunk
            BY <1>6, <2>2
        <3>2. DOMAIN chunks = 1 .. Len(chunks) /\ Len(chunks) \in Nat
            BY <1>6
        <3>3. ASSUME NEW i \in DOMAIN chunks' PROVE Len(chunks'[i]) <= limit
            <4>1. i \in 1 .. Len(chunks) \/ i = Len(chunks) + 1
                BY <3>1, <3>2
            <4> QED
                BY <1>4, <1>6, <3>1, <3>2, <4>1, Zenon
        <3> QED
            BY <3>1, <3>3
    <2> QED
        BY <1>5, <2>1, <2>2, Zenon DEF WithChunk
<1> QED
    BY <1>1, <1>6, <1>7, <1>8, <1>9 DEF SplitInv, ChunksFit

(* The invariant holds in every iteration of splitMessage. *)
THEOREM SplitInvariant == SplitSpec => []SplitInv
<1>1. SplitInv /\ [SplitNext]_splitVars => SplitInv'
    <2> SUFFICES ASSUME SplitInv, [SplitNext]_splitVars PROVE SplitInv'
        OBVIOUS
    <2>1. CASE Cut
        BY <2>1, CutStep
    <2>2. CASE UNCHANGED splitVars
        BY <2>2 DEF SplitInv, ChunksFit, splitVars
    <2> QED
        BY <2>1, <2>2 DEF SplitNext
<1> QED
    BY <1>1, SplitInitInv, PTL DEF SplitSpec

(* The chunks fit into a message, whatever the answer and the limit: adapter.go
   splitMessage adds the marker of the fence at the second cut, and has made room for
   that of the first. *)
THEOREM ChunksAlwaysFit == SplitSpec => []ChunksFit
<1>1. SplitInv => ChunksFit
    BY DEF SplitInv
<1> QED
    BY <1>1, SplitInvariant, PTL

(* Every iteration takes some of the answer, so that the loop of splitMessage ends. *)
THEOREM CutsMakeProgress == SplitSpec => CutsProgress
<1>1. SplitInv /\ [SplitNext]_splitVars => [offset' > offset]_splitVars
    BY CutStep DEF SplitNext
<1> QED
    BY <1>1, SplitInvariant, PTL DEF SplitSpec, CutsProgress

-----------------------------------------------------------------------------
(* SplitMessage: code stays code. The invariant that is kept by every iteration says that no
   cut is in a fence line, that the prefix reopens the fence that is open at the cut, and
   that every chunk sent is closed; it needs what a line is, where fence lines are, and that
   a chunk repeats a part of the answer behind its prefix. *)

(* A line without its indentation. *)
LEMMA TrimLeftSuffix ==
    ASSUME NEW line \in Seq(Runes)
    PROVE  \E first \in 1 .. Len(line) + 1 :
             /\ TrimLeft(line) = SubSeq(line, first, Len(line))
             /\ first <= Len(line) => line[first] \notin Indent
             /\ \A k \in 1 .. first - 1 : line[k] \in Indent
<1> DEFINE I == {k \in 1 .. Len(line) : line[k] \notin Indent}
           first == IF I # {} THEN Min(I) ELSE 0
<1>1. TrimLeft(line) = IF first = 0 THEN <<>> ELSE SubSeq(line, first, Len(line))
    BY Zenon DEF TrimLeft, SelectInSeq
<1>2. I \in SUBSET Nat /\ I \in SUBSET (1 .. Len(line))
    <2>1. I \in SUBSET (1 .. Len(line))
        BY Zenon
    <2> HIDE DEF I
    <2> QED
        BY <2>1
<1>3. I # {} => first \in I /\ \A k \in I : first <= k
    <2> HIDE DEF I
    <2> QED
        BY <1>2, MinIs, Zenon
<1>4. I = {} => first = 0
    OBVIOUS
<1>5. PICK n \in Nat : n = Len(line)
    OBVIOUS
<1>6. CASE I = {}
    <2>1. PICK f \in Nat : f = n + 1
        OBVIOUS
    <2>2. \A k \in 1 .. f - 1 : line[k] \in Indent
        <3>1. \A k \in 1 .. Len(line) : line[k] \in Indent
            BY <1>6
        <3>2. f - 1 = Len(line)
            BY <1>5, <2>1
        <3> QED
            BY <3>1, <3>2
    <2>3. SubSeq(line, f, n) = <<>>
        BY <2>1
    <2>4. TrimLeft(line) = SubSeq(line, f, Len(line))
        BY <1>1, <1>4, <1>5, <1>6, <2>3, Zenon
    <2>5. f \in 1 .. n + 1 /\ ~(f <= n)
        BY <2>1
    <2> QED
        BY <1>5, <2>2, <2>4, <2>5, Zenon
<1>7. CASE I # {}
    <2>1. first \in I /\ \A k \in I : first <= k
        <3> HIDE DEF first, I
        <3> QED
            BY <1>3, <1>7
    <2>2. PICK f \in I : f = first /\ \A k \in I : f <= k
        <3> HIDE DEF first, I
        <3> QED
            BY <2>1
    <2>3. f \in 1 .. n /\ line[f] \notin Indent /\ \A k \in 1 .. n : line[k] \notin Indent => f <= k
        <3> HIDE DEF first
        <3> QED
            BY <1>5, <2>2
    <2> f \in 1 .. n
        BY <2>3
    <2>4. TrimLeft(line) = SubSeq(line, f, Len(line))
        <3> HIDE DEF first, I
        <3>1. f # 0
            OBVIOUS
        <3>2. first # 0
            BY <2>2, <3>1, Zenon
        <3> QED
            BY <1>1, <2>2, <3>2, Zenon
    <2> HIDE DEF first, I
    <2>5. ASSUME NEW k \in 1 .. f - 1 PROVE line[k] \in Indent
        <3>1. k \in 1 .. n /\ ~(f <= k)
            OBVIOUS
        <3> QED
            BY <2>3, <3>1, Zenon
    <2>6. f \in 1 .. n + 1
        OBVIOUS
    <2> QED
        BY <1>5, <2>3, <2>4, <2>5, <2>6, Zenon
<1> HIDE DEF I
<1> QED
    BY <1>6, <1>7, Zenon

(* A line that does not begin with a space is its own trimmed form. *)
LEMMA NotIndented ==
    ASSUME NEW line \in Seq(Runes)
    PROVE  line[1] \notin Indent => TrimLeft(line) = line
<1>1. PICK first \in 1 .. Len(line) + 1 :
             /\ TrimLeft(line) = SubSeq(line, first, Len(line))
             /\ \A k \in 1 .. first - 1 : line[k] \in Indent
    BY TrimLeftSuffix, Zenon
<1>2. first # 1 => 1 \in 1 .. first - 1
    OBVIOUS
<1>3. SubSeq(line, 1, Len(line)) = line
    BY SubSeqFull, Zenon
<1> QED
    BY <1>1, <1>2, <1>3, Zenon

(* a line without fence characters *)
Plain(line) == \A k \in 1 .. Len(line) : line[k] \notin FenceChars

(* A line without a fence character changes no fence. *)
LEMMA PlainLine ==
    ASSUME NEW f \in FenceSet, NEW line \in Seq(Runes), Plain(line)
    PROVE  AfterLine(f, line) = f
<1>1. PICK first \in 1 .. Len(line) + 1 : TrimLeft(line) = SubSeq(line, first, Len(line))
    BY TrimLeftSuffix
<1>2. PICK t \in Seq(Runes) : t = TrimLeft(line)
    BY TrimLeftIs
<1>3. ~IsMarker(t)
    <2>1. SUFFICES ASSUME Len(t) >= 3 PROVE t[1] \notin FenceChars
        BY DEF IsMarker
    <2>2. t[1] = line[first] /\ first \in 1 .. Len(line)
        BY <1>1, <1>2, <2>1
    <2> QED
        BY <2>2 DEF Plain
<1>4. AfterLine(f, line) = AfterTrimmed(f, t)
    BY <1>2, Zenon DEF AfterLine
<1> QED
    BY <1>3, <1>4, Zenon DEF AfterTrimmed

(* The fence that a line opens: its line without indentation opens it again, and its marker
   closes it. *)
Opened(f, line) ==
    /\ f \in FenceSet /\ f.len >= 3 /\ f.char \in FenceChars /\ f.len <= Len(line)
    /\ f.opening \in Seq(Runes) /\ Len(f.opening) <= Len(line)
    /\ AfterLine(NoFence, f.opening) = f
    /\ \A k \in 1 .. Len(f.opening) : \E j \in 1 .. Len(line) : f.opening[k] = line[j]

(* The fence that a line opens is made of the line. *)
LEMMA OpenedBy ==
    ASSUME NEW line \in Seq(Runes), AfterLine(NoFence, line) # NoFence
    PROVE  Opened(AfterLine(NoFence, line), line)
<1>1. PICK first \in 1 .. Len(line) + 1 :
             /\ TrimLeft(line) = SubSeq(line, first, Len(line))
             /\ first <= Len(line) => line[first] \notin Indent
    BY TrimLeftSuffix
<1>2. PICK t \in Seq(Runes) : t = TrimLeft(line) /\ Len(t) <= Len(line)
    BY TrimLeftIs
<1>3. AfterLine(NoFence, line) = AfterTrimmed(NoFence, t)
    BY <1>2, Zenon DEF AfterLine
<1>4. IsMarker(t)
    BY <1>3, Zenon DEF AfterTrimmed
<1>5. PICK f : f = [char |-> t[1], len |-> RunLength(t), opening |-> t]
    OBVIOUS
<1>6. AfterLine(NoFence, line) = f
    BY <1>3, <1>4, <1>5, Zenon DEF AfterTrimmed
<1>7. f.opening = t /\ f.len = RunLength(t) /\ f.char = t[1]
    BY <1>5
<1>8. Len(t) >= 3 /\ t[1] \in FenceChars /\ RunLength(t) >= 3
    BY <1>4 DEF IsMarker
<1>9. f \in FenceSet
    BY <1>6, NoFenceIs, LineEffect
<1>10. RunLength(t) \in Nat /\ RunLength(t) <= Len(line)
    BY <1>2, RunLengthIs
<1>11. \A k \in 1 .. Len(t) : \E j \in 1 .. Len(line) : t[k] = line[j]
    <2>1. TAKE k \in 1 .. Len(t)
    <2>2. PICK n \in Nat : n = Len(line)
        OBVIOUS
    <2>3. t = SubSeq(line, first, n)
        BY <1>1, <1>2, <2>2, Zenon
    <2>4. k \in 1 .. n - first + 1
        BY <2>2, <2>3
    <2>5. t[k] = line[first + k - 1]
        BY <2>2, <2>3, <2>4
    <2>6. first + k - 1 \in 1 .. n
        BY <2>4
    <2> QED
        BY <2>2, <2>5, <2>6
<1>12. TrimLeft(t) = t
    <2>1. t[1] \notin Indent
        BY <1>8 DEF FenceChars, Indent, TAB
    <2> QED
        BY <2>1, NotIndented
<1>13. AfterLine(NoFence, t) = f
    BY <1>3, <1>6, <1>12, Zenon DEF AfterLine
<1> QED
    BY <1>2, <1>6, <1>7, <1>8, <1>9, <1>10, <1>11, <1>13 DEF Opened

(* the marker of a fence closes it *)
LEMMA MarkerCloses ==
    ASSUME NEW f \in FenceSet, f # NoFence, f.len >= 3, f.char \in FenceChars,
           NEW marker \in Seq(Runes), Len(marker) = f.len,
           \A k \in 1 .. Len(marker) : marker[k] = f.char
    PROVE  AfterLine(f, marker) = NoFence
<1>1. f.len \in Nat
    BY DEF FenceSet
<1>2. marker[1] = f.char
    BY <1>1
<1>3. TrimLeft(marker) = marker
    <2>1. marker[1] \notin Indent
        BY <1>2 DEF FenceChars, Indent, TAB
    <2> QED
        BY <2>1, NotIndented
<1>4. RunLength(marker) = Len(marker)
    <2>1. {k \in 1 .. Len(marker) : marker[k] # marker[1]} = {}
        BY <1>2
    <2> QED
        BY <2>1, Zenon DEF RunLength, SelectInSeq
<1>5. IsMarker(marker)
    BY <1>2, <1>4 DEF IsMarker
<1>6. Closes(f, marker)
    BY <1>1, <1>2, <1>4 DEF Closes
<1> QED
    BY <1>3, <1>5, <1>6, Zenon DEF AfterLine, AfterTrimmed

-----------------------------------------------------------------------------
(* The lines of a text, and the fence lines among them. *)

(* The line that ends before i is what follows the last newline before i. *)
LEMMA LineFrom ==
    ASSUME NEW s \in Seq(Runes), NEW i \in Nat, 1 <= i, i <= Len(s) + 1,
           NEW m \in 0 .. i - 1, LineStart(s, i, m)
    PROVE  LineBefore(s, i) = SubSeq(s, m + 1, i - 1)
<1>1. PICK n \in 0 .. i - 1 :
             LineBefore(s, i) = SubSeq(s, n + 1, i - 1) /\ LineStart(s, i, n)
    BY LineBeforeIs
<1>2. m <= n
    <2>1. m # 0 => m \in 1 .. i - 1
        OBVIOUS
    <2> QED
        BY <1>1, <2>1 DEF LineStart
<1>3. n <= m
    <2>1. n # 0 => n \in 1 .. i - 1
        OBVIOUS
    <2> QED
        BY <1>1, <2>1 DEF LineStart
<1>4. m = n
    BY <1>2, <1>3
<1> QED
    BY <1>1, <1>4, Zenon

(* the line between two newlines, or the ends of the text *)
IsLine(s, m, i) ==
    /\ m \in 0 .. Len(s) /\ i \in m + 1 .. Len(s) + 1
    /\ m = 0 \/ s[m] = NL
    /\ i = Len(s) + 1 \/ s[i] = NL
    /\ \A k \in m + 1 .. i - 1 : s[k] # NL

(* A place inside a line has its line around it. *)
LEMMA LineAround ==
    ASSUME NEW s \in Seq(Runes), NEW o \in 1 .. Len(s), s[o] # NL
    PROVE  \E m \in 0 .. o - 1, i \in o + 1 .. Len(s) + 1 : IsLine(s, m, i)
<1>1. PICK m \in 0 .. o - 1 : LineStart(s, o, m)
    BY LineBeforeIs
<1> DEFINE S == {k \in Nat : k \in o + 1 .. Len(s) + 1 /\ (k = Len(s) + 1 \/ s[k] = NL)}
<1>2. S \in SUBSET Nat /\ Len(s) + 1 \in S
    OBVIOUS
<1>3. PICK i \in S : \A k \in S : i <= k
    <2> HIDE DEF S
    <2> QED
        BY <1>2, Least, Zenon
<1>4. i \in o + 1 .. Len(s) + 1 /\ (i = Len(s) + 1 \/ s[i] = NL)
    OBVIOUS
<1>5. ASSUME NEW k \in m + 1 .. i - 1 PROVE s[k] # NL
    <2>1. CASE k <= o - 1
        <3>1. k \in 1 .. o - 1 /\ ~(k <= m)
            BY <2>1
        <3> QED
            BY <1>1, <3>1 DEF LineStart
    <2>2. CASE k = o
        BY <2>2
    <2>3. CASE k >= o + 1
        <3>1. k \in Nat /\ k \in o + 1 .. Len(s) + 1 /\ ~(i <= k)
            BY <1>4, <2>3
        <3>2. k \notin S
            <4> HIDE DEF S
            <4> QED
                BY <1>3, <3>1
        <3> QED
            BY <3>1, <3>2
    <2>4. k <= o - 1 \/ k = o \/ k >= o + 1
        BY <1>4
    <2> QED
        BY <2>1, <2>2, <2>3, <2>4
<1> HIDE DEF S
<1>6. m \in 0 .. Len(s) /\ i \in m + 1 .. Len(s) + 1
    BY <1>4
<1>7. m = 0 \/ s[m] = NL
    BY <1>1 DEF LineStart
<1>8. IsLine(s, m, i)
    BY <1>4, <1>5, <1>6, <1>7 DEF IsLine
<1> QED
    BY <1>4, <1>8

(* What stands between two line ends is a line of the text. *)
LEMMA LineIs ==
    ASSUME NEW s \in Seq(Runes), NEW m, NEW i, IsLine(s, m, i)
    PROVE  /\ SubSeq(s, m + 1, i - 1) \in LinesOf(s)
           /\ SubSeq(s, m + 1, i - 1) = LineBefore(s, i)
           /\ SubSeq(s, m + 1, i - 1) \in Seq(Runes)
           /\ Len(SubSeq(s, m + 1, i - 1)) = i - 1 - m
<1>1. m \in 0 .. Len(s) /\ i \in m + 1 .. Len(s) + 1
    BY DEF IsLine
<1>2. i \in Nat /\ 1 <= i /\ i <= Len(s) + 1 /\ m \in 0 .. i - 1
    BY <1>1
<1>3. LineStart(s, i, m)
    <2>1. ASSUME NEW k \in 1 .. i - 1, s[k] = NL PROVE k <= m
        <3>1. k \notin m + 1 .. i - 1
            BY <2>1 DEF IsLine
        <3> QED
            BY <1>1, <3>1
    <2> QED
        BY <2>1 DEF LineStart, IsLine
<1>4. LineBefore(s, i) = SubSeq(s, m + 1, i - 1)
    BY <1>2, <1>3, LineFrom
<1>5. i \in {k \in DOMAIN s : s[k] = NL} \cup {Len(s) + 1}
    <2>1. CASE i = Len(s) + 1
        BY <2>1
    <2>2. CASE i # Len(s) + 1
        <3>1. i \in 1 .. Len(s)
            BY <1>2, <2>2
        <3>2. i \in DOMAIN s
            BY <3>1
        <3> QED
            BY <2>2, <3>2 DEF IsLine
    <2> QED
        BY <2>1, <2>2
<1>6. LineBefore(s, i) \in LinesOf(s)
    BY <1>5, Zenon DEF LinesOf
<1>7. SubSeq(s, m + 1, i - 1) \in Seq(Runes) /\ Len(SubSeq(s, m + 1, i - 1)) = i - 1 - m
    BY <1>1
<1> QED
    BY <1>4, <1>6, <1>7, Zenon

(* a line of a text has no newline *)
LEMMA LinesAre ==
    ASSUME NEW s \in Seq(Runes), NEW l \in LinesOf(s)
    PROVE  l \in Seq(Runes) /\ \A k \in 1 .. Len(l) : l[k] # NL
<1>1. PICK i \in {k \in DOMAIN s : s[k] = NL} \cup {Len(s) + 1} : l = LineBefore(s, i)
    BY Zenon DEF LinesOf
<1>2. i \in Nat /\ 1 <= i /\ i <= Len(s) + 1
    OBVIOUS
<1>3. PICK m \in 0 .. i - 1 :
             LineBefore(s, i) = SubSeq(s, m + 1, i - 1) /\ LineStart(s, i, m)
    BY <1>2, LineBeforeIs
<1>4. l \in Seq(Runes)
    BY <1>1, <1>2, LineSize
<1>5. ASSUME NEW k \in 1 .. Len(l) PROVE l[k] # NL
    <2>1. PICK j \in Nat : j = m + k
        BY <1>2, <1>4
    <2>2. l = SubSeq(s, m + 1, i - 1) /\ m + 1 \in Nat /\ i - 1 \in Nat
        BY <1>1, <1>2, <1>3
    <2>3. Len(l) = i - 1 - m
        BY <1>2, <2>2
    <2>4. j \in m + 1 .. i - 1
        BY <1>2, <2>1, <2>3
    <2>5. l[k] = s[j]
        BY <1>2, <2>1, <2>2, <2>3
    <2>6. j \in 1 .. i - 1 /\ ~(j <= m)
        BY <1>2, <2>4
    <2> QED
        BY <1>3, <2>5, <2>6 DEF LineStart
<1> QED
    BY <1>4, <1>5

FenceLinesOf(s) == {l \in LinesOf(s) : AfterLine(NoFence, l) # NoFence}

(* OrdinaryFences, of any text and limit *)
Ordinary(s, n) ==
    /\ \A l, m \in FenceLinesOf(s) :
          Len(l) + Len(m) + 3 + Len(Closing(AfterLine(NoFence, l))) <= n
    /\ \A l \in LinesOf(s) \ FenceLinesOf(s) : \A i \in DOMAIN l : l[i] \notin FenceChars

PlainBetween(s, a, b) == \A k \in a .. b : s[k] \notin FenceChars

(* A part of a text without fence characters is plain. *)
LEMMA PlainPart ==
    ASSUME NEW s \in Seq(Runes), NEW m \in Nat, NEW i \in Nat, m <= i, i <= Len(s),
           PlainBetween(s, m + 1, i)
    PROVE  Plain(SubSeq(s, m + 1, i))
<1>1. PICK line : line = SubSeq(s, m + 1, i)
    OBVIOUS
<1>2. Len(line) = i - m
    BY <1>1
<1>3. ASSUME NEW k \in 1 .. Len(line) PROVE line[k] \notin FenceChars
    <2>1. PICK j \in Nat : j = m + k
        BY <1>2
    <2>2. k \in 1 .. i - m /\ j \in m + 1 .. i
        BY <1>2, <2>1
    <2>3. line[k] = s[j]
        BY <1>1, <2>1, <2>2
    <2> QED
        BY <2>2, <2>3, Zenon DEF PlainBetween
<1> QED
    BY <1>1, <1>3, Zenon DEF Plain

(* With ordinary fences a line is a fence line, or has no fence character. *)
LEMMA LineKind ==
    ASSUME NEW s \in Seq(Runes), NEW n, Ordinary(s, n), NEW m, NEW i, IsLine(s, m, i)
    PROVE  SubSeq(s, m + 1, i - 1) \in FenceLinesOf(s) \/ PlainBetween(s, m + 1, i - 1)
<1>1. PICK l \in Seq(Runes) :
          l = SubSeq(s, m + 1, i - 1) /\ l \in LinesOf(s) /\ Len(l) = i - 1 - m
    BY LineIs
<1>2. SUFFICES ASSUME l \notin FenceLinesOf(s) PROVE PlainBetween(s, m + 1, i - 1)
    BY <1>1
<1>3. \A k \in DOMAIN l : l[k] \notin FenceChars
    BY <1>1, <1>2, Zenon DEF Ordinary
<1>4. m \in 0 .. Len(s) /\ i \in m + 1 .. Len(s) + 1
    BY DEF IsLine
<1>5. ASSUME NEW k \in m + 1 .. i - 1 PROVE s[k] \notin FenceChars
    <2>1. PICK j \in Nat : j = k - m
        BY <1>4
    <2>2. j \in 1 .. Len(l)
        BY <1>1, <1>4, <2>1
    <2>3. l[j] = s[k]
        BY <1>1, <1>4, <2>1, <2>2
    <2>4. j \in DOMAIN l
        BY <2>2
    <2> QED
        BY <1>3, <2>3, <2>4, Zenon
<1> QED
    BY <1>5 DEF PlainBetween

(* a fence line has fence characters *)
LEMMA FenceLineNotPlain ==
    ASSUME NEW s \in Seq(Runes), NEW m, NEW i, IsLine(s, m, i),
           SubSeq(s, m + 1, i - 1) \in FenceLinesOf(s)
    PROVE  ~PlainBetween(s, m + 1, i - 1)
<1>1. SUFFICES ASSUME PlainBetween(s, m + 1, i - 1) PROVE FALSE
    OBVIOUS
<1>2. PICK l \in Seq(Runes) : l = SubSeq(s, m + 1, i - 1)
    BY LineIs
<1>3. m \in Nat /\ i - 1 \in Nat /\ m <= i - 1 /\ i - 1 <= Len(s)
    BY DEF IsLine
<1>4. Plain(l)
    BY <1>1, <1>2, <1>3, PlainPart, Zenon
<1>5. AfterLine(NoFence, l) = NoFence
    BY <1>4, NoFenceIs, PlainLine
<1> QED
    BY <1>2, <1>5, Zenon DEF FenceLinesOf

(* a fence that some fence line of the text opens *)
FenceOf(s, f) == \E l \in FenceLinesOf(s) : f = AfterLine(NoFence, l)

(* Every fence that is open in a text has been opened by a line of it. *)
LEMMA FenceOrigin ==
    ASSUME NEW s \in Seq(Runes), NEW k \in 0 .. Len(s), Fences(s)[k] # NoFence
    PROVE  FenceOf(s, Fences(s)[k])
<1> DEFINE S == {n \in Nat : n <= Len(s) =>
                                 Fences(s)[n] = NoFence \/ FenceOf(s, Fences(s)[n])}
<1>1. 0 \in S
    BY FencesUnfold
<1>2. ASSUME NEW n \in S PROVE n + 1 \in S
    <2>1. SUFFICES ASSUME n + 1 <= Len(s)
                   PROVE  Fences(s)[n + 1] = NoFence \/ FenceOf(s, Fences(s)[n + 1])
        OBVIOUS
    <2>2. PICK i \in 1 .. Len(s) : i = n + 1 /\ i - 1 = n /\ i \in DOMAIN s
        BY <2>1
    <2>3. PICK f \in FenceSet : f = Fences(s)[n]
        BY <2>2, FencesType
    <2>4. PICK l \in Seq(Runes) : l = LineBefore(s, i)
        BY <2>2, LineSize
    <2>5. f = NoFence \/ FenceOf(s, f)
        BY <2>1, <2>3
    <2>6. Fences(s)[i] = IF s[i] = NL THEN AfterLine(f, l) ELSE f
        BY <2>2, <2>3, <2>4, FencesUnfold DEF Follows
    <2>7. CASE Fences(s)[i] = f
        BY <2>2, <2>5, <2>7
    <2>8. CASE s[i] = NL /\ AfterLine(f, l) # f
        <3>1. f # NoFence => AfterLine(f, l) = NoFence
            BY <2>8, LineEffect
        <3>2. l \in LinesOf(s)
            <4>1. i \in {k_1 \in DOMAIN s : s[k_1] = NL} \cup {Len(s) + 1}
                BY <2>2, <2>8
            <4> QED
                BY <2>4, <4>1, Zenon DEF LinesOf
        <3>3. f = NoFence => AfterLine(NoFence, l) # NoFence
            BY <2>8, Zenon
        <3>4. f = NoFence => FenceOf(s, AfterLine(f, l))
            BY <3>2, <3>3, Zenon DEF FenceOf, FenceLinesOf
        <3> QED
            BY <2>2, <2>6, <2>8, <3>1, <3>4, Zenon
    <2> QED
        BY <2>6, <2>7, <2>8, Zenon
<1>3. S = Nat
    <2>1. S \subseteq Nat
        OBVIOUS
    <2> HIDE DEF S
    <2> QED
        BY <1>1, <1>2, <2>1, SetInduction
<1>4. k \in S
    BY <1>3
<1> QED
    BY <1>4

(* Where no newline is, the fence stays. *)
LEMMA FencesQuiet ==
    ASSUME NEW s \in Seq(Runes), NEW a \in 0 .. Len(s), NEW b \in a .. Len(s),
           \A p \in a + 1 .. b : s[p] = NL => Fences(s)[p] = Fences(s)[p - 1]
    PROVE  Fences(s)[b] = Fences(s)[a]
<1> DEFINE S == {n \in Nat : a + n <= b => Fences(s)[a + n] = Fences(s)[a]}
<1>1. 0 \in S
    OBVIOUS
<1>2. ASSUME NEW n \in S PROVE n + 1 \in S
    <2>1. SUFFICES ASSUME a + (n + 1) <= b PROVE Fences(s)[a + (n + 1)] = Fences(s)[a]
        OBVIOUS
    <2>2. PICK i \in a + 1 .. b : i = a + (n + 1) /\ i - 1 = a + n /\ i \in 1 .. Len(s)
        BY <2>1
    <2>3. Fences(s)[i - 1] = Fences(s)[a]
        BY <2>1, <2>2
    <2>4. Follows(s, i, Fences(s)[i - 1], Fences(s)[i])
        BY <2>2, FencesUnfold
    <2>5. Fences(s)[i] = Fences(s)[i - 1]
        BY <2>2, <2>4, Zenon DEF Follows
    <2> QED
        BY <2>2, <2>3, <2>5, Zenon
<1>3. S = Nat
    <2>1. S \subseteq Nat
        OBVIOUS
    <2> HIDE DEF S
    <2> QED
        BY <1>1, <1>2, <2>1, SetInduction
<1>4. b - a \in S
    <2>1. b - a \in Nat
        OBVIOUS
    <2> HIDE DEF S
    <2> QED
        BY <1>3, <2>1
<1>5. a + (b - a) = b
    OBVIOUS
<1> QED
    BY <1>4, <1>5

(* A fence that was not open before has been opened at some line. *)
LEMMA FenceOpening ==
    ASSUME NEW s \in Seq(Runes), NEW a \in 0 .. Len(s), NEW b \in 0 .. Len(s), a <= b,
           Fences(s)[a] # Fences(s)[b], Fences(s)[b] # NoFence
    PROVE  \E q \in a + 1 .. b :
              /\ s[q] = NL /\ Fences(s)[q - 1] = NoFence
              /\ Fences(s)[b] = AfterLine(NoFence, LineBefore(s, q))
              /\ Fences(s)[b].len <= Len(LineBefore(s, q))
<1> DEFINE S == {k \in Nat : k <= b /\ Fences(s)[b - k] # Fences(s)[b]}
<1>1. S \in SUBSET Nat /\ b - a \in S
    <2>1. b - a \in Nat /\ b - (b - a) = a /\ b - a <= b
        OBVIOUS
    <2> QED
        BY <2>1
<1>2. PICK k \in S : \A m \in S : k <= m
    <2> HIDE DEF S
    <2> QED
        BY <1>1, Least, Zenon
<1>3. k \in Nat /\ k <= b - a /\ Fences(s)[b - k] # Fences(s)[b]
    BY <1>1, <1>2
<1>4. k # 0
    BY <1>3
<1>5. PICK q \in a + 1 .. b : q = b - k + 1
    BY <1>3, <1>4
<1>6. /\ q \in 1 .. Len(s) /\ q \in Nat /\ q - 1 \in 0 .. Len(s) /\ q - 1 = b - k
    BY <1>3, <1>5
<1>7. Fences(s)[q] = Fences(s)[b]
    <2>1. k - 1 \in Nat /\ k - 1 \notin S
        BY <1>2, <1>3, <1>4
    <2>2. k - 1 <= b /\ b - (k - 1) = q
        BY <1>3, <1>5
    <2> QED
        BY <2>1, <2>2
<1>8. Follows(s, q, Fences(s)[q - 1], Fences(s)[q])
    BY <1>6, FencesUnfold
<1>9. Fences(s)[q - 1] \in FenceSet /\ LineBefore(s, q) \in Seq(Runes)
    BY <1>6, FencesType, LineSize
<1>10. Fences(s)[q - 1] # Fences(s)[q]
    BY <1>3, <1>6, <1>7
<1>11. s[q] = NL /\ Fences(s)[q] = AfterLine(Fences(s)[q - 1], LineBefore(s, q))
    BY <1>8, <1>10 DEF Follows
<1>12. Fences(s)[q - 1] = NoFence
    BY <1>7, <1>9, <1>10, <1>11, LineEffect
<1>13. Fences(s)[q].len <= Len(LineBefore(s, q))
    BY <1>9, <1>11, <1>12, LineEffect
<1> QED
    BY <1>7, <1>11, <1>12, <1>13

(* A fence of a text, and the room it takes. *)
LEMMA FenceOfIs ==
    ASSUME NEW s \in Seq(Runes), NEW l \in FenceLinesOf(s)
    PROVE  /\ AfterLine(NoFence, l) # NoFence
           /\ Opened(AfterLine(NoFence, l), l)
           /\ \A k \in 1 .. Len(AfterLine(NoFence, l).opening) :
                 AfterLine(NoFence, l).opening[k] # NL
           /\ l \in Seq(Runes)
           /\ Len(Closing(AfterLine(NoFence, l))) = 1 + AfterLine(NoFence, l).len
<1>1. l \in LinesOf(s) /\ AfterLine(NoFence, l) # NoFence
    BY DEF FenceLinesOf
<1>2. l \in Seq(Runes) /\ \A k \in 1 .. Len(l) : l[k] # NL
    BY <1>1, LinesAre
<1>3. Opened(AfterLine(NoFence, l), l)
    BY <1>1, <1>2, OpenedBy
<1>4. \A k \in 1 .. Len(AfterLine(NoFence, l).opening) :
          AfterLine(NoFence, l).opening[k] # NL
    BY <1>2, <1>3, Zenon DEF Opened
<1>5. Len(Closing(AfterLine(NoFence, l))) = 1 + AfterLine(NoFence, l).len
    BY <1>3, ClosingIs DEF Opened
<1> QED
    BY <1>1, <1>2, <1>3, <1>4, <1>5

-----------------------------------------------------------------------------
(* No cut is in a fence line. *)

CutOK(s, o) ==
    \/ o = 0 \/ s[o] = NL
    \/ \E m \in 0 .. o - 1, i \in o + 1 .. Len(s) + 1 :
          IsLine(s, m, i) /\ PlainBetween(s, m + 1, i - 1)

InFenceLine(s, o) ==
    \E m \in 0 .. o - 1, i \in o + 1 .. Len(s) + 1 :
        IsLine(s, m, i) /\ SubSeq(s, m + 1, i - 1) \in FenceLinesOf(s)

(* A cut that is in neither kind of good place is inside a fence line. *)
LEMMA BadCut ==
    ASSUME NEW s \in Seq(Runes), NEW n, Ordinary(s, n), NEW o \in 1 .. Len(s), ~CutOK(s, o)
    PROVE  InFenceLine(s, o)
<1>1. s[o] # NL
    BY DEF CutOK
<1>2. PICK m \in 0 .. o - 1, i \in o + 1 .. Len(s) + 1 : IsLine(s, m, i)
    BY <1>1, LineAround
<1>3. ~PlainBetween(s, m + 1, i - 1)
    BY <1>2, Zenon DEF CutOK
<1> QED
    BY <1>2, <1>3, LineKind, Zenon DEF InFenceLine

(* A good cut inside a line is inside a plain line. *)
LEMMA LineOfCut ==
    ASSUME NEW s \in Seq(Runes), NEW o \in 1 .. Len(s), CutOK(s, o),
           NEW m \in 0 .. o - 1, NEW i \in o + 1 .. Len(s) + 1, IsLine(s, m, i)
    PROVE  PlainBetween(s, m + 1, i - 1)
<1>1. o \in m + 1 .. i - 1
    OBVIOUS
<1>2. s[o] # NL
    BY <1>1 DEF IsLine
<1>3. PICK x \in 0 .. o - 1, y \in o + 1 .. Len(s) + 1 :
          IsLine(s, x, y) /\ PlainBetween(s, x + 1, y - 1)
    BY <1>2 DEF CutOK
<1>4. m <= x
    <2>1. m \in x + 1 .. y - 1 => m = 0
        BY <1>3 DEF IsLine
    <2> QED
        BY <2>1
<1>5. x <= m
    <2>1. x \in m + 1 .. i - 1 => x = 0
        BY <1>3 DEF IsLine
    <2> QED
        BY <2>1
<1>6. i <= y
    <2>1. y \in m + 1 .. i - 1 => y = Len(s) + 1
        BY <1>3 DEF IsLine
    <2> QED
        BY <2>1
<1>7. y <= i
    <2>1. i \in x + 1 .. y - 1 => i = Len(s) + 1
        BY <1>3 DEF IsLine
    <2> QED
        BY <2>1
<1>8. x = m /\ y = i
    BY <1>4, <1>5, <1>6, <1>7
<1> QED
    BY <1>3, <1>8, Zenon

(* A cut in a fence line is one that found no newline: the line begins where the text to be
   cut begins, or just behind, and it ends behind the room. *)
LEMMA CutInFenceLine ==
    ASSUME NEW s \in Seq(Runes), NEW n, Ordinary(s, n),
           NEW o \in Nat, o < Len(s), CutOK(s, o),
           NEW r \in Nat, r # 0, NEW e, CutAfter(s, o, r, e), o + e < Len(s),
           ~CutOK(s, o + e)
    PROVE  \E m \in o .. o + 1, i \in o + r + 1 .. Len(s) + 1 :
              IsLine(s, m, i) /\ SubSeq(s, m + 1, i - 1) \in FenceLinesOf(s)
<1>1. e \in Nat /\ 1 <= e /\ e <= r /\ r < Len(s) - o
    BY CutAfterIs, Zenon
<1>2. (\E p \in 2 .. r : s[o + p] = NL) => s[o + e] = NL
    BY <1>1, CutAfterIs, Zenon
<1>3. s[o + e] # NL /\ o + e \in 1 .. Len(s)
    BY <1>1 DEF CutOK
<1>4. PICK x \in 1 .. Len(s) : x = o + e /\ InFenceLine(s, x)
    <2>1. InFenceLine(s, o + e)
        BY <1>3, BadCut, Zenon
    <2> QED
        BY <1>3, <2>1, Zenon
<1>5. PICK m \in 0 .. x - 1, i \in x + 1 .. Len(s) + 1 :
          IsLine(s, m, i) /\ SubSeq(s, m + 1, i - 1) \in FenceLinesOf(s)
    BY <1>4, Zenon DEF InFenceLine
<1>6. PICK len \in Nat : len = Len(s)
    OBVIOUS
<1>7. o <= m
    <2>1. SUFFICES ASSUME m < o PROVE FALSE
        BY <1>1, <1>4
    <2>2. o \in 1 .. Len(s) /\ m \in 0 .. o - 1 /\ i \in o + 1 .. Len(s) + 1
        BY <1>1, <1>4, <1>6, <2>1
    <2>3. PlainBetween(s, m + 1, i - 1)
        BY <1>5, <2>2, LineOfCut, Zenon
    <2> QED
        BY <1>5, <2>3, FenceLineNotPlain, Zenon
<1>8. m <= o + 1
    <2>1. SUFFICES ASSUME m > o + 1 PROVE FALSE
        BY <1>1, <1>4
    <2>2. m - o \in 2 .. r /\ o + (m - o) = m
        BY <1>1, <1>4, <2>1
    <2>3. s[m] = NL
        BY <1>1, <1>4, <1>5, <2>1 DEF IsLine
    <2> QED
        BY <1>2, <1>3, <2>2, <2>3
<1>9. i >= o + r + 1
    <2>1. CASE i = Len(s) + 1
        BY <1>1, <1>4, <1>6, <2>1
    <2>2. CASE i # Len(s) + 1
        <3>1. s[i] = NL
            BY <1>5, <2>2 DEF IsLine
        <3>2. i - o \in Nat /\ i - o >= 2 /\ o + (i - o) = i
            BY <1>1, <1>4
        <3>3. i - o \notin 2 .. r
            BY <1>2, <1>3, <3>1, <3>2
        <3> QED
            BY <1>1, <1>4, <3>2, <3>3
    <2> QED
        BY <2>1, <2>2
<1>10. m \in o .. o + 1 /\ i \in o + r + 1 .. Len(s) + 1
    BY <1>1, <1>6, <1>7, <1>8, <1>9
<1> QED
    BY <1>5, <1>10, Zenon

(* what a chunk begins with takes its room from the text *)
RoomLeft(s, o, n, c) == c = n - Len(Reopening(Fences(s)[o]))

(* What a chunk begins with to reopen a fence: the opening line and a newline. *)
LEMMA ReopeningIs ==
    ASSUME NEW f \in FenceSet
    PROVE  /\ Reopening(f) \in Seq(Runes)
           /\ f = NoFence => Len(Reopening(f)) = 0
           /\ f # NoFence =>
                 /\ Len(Reopening(f)) = Len(f.opening) + 1
                 /\ Reopening(f)[Len(f.opening) + 1] = NL
                 /\ \A k \in 1 .. Len(f.opening) : Reopening(f)[k] = f.opening[k]
                 /\ SubSeq(Reopening(f), 1, Len(f.opening)) = f.opening
<1>1. PICK line \in Seq(Runes) : line = f.opening
    BY DEF FenceSet
<1>2. NL \in Runes
    BY DEF Runes, Symbols, Blank, Indent, TAB
<1>3. <<>> \in Seq(Runes) /\ Len(<<>>) = 0
    OBVIOUS
<1>4. PICK u \in Seq(Runes) :
         /\ u = line \o <<NL>> /\ Len(u) = Len(line) + 1 /\ u[Len(line) + 1] = NL
         /\ \A k \in 1 .. Len(line) : u[k] = line[k]
    <2>1. <<NL>> \in Seq(Runes) /\ Len(<<NL>>) = 1 /\ <<NL>>[1] = NL
        BY <1>2
    <2>2. ASSUME NEW w \in Seq(Runes), Len(w) = 1, w[1] = NL
          PROVE  /\ line \o w \in Seq(Runes)
                 /\ Len(line \o w) = Len(line) + 1 /\ (line \o w)[Len(line) + 1] = NL
                 /\ \A k \in 1 .. Len(line) : (line \o w)[k] = line[k]
        <3>1. /\ line \o w \in Seq(Runes) /\ Len(line \o w) = Len(line) + 1
              /\ \A k \in 1 .. Len(line) + 1 :
                    (line \o w)[k] = IF k <= Len(line) THEN line[k] ELSE w[k - Len(line)]
            <4>1. /\ line \o w \in Seq(Runes) /\ Len(line \o w) = Len(line) + Len(w)
                  /\ \A k \in 1 .. Len(line) + Len(w) :
                        (line \o w)[k] = IF k <= Len(line) THEN line[k] ELSE w[k - Len(line)]
                BY ConcatProperties, Zenon
            <4> QED
                BY <2>2, <4>1, Zenon
        <3>2. \A k \in 1 .. Len(line) : k \in 1 .. Len(line) + 1 /\ k <= Len(line)
            OBVIOUS
        <3>3. /\ Len(line) + 1 \in 1 .. Len(line) + 1 /\ ~(Len(line) + 1 <= Len(line))
              /\ (Len(line) + 1) - Len(line) = 1
            OBVIOUS
        <3> QED
            BY <2>2, <3>1, <3>2, <3>3, Zenon
    <2> QED
        BY <2>1, <2>2, Zenon
<1>5. SubSeq(u, 1, Len(line)) = line
    <2>1. SubSeq(u, 1, Len(line)) \in Seq(Runes) /\ Len(SubSeq(u, 1, Len(line))) = Len(line)
        BY <1>4
    <2>2. \A k \in 1 .. Len(SubSeq(u, 1, Len(line))) : SubSeq(u, 1, Len(line))[k] = line[k]
        BY <1>4
    <2> QED
        BY <2>1, <2>2, SeqEqual
<1>6. CASE f = NoFence
    <2>1. Reopening(f) = <<>>
        BY <1>6, Zenon DEF Reopening
    <2> QED
        BY <1>3, <1>6, <2>1, Zenon
<1>7. CASE f # NoFence
    <2>1. Reopening(f) = u
        BY <1>1, <1>4, <1>7, Zenon DEF Reopening
    <2> QED
        BY <1>1, <1>4, <1>5, <1>7, <2>1, Zenon
<1> QED
    BY <1>6, <1>7, Zenon

(* With ordinary fences a chunk has room for any fence line, its prefix and suffix. *)
LEMMA RoomForLine ==
    ASSUME NEW s \in Seq(Runes), NEW n \in Nat, Ordinary(s, n), NEW o \in 0 .. Len(s),
           NEW c, RoomLeft(s, o, n, c), NEW l \in FenceLinesOf(s)
    PROVE  /\ Len(l) + 3 + AfterLine(NoFence, l).len <= c
           /\ Fences(s)[o] = NoFence => 2 * Len(l) + 4 + AfterLine(NoFence, l).len <= c
           /\ Fences(s)[o] # NoFence => Len(l) + 3 + Fences(s)[o].len <= c
<1>1. PICK f \in FenceSet : f = Fences(s)[o]
    BY FencesType
<1>2. PICK a \in Nat, x \in Nat : a = Len(l) /\ x = AfterLine(NoFence, l).len
    <2>1. Len(l) \in Nat
        BY FenceOfIs
    <2>2. AfterLine(NoFence, l).len \in Nat
        BY FenceOfIs DEF Opened, FenceSet
    <2> QED
        BY <2>1, <2>2
<1>3. Len(Closing(AfterLine(NoFence, l))) = 1 + x
    BY <1>2, FenceOfIs
<1>4. a + a + 3 + (1 + x) <= n
    BY <1>2, <1>3, Zenon DEF Ordinary
<1>5. CASE f = NoFence
    <2>1. Len(Reopening(f)) = 0
        BY <1>5, ReopeningIs, Zenon
    <2>2. c = n - 0
        BY <1>1, <2>1, Zenon DEF RoomLeft
    <2>3. c = n /\ a + 3 + x <= n /\ 2 * a + 4 + x <= n
        BY <1>4, <2>2
    <2> QED
        BY <1>1, <1>2, <1>5, <2>3, Zenon
<1>6. CASE f # NoFence
    <2>1. PICK m \in FenceLinesOf(s) : f = AfterLine(NoFence, m)
        BY <1>1, <1>6, FenceOrigin DEF FenceOf
    <2>2. m \in Seq(Runes) /\ Len(f.opening) \in Nat /\ Len(f.opening) <= Len(m) /\ f.len \in Nat
        BY <2>1, FenceOfIs DEF Opened, FenceSet
    <2>3. PICK b \in Nat, p \in Nat, y \in Nat :
             b = Len(m) /\ p = Len(f.opening) /\ y = f.len /\ p <= b
        BY <2>2
    <2>4. Len(Reopening(f)) = p + 1
        BY <1>6, <2>3, ReopeningIs, Zenon
    <2>5. c = n - (p + 1)
        BY <1>1, <2>4, Zenon DEF RoomLeft
    <2>6. a + b + 3 + (1 + x) <= n
        BY <1>2, <1>3, <2>1, <2>3, Zenon DEF Ordinary
    <2>7. b + a + 3 + (1 + y) <= n
        <3>1. Len(Closing(AfterLine(NoFence, m))) = 1 + y
            BY <2>1, <2>3, FenceOfIs
        <3> QED
            BY <1>2, <2>1, <2>3, <3>1, Zenon DEF Ordinary
    <2>8. a + 3 + x <= c /\ a + 3 + y <= c
        <3>1. p <= b
            BY <2>3
        <3> QED
            BY <2>5, <2>6, <2>7, <3>1
    <2> QED
        BY <1>1, <1>2, <1>6, <2>3, <2>8, Zenon
<1> QED
    BY <1>5, <1>6

(* The line, or the part of it, that ends at a cut says nothing of fences. *)
LEMMA LineBehindCut ==
    ASSUME NEW s \in Seq(Runes), NEW o \in 0 .. Len(s), CutOK(s, o),
           NEW q, q = o + 1
    PROVE  Plain(LineBefore(s, q))
<1>1. q \in Nat /\ 1 <= q /\ q <= Len(s) + 1 /\ q - 1 = o
    OBVIOUS
<1>2. CASE o = 0 \/ s[o] = NL
    <2>1. LineStart(s, q, o)
        BY <1>2 DEF LineStart
    <2>2. o \in 0 .. q - 1
        OBVIOUS
    <2>3. LineBefore(s, q) = SubSeq(s, o + 1, q - 1)
        BY <1>1, <2>1, <2>2, LineFrom, Zenon
    <2>4. Len(SubSeq(s, o + 1, q - 1)) = 0
        OBVIOUS
    <2>5. Plain(SubSeq(s, o + 1, q - 1))
        BY <2>4 DEF Plain
    <2> QED
        BY <2>3, <2>5, Zenon
<1>3. CASE ~(o = 0 \/ s[o] = NL)
    <2>1. PICK u \in 0 .. o - 1, v \in o + 1 .. Len(s) + 1 :
              IsLine(s, u, v) /\ PlainBetween(s, u + 1, v - 1)
        BY <1>3 DEF CutOK
    <2>2. LineStart(s, q, u)
        <3>1. ASSUME NEW k \in 1 .. q - 1, s[k] = NL PROVE k <= u
            <4>1. k \notin u + 1 .. v - 1
                BY <2>1, <3>1 DEF IsLine
            <4> QED
                BY <4>1
        <3> QED
            BY <2>1, <3>1 DEF LineStart, IsLine
    <2>3. u \in 0 .. q - 1
        OBVIOUS
    <2>4. LineBefore(s, q) = SubSeq(s, u + 1, q - 1)
        BY <1>1, <2>2, <2>3, LineFrom, Zenon
    <2>5. PlainBetween(s, u + 1, o)
        <3>1. \A k \in u + 1 .. o : k \in u + 1 .. v - 1
            OBVIOUS
        <3> QED
            BY <2>1, <3>1, Zenon DEF PlainBetween
    <2>6. u \in Nat /\ o \in Nat /\ u <= o /\ o <= Len(s)
        OBVIOUS
    <2>7. Plain(SubSeq(s, u + 1, o))
        BY <2>5, <2>6, PlainPart, Zenon
    <2> QED
        BY <1>1, <2>4, <2>7, Zenon
<1> QED
    BY <1>2, <1>3

(* The first cut that splitMessage chooses is not in a fence line. *)
LEMMA FirstCutOK ==
    ASSUME NEW s \in Seq(Runes), NEW n \in Nat, Ordinary(s, n),
           NEW o \in Nat, o < Len(s), CutOK(s, o),
           NEW c \in Nat, c # 0, RoomLeft(s, o, n, c),
           NEW e, CutAfter(s, o, c, e), o + e < Len(s)
    PROVE  CutOK(s, o + e)
<1>1. SUFFICES ASSUME ~CutOK(s, o + e) PROVE FALSE
    OBVIOUS
<1>2. PICK m \in o .. o + 1, i \in o + c + 1 .. Len(s) + 1 :
          IsLine(s, m, i) /\ SubSeq(s, m + 1, i - 1) \in FenceLinesOf(s)
    BY <1>1, CutInFenceLine, Zenon
<1>3. PICK l \in FenceLinesOf(s) : l = SubSeq(s, m + 1, i - 1) /\ Len(l) = i - 1 - m
    BY <1>2, LineIs
<1>4. AfterLine(NoFence, l).len \in Nat
    BY FenceOfIs DEF Opened, FenceSet
<1>5. Len(l) + 3 + AfterLine(NoFence, l).len <= c
    <2>1. o \in 0 .. Len(s)
        OBVIOUS
    <2> QED
        BY <2>1, RoomForLine, Zenon
<1> QED
    BY <1>3, <1>4, <1>5

(* Nor is the second, which makes room for the closing marker. *)
LEMMA SecondCutOK ==
    ASSUME NEW s \in Seq(Runes), NEW n \in Nat, Ordinary(s, n),
           NEW o \in Nat, o < Len(s), CutOK(s, o),
           NEW c \in Nat, c # 0, RoomLeft(s, o, n, c),
           NEW d, CutAfter(s, o, c, d), o + d < Len(s), Fences(s)[o + d] # NoFence,
           NEW room \in Nat, room # 0, room = RoomBehind(s, c, o + d),
           NEW e, CutAfter(s, o, room, e), o + e < Len(s)
    PROVE  CutOK(s, o + e)
<1>1. SUFFICES ASSUME ~CutOK(s, o + e) PROVE FALSE
    OBVIOUS
<1>2. PICK m \in o .. o + 1, i \in o + room + 1 .. Len(s) + 1 :
          IsLine(s, m, i) /\ SubSeq(s, m + 1, i - 1) \in FenceLinesOf(s)
    BY <1>1, CutInFenceLine, Zenon
<1>3. PICK l \in FenceLinesOf(s), z \in Nat :
          l = SubSeq(s, m + 1, i - 1) /\ z = Len(l) /\ z = i - 1 - m
    <2>1. Len(SubSeq(s, m + 1, i - 1)) = i - 1 - m
        BY <1>2, LineIs, Zenon
    <2>2. i - 1 - m \in Nat
        OBVIOUS
    <2> QED
        BY <1>2, <2>1, <2>2, Zenon
<1>4. room <= z + 1
    BY <1>3
<1>5. d \in Nat /\ 1 <= d /\ d <= c
    BY CutAfterIs, Zenon
<1>6. PICK a \in 0 .. Len(s) : a = o + d /\ a \in 1 .. Len(s) /\ a \in o .. Len(s)
    BY <1>5
<1>7. PICK x \in Nat : x = Fences(s)[a].len
    BY FencesType DEF FenceSet
<1>8. room = c - (1 + x)
    BY <1>6, <1>7, Zenon DEF RoomBehind
<1>9. o \in 0 .. Len(s) /\ o <= a
    BY <1>6
<1>10. CASE Fences(s)[a] = Fences(s)[o]
    <2>1. z + 3 + x <= c
        <3>1. Fences(s)[o] # NoFence /\ Fences(s)[o].len = x
            BY <1>6, <1>7, <1>10, Zenon
        <3> QED
            BY <1>3, <1>9, <3>1, RoomForLine, Zenon
    <2> QED
        BY <1>4, <1>8, <2>1
<1>11. CASE Fences(s)[a] # Fences(s)[o]
    <2>1. PICK q \in o + 1 .. a :
              /\ s[q] = NL /\ Fences(s)[q - 1] = NoFence
              /\ Fences(s)[a] = AfterLine(NoFence, LineBefore(s, q))
              /\ Fences(s)[a].len <= Len(LineBefore(s, q))
        <3>1. Fences(s)[o] # Fences(s)[a] /\ Fences(s)[a] # NoFence
            BY <1>6, <1>11, Zenon
        <3> QED
            BY <1>9, <3>1, FenceOpening, Zenon
    <2>2. q \in 1 .. Len(s) /\ q \in Nat /\ 1 <= q /\ q <= Len(s) + 1 /\ q - 1 \in 0 .. Len(s)
        BY <1>6
    <2>3. q >= i
        <3>1. SUFFICES ASSUME q < i PROVE FALSE
            BY <2>2
        <3>2. q = o + 1 /\ m = o + 1
            <4>1. q \notin m + 1 .. i - 1
                BY <1>2, <2>1 DEF IsLine
            <4> QED
                BY <2>2, <3>1, <4>1
        <3>3. AfterLine(NoFence, LineBefore(s, q)) = NoFence
            <4>1. LineBefore(s, q) \in Seq(Runes) /\ Plain(LineBefore(s, q))
                BY <1>9, <2>2, <3>2, LineSize, LineBehindCut
            <4> QED
                BY <4>1, NoFenceIs, PlainLine
        <3> QED
            BY <1>6, <2>1, <3>3, Zenon
    <2>4. CASE q = i
        <3>1. LineBefore(s, q) = l
            BY <1>2, <1>3, <2>4, LineIs
        <3>2. AfterLine(NoFence, l).len = x
            BY <1>7, <2>1, <3>1, Zenon
        <3>3. Fences(s)[o] = NoFence
            <4>1. i - 1 \in o .. Len(s)
                BY <2>2, <2>4
            <4>2. ASSUME NEW p \in o + 1 .. i - 1, s[p] = NL
                  PROVE  Fences(s)[p] = Fences(s)[p - 1]
                <5>1. p = o + 1 /\ m = o + 1 /\ p \in 1 .. Len(s)
                    <6>1. p \notin m + 1 .. i - 1
                        BY <1>2, <4>2 DEF IsLine
                    <6> QED
                        BY <2>2, <2>4, <6>1
                <5>2. Follows(s, p, Fences(s)[p - 1], Fences(s)[p])
                    BY <5>1, FencesUnfold
                <5>3. Fences(s)[p - 1] \in FenceSet
                    BY <5>1, FencesType
                <5>4. AfterLine(Fences(s)[p - 1], LineBefore(s, p)) = Fences(s)[p - 1]
                    <6>1. LineBefore(s, p) \in Seq(Runes) /\ Plain(LineBefore(s, p))
                        BY <1>9, <5>1, LineSize, LineBehindCut
                    <6> QED
                        BY <5>3, <6>1, PlainLine
                <5> QED
                    BY <4>2, <5>2, <5>4, Zenon DEF Follows
            <4>3. Fences(s)[i - 1] = Fences(s)[o]
                BY <1>9, <4>1, <4>2, FencesQuiet, Zenon
            <4> QED
                BY <2>1, <2>4, <4>3, Zenon
        <3>4. 2 * z + 4 + x <= c
            BY <1>3, <1>9, <3>2, <3>3, RoomForLine, Zenon
        <3> QED
            BY <1>4, <1>8, <3>4
    <2>5. CASE q > i
        <3>1. i \in 1 .. q - 1 /\ i # Len(s) + 1
            BY <2>2, <2>5
        <3>2. s[i] = NL
            BY <1>2, <3>1 DEF IsLine
        <3>3. PICK y \in Nat : y = Len(LineBefore(s, q)) /\ y < q - i
            BY <2>2, <3>1, <3>2, LineSize
        <3>4. x <= y
            BY <1>7, <2>1, <3>3, Zenon
        <3>5. q <= o + c
            BY <1>5, <1>6
        <3>6. x < q - i
            <4>1. q - i \in Int /\ y < q - i
                BY <2>2, <3>3
            <4> QED
                BY <3>4, <4>1
        <3> QED
            BY <1>8, <2>2, <3>5, <3>6
    <2> QED
        BY <2>2, <2>3, <2>4, <2>5
<1> QED
    BY <1>10, <1>11

-----------------------------------------------------------------------------
(* A chunk: the part of the text from o on, behind place p of u. *)

StartsLine(u, p) == p = 0 \/ u[p] = NL

Copies(u, p, s, o, e) == \A k \in 1 .. e : u[p + k] = s[o + k]

(* The nth element behind from. *)
LEMMA SubSeqAt ==
    ASSUME NEW s \in Seq(Runes), NEW from \in Nat, NEW to \in Nat, to <= Len(s),
           NEW nth \in 1 .. to - from
    PROVE  SubSeq(s, from + 1, to)[nth] = s[from + nth]
<1>1. nth \in 1 .. to - (from + 1) + 1 /\ (from + 1) + nth - 1 = from + nth
    OBVIOUS
<1>2. SubSeq(s, from + 1, to)[nth] = s[(from + 1) + nth - 1]
    OBVIOUS
<1> QED
    BY <1>1, <1>2

\* x is the part of s that begins behind from.
PartOf(x, s, from) == \A k \in 1 .. Len(x) : x[k] = s[from + k]

(* The elements of a part of a sequence. *)
LEMMA PartIs ==
    ASSUME NEW s \in Seq(Runes), NEW from \in Nat, NEW to \in Nat, to <= Len(s)
    PROVE  PartOf(SubSeq(s, from + 1, to), s, from)
<1>1. PICK x : x = SubSeq(s, from + 1, to)
    OBVIOUS
<1>2. ASSUME NEW nth \in 1 .. Len(x) PROVE x[nth] = s[from + nth]
    <2>1. Len(x) = IF from + 1 <= to THEN to - from ELSE 0
        BY <1>1
    <2>2. nth \in 1 .. to - from
        BY <2>1
    <2>3. SubSeq(s, from + 1, to)[nth] = s[from + nth]
        BY <2>2, SubSeqAt
    <2> QED
        BY <1>1, <2>3, Zenon
<1> QED
    BY <1>1, <1>2, Zenon DEF PartOf

(* The lines are the same, or neither says anything of fences. *)
LEMMA SameLine ==
    ASSUME NEW u \in Seq(Runes), NEW p \in Nat, StartsLine(u, p),
           NEW s \in Seq(Runes), NEW o \in 0 .. Len(s), CutOK(s, o),
           NEW e \in Nat, p + e <= Len(u), o + e <= Len(s), Copies(u, p, s, o, e)
    PROVE  \/ LineBefore(u, p + e + 1) = LineBefore(s, o + e + 1)
           \/ Plain(LineBefore(u, p + e + 1)) /\ Plain(LineBefore(s, o + e + 1))
<1>1. PICK i \in Nat, j \in Nat : i = p + e + 1 /\ j = o + e + 1
    OBVIOUS
<1>2. 1 <= i /\ i <= Len(u) + 1 /\ 1 <= j /\ j <= Len(s) + 1 /\ i - 1 = p + e /\ j - 1 = o + e
    BY <1>1
<1>3. PICK n \in 0 .. i - 1 : LineBefore(u, i) = SubSeq(u, n + 1, i - 1) /\ LineStart(u, i, n)
    BY <1>2, LineBeforeIs
<1>4. PICK m \in 0 .. j - 1 : LineBefore(s, j) = SubSeq(s, m + 1, j - 1) /\ LineStart(s, j, m)
    BY <1>2, LineBeforeIs
<1>5. p <= n
    <2>1. p # 0 => p \in 1 .. i - 1
        BY <1>1
    <2> QED
        BY <1>3, <2>1 DEF StartsLine, LineStart
<1>6. p < n => o + (n - p) <= m
    <2>1. SUFFICES ASSUME p < n PROVE o + (n - p) <= m
        OBVIOUS
    <2>2. PICK k \in 1 .. e : k = n - p /\ p + k = n /\ o + k \in 1 .. j - 1
        BY <1>1, <2>1
    <2>3. u[n] = NL
        BY <1>3, <2>1 DEF LineStart
    <2>4. s[o + k] = NL
        BY <2>2, <2>3 DEF Copies
    <2>5. o + k <= m
        BY <1>4, <2>2, <2>4 DEF LineStart
    <2> QED
        BY <2>2, <2>5
<1>7. o < m => p + (m - o) <= n
    <2>1. SUFFICES ASSUME o < m PROVE p + (m - o) <= n
        OBVIOUS
    <2>2. PICK k \in 1 .. e : k = m - o /\ o + k = m /\ p + k \in 1 .. i - 1
        BY <1>1, <2>1
    <2>3. s[m] = NL
        BY <1>4, <2>1 DEF LineStart
    <2>4. u[p + k] = NL
        BY <2>2, <2>3 DEF Copies
    <2>5. p + k <= n
        BY <1>3, <2>2, <2>4 DEF LineStart
    <2> QED
        BY <2>2, <2>5
<1>8. CASE o <= m
    <2>1. n - p = m - o
        BY <1>5, <1>6, <1>7, <1>8
    <2>2. PICK a \in Seq(Runes), b \in Seq(Runes) :
             a = SubSeq(u, n + 1, i - 1) /\ b = SubSeq(s, m + 1, j - 1)
        <3>1. LineBefore(u, i) \in Seq(Runes) /\ LineBefore(s, j) \in Seq(Runes)
            BY <1>2, LineSize
        <3> QED
            BY <1>3, <1>4, <3>1, Zenon
    <2>3. Len(a) = i - 1 - n /\ Len(b) = j - 1 - m
        BY <1>2, <2>2
    <2>4. Len(a) = Len(b)
        BY <1>1, <2>1, <2>3
    <2>5. ASSUME NEW k \in 1 .. Len(a) PROVE a[k] = b[k]
        <3>1. PICK x \in Nat : x = (n - p) + k
            BY <1>5, <2>3
        <3>2. k \in 1 .. i - 1 - n /\ k \in 1 .. j - 1 - m
            BY <2>3, <2>4
        <3>3. x \in 1 .. e /\ p + x = n + k /\ o + x = m + k
            BY <1>1, <1>5, <2>1, <3>1, <3>2
        <3>4. a[k] = u[n + k]
            <4>1. n \in Nat /\ i - 1 \in Nat /\ i - 1 <= Len(u)
                BY <1>2
            <4>2. PICK y \in Nat : y = i - 1
                BY <4>1
            <4>3. n \in Nat /\ y <= Len(u)
                BY <4>1, <4>2, Zenon
            <4>4. PartOf(SubSeq(u, n + 1, y), u, n)
                BY <4>3, PartIs, Zenon
            <4> QED
                BY <2>2, <4>2, <4>4, Zenon DEF PartOf
        <3>5. b[k] = s[m + k]
            <4>1. m \in Nat /\ j - 1 \in Nat /\ j - 1 <= Len(s)
                BY <1>2
            <4>2. PICK y \in Nat : y = j - 1
                BY <4>1
            <4>3. m \in Nat /\ y <= Len(s)
                BY <4>1, <4>2, Zenon
            <4>4. PartOf(SubSeq(s, m + 1, y), s, m)
                BY <4>3, PartIs, Zenon
            <4> QED
                BY <2>2, <2>4, <4>2, <4>4, Zenon DEF PartOf
        <3>6. u[p + x] = s[o + x]
            BY <3>3 DEF Copies
        <3> QED
            BY <3>3, <3>4, <3>5, <3>6, Zenon
    <2>6. a = b
        BY <2>4, <2>5, SeqEqual
    <2> QED
        BY <1>1, <1>3, <1>4, <2>2, <2>6, Zenon
<1>9. CASE m < o
    <2>1. n = p
        BY <1>5, <1>6, <1>9
    <2>2. PICK x \in 0 .. o - 1, y \in o + 1 .. Len(s) + 1 :
             IsLine(s, x, y) /\ PlainBetween(s, x + 1, y - 1)
        <3>1. o \in 1 .. j - 1
            BY <1>1, <1>9
        <3>2. s[o] # NL
            BY <1>4, <1>9, <3>1 DEF LineStart
        <3> QED
            BY <3>1, <3>2 DEF CutOK
    <2>3. x <= m
        <3>1. x # 0 => x \in 1 .. j - 1
            BY <1>1
        <3> QED
            BY <1>4, <2>2, <3>1 DEF LineStart, IsLine
    <2>4. y >= j
        <3>1. SUFFICES ASSUME y < j PROVE FALSE
            OBVIOUS
        <3>2. s[y] = NL /\ y \in 1 .. j - 1 /\ ~(y <= m)
            BY <1>2, <1>9, <2>2, <3>1 DEF IsLine
        <3> QED
            BY <1>4, <3>2 DEF LineStart
    <2>5. PlainBetween(s, m + 1, j - 1)
        <3>1. \A k \in m + 1 .. j - 1 : k \in x + 1 .. y - 1
            BY <2>3, <2>4
        <3> QED
            BY <2>2, <3>1, Zenon DEF PlainBetween
    <2>6. Plain(LineBefore(s, j))
        <3>1. m \in Nat /\ j - 1 \in Nat /\ m <= j - 1 /\ j - 1 <= Len(s)
            BY <1>2
        <3> QED
            BY <1>4, <2>5, <3>1, PlainPart, Zenon
    <2>7. PlainBetween(u, n + 1, i - 1)
        <3>1. ASSUME NEW k \in n + 1 .. i - 1 PROVE u[k] \notin FenceChars
            <4>1. PICK z \in 1 .. e : z = k - p /\ p + z = k /\ o + z \in m + 1 .. j - 1
                BY <1>1, <1>9, <2>1
            <4>2. u[k] = s[o + z]
                BY <4>1 DEF Copies
            <4> QED
                BY <2>5, <4>1, <4>2, Zenon DEF PlainBetween
        <3> QED
            BY <3>1, Zenon DEF PlainBetween
    <2>8. Plain(LineBefore(u, i))
        <3>1. n \in Nat /\ i - 1 \in Nat /\ n <= i - 1 /\ i - 1 <= Len(u)
            BY <1>2
        <3> QED
            BY <1>3, <2>7, <3>1, PlainPart, Zenon
    <2> QED
        BY <1>1, <2>6, <2>8, Zenon
<1> QED
    BY <1>8, <1>9

(* The fences of a chunk are those of the text, if they are where it begins. *)
LEMMA FencesCopied ==
    ASSUME NEW u \in Seq(Runes), NEW p \in Nat, StartsLine(u, p),
           NEW s \in Seq(Runes), NEW o \in 0 .. Len(s), CutOK(s, o),
           NEW e \in Nat, p + e <= Len(u), o + e <= Len(s), Copies(u, p, s, o, e),
           Fences(u)[p] = Fences(s)[o]
    PROVE  Fences(u)[p + e] = Fences(s)[o + e]
<1> DEFINE S == {n \in Nat : n <= e => Fences(u)[p + n] = Fences(s)[o + n]}
<1>1. 0 \in S
    OBVIOUS
<1>2. ASSUME NEW n \in S PROVE n + 1 \in S
    <2>1. SUFFICES ASSUME n + 1 <= e PROVE Fences(u)[p + (n + 1)] = Fences(s)[o + (n + 1)]
        OBVIOUS
    <2>2. PICK i \in 1 .. Len(u), j \in 1 .. Len(s) :
             /\ i = p + (n + 1) /\ i = p + n + 1 /\ i - 1 = p + n
             /\ j = o + (n + 1) /\ j = o + n + 1 /\ j - 1 = o + n
        <3>1. p + (n + 1) \in 1 .. Len(u) /\ o + (n + 1) \in 1 .. Len(s)
            BY <2>1
        <3> QED
            BY <3>1
    <2>3. u[i] = s[j]
        <3>1. n + 1 \in 1 .. e
            BY <2>1
        <3> QED
            BY <2>2, <3>1 DEF Copies
    <2>4. PICK f \in FenceSet : f = Fences(u)[p + n] /\ f = Fences(s)[o + n]
        <3>1. Fences(u)[p + n] = Fences(s)[o + n] /\ p + n \in 0 .. Len(u)
            BY <2>1
        <3>2. Fences(u)[p + n] \in FenceSet
            BY <3>1, FencesType
        <3> QED
            BY <3>1, <3>2, Zenon
    <2>5. AfterLine(f, LineBefore(u, i)) = AfterLine(f, LineBefore(s, j))
        <3>1. n \in Nat /\ p + n <= Len(u) /\ o + n <= Len(s) /\ Copies(u, p, s, o, n)
            <4>1. n \in Nat /\ p + n <= Len(u) /\ o + n <= Len(s)
                BY <2>1
            <4>2. \A k \in 1 .. n : k \in 1 .. e
                BY <2>1
            <4> QED
                BY <4>1, <4>2, Zenon DEF Copies
        <3>2. \/ LineBefore(u, i) = LineBefore(s, j)
              \/ Plain(LineBefore(u, i)) /\ Plain(LineBefore(s, j))
            BY <2>2, <3>1, SameLine, Zenon
        <3>3. LineBefore(u, i) \in Seq(Runes) /\ LineBefore(s, j) \in Seq(Runes)
            BY LineSize
        <3> QED
            BY <3>2, <3>3, PlainLine, Zenon
    <2>6. Follows(u, i, f, Fences(u)[i]) /\ Follows(s, j, f, Fences(s)[j])
        BY <2>2, <2>4, FencesUnfold
    <2>7. Fences(u)[i] = Fences(s)[j]
        BY <2>3, <2>5, <2>6, Zenon DEF Follows
    <2> QED
        BY <2>2, <2>7, Zenon
<1>3. S = Nat
    <2>1. S \subseteq Nat
        OBVIOUS
    <2> HIDE DEF S
    <2> QED
        BY <1>1, <1>2, <2>1, SetInduction
<1>4. e \in S
    BY <1>3
<1> QED
    BY <1>4

(* A fence that its opening line opens again. *)
Reopens(f) ==
    f # NoFence => /\ AfterLine(NoFence, f.opening) = f
                   /\ \A k \in 1 .. Len(f.opening) : f.opening[k] # NL

(* A fence that is open in a text reopens from its own opening line. *)
LEMMA FenceReopens ==
    ASSUME NEW s \in Seq(Runes), NEW k \in 0 .. Len(s)
    PROVE  Reopens(Fences(s)[k])
<1>1. SUFFICES ASSUME Fences(s)[k] # NoFence PROVE Reopens(Fences(s)[k])
    BY DEF Reopens
<1>2. PICK l \in FenceLinesOf(s) : Fences(s)[k] = AfterLine(NoFence, l)
    BY <1>1, FenceOrigin DEF FenceOf
<1>3. Opened(AfterLine(NoFence, l), l)
    BY FenceOfIs
<1>4. \A j \in 1 .. Len(AfterLine(NoFence, l).opening) :
          AfterLine(NoFence, l).opening[j] # NL
    BY FenceOfIs
<1>5. AfterLine(NoFence, AfterLine(NoFence, l).opening) = AfterLine(NoFence, l)
    BY <1>3 DEF Opened
<1> QED
    BY <1>2, <1>4, <1>5, Zenon DEF Reopens

(* What begins with the reopening of a fence is in it behind. *)
LEMMA ReopenedAt ==
    ASSUME NEW f \in FenceSet, Reopens(f), NEW u \in Seq(Runes),
           NEW p \in Nat, p = Len(Reopening(f)), p <= Len(u),
           \A k \in 1 .. p : u[k] = Reopening(f)[k]
    PROVE  StartsLine(u, p) /\ Fences(u)[p] = f
<1>1. CASE f = NoFence
    <2>1. p = 0
        BY <1>1, ReopeningIs, Zenon
    <2> QED
        BY <1>1, <2>1, FencesUnfold DEF StartsLine
<1>2. CASE f # NoFence
    <2>1. PICK line \in Seq(Runes) : line = f.opening
        BY DEF FenceSet
    <2>2. PICK r \in Seq(Runes) : r = Reopening(f)
        BY ReopeningIs
    <2>3. /\ Len(r) = Len(line) + 1 /\ r[Len(line) + 1] = NL
          /\ \A k \in 1 .. Len(line) : r[k] = line[k]
        BY <1>2, <2>1, <2>2, ReopeningIs, Zenon
    <2>4. AfterLine(NoFence, line) = f /\ \A k \in 1 .. Len(line) : line[k] # NL
        BY <1>2, <2>1, Zenon DEF Reopens
    <2>5. PICK n \in Nat : n = Len(line) /\ p = n + 1 /\ p - 1 = n
        BY <2>2, <2>3
    <2>6. /\ u[p] = NL
          /\ \A k \in 1 .. n : u[k] = line[k] /\ u[k] # NL
        BY <2>2, <2>3, <2>4, <2>5
    <2>7. LineBefore(u, p) = line
        <3>1. LineStart(u, p, 0)
            BY <2>5, <2>6 DEF LineStart
        <3>2. p \in Nat /\ 1 <= p /\ p <= Len(u) + 1 /\ 0 \in 0 .. p - 1
            BY <2>5
        <3>3. LineBefore(u, p) = SubSeq(u, 0 + 1, p - 1)
            BY <3>1, <3>2, LineFrom, Zenon
        <3>4. LineBefore(u, p) \in Seq(Runes)
            BY <3>2, LineSize
        <3>5. Len(SubSeq(u, 0 + 1, p - 1)) = n
            BY <2>5
        <3>6. ASSUME NEW k \in 1 .. n PROVE SubSeq(u, 0 + 1, p - 1)[k] = line[k]
            <4>1. p - 1 <= Len(u) /\ 0 + k = k /\ 0 \in Nat /\ k \in 1 .. (p - 1) - 0 /\ p - 1 \in Nat
                BY <2>5
            <4>2. SubSeq(u, 0 + 1, p - 1)[k] = u[0 + k]
                BY <4>1, SubSeqAt
            <4> QED
                BY <2>6, <4>1, <4>2, Zenon
        <3> QED
            BY <2>5, <3>3, <3>4, <3>5, <3>6, SeqEqual
    <2>8. Fences(u)[p - 1] = NoFence
        <3>1. 0 \in 0 .. Len(u) /\ p - 1 \in 0 .. Len(u)
            BY <2>5
        <3>2. \A q \in 0 + 1 .. p - 1 : u[q] = NL => Fences(u)[q] = Fences(u)[q - 1]
            BY <2>5, <2>6
        <3>3. Fences(u)[p - 1] = Fences(u)[0]
            BY <3>1, <3>2, FencesQuiet, Zenon
        <3> QED
            BY <3>3, FencesUnfold
    <2>9. Follows(u, p, Fences(u)[p - 1], Fences(u)[p])
        <3>1. p \in 1 .. Len(u)
            BY <2>5
        <3> QED
            BY <3>1, FencesUnfold
    <2> QED
        BY <2>4, <2>6, <2>7, <2>8, <2>9, Zenon DEF Follows, StartsLine
<1> QED
    BY <1>1, <1>2

(* a text that reopens the fence of place o and goes on as from there to a cut *)
Continues(u, s, o, e) ==
    LET p == Len(Reopening(Fences(s)[o]))
    IN  /\ p + e <= Len(u)
        /\ \A k \in 1 .. p : u[k] = Reopening(Fences(s)[o])[k]
        /\ Copies(u, p, s, o, e)

(* Behind the prefix and the copied part, a chunk is in the fence the answer is in. *)
LEMMA ContinuesFence ==
    ASSUME NEW u \in Seq(Runes), NEW s \in Seq(Runes), NEW o \in 0 .. Len(s), CutOK(s, o),
           NEW e \in Nat, o + e <= Len(s), CutOK(s, o + e), Continues(u, s, o, e)
    PROVE  LET p == Len(Reopening(Fences(s)[o])) + e
           IN  /\ p \in Nat /\ Fences(u)[p] = Fences(s)[o + e]
               /\ Plain(LineBefore(u, p + 1))
<1>1. PICK f \in FenceSet : f = Fences(s)[o] /\ Reopens(f)
    BY FencesType, FenceReopens
<1>2. PICK p \in Nat : p = Len(Reopening(f))
    BY ReopeningIs
<1>3. p + e <= Len(u) /\ (\A k \in 1 .. p : u[k] = Reopening(f)[k]) /\ Copies(u, p, s, o, e)
    BY <1>1, <1>2, Zenon DEF Continues
<1>4. StartsLine(u, p) /\ Fences(u)[p] = f
    <2>1. p <= Len(u)
        BY <1>3
    <2> QED
        BY <1>1, <1>2, <1>3, <2>1, ReopenedAt, Zenon
<1>5. Fences(u)[p + e] = Fences(s)[o + e]
    <2>1. Fences(u)[p] = Fences(s)[o]
        BY <1>1, <1>4, Zenon
    <2> QED
        BY <1>3, <1>4, <2>1, FencesCopied, Zenon
<1>6. \/ LineBefore(u, p + e + 1) = LineBefore(s, o + e + 1)
      \/ Plain(LineBefore(u, p + e + 1)) /\ Plain(LineBefore(s, o + e + 1))
    BY <1>3, <1>4, SameLine, Zenon
<1>7. Plain(LineBefore(s, o + e + 1))
    <2>1. o + e \in 0 .. Len(s)
        OBVIOUS
    <2> QED
        BY <2>1, LineBehindCut, Zenon
<1>8. p + e \in Nat /\ Plain(LineBefore(u, p + e + 1))
    BY <1>6, <1>7
<1> QED
    BY <1>1, <1>2, <1>5, <1>8, Zenon

(* An open fence has a fence character and is at least three long. *)
LEMMA FenceShape ==
    ASSUME NEW s \in Seq(Runes), NEW k \in 0 .. Len(s), Fences(s)[k] # NoFence
    PROVE  Fences(s)[k].len >= 3 /\ Fences(s)[k].char \in FenceChars
<1>1. PICK l \in FenceLinesOf(s) : Fences(s)[k] = AfterLine(NoFence, l)
    BY FenceOrigin DEF FenceOf
<1>2. Opened(AfterLine(NoFence, l), l)
    BY FenceOfIs
<1> QED
    BY <1>1, <1>2 DEF Opened

(* after place p comes what closes fence g, and nothing else *)
ClosedBehind(u, p, g) ==
    IF g = NoFence THEN Len(u) = p
    ELSE /\ Len(u) = p + 1 + g.len /\ u[p + 1] = NL
         /\ \A k \in p + 2 .. Len(u) : u[k] = g.char

(* A text that closes its last fence ends outside any. *)
LEMMA ClosedChunk ==
    ASSUME NEW u \in Seq(Runes), NEW p \in Nat, p <= Len(u), Plain(LineBefore(u, p + 1)),
           NEW g \in FenceSet, g = Fences(u)[p], ClosedBehind(u, p, g),
           g # NoFence => g.len >= 3 /\ g.char \in FenceChars
    PROVE  MarkdownFenceAt(u, TRUE) = NoFence
<1>1. MarkdownFenceAt(u, TRUE) = AfterLine(Fences(u)[Len(u)], LineBefore(u, Len(u) + 1))
    BY Zenon DEF MarkdownFenceAt
<1>2. PICK q \in Nat : q = p + 1 /\ q - 1 = p
    OBVIOUS
<1>3. AfterLine(g, LineBefore(u, q)) = g
    <2>1. LineBefore(u, q) \in Seq(Runes)
        BY <1>2, LineSize
    <2> QED
        BY <1>2, <2>1, PlainLine
<1>4. CASE g = NoFence
    <2>1. Len(u) = p
        BY <1>4, Zenon DEF ClosedBehind
    <2> QED
        BY <1>1, <1>2, <1>3, <1>4, <2>1, Zenon
<1>5. CASE g # NoFence
    <2>1. PICK n \in Nat : n = g.len
        BY DEF FenceSet
    <2>2. n >= 3 /\ g.char \in FenceChars
        BY <1>5, <2>1
    <2>3. Len(u) = q + n /\ u[q] = NL /\ \A k \in p + 2 .. Len(u) : u[k] = g.char
        BY <1>2, <1>5, <2>1 DEF ClosedBehind
    <2>4. \A k \in q + 1 .. Len(u) : u[k] = g.char /\ u[k] # NL
        <3>1. p + 2 = q + 1 /\ g.char # NL
            BY <1>2, <2>2 DEF FenceChars, NL
        <3> QED
            BY <2>3, <3>1, Zenon
    <2>5. q \in 1 .. Len(u)
        BY <1>2, <2>3
    <2>6. Fences(u)[q] = g
        <3>1. Follows(u, q, Fences(u)[q - 1], Fences(u)[q])
            BY <2>5, FencesUnfold
        <3> QED
            BY <1>2, <1>3, <2>3, <3>1, Zenon DEF Follows
    <2>7. Fences(u)[Len(u)] = g
        <3>1. q \in 0 .. Len(u) /\ Len(u) \in q .. Len(u)
            BY <2>5
        <3>2. \A k \in q + 1 .. Len(u) : u[k] = NL => Fences(u)[k] = Fences(u)[k - 1]
            BY <2>4, Zenon
        <3>3. Fences(u)[Len(u)] = Fences(u)[q]
            BY <3>1, <3>2, FencesQuiet, Zenon
        <3> QED
            BY <2>6, <3>3
    <2>8. PICK i \in Nat : /\ i = Len(u) + 1 /\ i - 1 = Len(u) /\ i - 1 - q = n
                             /\ i = q + n + 1
        BY <2>3
    <2>9. LineBefore(u, i) = SubSeq(u, q + 1, i - 1)
        <3>1. LineStart(u, i, q)
            <4>1. ASSUME NEW k \in 1 .. i - 1, u[k] = NL PROVE k <= q
                <5>1. k \notin q + 1 .. Len(u)
                    BY <2>4, <4>1
                <5> QED
                    BY <2>8, <5>1
            <4> QED
                BY <2>3, <4>1 DEF LineStart
        <3>2. 1 <= i /\ i <= Len(u) + 1 /\ q \in 0 .. i - 1
            BY <2>5, <2>8
        <3> QED
            BY <3>1, <3>2, LineFrom, Zenon
    <2>10. PICK marker \in Seq(Runes) : marker = LineBefore(u, i)
        <3>1. 1 <= i /\ i <= Len(u) + 1
            BY <2>8
        <3> QED
            BY <3>1, LineSize
    <2>11. Len(marker) = n
        <3>1. marker = SubSeq(u, q + 1, i - 1)
            BY <2>9, <2>10
        <3>2. q + 1 \in Nat /\ i - 1 \in Nat /\ (i - 1) - (q + 1) + 1 = n
            <4>1. i = q + n + 1
                BY <2>8
            <4> QED
                BY <4>1
        <3> QED
            BY <3>1, <3>2
    <2>12. ASSUME NEW k \in 1 .. n PROVE marker[k] = g.char
        <3>1. i - 1 \in Nat /\ i - 1 <= Len(u) /\ k \in 1 .. (i - 1) - q
            BY <2>8
        <3>2. SubSeq(u, q + 1, i - 1)[k] = u[q + k]
            BY <3>1, SubSeqAt
        <3>3. q + k \in q + 1 .. Len(u)
            BY <2>3
        <3> QED
            BY <2>4, <2>9, <2>10, <3>2, <3>3, Zenon
    <2>13. AfterLine(g, marker) = NoFence
        BY <1>5, <2>1, <2>2, <2>11, <2>12, MarkerCloses
    <2> QED
        BY <1>1, <2>7, <2>8, <2>10, <2>13, Zenon
<1> QED
    BY <1>4, <1>5

(* So a chunk that is closed behind the copied part ends outside any fence. *)
LEMMA ChunkCloses ==
    ASSUME NEW s \in Seq(Runes), NEW o \in 0 .. Len(s), CutOK(s, o),
           NEW e \in Nat, o + e <= Len(s), CutOK(s, o + e),
           NEW u \in Seq(Runes), Continues(u, s, o, e),
           ClosedBehind(u, Len(Reopening(Fences(s)[o])) + e, Fences(s)[o + e])
    PROVE  MarkdownFenceAt(u, TRUE) = NoFence
<1>1. PICK p : p = Len(Reopening(Fences(s)[o])) + e
    OBVIOUS
<1>2. p \in Nat /\ Fences(u)[p] = Fences(s)[o + e] /\ Plain(LineBefore(u, p + 1))
    BY <1>1, ContinuesFence, Zenon
<1>3. p <= Len(u)
    BY <1>1, Zenon DEF Continues
<1>4. PICK g : g = Fences(s)[o + e]
    OBVIOUS
<1>5. g \in FenceSet /\ (g # NoFence => g.len >= 3 /\ g.char \in FenceChars)
    <2>1. o + e \in 0 .. Len(s)
        OBVIOUS
    <2> QED
        BY <1>4, <2>1, FencesType, FenceShape
<1>6. ClosedBehind(u, p, g) /\ g = Fences(u)[p]
    BY <1>1, <1>2, <1>4, Zenon
<1> QED
    BY <1>2, <1>3, <1>5, <1>6, ClosedChunk, Zenon

(* What reopens a fence is in it. *)
LEMMA ReopeningOpens ==
    ASSUME NEW s \in Seq(Runes), NEW o \in 0 .. Len(s)
    PROVE  MarkdownFenceAt(Reopening(Fences(s)[o]), TRUE) = Fences(s)[o]
<1>1. PICK f \in FenceSet : f = Fences(s)[o] /\ Reopens(f)
    BY FencesType, FenceReopens
<1>2. PICK u \in Seq(Runes) : u = Reopening(f)
    BY ReopeningIs
<1>3. PICK p \in Nat : p = Len(u) /\ p = Len(Reopening(f)) /\ p <= Len(u)
    BY <1>2
<1>4. StartsLine(u, p) /\ Fences(u)[p] = f
    <2>1. \A k \in 1 .. p : u[k] = Reopening(f)[k]
        BY <1>2
    <2> QED
        BY <1>1, <1>3, <2>1, ReopenedAt, Zenon
<1>5. PICK line \in Seq(Runes) : line = LineBefore(u, p + 1) /\ Plain(line)
    <2>1. CutOK(u, p) /\ p \in 0 .. Len(u)
        BY <1>3, <1>4 DEF CutOK, StartsLine
    <2>2. Plain(LineBefore(u, p + 1))
        BY <2>1, LineBehindCut, Zenon
    <2>3. LineBefore(u, p + 1) \in Seq(Runes)
        <3>1. p + 1 \in Nat /\ 1 <= p + 1 /\ p + 1 <= Len(u) + 1
            BY <1>3
        <3> QED
            BY <3>1, LineSize, Zenon
    <2> QED
        BY <2>2, <2>3
<1>6. AfterLine(f, line) = f
    BY <1>5, PlainLine
<1>7. MarkdownFenceAt(u, TRUE) = AfterLine(Fences(u)[Len(u)], LineBefore(u, Len(u) + 1))
    BY Zenon DEF MarkdownFenceAt
<1> QED
    BY <1>1, <1>2, <1>3, <1>4, <1>5, <1>6, <1>7, Zenon

-----------------------------------------------------------------------------
(* The iterations, again. *)

(* Of ordinary answers: no cut is in a fence line, the next chunk reopens what is open in
   the answer, and no chunk leaves a fence open but for the last of the answer. *)
CodeKept ==
    /\ offset < Len(text) => CutOK(text, offset) /\ prefix = Reopening(Fences(text)[offset])
    /\ \A i \in DOMAIN chunks :
          i < Len(chunks) \/ offset < Len(text) => MarkdownFenceAt(chunks[i], TRUE) = NoFence

CodeInv == SplitInv /\ (OrdinaryFences => CodeKept)

(* The precondition of CodeStaysCode, of a text. *)
LEMMA OrdinaryIs == OrdinaryFences => Ordinary(text, limit)
<1>1. FenceLines = FenceLinesOf(text)
    BY Zenon DEF FenceLines, FenceLinesOf
<1> QED
    BY <1>1, Zenon DEF OrdinaryFences, Ordinary

(* With ordinary fences no prefix is dropped for want of room. *)
LEMMA PrefixHasRoom ==
    ASSUME SplitInv, Ordinary(text, limit), prefix = Reopening(Fences(text)[offset])
    PROVE  PrefixFits /\ RoomLeft(text, offset, limit, Capacity)
<1>1. PICK s \in Seq(Runes), n \in Nat, o \in Nat :
         s = text /\ n = limit /\ o = offset /\ n # 0 /\ o \in 0 .. Len(s)
    BY DEF SplitInv
<1> o \in 0 .. Len(s)
    BY <1>1
<1>2. PICK f \in FenceSet : f = Fences(s)[o]
    BY FencesType
<1>3. Len(Reopening(f)) < n
    <2>1. CASE f = NoFence
        <3>1. Len(Reopening(f)) = 0
            BY <2>1, ReopeningIs, Zenon
        <3> QED
            BY <1>1, <3>1
    <2>2. CASE f # NoFence
        <3>1. PICK l \in FenceLinesOf(s) : f = AfterLine(NoFence, l)
            BY <1>2, <2>2, FenceOrigin DEF FenceOf
        <3>2. Len(l) \in Nat /\ Len(f.opening) \in Nat /\ Len(f.opening) <= Len(l) /\ f.len \in Nat
            BY <3>1, FenceOfIs DEF Opened, FenceSet
        <3>3. PICK a \in Nat, b \in Nat, x \in Nat : a = Len(l) /\ b = Len(f.opening) /\ x = f.len
            BY <3>2
        <3>4. Len(Closing(f)) = 1 + x
            BY <3>3, ClosingIs
        <3>5. Ordinary(s, n)
            BY <1>1
        <3>6. a + a + 3 + (1 + x) <= n
            BY <3>1, <3>3, <3>4, <3>5, Zenon DEF Ordinary
        <3>7. Len(Reopening(f)) = b + 1
            BY <2>2, <3>3, ReopeningIs, Zenon
        <3>8. b <= a
            BY <3>2, <3>3
        <3> QED
            BY <3>6, <3>7, <3>8
    <2> QED
        BY <2>1, <2>2
<1>4. Len(prefix) = Len(Reopening(f))
    BY <1>1, <1>2
<1>5. PrefixFits
    BY <1>1, <1>3, <1>4 DEF PrefixFits
<1>6. Capacity = limit - Len(prefix)
    BY <1>5, CapacityIs
<1> QED
    BY <1>4, <1>5, <1>6, <1>1, <1>2, Zenon DEF RoomLeft

(* The cut of an iteration is good, and its fence is that of the answer there. *)
LEMMA NextCutInCode ==
    ASSUME SplitInv, offset < Len(text), Ordinary(text, limit), CutOK(text, offset),
           prefix = Reopening(Fences(text)[offset]), NextCut.end < Len(text)
    PROVE  CutOK(text, NextCut.end) /\ NextCut.open = Fences(text)[NextCut.end]
<1>1. PICK s \in Seq(Runes), o \in Nat, n \in Nat :
         s = text /\ o = offset /\ o < Len(s) /\ n = limit
    BY DEF SplitInv
<1>2. PICK c \in Nat : c = Capacity /\ c # 0
    BY CapacityIs
<1>3. Ordinary(s, n) /\ CutOK(s, o) /\ RoomLeft(s, o, n, c)
    BY <1>1, <1>2, PrefixHasRoom
<1>4. PICK d : CutAfter(s, o, c, d)
    BY DEF CutAfter
<1>5. d \in Nat /\ 1 <= d /\ d <= c /\ o + d <= Len(s)
    BY <1>1, <1>2, <1>4, CutAfterIs, Zenon
<1>6. PICK first : first = Piece(Capacity)
    OBVIOUS
<1>7. first = [end |-> o + d, open |-> Fences(s)[o + d]]
    <2>1. first = PieceUpTo(o + d)
        BY <1>1, <1>2, <1>4, <1>6, Zenon DEF Piece, CutAfter
    <2>2. o + d \in 0 .. Len(s)
        BY <1>5
    <2> QED
        BY <1>1, <2>1, <2>2, PieceIs
<1>8. first.end = o + d /\ first.open = Fences(s)[o + d]
    BY <1>7
<1>9. PICK f \in FenceSet : f = Fences(s)[o + d]
    BY <1>5, FencesType
<1>10. NextCut = WithRoomForClosing(first)
    BY <1>6, Zenon DEF NextCut
<1>11. PICK x \in Nat : x = f.len
    BY DEF FenceSet
<1>12. Room(first.open) = RoomBehind(s, c, o + d) /\ Room(first.open) = c - (1 + x)
    <2>1. Len(Closing(f)) = 1 + x
        BY <1>11, ClosingIs
    <2> QED
        BY <1>2, <1>8, <1>9, <1>11, <2>1, Zenon DEF Room, RoomBehind
<1>13. f # NoFence => Room(first.open) > 0
    <2>1. SUFFICES ASSUME f # NoFence PROVE c - (1 + x) > 0
        BY <1>12
    <2>2. PICK l \in FenceLinesOf(s) : f = AfterLine(NoFence, l)
        <3>1. o + d \in 0 .. Len(s)
            BY <1>5
        <3> QED
            BY <1>9, <2>1, <3>1, FenceOrigin DEF FenceOf
    <2>3. PICK a \in Nat : a = Len(l)
        BY FenceOfIs
    <2>4. a + 3 + x <= c
        <3>1. o \in 0 .. Len(s)
            BY <1>1
        <3>2. Len(l) + 3 + AfterLine(NoFence, l).len <= c
            BY <1>3, <3>1, RoomForLine, Zenon
        <3> QED
            BY <1>11, <2>2, <2>3, <3>2, Zenon
    <2> QED
        BY <2>4
<1>14. CASE first.end = Len(text) \/ first.open = NoFence \/ Room(first.open) <= 0
    <2>1. NextCut = [first EXCEPT !.open = NoFence]
        BY <1>10, <1>14, Zenon DEF WithRoomForClosing
    <2>2. NextCut = [end |-> o + d, open |-> NoFence]
        BY <1>7, <2>1
    <2>3. NextCut.end = o + d /\ NextCut.open = NoFence
        BY <2>2
    <2>4. o + d < Len(s)
        BY <1>1, <2>3
    <2>5. CutOK(s, o + d)
        BY <1>1, <1>2, <1>3, <1>4, <2>4, FirstCutOK, Zenon
    <2>6. f = NoFence
        <3>1. first.end # Len(text)
            BY <1>1, <1>5, <1>8, <2>4
        <3>2. Room(first.open) > 0 => ~(Room(first.open) <= 0)
            BY <1>12, <1>2
        <3> QED
            BY <1>8, <1>9, <1>13, <1>14, <3>1, <3>2, Zenon
    <2> QED
        BY <1>1, <1>9, <2>3, <2>5, <2>6, Zenon
<1>15. CASE first.end # Len(text) /\ first.open # NoFence /\ ~(Room(first.open) <= 0)
    <2>1. NextCut = Piece(Room(first.open))
        BY <1>10, <1>15, Zenon DEF WithRoomForClosing
    <2>2. PICK room \in Nat : room # 0 /\ room = Room(first.open) /\ room = RoomBehind(s, c, o + d)
        BY <1>12, <1>15
    <2>3. PICK e : CutAfter(s, o, room, e)
        BY DEF CutAfter
    <2>4. e \in Nat /\ 1 <= e /\ e <= room /\ o + e <= Len(s)
        BY <1>1, <2>2, <2>3, CutAfterIs, Zenon
    <2>5. NextCut = [end |-> o + e, open |-> Fences(s)[o + e]]
        <3>1. NextCut = PieceUpTo(o + e)
            BY <1>1, <2>1, <2>2, <2>3, Zenon DEF Piece, CutAfter
        <3>2. o + e \in 0 .. Len(s)
            BY <2>4
        <3> QED
            BY <1>1, <3>1, <3>2, PieceIs
    <2>6. NextCut.end = o + e /\ NextCut.open = Fences(s)[o + e]
        BY <2>5
    <2>7. o + d < Len(s) /\ Fences(s)[o + d] # NoFence /\ o + e < Len(s)
        BY <1>1, <1>5, <1>8, <1>15, <2>6
    <2>8. CutOK(s, o + e)
        BY <1>1, <1>2, <1>3, <1>4, <2>2, <2>3, <2>7, SecondCutOK, Zenon
    <2> QED
        BY <1>1, <2>6, <2>8, Zenon
<1> QED
    BY <1>14, <1>15

(* The closing line is a newline and the marker of the fence. *)
LEMMA ClosingAt ==
    ASSUME NEW f \in FenceSet
    PROVE  /\ Closing(f)[1] = NL
           /\ \A k \in 2 .. 1 + f.len : Closing(f)[k] = f.char
<1>1. PICK m \in Nat : m = f.len
    BY DEF FenceSet
<1>2. f.char \in Runes /\ NL \in Runes
    BY DEF FenceSet, Runes, Symbols, Blank, Indent, TAB
<1>3. PICK marker \in Seq(Runes) :
         /\ marker = [i \in 1 .. m |-> f.char] /\ Len(marker) = m
         /\ \A i \in 1 .. m : marker[i] = f.char
    <2>1. [i \in 1 .. m |-> f.char] \in Seq(Runes)
        BY <1>2
    <2>2. Len([i \in 1 .. m |-> f.char]) = m
        BY <1>2
    <2> QED
        BY <2>1, <2>2
<1>4. <<NL>> \in Seq(Runes) /\ Len(<<NL>>) = 1 /\ <<NL>>[1] = NL
    BY <1>2
<1>5. ASSUME NEW w \in Seq(Runes), Len(w) = 1, w[1] = NL
      PROVE  /\ (w \o marker)[1] = NL
             /\ \A k \in 2 .. 1 + m : (w \o marker)[k] = f.char
    <2>1. \A k \in 1 .. Len(w) + Len(marker) :
             (w \o marker)[k] = IF k <= Len(w) THEN w[k] ELSE marker[k - Len(w)]
        BY ConcatProperties, Zenon
    <2>2. \A k \in 1 .. 1 + m : (w \o marker)[k] = IF k <= 1 THEN w[k] ELSE marker[k - 1]
        BY <1>3, <1>5, <2>1, Zenon
    <2>3. 1 \in 1 .. 1 + m /\ 1 <= 1
        OBVIOUS
    <2>4. \A k \in 2 .. 1 + m : k \in 1 .. 1 + m /\ ~(k <= 1) /\ k - 1 \in 1 .. m
        OBVIOUS
    <2> QED
        BY <1>3, <1>5, <2>2, <2>3, <2>4, Zenon
<1>6. Closing(f) = <<NL>> \o marker
    BY <1>1, <1>3, Zenon DEF Closing
<1> QED
    BY <1>1, <1>4, <1>5, <1>6, Zenon

\* u is r, body and w in this order; p and e are the lengths of the first two.
ThreeParts(u, r, p, body, e, w) ==
    /\ u \in Seq(Runes)
    /\ Len(u) = p + e + Len(w)
    /\ \A k \in 1 .. p : u[k] = r[k]
    /\ \A k \in 1 .. e : u[p + k] = body[k]
    /\ \A k \in 1 .. Len(w) : u[p + e + k] = w[k]


(* Where the three parts are in their concatenation. *)
LEMMA Joined ==
    ASSUME NEW r \in Seq(Runes), NEW body \in Seq(Runes), NEW w \in Seq(Runes),
           NEW p \in Nat, p = Len(r), NEW e \in Nat, e = Len(body)
    PROVE  ThreeParts((r \o body) \o w, r, p, body, e, w)
<1>1. PICK v \in Seq(Runes) : v = r \o body /\ Len(v) = p + e
    <2>1. r \o body \in Seq(Runes) /\ Len(r \o body) = Len(r) + Len(body)
        BY ConcatProperties, Zenon
    <2>2. Len(r \o body) = p + e
        BY <2>1, Zenon
    <2> QED
        BY <2>1, <2>2, Zenon
<1>2. \A k \in 1 .. p + e : v[k] = IF k <= p THEN r[k] ELSE body[k - p]
    <2>1. \A k \in 1 .. Len(r) + Len(body) :
             (r \o body)[k] = IF k <= Len(r) THEN r[k] ELSE body[k - Len(r)]
        BY ConcatProperties, Zenon
    <2> QED
        BY <1>1, <2>1, Zenon
<1>3. PICK n \in Nat : n = Len(w)
    OBVIOUS
<1>4. PICK u \in Seq(Runes) : u = v \o w /\ Len(u) = p + e + n
    <2>1. v \o w \in Seq(Runes) /\ Len(v \o w) = Len(v) + Len(w)
        BY ConcatProperties, Zenon
    <2>2. Len(v \o w) = p + e + n
        BY <1>1, <1>3, <2>1, Zenon
    <2> QED
        BY <2>1, <2>2, Zenon
<1>5. \A k \in 1 .. (p + e) + n : u[k] = IF k <= p + e THEN v[k] ELSE w[k - (p + e)]
    <2>1. \A k \in 1 .. Len(v) + Len(w) :
             (v \o w)[k] = IF k <= Len(v) THEN v[k] ELSE w[k - Len(v)]
        BY ConcatProperties, Zenon
    <2> QED
        BY <1>1, <1>3, <1>4, <2>1, Zenon
<1>6. ASSUME NEW k \in 1 .. p PROVE u[k] = r[k]
    <2>1. k \in 1 .. (p + e) + n /\ k <= p + e /\ k \in 1 .. p + e /\ k <= p
        OBVIOUS
    <2> QED
        BY <1>2, <1>5, <2>1, Zenon
<1>7. ASSUME NEW k \in 1 .. e PROVE u[p + k] = body[k]
    <2>1. /\ p + k \in 1 .. (p + e) + n /\ p + k <= p + e /\ p + k \in 1 .. p + e
          /\ ~(p + k <= p) /\ (p + k) - p = k
        OBVIOUS
    <2> QED
        BY <1>2, <1>5, <2>1, Zenon
<1>8. ASSUME NEW k \in 1 .. n PROVE u[p + e + k] = w[k]
    <2>1. /\ p + e + k \in 1 .. (p + e) + n /\ ~(p + e + k <= p + e)
          /\ (p + e + k) - (p + e) = k
        OBVIOUS
    <2> QED
        BY <1>5, <2>1, Zenon
<1> QED
    BY <1>1, <1>3, <1>4, <1>6, <1>7, <1>8, Zenon DEF ThreeParts

(* The chunk of an iteration continues the answer and closes what it leaves open. *)
LEMMA ChunkContinues ==
    ASSUME SplitInv, PrefixFits, prefix = Reopening(Fences(text)[offset]),
           NEW e \in Nat, offset + e < Len(text),
           NEW piece, piece.end = offset + e, piece.open = Fences(text)[offset + e],
           NEW u, u = Body(piece.end) \o Suffix(piece, Body(piece.end))
    PROVE  /\ u \in Seq(Runes) /\ Continues(u, text, offset, e)
           /\ ClosedBehind(u, Len(Reopening(Fences(text)[offset])) + e, Fences(text)[offset + e])
<1>1. PICK s \in Seq(Runes), o \in Nat : s = text /\ o = offset /\ o + e < Len(s)
    BY DEF SplitInv
<1>2. PICK r \in Seq(Runes), p \in Nat :
         r = prefix /\ p = Len(r) /\ r = Reopening(Fences(s)[o])
    BY <1>1 DEF SplitInv
<1>3. PICK g \in FenceSet : g = Fences(s)[o + e] /\ g = piece.open
    <2>1. o + e \in 0 .. Len(s)
        BY <1>1
    <2> QED
        BY <1>1, <2>1, FencesType
<1>4. PICK body \in Seq(Runes) :
         /\ body = SubSeq(s, o + 1, o + e) /\ e = Len(body)
         /\ \A k \in 1 .. e : body[k] = s[o + k]
    <2>1. PICK x \in Nat : x = o + e /\ x <= Len(s) /\ x - o = e
        BY <1>1
    <2>2. SubSeq(s, o + 1, x) \in Seq(Runes) /\ Len(SubSeq(s, o + 1, x)) = e
        BY <2>1
    <2>3. \A k \in 1 .. e : SubSeq(s, o + 1, x)[k] = s[o + k]
        BY <2>1, SubSeqAt
    <2> QED
        BY <2>1, <2>2, <2>3, Zenon
<1>5. PICK w \in Seq(Runes) : w = Suffix(piece, Body(piece.end)) /\ ClosedBehind(w, 0, g)
    <2>1. piece.end # Len(text)
        BY <1>1
    <2>2. CASE g = NoFence
        <3>1. Suffix(piece, Body(piece.end)) = <<>>
            BY <1>3, <2>1, <2>2, Zenon DEF Suffix
        <3>2. <<>> \in Seq(Runes) /\ Len(<<>>) = 0
            OBVIOUS
        <3> QED
            BY <2>2, <3>1, <3>2, Zenon DEF ClosedBehind
    <2>3. CASE g # NoFence
        <3>1. Suffix(piece, Body(piece.end)) = Closing(g)
            BY <1>3, <2>1, <2>3, Zenon DEF Suffix
        <3>2. PICK x \in Nat : x = g.len
            BY DEF FenceSet
        <3>3. PICK v \in Seq(Runes) : v = Closing(g) /\ Len(v) = 1 + x
            BY <3>2, ClosingIs
        <3>4. v[1] = NL /\ \A k \in 2 .. 1 + x : v[k] = g.char
            BY <3>2, <3>3, ClosingAt, Zenon
        <3>5. Len(v) = 0 + 1 + g.len /\ v[0 + 1] = NL
            BY <3>2, <3>3, <3>4
        <3>6. \A k \in 0 + 2 .. Len(v) : v[k] = g.char
            BY <3>3, <3>4
        <3>7. ClosedBehind(v, 0, g)
            BY <2>3, <3>5, <3>6, Zenon DEF ClosedBehind
        <3> QED
            BY <3>1, <3>3, <3>7, Zenon
    <2> QED
        BY <2>2, <2>3
<1>6. u = (r \o body) \o w
    <2>1. Body(piece.end) = r \o body
        BY <1>1, <1>2, <1>4, Zenon DEF Body
    <2> QED
        BY <1>5, <2>1, Zenon
<1>7. /\ u \in Seq(Runes) /\ Len(u) = p + e + Len(w)
      /\ \A k \in 1 .. p : u[k] = r[k]
      /\ \A k \in 1 .. e : u[p + k] = body[k]
      /\ \A k \in 1 .. Len(w) : u[p + e + k] = w[k]
    <2>1. p = Len(r) /\ e = Len(body)
        BY <1>2, <1>4, Zenon
    <2>2. ThreeParts((r \o body) \o w, r, p, body, e, w)
        BY <2>1, Joined, Zenon
    <2> QED
        BY <1>6, <2>2, Zenon DEF ThreeParts
<1>8. PICK n \in Nat : n = Len(w)
    OBVIOUS
<1>9. Continues(u, s, o, e)
    <2>1. p + e <= Len(u)
        BY <1>7, <1>8
    <2>2. Copies(u, p, s, o, e)
        BY <1>4, <1>7, Zenon DEF Copies
    <2> QED
        BY <1>2, <1>7, <2>1, <2>2, Zenon DEF Continues
<1>10. ClosedBehind(u, p + e, g)
    <2>1. CASE g = NoFence
        <3>1. Len(w) = 0
            BY <1>5, <2>1, Zenon DEF ClosedBehind
        <3>2. Len(u) = p + e
            BY <1>7, <3>1
        <3> QED
            BY <2>1, <3>2, Zenon DEF ClosedBehind
    <2>2. CASE g # NoFence
        <3>1. PICK x \in Nat : x = g.len
            BY DEF FenceSet
        <3>2. n = 1 + x /\ w[1] = NL /\ \A k \in 2 .. n : w[k] = g.char
            BY <1>5, <1>8, <2>2, <3>1 DEF ClosedBehind
        <3>3. Len(u) = (p + e) + 1 + x
            BY <1>7, <1>8, <3>2
        <3>4. u[(p + e) + 1] = NL
            <4>1. 1 \in 1 .. n
                BY <3>2
            <4> QED
                BY <1>7, <1>8, <3>2, <4>1, Zenon
        <3>5. ASSUME NEW k \in (p + e) + 2 .. Len(u) PROVE u[k] = g.char
            <4>1. PICK j \in 2 .. n : p + e + j = k /\ j \in 1 .. n
                <5>1. PICK q \in Nat : q = p + e
                    OBVIOUS
                <5>2. n = 1 + x /\ Len(u) = q + 1 + x
                    BY <3>2, <3>3, <5>1
                <5>3. k \in q + 2 .. q + 1 + x
                    BY <5>1, <5>2, Zenon
                <5>4. k - q \in 2 .. 1 + x /\ q + (k - q) = k /\ k - q \in 1 .. 1 + x
                    BY <5>3
                <5> QED
                    BY <5>1, <5>2, <5>4, Zenon
            <4> QED
                BY <1>7, <1>8, <3>2, <4>1, Zenon
        <3> QED
            BY <2>2, <3>1, <3>3, <3>4, <3>5, Zenon DEF ClosedBehind
    <2> QED
        BY <2>1, <2>2
<1> QED
    BY <1>1, <1>2, <1>3, <1>7, <1>9, <1>10, Zenon

(* An iteration keeps all this. *)
LEMMA CodeStep ==
    ASSUME SplitInv, OrdinaryFences, CodeKept, Cut
    PROVE  CodeKept'
<1>1. offset < Len(text) /\ text' = text /\ limit' = limit
    BY DEF Cut
<1>2. PICK s \in Seq(Runes), o \in Nat : s = text /\ o = offset /\ o < Len(s)
    BY <1>1 DEF SplitInv
<1>3. CutOK(s, o) /\ prefix = Reopening(Fences(s)[o])
    BY <1>1, <1>2 DEF CodeKept
<1>4. Ordinary(text, limit)
    BY OrdinaryIs
<1>5. PICK piece, e : piece = NextCut /\ CutFits(piece, e)
    BY <1>1, NextCutFits
<1>6. e \in Nat /\ piece.end = o + e /\ o + e <= Len(s)
    BY <1>2, <1>5 DEF CutFits
<1>7. CutAt(piece)
    BY <1>5, Zenon DEF Cut
<1>8. PICK chunk \in Seq(Runes) : chunk = Body(piece.end) \o Suffix(piece, Body(piece.end))
    BY <1>5, ChunkFits
<1>9. chunks' = WithChunk(chunk) /\ offset' = piece.end /\ prefix' = Reopening(piece.open)
    BY <1>7, <1>8, Zenon DEF CutAt
<1>10. chunks \in Seq(Seq(Runes)) /\ \A i \in DOMAIN chunks : MarkdownFenceAt(chunks[i], TRUE) = NoFence
    BY <1>1 DEF SplitInv, CodeKept
<1>11. o + e < Len(s) => /\ CutOK(s, o + e) /\ piece.open = Fences(s)[o + e]
                         /\ MarkdownFenceAt(chunk, TRUE) = NoFence
    <2>1. SUFFICES ASSUME o + e < Len(s)
                   PROVE  /\ CutOK(s, o + e) /\ piece.open = Fences(s)[o + e]
                          /\ MarkdownFenceAt(chunk, TRUE) = NoFence
        OBVIOUS
    <2>2. CutOK(s, o + e) /\ piece.open = Fences(s)[o + e]
        <3>1. NextCut.end < Len(text)
            BY <1>2, <1>5, <1>6, <2>1
        <3>2. CutOK(text, NextCut.end) /\ NextCut.open = Fences(text)[NextCut.end]
            BY <1>1, <1>2, <1>3, <1>4, <3>1, NextCutInCode
        <3> QED
            BY <1>2, <1>5, <1>6, <3>2, Zenon
    <2>3. PrefixFits
        BY <1>2, <1>3, <1>4, PrefixHasRoom
    <2>4. /\ Continues(chunk, s, o, e)
          /\ ClosedBehind(chunk, Len(Reopening(Fences(s)[o])) + e, Fences(s)[o + e])
        <3>1. /\ prefix = Reopening(Fences(text)[offset]) /\ offset + e < Len(text)
              /\ piece.end = offset + e /\ piece.open = Fences(text)[offset + e]
            BY <1>2, <1>3, <1>6, <2>1, <2>2, Zenon
        <3>2. /\ Continues(chunk, text, offset, e)
              /\ ClosedBehind(chunk, Len(Reopening(Fences(text)[offset])) + e, Fences(text)[offset + e])
            BY <1>6, <1>8, <2>3, <3>1, ChunkContinues, Zenon
        <3> QED
            BY <1>2, <3>2, Zenon
    <2>5. o \in 0 .. Len(s)
        BY <1>2
    <2>6. MarkdownFenceAt(chunk, TRUE) = NoFence
        BY <1>3, <1>6, <2>2, <2>4, <2>5, ChunkCloses, Zenon
    <2> QED
        BY <2>2, <2>6
<1>12. (offset < Len(text) => CutOK(text, offset) /\ prefix = Reopening(Fences(text)[offset]))'
    BY <1>1, <1>2, <1>6, <1>9, <1>11
<1>13. (\A i \in DOMAIN chunks :
          i < Len(chunks) \/ offset < Len(text) => MarkdownFenceAt(chunks[i], TRUE) = NoFence)'
    <2>1. CASE chunks' = chunks
        BY <1>10, <2>1
    <2>2. CASE chunks' = Append(chunks, chunk)
        <3>1. PICK n \in Nat : n = Len(chunks) /\ DOMAIN chunks = 1 .. n
            BY <1>10
        <3>2. /\ DOMAIN chunks' = 1 .. n + 1 /\ Len(chunks') = n + 1
              /\ \A i \in 1 .. n : chunks'[i] = chunks[i]
              /\ chunks'[n + 1] = chunk
            BY <1>10, <2>2, <3>1
        <3>3. ASSUME NEW i \in DOMAIN chunks', i < Len(chunks') \/ offset' < Len(text')
              PROVE  MarkdownFenceAt(chunks'[i], TRUE) = NoFence
            <4>1. i \in 1 .. n \/ i = n + 1
                BY <3>2
            <4>2. CASE i \in 1 .. n
                BY <1>10, <3>1, <3>2, <4>2, Zenon
            <4>3. CASE i = n + 1
                <5>1. o + e < Len(s)
                    BY <1>1, <1>2, <1>6, <1>9, <3>2, <3>3, <4>3
                <5> QED
                    BY <1>11, <3>2, <4>3, <5>1, Zenon
            <4> QED
                BY <4>1, <4>2, <4>3
        <3> QED
            BY <3>3
    <2> QED
        BY <1>9, <2>1, <2>2, Zenon DEF WithChunk
<1> QED
    BY <1>12, <1>13 DEF CodeKept

(* It holds at the call of splitMessage. *)
LEMMA CodeInitInv == SplitInit => CodeInv
<1> SUFFICES ASSUME SplitInit PROVE CodeKept
    BY SplitInitInv DEF CodeInv
<1>1. offset = 0 /\ prefix = <<>> /\ chunks = <<>> /\ text \in Seq(Runes)
    BY SplitInitInv DEF SplitInit, SplitInv
<1>2. CutOK(text, offset)
    BY <1>1 DEF CutOK
<1>3. prefix = Reopening(Fences(text)[offset])
    <2>1. Fences(text)[0] = NoFence
        BY <1>1, FencesUnfold
    <2> QED
        BY <1>1, <2>1, Zenon DEF Reopening
<1>4. DOMAIN chunks = {}
    BY <1>1
<1> QED
    BY <1>2, <1>3, <1>4 DEF CodeKept

(* The invariant of the loop of splitMessage holds between any two iterations. *)
THEOREM CodeInvariant == SplitSpec => []CodeInv
<1>1. CodeInv /\ [SplitNext]_splitVars => CodeInv'
    <2> SUFFICES ASSUME CodeInv, [SplitNext]_splitVars PROVE CodeInv'
        OBVIOUS
    <2>1. CASE Cut
        <3>1. OrdinaryFences' = OrdinaryFences
            BY <2>1 DEF Cut, OrdinaryFences, FenceLines
        <3> QED
            BY <2>1, <3>1, CutStep, CodeStep DEF CodeInv
    <2>2. CASE UNCHANGED splitVars
        BY <2>2 DEF CodeInv, SplitInv, ChunksFit, CodeKept, OrdinaryFences, FenceLines, splitVars
    <2> QED
        BY <2>1, <2>2 DEF SplitNext
<1> QED
    BY <1>1, CodeInitInv, PTL DEF SplitSpec

(* Code stays code and text stays text: every chunk of an answer with ordinary fences, but
   for the last, closes the fence it opened, and the next begins in the fence that the
   answer has open there; adapter.go splitMessage. *)
THEOREM CodeStaysCodeAlways == SplitSpec => []CodeStaysCode
<1>1. CodeInv => CodeStaysCode
    <2> SUFFICES ASSUME SplitInv, CodeKept PROVE CodeStaysCode
        BY DEF CodeInv, CodeStaysCode
    <2>1. SUFFICES ASSUME offset < Len(text)
                   PROVE  MarkdownFenceAt(prefix, TRUE) = MarkdownFenceAt(Before(offset), FALSE)
        BY DEF CodeKept, CodeStaysCode
    <2>2. text \in Seq(Runes) /\ offset \in 0 .. Len(text)
        BY DEF SplitInv
    <2>3. MarkdownFenceAt(prefix, TRUE) = Fences(text)[offset]
        BY <2>1, <2>2, ReopeningOpens DEF CodeKept
    <2>4. PieceUpTo(offset).open = Fences(text)[offset]
        BY <2>2, PieceIs
    <2>5. PieceUpTo(offset).open = MarkdownFenceAt(Before(offset), FALSE)
        BY DEF PieceUpTo
    <2> QED
        BY <2>3, <2>4, <2>5
<1> QED
    BY <1>1, CodeInvariant, PTL
=============================================================================
