--------------------------- MODULE OutboundCalls ---------------------------
(***************************************************************************)
(* Calls over HTTP and their repetition.  caller tells who calls:          *)
(*   "answer"  the worker of internal/discordbot/adapter.go shows an       *)
(*             answer: the receipt is edited into part 1, the others are   *)
(*             sent; if the edit fails, it is edited into an error text,   *)
(*   "error"   sendChunks sends a text of several parts,                   *)
(*   "llm"     postJSON of internal/llm/transport.go asks for a completion.*)
(*                                                                         *)
(* A call and its answer are separate: what was asked may be done although *)
(* no answer arrives, and even after the caller has gone on.               *)
(***************************************************************************)
EXTENDS Naturals

CONSTANTS MaxRetries,   \* Adapter.maxRetries
          MaxParts      \* bound: chunks of a text

ASSUME CallsAssumption == MaxRetries \in Nat /\ MaxParts \in Nat \ {0}

VARIABLES
    caller,     \* who calls
    parts,      \* number of chunks
    part,       \* the one being delivered, 0 for the error text
    attempt,    \* in retryDiscord and postJSON
    place,      \* "calling", "waiting", or the end: "ok", "failed"
    delay,      \* what the wait is for: "backoff" or the time "asked" for
    ended,      \* the context of the caller has ended
    receipt,    \* what the receipt shows: "processing", "answer", "error"
    times,      \* how often a part was sent, or a completion computed
    late,       \* calls without an answer that may still be executed, per part
    lost,       \* parts of which such a call, or its answer, was lost (ghost)
    stay        \* Discord has asked to be left alone, and still does

callVars == <<caller, parts, part, attempt, place, delay, ended, receipt, times,
              late, lost, stay>>

CallsInit ==
    /\ caller \in {"answer", "error", "llm"}
    /\ parts \in IF caller = "llm" THEN {1} ELSE 1 .. MaxParts
    /\ part = 1
    /\ attempt = 0
    /\ place = "calling"
    /\ delay = "backoff"
    /\ ended = FALSE
    /\ receipt = "processing"
    /\ times = [p \in 1 .. MaxParts |-> 0]
    /\ late = [p \in 0 .. MaxParts |-> 0]
    /\ lost = {}
    /\ stay = FALSE

-----------------------------------------------------------------------------
(* What may come back: a reset connection, an error that took too long, a status 5xx,
   429 or another 4xx, or a body that cannot be used. *)
Silent == {"reset", "slow", "down"}
Kinds == {"ok", "limited", "rejected", "incomplete"} \cup Silent

(* a Retry-After header *)
MayAsk == {"down", "limited"}

Edits(p) == caller = "answer" /\ p \in {0, 1}

(* The effect of one execution of the call for part p. *)
Execute(p) ==
    IF Edits(p)
    THEN /\ receipt' = IF p = 0 THEN "error" ELSE "answer"
         /\ UNCHANGED times
    ELSE /\ times' = [times EXCEPT ![p] = @ + 1]
         /\ UNCHANGED receipt

(* Only a call without a proper answer may have no effect, or a late one. *)
Outcome(kind) ==
    \/ /\ kind \in {"ok", "incomplete"} \cup Silent
       /\ Execute(part)
       /\ lost' = IF kind \in Silent THEN lost \cup {part} ELSE lost
       /\ UNCHANGED late
    \/ /\ kind \in Silent
       /\ late' = [late EXCEPT ![part] = @ + 1]
       /\ lost' = lost \cup {part}
       /\ UNCHANGED <<receipt, times>>
    \/ /\ kind \notin {"ok", "incomplete"}
       /\ UNCHANGED <<receipt, times, late, lost>>

(* Mutant of Repeats: an incomplete answer is asked for again. *)
RepeatsIncomplete(kind, asks) ==
    IF caller = "llm" THEN attempt = 0 /\ ~ended /\ kind \in {"down", "reset", "incomplete"}
    ELSE attempt < MaxRetries /\ (kind \in Silent \cup {"incomplete"} \/ (kind = "limited" /\ asks))

(* the errors after which the call is made again *)
Repeats(kind, asks) ==
    IF caller = "llm" THEN attempt = 0 /\ ~ended /\ kind \in {"down", "reset"}
    ELSE attempt < MaxRetries /\ (kind \in Silent \/ (kind = "limited" /\ asks))

(* Mutant of DelayFor: the header is not read. *)
DelayBackoff(asks) == "backoff"

DelayFor(asks) == IF asks /\ caller # "llm" THEN "asked" ELSE "backoff"

-----------------------------------------------------------------------------
(* Mutant of Succeed: the last chunk is forgotten. *)
SucceedEarly ==
    /\ stay' = FALSE
    /\ IF part \in 1 .. parts - 2
       THEN part' = part + 1 /\ attempt' = 0 /\ place' = "calling"
       ELSE /\ place' = IF part = 0 THEN "failed" ELSE "ok"
            /\ UNCHANGED <<part, attempt>>

(* the next chunk, or the end *)
Succeed ==
    /\ stay' = FALSE
    /\ IF part \in 1 .. parts - 1
       THEN part' = part + 1 /\ attempt' = 0 /\ place' = "calling"
       ELSE /\ place' = IF part = 0 THEN "failed" ELSE "ok"
            /\ UNCHANGED <<part, attempt>>

(* Mutant of GiveUp: the other chunks are sent nevertheless. *)
GiveUpLater ==
    /\ stay' = FALSE
    /\ IF part \in 1 .. parts - 1
       THEN part' = part + 1 /\ attempt' = 0 /\ place' = "calling"
       ELSE place' = "failed" /\ UNCHANGED <<part, attempt>>

(* the receipt gets the error text, or the reply remains as far as it got *)
GiveUp ==
    /\ stay' = FALSE
    /\ IF Edits(part) /\ part = 1
       THEN part' = 0 /\ attempt' = 0 /\ place' = "calling"
       ELSE place' = "failed" /\ UNCHANGED <<part, attempt>>

Answer(kind, asks) ==
    /\ place = "calling"
    /\ asks => kind \in MayAsk
    /\ kind = "incomplete" => ~Edits(part)
    /\ Outcome(kind)
    /\ \/ kind = "ok" /\ Succeed /\ UNCHANGED delay
       \/ /\ kind # "ok" /\ Repeats(kind, asks)
          /\ place' = "waiting"
          /\ delay' = DelayFor(asks)
          /\ stay' = (asks /\ caller # "llm")
          /\ UNCHANGED <<part, attempt>>
       \/ kind # "ok" /\ ~Repeats(kind, asks) /\ GiveUp /\ UNCHANGED delay
    /\ UNCHANGED <<caller, parts, ended>>

AnyAnswer == \E kind \in Kinds, asks \in BOOLEAN : Answer(kind, asks)

(* Mutant of WaitOver: the attempts are not counted. *)
WaitOverUncounted ==
    /\ place = "waiting"
    /\ place' = "calling"
    /\ stay' = (stay /\ delay # "asked")
    /\ UNCHANGED <<caller, parts, part, attempt, delay, ended, receipt, times, late, lost>>

(* Mutant of WaitOver: the attempt is counted twice. *)
WaitOverAndCountTwice ==
    /\ place = "waiting"
    /\ place' = "calling"
    /\ attempt' = attempt + 2
    /\ stay' = (stay /\ delay # "asked")
    /\ UNCHANGED <<caller, parts, part, delay, ended, receipt, times, late, lost>>

(* the timer of the wait fires *)
WaitOver ==
    /\ place = "waiting"
    /\ place' = "calling"
    /\ attempt' = attempt + 1
    /\ stay' = (stay /\ delay # "asked")
    /\ UNCHANGED <<caller, parts, part, delay, ended, receipt, times, late, lost>>

WaitCancelled ==
    /\ place = "waiting" /\ ended
    /\ GiveUp
    /\ UNCHANGED <<caller, parts, delay, ended, receipt, times, late, lost>>

(* external: the context ends by its deadline or with the program *)
ContextEnds ==
    /\ ~ended
    /\ ended' = TRUE
    /\ UNCHANGED <<caller, parts, part, attempt, place, delay, receipt, times, late, lost, stay>>

(* external: a call that was taken for failed is executed *)
LateEffect(p) ==
    /\ late[p] > 0
    /\ late' = [late EXCEPT ![p] = @ - 1]
    /\ Execute(p)
    /\ UNCHANGED <<caller, parts, part, attempt, place, delay, ended, lost, stay>>

CallsNext ==
    \/ AnyAnswer \/ WaitOver \/ WaitCancelled \/ ContextEnds
    \/ \E p \in 0 .. MaxParts : LateEffect(p)

(* Every HTTP call ends, by its client's timeout at the latest, and timers fire. *)
CallsFairness == WF_callVars(AnyAnswer) /\ WF_callVars(WaitOver)

CallsSpec == CallsInit /\ [][CallsNext]_callVars /\ CallsFairness

-----------------------------------------------------------------------------
CallsTypeOK ==
    /\ caller \in {"answer", "error", "llm"} /\ parts \in 1 .. MaxParts
    /\ part \in 0 .. parts
    /\ attempt \in 0 .. IF caller = "llm" THEN 1 ELSE MaxRetries
    /\ place \in {"calling", "waiting", "ok", "failed"} /\ delay \in {"backoff", "asked"}
    /\ ended \in BOOLEAN /\ stay \in BOOLEAN
    /\ receipt \in {"processing", "answer", "error"}
    /\ times \in [1 .. MaxParts -> Nat] /\ late \in [0 .. MaxParts -> Nat]
    /\ lost \subseteq 0 .. MaxParts

Shown(p) == IF Edits(p) THEN receipt = "answer" ELSE times[p] > 0

(* A reader of the channel sees a beginning of the text at every moment: no part appears
   before the parts it follows, whatever is lost, repeated or late. *)
PartsInOrder ==
    \A p \in 2 .. parts : Shown(p) => \A q \in 1 .. p - 1 : Shown(q)

(* A text that counts as delivered, whose answer is then saved, is shown completely, and
   no late edit puts anything else into its place. *)
OkMeansShown ==
    place = "ok" => \A p \in 1 .. parts : Shown(p)

(* Both: the text appears from its beginning, and completely if it counts as delivered. *)
TextIsShown == PartsInOrder /\ OkMeansShown

(* A part appears twice, or a completion is computed twice, only if a call for it got no
   proper answer; an answer without an ID is not asked for again. *)
RepeatsOnlyAfterLoss ==
    \A p \in 1 .. parts : times[p] > 1 => p \in lost

(* A call is not repeated before the time that Discord asked for. *)
StaysAway ==
    place = "calling" /\ attempt > 0 => ~stay

(* Both: a call is made again neither without need nor too early. *)
RepeatsAreExcused == RepeatsOnlyAfterLoss /\ StaysAway

(* Every call ends, though each of its attempts may fail. *)
CallEnds == <>(place \in {"ok", "failed"})
=============================================================================
