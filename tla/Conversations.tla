--------------------------- MODULE Conversations ---------------------------
(***************************************************************************)
(* internal/storage and the context builder: how questions and answers     *)
(* are grouped into conversations, stored, and read back as the history    *)
(* given to the model.                                                     *)
(*                                                                         *)
(* A participant is one (guild, scope, user) triple.  That triple is also  *)
(* the key of the request queue, so a participant has at most one work in  *)
(* progress (theorem KeysExclusive of RequestQueueProofs): serving[p].     *)
(* Every SQL transaction is one step.  Discord's clock and the host's are  *)
(* the same counter.  An attempt that ends in BUSY or in any other error,  *)
(* and a duplicate, change nothing.                                        *)
(***************************************************************************)
EXTENDS Integers, FiniteSets, FiniteSetsExt

CONSTANTS Participants,
          Questions,     \* Discord messages of users
          TTL,           \* conversation TTL
          MaxTurns,      \* history bounds of the context builder
          MaxTokens,
          TokensOf,      \* tokens of the turn a question and its answer make
          MaxClock       \* bound on time

NoQuestion == "none"
NoParticipant == "nobody"

ASSUME ConversationsAssumption ==
    /\ NoParticipant \notin Participants
    /\ IsFiniteSet(Questions) /\ NoQuestion \notin Questions
    /\ TTL \in Nat \ {0} /\ MaxTurns \in Nat \ {0} /\ MaxTokens \in Nat \ {0}
    /\ MaxClock \in Nat \ {0}
    /\ TokensOf \in [Questions -> Nat]

VARIABLES
    clock,
    owner,      \* who wrote each question
    posted,     \* creation time of each question in Discord, 0 before
    receipt,    \* creation time of its processing reply, 0 before
    convs,      \* table conversations
    rows,       \* table messages
    serving,    \* the work in progress of each participant
    context,    \* the history given to the model for each question
    recordedAt  \* history: the time at which each question was registered

vars == <<clock, owner, posted, receipt, convs, rows, serving, context, recordedAt>>

Idle == [q |-> NoQuestion, stage |-> "idle", now |-> 0, conv |-> 0]

Init ==
    /\ clock = 1
    /\ owner = [q \in Questions |-> NoParticipant]
    /\ posted = [q \in Questions |-> 0]
    /\ receipt = [q \in Questions |-> 0]
    /\ convs = {}
    /\ rows = {}
    /\ serving = [p \in Participants |-> Idle]
    /\ context = [q \in Questions |-> {}]
    /\ recordedAt = [q \in Questions |-> 0]

-----------------------------------------------------------------------------
Tick ==
    /\ clock < MaxClock
    /\ clock' = clock + 1
    /\ UNCHANGED <<owner, posted, receipt, convs, rows, serving, context, recordedAt>>

(* A user writes in Discord. *)
Post(p, q) ==
    /\ posted[q] = 0
    /\ posted' = [posted EXCEPT ![q] = clock]
    /\ owner' = [owner EXCEPT ![q] = p]
    /\ UNCHANGED <<clock, receipt, convs, rows, serving, context, recordedAt>>

-----------------------------------------------------------------------------
(* Registration: now is read before the transaction (and its BUSY retries). *)

Stored(q) == \E r \in rows : r.q = q /\ r.role = "user"

Begin(p, q) ==
    /\ serving[p] = Idle
    /\ owner[q] = p
    /\ serving' = [serving EXCEPT ![p] = [Idle EXCEPT !.q = q, !.stage = "recording",
                                                      !.now = clock]]
    /\ UNCHANGED <<clock, owner, posted, receipt, convs, rows, context, recordedAt>>

NextRowid == Cardinality(rows) + 1

(* Mutant of ActiveConvs: the boundary is included. *)
ActiveConvsInclusive(p, now) == {c \in convs : c.owner = p /\ c.lastActive >= now - TTL}

(* last_active_at > now - ttl, for this participant *)
ActiveConvs(p, now) == {c \in convs : c.owner = p /\ c.lastActive > now - TTL}

(* Mutant of ConvFor: the user is missing from the lookup. *)
ConvForAnyUser(p, now) ==
    LET live == {c \in convs : c.lastActive > now - TTL}
    IN  IF live = {}
        THEN [id |-> Cardinality(convs) + 1, owner |-> p, lastActive |-> now]
        ELSE CHOOSE c \in live : \A d \in live : d.lastActive <= c.lastActive

(* the most recently active one, or a new row *)
ConvFor(p, now) ==
    LET live == ActiveConvs(p, now)
    IN  IF live = {}
        THEN [id |-> Cardinality(convs) + 1, owner |-> p, lastActive |-> now]
        ELSE CHOOSE c \in live : \A d \in live : d.lastActive <= c.lastActive

(* recordUserMessageOnce, committed *)
Commit(p) ==
    LET s == serving[p]
        c == ConvFor(p, s.now)
    IN  /\ s.stage = "recording"
        /\ ~Stored(s.q)
        /\ convs' = (convs \ {c}) \cup {[c EXCEPT !.lastActive = s.now]}
        /\ rows' = rows \cup {[id |-> NextRowid, conv |-> c.id, q |-> s.q,
                               role |-> "user", created |-> posted[s.q]]}
        /\ recordedAt' = [recordedAt EXCEPT ![s.q] = s.now]
        /\ serving' = [serving EXCEPT ![p].stage = "recorded", ![p].conv = c.id]
        /\ UNCHANGED <<clock, owner, posted, receipt, context>>

(* Mutant of Receipt: the sent message is not kept. *)
ReceiptForgotten(p) ==
    /\ serving[p].stage = "recorded"
    /\ serving' = [serving EXCEPT ![p].stage = "accepted"]
    /\ UNCHANGED <<clock, owner, posted, receipt, convs, rows, context, recordedAt>>

(* The processing reply is created in Discord. *)
Receipt(p) ==
    /\ serving[p].stage = "recorded"
    /\ receipt' = [receipt EXCEPT ![serving[p].q] = clock]
    /\ serving' = [serving EXCEPT ![p].stage = "accepted"]
    /\ UNCHANGED <<clock, owner, posted, convs, rows, context, recordedAt>>

-----------------------------------------------------------------------------
(* The history. *)

RowOf(q) == CHOOSE r \in rows : r.q = q /\ r.role = "user"

(* Mutant of HistoryOf: the current question is not excluded. *)
HistoryWithCurrent(q) == {r \in rows : r.conv = RowOf(q).conv /\ r.id <= RowOf(q).id}

(* LoadMessagesBefore: the rows of the conversation that precede the question ... *)
HistoryOf(q) == {r \in rows : r.conv = RowOf(q).conv /\ r.id < RowOf(q).id}

(* ... ordered by created_at, rowid *)
Precedes(r, s) == r.created < s.created \/ (r.created = s.created /\ r.id < s.id)

(* Mutant of CompleteTurns: questions left unanswered in between are skipped. *)
TurnsOverGaps(h) ==
    {t \in h \X h : /\ t[1].role = "user" /\ t[2].role = "assistant"
                    /\ Precedes(t[1], t[2])
                    /\ ~\E r \in h : /\ r.role = "assistant"
                                    /\ Precedes(t[1], r) /\ Precedes(r, t[2])}

(* completeTurns: a user row directly followed by an assistant row *)
CompleteTurns(h) ==
    {t \in h \X h : /\ t[1].role = "user" /\ t[2].role = "assistant"
                    /\ Precedes(t[1], t[2])
                    /\ ~\E r \in h : Precedes(t[1], r) /\ Precedes(r, t[2])}

(* a turn fits when it and the newer ones are within the bounds *)
Fits(turns, t) ==
    LET recent == {u \in turns : u = t \/ Precedes(t[1], u[1])}
    IN  /\ Cardinality(recent) <= MaxTurns
        /\ MapThenSumSet(LAMBDA u : TokensOf[u[1].q], recent) <= MaxTokens

(* Build: the newest turns, as long as their number and their tokens fit *)
Selected(turns) == {t \in turns : Fits(turns, t)}

BuildContext(p) ==
    LET q == serving[p].q
    IN  /\ serving[p].stage = "accepted"
        /\ context' = [context EXCEPT ![q] = Selected(CompleteTurns(HistoryOf(q)))]
        /\ serving' = [serving EXCEPT ![p].stage = "answering"]
        /\ UNCHANGED <<clock, owner, posted, receipt, convs, rows, recordedAt>>

-----------------------------------------------------------------------------
(* The delivered answer is stored, dated by the processing reply it replaced. *)
SaveAnswer(p) ==
    /\ serving[p].stage = "answering"
    /\ rows' = rows \cup {[id |-> NextRowid, conv |-> serving[p].conv,
                           q |-> serving[p].q, role |-> "assistant",
                           created |-> receipt[serving[p].q]]}
    /\ serving' = [serving EXCEPT ![p] = Idle]
    /\ UNCHANGED <<clock, owner, posted, receipt, convs, context, recordedAt>>

(* The work ends early: a duplicate, an error, a cancellation or a restart. *)
GiveUp(p) ==
    /\ serving[p] # Idle
    /\ serving' = [serving EXCEPT ![p] = Idle]
    /\ UNCHANGED <<clock, owner, posted, receipt, convs, rows, context, recordedAt>>

Next ==
    \/ Tick
    \/ \E p \in Participants, q \in Questions : Post(p, q) \/ Begin(p, q)
    \/ \E p \in Participants : \/ Commit(p) \/ Receipt(p) \/ BuildContext(p)
                               \/ SaveAnswer(p) \/ GiveUp(p)

Spec == Init /\ [][Next]_vars

-----------------------------------------------------------------------------
Times == 0..MaxClock

TypeOK ==
    /\ clock \in 1..MaxClock
    /\ owner \in [Questions -> Participants \cup {NoParticipant}]
    /\ posted \in [Questions -> Times]
    /\ receipt \in [Questions -> Times]
    /\ recordedAt \in [Questions -> Times]
    /\ convs \subseteq [id : 1..Cardinality(Questions), owner : Participants,
                        lastActive : 1..MaxClock]
    /\ rows \subseteq [id : 1..(2 * Cardinality(Questions)),
                       conv : 1..Cardinality(Questions), q : Questions,
                       role : {"user", "assistant"}, created : 1..MaxClock]
    /\ serving \in [Participants ->
                      [q : Questions \cup {NoQuestion},
                       stage : {"idle", "recording", "recorded", "accepted",
                                "answering"},
                       now : Times, conv : 0..Cardinality(Questions)]]
    /\ context \in [Questions -> SUBSET (rows \X rows)]

Recorded(p) == {q \in Questions : owner[q] = p /\ Stored(q)}

(* Conversations are the maximal runs of activity: two questions registered one
   after the other by a participant share a conversation exactly when less than
   the TTL passed between them (conversations.go:152 and :192). *)
ConversationsAreActivityRuns ==
    \A p \in Participants : \A q, r \in Recorded(p) :
        /\ RowOf(q).id < RowOf(r).id
        /\ ~\E x \in Recorded(p) : RowOf(q).id < RowOf(x).id /\ RowOf(x).id < RowOf(r).id
        => (RowOf(q).conv = RowOf(r).conv <=> recordedAt[r] - recordedAt[q] < TTL)

(* A conversation belongs to one participant: what another one asked, or was
   answered, is never given to the model, whoever shares the channel. *)
ContextIsOwn ==
    \A q \in Questions : \A t \in context[q] :
        owner[t[1].q] = owner[q] /\ owner[t[2].q] = owner[q]

(* The history given to the model is strictly older than the question, in the
   order of registration, although it is sorted by Discord's creation times: the
   question is never its own history. *)
ContextIsPast ==
    \A q \in Questions : \A t \in context[q] :
        /\ t[1].q # q /\ t[2].q # q
        /\ t[1].id < RowOf(q).id /\ t[2].id < RowOf(q).id

(* Both: the model is given the participant's own past. *)
ContextIsOwnPast == ContextIsOwn /\ ContextIsPast

(* A turn of the history pairs a question with another question's answer only if
   it was posted between that other question and its processing reply: turns that
   do not overlap in Discord are always paired correctly. *)
MispairedOnlyIfOverlapping ==
    \A q \in Questions : \A t \in context[q] :
        t[1].q # t[2].q =>
            posted[t[2].q] <= posted[t[1].q] /\ posted[t[1].q] <= receipt[t[2].q]

(* Violated.  design/zii_Discord_Bot_Orchestrator設計.md:460: turns whose user and
   assistant messages are not both there are not given to the model. *)
TurnsAreWhole == \A q \in Questions : \A t \in context[q] : t[1].q = t[2].q
=============================================================================
