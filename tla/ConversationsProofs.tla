------------------------- MODULE ConversationsProofs -------------------------
(***************************************************************************)
(* The tables and the history, for any participants, questions and bounds  *)
(* of time, tokens and turns.                                              *)
(***************************************************************************)
EXTENDS Conversations, FiniteSetTheorems, TLAPS

Answered(q) == \E r \in rows : r.q = q /\ r.role = "assistant"

StoredSet == {q \in Questions : Stored(q)}
AnsweredSet == {q \in Questions : Answered(q)}

(* Row ids are unique, a question has one row of each role, and the tables are no larger
   than the questions allow. *)
TableInv ==
    /\ IsFiniteSet(rows) /\ IsFiniteSet(convs)
    /\ \A r \in rows : r.id <= Cardinality(rows)
    /\ \A r, s \in rows : r.id = s.id => r = s
    /\ \A r, s \in rows : r.q = s.q /\ r.role = s.role => r = s
    /\ \A c \in convs : c.id <= Cardinality(convs)
    /\ \A c, d \in convs : c.id = d.id => c = d
    /\ Cardinality(rows) <= Cardinality(StoredSet) + Cardinality(AnsweredSet)
    /\ Cardinality(convs) <= Cardinality(StoredSet)

(* A row carries the time of its message and stands in a conversation of its question's
   author; an answer stands behind its question. *)
RowInv ==
    \A r \in rows :
        /\ \E c \in convs : c.id = r.conv /\ c.owner = owner[r.q]
        /\ r.role = "user" => r.created = posted[r.q]
        /\ r.role = "assistant" =>
             /\ r.created = receipt[r.q] /\ posted[r.q] <= receipt[r.q]
             /\ \E u \in rows : /\ u.q = r.q /\ u.role = "user"
                                /\ u.conv = r.conv /\ u.id < r.id

(* Conversations of one participant are a TTL apart, and none is younger than the time at
   which a registration in progress was begun. *)
ConvInv ==
    /\ \A c \in convs :
         /\ c.lastActive <= clock
         /\ serving[c.owner].stage = "recording" => c.lastActive <= serving[c.owner].now
    /\ \A c, d \in convs :
         c.owner = d.owner /\ c # d =>
             c.lastActive + TTL <= d.lastActive \/ d.lastActive + TTL <= c.lastActive

(* A work in progress serves a question of its participant; once that is registered it has
   no answer yet, and the work knows its conversation. *)
WorkInv(p) ==
    LET s == serving[p]
    IN  s.stage # "idle" =>
           /\ s.q \in Questions /\ owner[s.q] = p
           /\ 1 <= s.now /\ s.now <= clock
           /\ s.stage # "recording" =>
                /\ ~Answered(s.q)
                /\ \E u \in rows : u.q = s.q /\ u.role = "user" /\ u.conv = s.conv
           /\ s.stage \in {"accepted", "answering"} => posted[s.q] <= receipt[s.q]

PostInv ==
    \A q \in Questions : posted[q] <= clock /\ (owner[q] # NoParticipant => posted[q] >= 1)

ServingInv == PostInv /\ \A p \in Participants : WorkInv(p)

(* Conversations are runs of activity, the last of which ends with the last question. *)
RunsInv(p) ==
    \A q, r \in Recorded(p) :
        /\ RowOf(q).id < RowOf(r).id
        /\ ~\E x \in Recorded(p) : RowOf(q).id < RowOf(x).id /\ RowOf(x).id < RowOf(r).id
        => (RowOf(q).conv = RowOf(r).conv <=> recordedAt[r] - recordedAt[q] < TTL)

LastInv(p) ==
    \A q \in Recorded(p) :
        (\A x \in Recorded(p) : RowOf(x).id <= RowOf(q).id) =>
            \A c \in convs : c.id = RowOf(q).conv => c.lastActive = recordedAt[q]

ActivityInv == \A p \in Participants : RunsInv(p) /\ LastInv(p)

(* A turn of a history stood in the conversation before the question did. *)
TurnInv(q, t) ==
    /\ t[1] \in rows /\ t[2] \in rows
    /\ t[1].role = "user" /\ t[2].role = "assistant"
    /\ Precedes(t[1], t[2])
    /\ \E u \in rows :
         /\ u.q = q /\ u.role = "user"
         /\ t[1].conv = u.conv /\ t[1].id < u.id
         /\ t[2].conv = u.conv /\ t[2].id < u.id
         /\ ~\E r \in rows : /\ r.conv = u.conv /\ r.id < u.id
                             /\ Precedes(t[1], r) /\ Precedes(r, t[2])

ContextInv == \A q \in Questions : \A t \in context[q] : TurnInv(q, t)

IInv ==
    /\ TypeOK
    /\ TableInv
    /\ RowInv
    /\ ConvInv
    /\ ServingInv
    /\ ActivityInv
    /\ ContextInv

-----------------------------------------------------------------------------
(* There is one user row of a question, and RowOf finds it. *)
LEMMA RowOfIs ==
    ASSUME TableInv, NEW u \in rows, u.role = "user"
    PROVE  RowOf(u.q) = u
BY DEF TableInv, RowOf

(* The row that RowOf finds. *)
LEMMA RowOfStored ==
    ASSUME NEW q, Stored(q)
    PROVE  RowOf(q) \in rows /\ RowOf(q).q = q /\ RowOf(q).role = "user"
BY DEF RowOf, Stored

(* The tables leave room for a question that is not stored. *)
LEMMA Room ==
    ASSUME TableInv
    PROVE  /\ Cardinality(rows) \in Nat /\ Cardinality(convs) \in Nat
           /\ Cardinality(Questions) \in Nat
           /\ IsFiniteSet(StoredSet) /\ IsFiniteSet(AnsweredSet)
           /\ Cardinality(StoredSet) \in Nat /\ Cardinality(AnsweredSet) \in Nat
           /\ Cardinality(StoredSet) <= Cardinality(Questions)
           /\ Cardinality(AnsweredSet) <= Cardinality(Questions)
           /\ \A q \in Questions :
                /\ ~Stored(q) => Cardinality(StoredSet) < Cardinality(Questions)
                /\ ~Answered(q) => Cardinality(AnsweredSet) < Cardinality(Questions)
<1>1. IsFiniteSet(Questions)
    BY ConversationsAssumption
<1>2. StoredSet \in SUBSET Questions /\ AnsweredSet \in SUBSET Questions
    BY DEF StoredSet, AnsweredSet
<1>3. \A q \in Questions : /\ ~Stored(q) => StoredSet # Questions
                           /\ ~Answered(q) => AnsweredSet # Questions
    BY DEF StoredSet, AnsweredSet
<1>4. /\ IsFiniteSet(StoredSet) /\ Cardinality(StoredSet) <= Cardinality(Questions)
      /\ Cardinality(StoredSet) = Cardinality(Questions) => StoredSet = Questions
    BY <1>1, <1>2, FS_Subset
<1>5. /\ IsFiniteSet(AnsweredSet) /\ Cardinality(AnsweredSet) <= Cardinality(Questions)
      /\ Cardinality(AnsweredSet) = Cardinality(Questions) => AnsweredSet = Questions
    BY <1>1, <1>2, FS_Subset
<1>6. /\ Cardinality(rows) \in Nat /\ Cardinality(convs) \in Nat
      /\ Cardinality(Questions) \in Nat
      /\ Cardinality(StoredSet) \in Nat /\ Cardinality(AnsweredSet) \in Nat
    BY <1>1, <1>4, <1>5, FS_CardinalityType DEF TableInv
<1> QED
    BY <1>3, <1>4, <1>5, <1>6

(* The types, element by element. *)
LEMMA Typed ==
    ASSUME TypeOK
    PROVE  /\ clock \in Nat /\ TTL \in Nat \ {0}
           /\ \A c \in convs : c.id \in Nat /\ c.owner \in Participants /\ c.lastActive \in Nat
           /\ \A r \in rows : /\ r.id \in Nat /\ r.conv \in Nat /\ r.created \in Nat \ {0}
                              /\ r.q \in Questions /\ r.role \in {"user", "assistant"}
           /\ \A q \in Questions :
                posted[q] \in Nat /\ receipt[q] \in Nat /\ recordedAt[q] \in Nat
           /\ \A p \in Participants : serving[p].now \in Nat
<1> USE DEF TypeOK, Times
<1>1. clock \in Nat /\ TTL \in Nat \ {0} /\ 0..MaxClock \subseteq Nat
    BY ConversationsAssumption
<1>2. \A c \in convs : c.id \in Nat /\ c.owner \in Participants /\ c.lastActive \in Nat
    OBVIOUS
<1>3. \A r \in rows : /\ r.id \in Nat /\ r.conv \in Nat /\ r.created \in Nat \ {0}
                     /\ r.q \in Questions /\ r.role \in {"user", "assistant"}
    OBVIOUS
<1>4. \A q \in Questions : posted[q] \in Nat /\ receipt[q] \in Nat /\ recordedAt[q] \in Nat
    OBVIOUS
<1>5. \A p \in Participants : serving[p].now \in Nat
    OBVIOUS
<1> QED
    BY <1>1, <1>2, <1>3, <1>4, <1>5

(* what a registration writes, c being the conversation it chose *)
NewConv(p, c) == [id |-> c.id, owner |-> p, lastActive |-> serving[p].now]

UserRow(p, c) == [id |-> Cardinality(rows) + 1, conv |-> c.id, q |-> serving[p].q,
                  role |-> "user", created |-> posted[serving[p].q]]

Chosen(p, c) ==
    \/ /\ c \in convs /\ c.owner = p
       /\ c.lastActive > serving[p].now - TTL
    \/ /\ c \notin convs /\ c.id = Cardinality(convs) + 1
       /\ \A d \in convs : d.owner = p => d.lastActive <= serving[p].now - TTL

Registers(p, c) ==
    /\ Chosen(p, c)
    /\ convs' = (convs \ {c}) \cup {NewConv(p, c)}
    /\ rows' = rows \cup {UserRow(p, c)}
    /\ recordedAt' = [recordedAt EXCEPT ![serving[p].q] = serving[p].now]
    /\ serving' = [serving EXCEPT ![p].stage = "recorded", ![p].conv = c.id]
    /\ UNCHANGED <<clock, owner, posted, receipt, context>>

(* At most one conversation is live, so that a registration continues it or opens a
   conversation of its own. *)
LEMMA CommitRegisters ==
    ASSUME IInv, NEW p \in Participants, Commit(p)
    PROVE  \E c : Registers(p, c)
<1> DEFINE now == serving[p].now
           live == ActiveConvs(p, now)
           c == ConvFor(p, now)
<1>0. /\ now \in Nat /\ TTL \in Nat \ {0} /\ Cardinality(convs) \in Nat
      /\ \A d \in convs : d.id \in Nat /\ d.lastActive \in Nat
    BY Room, Typed DEF IInv
<1>1. CASE live = {}
    <2>1. c = [id |-> Cardinality(convs) + 1, owner |-> p, lastActive |-> now]
        BY <1>1 DEF ConvFor
    <2>2. \A d \in convs : d.owner = p => d.lastActive <= now - TTL
        BY <1>0, <1>1 DEF ActiveConvs
    <2>3. c \notin convs
        BY <1>0, <2>1 DEF IInv, TableInv
    <2>4. [c EXCEPT !.lastActive = now] = NewConv(p, c)
        BY <2>1 DEF NewConv
    <2> QED
        BY <2>1, <2>2, <2>3, <2>4 DEF Commit, Registers, Chosen, UserRow, NextRowid
<1>2. CASE live # {}
    <2>1. PICK d \in live : TRUE
        BY <1>2
    <2>2. \A e \in live : e = d
        BY <1>0, <2>1 DEF ActiveConvs, IInv, ConvInv, Commit
    <2>3. c = d
        BY <1>0, <1>2, <2>1, <2>2 DEF ConvFor, ActiveConvs
    <2>4. d \in convs /\ d.owner = p /\ d.lastActive > now - TTL
        BY <2>1 DEF ActiveConvs
    <2>5. [c EXCEPT !.lastActive = now] = NewConv(p, c)
        BY <2>3, <2>4 DEF NewConv, IInv, TypeOK
    <2> QED
        BY <2>3, <2>4, <2>5 DEF Commit, Registers, Chosen, UserRow, NextRowid
<1> QED
    BY <1>1, <1>2

(* What a registration may assume. *)
LEMMA CommitServes ==
    ASSUME IInv, NEW p \in Participants, Commit(p)
    PROVE  LET s == serving[p]
           IN  /\ s.stage = "recording" /\ s.q \in Questions /\ owner[s.q] = p /\ ~Stored(s.q)
               /\ 1 <= s.now /\ s.now <= clock /\ 1 <= posted[s.q]
BY ConversationsAssumption DEF Commit, IInv, ServingInv, PostInv, WorkInv

(* what an answer writes *)
AnswerRow(p) == [id |-> Cardinality(rows) + 1, conv |-> serving[p].conv, q |-> serving[p].q,
                 role |-> "assistant", created |-> receipt[serving[p].q]]

(* What the saving of an answer may assume. *)
LEMMA SaveServes ==
    ASSUME IInv, NEW p \in Participants, SaveAnswer(p)
    PROVE  LET s == serving[p]
           IN  /\ s.q \in Questions /\ owner[s.q] = p /\ ~Answered(s.q)
               /\ 1 <= posted[s.q] /\ posted[s.q] <= receipt[s.q]
               /\ \E u \in rows : u.q = s.q /\ u.role = "user" /\ u.conv = s.conv
BY ConversationsAssumption DEF SaveAnswer, IInv, ServingInv, PostInv, WorkInv

(* Every step but these two leaves the tables as they are. *)
LEMMA TableSteps ==
    [Next]_vars =>
        \/ \E p \in Participants : Commit(p) \/ SaveAnswer(p)
        \/ UNCHANGED <<rows, convs, recordedAt>>
BY DEF Next, vars, Tick, Post, Begin, Receipt, BuildContext, GiveUp

(* The invariant holds for an empty database. *)
LEMMA InitIInv == Init => IInv
<1> SUFFICES ASSUME Init PROVE IInv
    OBVIOUS
<1>1. \A q \in Questions : ~Stored(q) /\ ~Answered(q)
    BY DEF Init, Stored, Answered
<1>2. TypeOK
    BY ConversationsAssumption, FS_CardinalityType DEF Init, TypeOK, Times, Idle
<1>3. TableInv
    <2>1. StoredSet = {} /\ AnsweredSet = {}
        BY <1>1 DEF StoredSet, AnsweredSet
    <2> QED
        BY <2>1, FS_EmptySet DEF Init, TableInv
<1>4. RowInv /\ ConvInv /\ ContextInv
    BY DEF Init, RowInv, ConvInv, ContextInv
<1>5. ServingInv
    BY DEF Init, ServingInv, PostInv, WorkInv, Idle
<1>6. ActivityInv
    BY <1>1 DEF ActivityInv, RunsInv, LastInv, Recorded
<1> QED
    BY <1>2, <1>3, <1>4, <1>5, <1>6 DEF IInv

(* the records of works in progress *)
Work == [q : Questions \cup {NoQuestion},
         stage : {"idle", "recording", "recorded", "accepted", "answering"},
         now : Times, conv : 0..Cardinality(Questions)]

(* Such is the record of a participant without work. *)
LEMMA IdleWork == TableInv => Idle \in Work
BY Room, ConversationsAssumption DEF Idle, Work, Times

(* Every step keeps the types: the row ids stay within what the questions allow. *)
LEMMA TypeNext == IInv /\ [Next]_vars => TypeOK'
<1> SUFFICES ASSUME IInv, [Next]_vars PROVE TypeOK'
    OBVIOUS
<1>0. TypeOK /\ TableInv
    BY DEF IInv
<1>a. MaxClock \in Nat \ {0}
    BY ConversationsAssumption
<1> USE <1>0, <1>a
<1>1. CASE Tick
    BY <1>1 DEF Tick, TypeOK, Times
<1>2. ASSUME NEW p \in Participants, NEW q \in Questions, Post(p, q) PROVE TypeOK'
    BY <1>2 DEF Post, TypeOK, Times
<1>3. ASSUME NEW p \in Participants, NEW q \in Questions, Begin(p, q) PROVE TypeOK'
    <2>1. [Idle EXCEPT !.q = q, !.stage = "recording", !.now = clock] \in Work
        <3>1. Idle \in Work /\ clock \in Times
            BY IdleWork DEF TypeOK, Times
        <3> QED
            BY <3>1 DEF Work
    <2>2. serving' \in [Participants -> Work]
        BY <1>3, <2>1 DEF Begin, TypeOK, Work
    <2> QED
        BY <1>3, <2>2 DEF Begin, TypeOK, Work
<1>4. ASSUME NEW p \in Participants, Commit(p) PROVE TypeOK'
    <2>1. PICK c : Registers(p, c)
        BY <1>4, CommitRegisters
    <2>2. /\ serving[p].q \in Questions /\ ~Stored(serving[p].q)
          /\ serving[p].now \in 1..MaxClock /\ posted[serving[p].q] \in 1..MaxClock
        BY <1>4, CommitServes, Typed DEF TypeOK, Times
    <2>3. c.id \in 1..Cardinality(Questions)
        BY <2>1, <2>2, Room DEF Registers, Chosen, TypeOK, TableInv
    <2>4. Cardinality(rows) + 1 \in 1..(2 * Cardinality(Questions))
        BY <2>2, Room DEF TableInv
    <2>5. convs' \subseteq [id : 1..Cardinality(Questions), owner : Participants,
                            lastActive : 1..MaxClock]
        BY <2>1, <2>2, <2>3 DEF Registers, NewConv, TypeOK
    <2>6. rows' \subseteq [id : 1..(2 * Cardinality(Questions)),
                           conv : 1..Cardinality(Questions), q : Questions,
                           role : {"user", "assistant"}, created : 1..MaxClock]
        BY <2>1, <2>2, <2>3, <2>4 DEF Registers, UserRow, TypeOK
    <2>7. serving' \in [Participants -> Work]
        <3>1. serving[p] \in Work /\ c.id \in 0..Cardinality(Questions)
            BY <2>3, Room DEF TypeOK, Work
        <3>2. [serving[p] EXCEPT !.stage = "recorded", !.conv = c.id] \in Work
            BY <3>1 DEF Work
        <3>3. serving' = [serving EXCEPT ![p] =
                             [serving[p] EXCEPT !.stage = "recorded", !.conv = c.id]]
            BY <2>1 DEF Registers
        <3> QED
            BY <3>2, <3>3 DEF TypeOK, Work
    <2>8. recordedAt' \in [Questions -> Times]
        BY <2>1, <2>2 DEF Registers, TypeOK, Times
    <2>9. context' \in [Questions -> SUBSET (rows' \X rows')]
        BY <2>1 DEF Registers, TypeOK
    <2> QED
        BY <2>1, <2>5, <2>6, <2>7, <2>8, <2>9 DEF Registers, TypeOK, Work
<1>5. ASSUME NEW p \in Participants, Receipt(p) PROVE TypeOK'
    <2>1. serving \in [Participants -> Work]
        BY DEF TypeOK, Work
    <2>2. receipt' \in [Questions -> Times]
        <3>1. receipt \in [Questions -> Times] /\ clock \in Times
            BY DEF TypeOK, Times
        <3> QED
            BY <1>5, <3>1 DEF Receipt
    <2>3. serving' = [serving EXCEPT ![p].stage = "accepted"]
        BY <1>5 DEF Receipt
    <2>4. serving' \in [Participants -> Work]
        BY <2>1, <2>3 DEF Work
    <2> QED
        BY <1>5, <2>2, <2>4 DEF Receipt, TypeOK, Work
<1>6. ASSUME NEW p \in Participants, BuildContext(p) PROVE TypeOK'
    <2>1. Selected(CompleteTurns(HistoryOf(serving[p].q))) \subseteq rows \X rows
        BY DEF Selected, CompleteTurns, HistoryOf
    <2> QED
        BY <1>6, <2>1 DEF BuildContext, TypeOK
<1>7. ASSUME NEW p \in Participants, SaveAnswer(p) PROVE TypeOK'
    <2>1. rows' = rows \cup {AnswerRow(p)}
        BY <1>7 DEF SaveAnswer, AnswerRow, NextRowid
    <2>2. /\ serving[p].q \in Questions /\ ~Answered(serving[p].q)
          /\ receipt[serving[p].q] \in 1..MaxClock
          /\ serving[p].conv \in 1..Cardinality(Questions)
        BY <1>7, SaveServes, Typed DEF TypeOK, Times
    <2>3. Cardinality(rows) + 1 \in 1..(2 * Cardinality(Questions))
        BY <2>2, Room DEF TableInv
    <2>4. rows' \subseteq [id : 1..(2 * Cardinality(Questions)),
                           conv : 1..Cardinality(Questions), q : Questions,
                           role : {"user", "assistant"}, created : 1..MaxClock]
        BY <2>1, <2>2, <2>3 DEF AnswerRow, TypeOK
    <2>5. context' \in [Questions -> SUBSET (rows' \X rows')]
        BY <1>7, <2>1 DEF SaveAnswer, TypeOK
    <2>6. serving' \in [Participants -> Work]
        BY <1>7, Room DEF SaveAnswer, TypeOK, Idle, Times, Work
    <2> QED
        BY <1>7, <2>4, <2>5, <2>6 DEF SaveAnswer, TypeOK, Work
<1>8. ASSUME NEW p \in Participants, GiveUp(p) PROVE TypeOK'
    BY <1>8, Room DEF GiveUp, TypeOK, Idle, Times
<1>9. CASE UNCHANGED vars
    BY <1>9 DEF vars, TypeOK
<1> QED
    BY <1>1, <1>2, <1>3, <1>4, <1>5, <1>6, <1>7, <1>8, <1>9 DEF Next

(* Every step keeps the ids unique and the tables small. *)
LEMMA TableNext == IInv /\ [Next]_vars => TableInv'
<1> SUFFICES ASSUME IInv, [Next]_vars PROVE TableInv'
    OBVIOUS
<1>0. TypeOK /\ TableInv
    BY DEF IInv
<1>1. ASSUME NEW p \in Participants, Commit(p) PROVE TableInv'
    <2>1. PICK c : Registers(p, c)
        BY <1>1, CommitRegisters
    <2> DEFINE q == serving[p].q
               u == UserRow(p, c)
               e == NewConv(p, c)
    <2>2. q \in Questions /\ ~Stored(q)
        BY <1>1, CommitServes
    <2>3. /\ u.id = Cardinality(rows) + 1 /\ u.q = q /\ u.role = "user"
          /\ e.id = c.id
        BY DEF UserRow, NewConv
    <2>4. /\ IsFiniteSet(rows') /\ Cardinality(rows') = Cardinality(rows) + 1
        <3>1. u \notin rows
            BY <1>0, <2>3, Room, Typed DEF TableInv
        <3> QED
            BY <1>0, <2>1, <3>1, FS_AddElement DEF Registers, TableInv
    <2>5. /\ \A r \in rows' : r.id <= Cardinality(rows')
          /\ \A r, s \in rows' : r.id = s.id => r = s
          /\ \A r, s \in rows' : r.q = s.q /\ r.role = s.role => r = s
        <3> HIDE DEF u, q
        <3>1. \A r \in rows' : r \in rows \/ r = u
            BY <2>1 DEF Registers, u
        <3>2. \A r \in rows : r.id < u.id /\ ~(r.q = q /\ r.role = "user")
            BY <1>0, <2>2, <2>3, Room, Typed DEF TableInv, Stored
        <3> QED
            BY <1>0, <2>3, <2>4, <3>1, <3>2, Room, Typed DEF TableInv
    <2>6. StoredSet' = StoredSet \cup {q} /\ q \notin StoredSet
        <3> HIDE DEF u, q
        <3>1. rows' = rows \cup {u}
            BY <2>1 DEF Registers, u
        <3> QED
            BY <2>2, <2>3, <3>1 DEF StoredSet, Stored
    <2>7. AnsweredSet' = AnsweredSet
        <3> HIDE DEF u, q
        <3>1. rows' = rows \cup {u}
            BY <2>1 DEF Registers, u
        <3> QED
            BY <2>3, <3>1 DEF AnsweredSet, Answered
    <2>8. Cardinality(StoredSet') = Cardinality(StoredSet) + 1
        BY <1>0, <2>6, Room, FS_AddElement
    <2>9. /\ IsFiniteSet(convs')
          /\ Cardinality(convs') \in {Cardinality(convs), Cardinality(convs) + 1}
          /\ \A d \in convs' : d.id <= Cardinality(convs')
          /\ \A d, f \in convs' : d.id = f.id => d = f
        <3> HIDE DEF e
        <3>1. convs' = (convs \ {c}) \cup {e}
            BY <2>1 DEF Registers, e
        <3>2. CASE c \in convs
            <4> DEFINE R == convs \ {c}
            <4>1. e \notin R
                BY <1>0, <2>3, <3>2 DEF TableInv
            <4>2. IsFiniteSet(R) /\ Cardinality(R) = Cardinality(convs) - 1
                BY <1>0, <3>2, FS_RemoveElement DEF TableInv
            <4>3. \A d \in R : d.id <= Cardinality(convs) /\ d.id # c.id
                BY <1>0, <3>2 DEF TableInv
            <4>4. \A d, f \in R : d.id = f.id => d = f
                BY <1>0 DEF TableInv
            <4>5. c.id <= Cardinality(convs)
                BY <1>0, <3>2 DEF TableInv
            <4> HIDE DEF R
            <4>6. /\ IsFiniteSet(R \cup {e})
                  /\ Cardinality(R \cup {e}) = Cardinality(R) + 1
                BY <4>1, <4>2, FS_AddElement
            <4>7. convs' = R \cup {e}
                BY <3>1 DEF R
            <4>8. IsFiniteSet(convs') /\ Cardinality(convs') = Cardinality(convs)
                BY <1>0, <4>2, <4>6, <4>7, Room
            <4> QED
                BY <2>3, <4>3, <4>4, <4>5, <4>7, <4>8
        <3>3. CASE c \notin convs
            <4>1. c.id = Cardinality(convs) + 1
                BY <2>1, <3>3 DEF Registers, Chosen
            <4>2. e \notin convs
                BY <1>0, <2>3, <4>1, Room, Typed DEF TableInv
            <4>3. convs' = convs \cup {e}
                BY <3>1, <3>3
            <4>4. IsFiniteSet(convs') /\ Cardinality(convs') = Cardinality(convs) + 1
                BY <1>0, <4>2, <4>3, FS_AddElement DEF TableInv
            <4> QED
                <5>1. \A d \in convs : d.id < e.id
                    BY <1>0, <2>3, <4>1, Room, Typed DEF TableInv
                <5>2. \A d, f \in convs : d.id = f.id => d = f
                    BY <1>0 DEF TableInv
                <5>3. \A d \in convs' : d \in convs \/ d = e
                    BY <4>3
                <5>4. e.id = Cardinality(convs')
                    BY <2>3, <4>1, <4>4
                <5>5. \A d \in convs : d.id \in Nat
                    BY <1>0, Typed
                <5>6. Cardinality(convs) \in Nat
                    BY <1>0, Room
                <5> QED
                    BY <4>4, <5>1, <5>2, <5>3, <5>4, <5>5, <5>6
        <3> QED
            BY <3>2, <3>3
    <2> QED
        BY <1>0, <2>4, <2>5, <2>7, <2>8, <2>9, Room DEF TableInv
<1>2. ASSUME NEW p \in Participants, SaveAnswer(p) PROVE TableInv'
    <2> DEFINE q == serving[p].q
               a == AnswerRow(p)
    <2>1. rows' = rows \cup {a} /\ convs' = convs
        BY <1>2 DEF SaveAnswer, AnswerRow, NextRowid
    <2>2. q \in Questions /\ ~Answered(q)
        BY <1>2, SaveServes
    <2>3. a.id = Cardinality(rows) + 1 /\ a.q = q /\ a.role = "assistant"
        BY DEF AnswerRow
    <2> HIDE DEF a, q
    <2>4. IsFiniteSet(rows') /\ Cardinality(rows') = Cardinality(rows) + 1
        <3>1. a \notin rows
            BY <1>0, <2>3, Room, Typed DEF TableInv
        <3> QED
            BY <1>0, <2>1, <3>1, FS_AddElement DEF TableInv
    <2>5. /\ \A r \in rows' : r.id <= Cardinality(rows')
          /\ \A r, s \in rows' : r.id = s.id => r = s
          /\ \A r, s \in rows' : r.q = s.q /\ r.role = s.role => r = s
        <3>1. \A r \in rows : r.id < a.id /\ ~(r.q = q /\ r.role = "assistant")
            BY <1>0, <2>2, <2>3, Room, Typed DEF TableInv, Answered
        <3> QED
            BY <1>0, <2>1, <2>3, <2>4, <3>1, Room, Typed DEF TableInv
    <2>6. StoredSet' = StoredSet
        BY <2>1, <2>3 DEF StoredSet, Stored
    <2>7. AnsweredSet' = AnsweredSet \cup {q} /\ q \notin AnsweredSet
        BY <2>1, <2>2, <2>3 DEF AnsweredSet, Answered
    <2>8. Cardinality(AnsweredSet') = Cardinality(AnsweredSet) + 1
        BY <1>0, <2>7, Room, FS_AddElement
    <2> QED
        BY <1>0, <2>1, <2>4, <2>5, <2>6, <2>8, Room DEF TableInv
<1>3. CASE UNCHANGED <<rows, convs, recordedAt>>
    <2>1. StoredSet' = StoredSet /\ AnsweredSet' = AnsweredSet
        BY <1>3 DEF StoredSet, AnsweredSet, Stored, Answered
    <2> QED
        BY <1>0, <1>3, <2>1 DEF TableInv
<1> QED
    BY <1>1, <1>2, <1>3, TableSteps

(* A row belongs to a question that was posted. *)
LEMMA RowsPosted ==
    ASSUME IInv, NEW r \in rows
    PROVE  posted[r.q] >= 1
<1>1. r.q \in Questions /\ r.role \in {"user", "assistant"}
    BY Typed DEF IInv
<1>2. PICK u \in rows : u.q = r.q /\ u.role = "user"
    BY <1>1 DEF IInv, RowInv
<1> QED
    BY <1>1, <1>2, Typed DEF IInv, RowInv

(* Every step keeps rows and conversations together. *)
LEMMA RowNext == IInv /\ [Next]_vars => RowInv'
<1> SUFFICES ASSUME IInv, [Next]_vars PROVE RowInv'
    OBVIOUS
<1>0. TypeOK /\ RowInv
    BY DEF IInv
<1>1. CASE UNCHANGED <<rows, convs, owner, posted, receipt>>
    BY <1>0, <1>1 DEF RowInv
<1>2. ASSUME NEW p \in Participants, NEW q \in Questions, Post(p, q) PROVE RowInv'
    <2>1. \A r \in rows : r.q # q
        BY <1>2, RowsPosted DEF Post
    <2>2. \A r \in rows :
            owner'[r.q] = owner[r.q] /\ posted'[r.q] = posted[r.q]
        BY <1>0, <1>2, <2>1, Typed DEF Post, TypeOK
    <2> QED
        BY <1>0, <1>2, <2>2 DEF Post, RowInv
<1>3. ASSUME NEW p \in Participants, Receipt(p) PROVE RowInv'
    <2>1. \A r \in rows : r.role = "assistant" => r.q # serving[p].q
        BY <1>3 DEF Receipt, IInv, ServingInv, WorkInv, Answered
    <2>2. \A r \in rows : r.role = "assistant" => receipt'[r.q] = receipt[r.q]
        BY <1>0, <1>3, <2>1, Typed DEF Receipt, TypeOK
    <2> QED
        BY <1>0, <1>3, <2>2 DEF Receipt, RowInv
<1>4. ASSUME NEW p \in Participants, Commit(p) PROVE RowInv'
    <2>1. PICK c : Registers(p, c)
        BY <1>4, CommitRegisters
    <2> DEFINE u == UserRow(p, c)
               e == NewConv(p, c)
    <2>2. /\ u.q = serving[p].q /\ u.role = "user" /\ u.conv = c.id
          /\ u.created = posted[u.q] /\ owner[u.q] = p
        BY <1>4, CommitServes DEF UserRow
    <2>3. e.id = c.id /\ e.owner = p
        BY DEF NewConv
    <2>4. /\ rows' = rows \cup {u} /\ convs' = (convs \ {c}) \cup {e}
          /\ c \in convs => c.owner = p
          /\ UNCHANGED <<owner, posted, receipt>>
        BY <2>1 DEF Registers, Chosen
    <2> HIDE DEF u, e
    <2>5. \A d \in convs : \E f \in convs' : f.id = d.id /\ f.owner = d.owner
        BY <2>3, <2>4
    <2>6. e \in convs'
        BY <2>4
    <2>7. ASSUME NEW r \in rows
          PROVE /\ \E d \in convs' : d.id = r.conv /\ d.owner = owner'[r.q]
                /\ r.role = "user" => r.created = posted'[r.q]
                /\ r.role = "assistant" =>
                     /\ r.created = receipt'[r.q] /\ posted'[r.q] <= receipt'[r.q]
                     /\ \E v \in rows' : /\ v.q = r.q /\ v.role = "user"
                                         /\ v.conv = r.conv /\ v.id < r.id
        BY <1>0, <2>4, <2>5, <2>7 DEF RowInv
    <2>8. /\ \E d \in convs' : d.id = u.conv /\ d.owner = owner'[u.q]
          /\ u.created = posted'[u.q]
        BY <2>2, <2>3, <2>4, <2>6
    <2> QED
        BY <2>2, <2>4, <2>7, <2>8 DEF RowInv
<1>5. ASSUME NEW p \in Participants, SaveAnswer(p) PROVE RowInv'
    <2> DEFINE a == AnswerRow(p)
    <2>1. rows' = rows \cup {a} /\ UNCHANGED <<convs, owner, posted, receipt>>
        BY <1>5 DEF SaveAnswer, AnswerRow, NextRowid
    <2>2. /\ a.id = Cardinality(rows) + 1 /\ a.q = serving[p].q /\ a.role = "assistant"
          /\ a.conv = serving[p].conv /\ a.created = receipt[a.q]
        BY DEF AnswerRow
    <2> HIDE DEF a
    <2>3. PICK u \in rows : u.q = a.q /\ u.role = "user" /\ u.conv = a.conv
        BY <1>5, <2>2, SaveServes
    <2>4. posted[a.q] <= receipt[a.q]
        BY <1>5, <2>2, SaveServes
    <2>5. u.id < a.id
        BY <2>2, Room, Typed DEF IInv, TableInv
    <2>6. \E d \in convs : d.id = a.conv /\ d.owner = owner[a.q]
        BY <1>0, <2>3 DEF RowInv
    <2> QED
        BY <1>0, <2>1, <2>2, <2>3, <2>4, <2>5, <2>6 DEF RowInv
<1> QED
    BY <1>1, <1>2, <1>3, <1>4, <1>5 DEF Next, vars, Tick, Begin, BuildContext, GiveUp

(* Every step keeps the conversations apart. *)
LEMMA ConvNext == IInv /\ [Next]_vars => ConvInv'
<1> SUFFICES ASSUME IInv, [Next]_vars PROVE ConvInv'
    OBVIOUS
<1>0. TypeOK /\ ConvInv
    BY DEF IInv
<1>1. CASE Tick
    BY <1>0, <1>1, Typed DEF Tick, ConvInv
<1>2. ASSUME NEW p \in Participants, NEW q \in Questions, Post(p, q) PROVE ConvInv'
    BY <1>0, <1>2 DEF Post, ConvInv
<1>3. ASSUME NEW p \in Participants, NEW q \in Questions, Begin(p, q) PROVE ConvInv'
    <2>1. /\ serving'[p].now = clock
          /\ \A k \in Participants : k # p => serving'[k] = serving[k]
        BY <1>0, <1>3 DEF Begin, TypeOK, Idle
    <2> QED
        BY <1>0, <1>3, <2>1, Typed DEF Begin, ConvInv
<1>4. ASSUME NEW p \in Participants, Commit(p) PROVE ConvInv'
    <2>1. PICK c : Registers(p, c)
        BY <1>4, CommitRegisters
    <2> DEFINE e == NewConv(p, c)
               now == serving[p].now
    <2>2. e.owner = p /\ e.lastActive = now
        BY DEF NewConv
    <2>3. /\ now <= clock /\ now \in Nat /\ clock' = clock
          /\ \A d \in convs : d.owner = p => d.lastActive <= now
        BY <1>0, <1>4, <2>1, CommitServes, Typed DEF ConvInv, Registers
    <2>4. /\ serving'[p].stage = "recorded"
          /\ \A k \in Participants : k # p => serving'[k] = serving[k]
        BY <1>0, <2>1 DEF Registers, TypeOK
    <2>5. convs' = (convs \ {c}) \cup {e}
        BY <2>1 DEF Registers
    <2>6. \A d \in convs : d.owner = p /\ d # c => d.lastActive + TTL <= now
        BY <1>0, <2>1, <2>3, Typed DEF Registers, Chosen, ConvInv
    <2> HIDE DEF e, now
    <2>7. \A d \in convs' : /\ d.lastActive <= clock'
                            /\ serving'[d.owner].stage = "recording" =>
                                 d.lastActive <= serving'[d.owner].now
        BY <1>0, <2>2, <2>3, <2>4, <2>5, Typed DEF ConvInv
    <2>8. \A d, f \in convs' : d.owner = f.owner /\ d # f =>
              d.lastActive + TTL <= f.lastActive \/ f.lastActive + TTL <= d.lastActive
        BY <1>0, <2>2, <2>5, <2>6 DEF ConvInv
    <2> QED
        BY <2>7, <2>8 DEF ConvInv
<1>5. ASSUME NEW p \in Participants, Receipt(p) \/ BuildContext(p) \/ SaveAnswer(p) \/ GiveUp(p)
      PROVE  ConvInv'
    <2>1. /\ serving'[p].stage # "recording"
          /\ \A k \in Participants : k # p => serving'[k] = serving[k]
          /\ UNCHANGED <<clock, convs>>
        BY <1>0, <1>5 DEF Receipt, BuildContext, SaveAnswer, GiveUp, TypeOK, Idle
    <2> QED
        BY <1>0, <2>1, Typed DEF ConvInv
<1>6. CASE UNCHANGED vars
    BY <1>0, <1>6 DEF vars, ConvInv
<1> QED
    BY <1>1, <1>2, <1>3, <1>4, <1>5, <1>6 DEF Next

(* Every step keeps works with questions of their own participant. *)
LEMMA ServingNext == IInv /\ [Next]_vars => ServingInv'
<1> SUFFICES ASSUME IInv, [Next]_vars PROVE ServingInv'
    OBVIOUS
<1>0. TypeOK /\ PostInv /\ \A p \in Participants : WorkInv(p)
    BY DEF IInv, ServingInv
<1>a. NoParticipant \notin Participants
    BY ConversationsAssumption
<1>b. clock \in Nat /\ clock >= 1
    BY <1>0 DEF TypeOK
<1>1. CASE Tick
    <2>1. PostInv'
        BY <1>0, <1>1, Typed DEF Tick, PostInv
    <2>2. ASSUME NEW p \in Participants PROVE WorkInv(p)'
        BY <1>0, <1>1, Typed DEF Tick, WorkInv, Answered
    <2> QED
        BY <2>1, <2>2 DEF ServingInv
<1>2. ASSUME NEW k \in Participants, NEW q \in Questions, Post(k, q) PROVE ServingInv'
    <2>1. PostInv'
        BY <1>0, <1>2, <1>b DEF Post, PostInv, TypeOK
    <2>2. ASSUME NEW p \in Participants PROVE WorkInv(p)'
        <3>1. serving[p].stage # "idle" => serving[p].q # q
            BY <1>0, <1>2, <1>a DEF Post, PostInv, WorkInv
        <3>2. serving[p].stage # "idle" =>
                 /\ owner'[serving[p].q] = owner[serving[p].q]
                 /\ posted'[serving[p].q] = posted[serving[p].q]
            BY <1>0, <1>2, <3>1 DEF Post, WorkInv, TypeOK
        <3> QED
            BY <1>0, <1>2, <3>2 DEF Post, WorkInv, Answered
    <2> QED
        BY <2>1, <2>2 DEF ServingInv
<1>3. ASSUME NEW k \in Participants, NEW q \in Questions, Begin(k, q) PROVE ServingInv'
    <2>1. PostInv'
        BY <1>0, <1>3 DEF Begin, PostInv
    <2>2. /\ serving'[k].q = q /\ serving'[k].stage = "recording" /\ serving'[k].now = clock
          /\ \A p \in Participants : p # k => serving'[p] = serving[p]
        BY <1>0, <1>3 DEF Begin, TypeOK, Idle
    <2>3. WorkInv(k)'
        BY <1>3, <1>b, <2>2 DEF Begin, WorkInv
    <2>4. ASSUME NEW p \in Participants, p # k PROVE WorkInv(p)'
        BY <1>0, <1>3, <2>2, <2>4 DEF Begin, WorkInv, Answered
    <2> QED
        BY <2>1, <2>3, <2>4 DEF ServingInv
<1>4. ASSUME NEW k \in Participants, Commit(k) PROVE ServingInv'
    <2>1. PICK c : Registers(k, c)
        BY <1>4, CommitRegisters
    <2> DEFINE u == UserRow(k, c)
    <2>2. PostInv'
        BY <1>0, <2>1 DEF Registers, PostInv
    <2>3. /\ serving'[k].q = serving[k].q /\ serving'[k].now = serving[k].now
          /\ serving'[k].stage = "recorded" /\ serving'[k].conv = c.id
          /\ \A p \in Participants : p # k => serving'[p] = serving[p]
        BY <1>0, <2>1 DEF Registers, TypeOK
    <2>4. /\ rows' = rows \cup {u} /\ u.q = serving[k].q /\ u.role = "user" /\ u.conv = c.id
          /\ UNCHANGED <<clock, owner, posted, receipt>>
        BY <2>1 DEF Registers, UserRow
    <2> HIDE DEF u
    <2>5. \A q \in Questions : Answered(q)' <=> Answered(q)
        BY <2>4 DEF Answered
    <2>6. ~Answered(serving[k].q)
        BY <1>4, CommitServes DEF IInv, RowInv, Answered, Stored
    <2>7. WorkInv(k)'
        BY <1>4, <2>3, <2>4, <2>5, <2>6, CommitServes DEF WorkInv
    <2>8. ASSUME NEW p \in Participants, p # k PROVE WorkInv(p)'
        BY <1>0, <2>3, <2>4, <2>5, <2>8 DEF WorkInv
    <2> QED
        BY <2>2, <2>7, <2>8 DEF ServingInv
<1>5. ASSUME NEW k \in Participants, Receipt(k) PROVE ServingInv'
    <2>1. PostInv'
        BY <1>0, <1>5 DEF Receipt, PostInv
    <2>2. /\ serving'[k].q = serving[k].q /\ serving'[k].now = serving[k].now
          /\ serving'[k].stage = "accepted" /\ serving'[k].conv = serving[k].conv
          /\ \A p \in Participants : p # k => serving'[p] = serving[p]
        BY <1>0, <1>5 DEF Receipt, TypeOK
    <2>3. serving[k].q \in Questions /\ owner[serving[k].q] = k
        BY <1>0, <1>5 DEF Receipt, WorkInv
    <2>4. receipt'[serving[k].q] = clock
        BY <1>0, <1>5, <2>3 DEF Receipt, TypeOK
    <2>5. posted[serving[k].q] <= clock
        BY <1>0, <2>3 DEF PostInv
    <2>6. WorkInv(k)'
        BY <1>0, <1>5, <2>2, <2>3, <2>4, <2>5 DEF Receipt, WorkInv, Answered
    <2>7. ASSUME NEW p \in Participants, p # k PROVE WorkInv(p)'
        <3>1. serving[p].stage # "idle" => receipt'[serving[p].q] = receipt[serving[p].q]
            BY <1>0, <1>5, <2>3, <2>7 DEF Receipt, WorkInv, TypeOK
        <3> QED
            BY <1>0, <1>5, <2>2, <2>7, <3>1 DEF Receipt, WorkInv, Answered
    <2> QED
        BY <2>1, <2>6, <2>7 DEF ServingInv
<1>6. ASSUME NEW k \in Participants, BuildContext(k) PROVE ServingInv'
    <2>1. PostInv'
        BY <1>0, <1>6 DEF BuildContext, PostInv
    <2>2. /\ serving'[k].q = serving[k].q /\ serving'[k].now = serving[k].now
          /\ serving'[k].stage = "answering" /\ serving'[k].conv = serving[k].conv
          /\ \A p \in Participants : p # k => serving'[p] = serving[p]
          /\ serving[k].stage = "accepted"
          /\ UNCHANGED <<clock, owner, posted, receipt, rows>>
        BY <1>0, <1>6 DEF BuildContext, TypeOK
    <2>3. ASSUME NEW p \in Participants PROVE WorkInv(p)'
        BY <1>0, <2>2 DEF WorkInv, Answered
    <2> QED
        BY <2>1, <2>3 DEF ServingInv
<1>7. ASSUME NEW k \in Participants, SaveAnswer(k) PROVE ServingInv'
    <2> DEFINE a == AnswerRow(k)
    <2>1. PostInv'
        BY <1>0, <1>7 DEF SaveAnswer, PostInv
    <2>2. /\ serving'[k].stage = "idle"
          /\ \A p \in Participants : p # k => serving'[p] = serving[p]
        BY <1>0, <1>7 DEF SaveAnswer, Idle, TypeOK
    <2>3. /\ rows' = rows \cup {a} /\ a.q = serving[k].q
          /\ UNCHANGED <<clock, owner, posted, receipt>>
        BY <1>7 DEF SaveAnswer, AnswerRow, NextRowid
    <2>4. owner[serving[k].q] = k
        BY <1>7, SaveServes
    <2> HIDE DEF a
    <2>5. ASSUME NEW p \in Participants, p # k PROVE WorkInv(p)'
        <3>1. serving[p].stage # "idle" => serving[p].q # a.q
            BY <1>0, <2>3, <2>4, <2>5 DEF WorkInv
        <3>2. serving[p].stage # "idle" => (Answered(serving[p].q)' <=> Answered(serving[p].q))
            BY <2>2, <2>3, <2>5, <3>1 DEF Answered
        <3> QED
            BY <1>0, <2>2, <2>3, <2>5, <3>2 DEF WorkInv
    <2> QED
        BY <2>1, <2>2, <2>5 DEF ServingInv, WorkInv
<1>8. ASSUME NEW k \in Participants, GiveUp(k) PROVE ServingInv'
    <2>1. PostInv'
        BY <1>0, <1>8 DEF GiveUp, PostInv
    <2>2. /\ serving'[k].stage = "idle"
          /\ \A p \in Participants : p # k => serving'[p] = serving[p]
        BY <1>0, <1>8 DEF GiveUp, Idle, TypeOK
    <2>3. ASSUME NEW p \in Participants PROVE WorkInv(p)'
        BY <1>0, <1>8, <2>2 DEF GiveUp, WorkInv, Answered
    <2> QED
        BY <2>1, <2>3 DEF ServingInv
<1>9. CASE UNCHANGED vars
    BY <1>0, <1>9 DEF vars, ServingInv, PostInv, WorkInv, Answered
<1> QED
    BY <1>1, <1>2, <1>3, <1>4, <1>5, <1>6, <1>7, <1>8, <1>9 DEF Next

(* A row that comes later does not come between the rows of a turn. *)
LEMMA TurnKept ==
    ASSUME IInv, NEW x, rows' = rows \cup {x}, x.id = Cardinality(rows) + 1,
           NEW q, NEW t, TurnInv(q, t)
    PROVE  TurnInv(q, t)'
<1>1. PICK u \in rows :
         /\ u.q = q /\ u.role = "user"
         /\ t[1].conv = u.conv /\ t[1].id < u.id
         /\ t[2].conv = u.conv /\ t[2].id < u.id
         /\ ~\E r \in rows : /\ r.conv = u.conv /\ r.id < u.id
                             /\ Precedes(t[1], r) /\ Precedes(r, t[2])
    BY DEF TurnInv
<1>2. ~(x.id < u.id)
    BY Room, Typed DEF IInv, TableInv
<1>3. ~\E r \in rows' : /\ r.conv = u.conv /\ r.id < u.id
                        /\ Precedes(t[1], r) /\ Precedes(r, t[2])
    BY <1>1, <1>2
<1> QED
    BY <1>1, <1>3 DEF TurnInv

(* Every step keeps the histories in the past of their questions. *)
LEMMA ContextNext == IInv /\ [Next]_vars => ContextInv'
<1> SUFFICES ASSUME IInv, [Next]_vars PROVE ContextInv'
    OBVIOUS
<1>0. TypeOK /\ ContextInv
    BY DEF IInv
<1>1. CASE UNCHANGED <<rows, context>>
    BY <1>0, <1>1 DEF ContextInv, TurnInv
<1>2. ASSUME NEW p \in Participants, Commit(p) PROVE ContextInv'
    <2>1. PICK c : Registers(p, c)
        BY <1>2, CommitRegisters
    <2>2. UserRow(p, c).id = Cardinality(rows) + 1
        BY DEF UserRow
    <2>3. rows' = rows \cup {UserRow(p, c)} /\ context' = context
        BY <2>1 DEF Registers
    <2> QED
        BY <1>0, <2>2, <2>3, TurnKept DEF ContextInv
<1>3. ASSUME NEW p \in Participants, SaveAnswer(p) PROVE ContextInv'
    <2>1. AnswerRow(p).id = Cardinality(rows) + 1
        BY DEF AnswerRow
    <2>2. rows' = rows \cup {AnswerRow(p)} /\ context' = context
        BY <1>3 DEF SaveAnswer, AnswerRow, NextRowid
    <2> QED
        BY <1>0, <2>1, <2>2, TurnKept DEF ContextInv
<1>4. ASSUME NEW p \in Participants, BuildContext(p) PROVE ContextInv'
    <2> DEFINE q == serving[p].q
    <2>1. q \in Questions /\ Stored(q)
        BY <1>4 DEF BuildContext, IInv, ServingInv, WorkInv, Stored
    <2>2. RowOf(q) \in rows /\ RowOf(q).q = q /\ RowOf(q).role = "user"
        BY <2>1, RowOfStored
    <2>3. ASSUME NEW t \in Selected(CompleteTurns(HistoryOf(q))) PROVE TurnInv(q, t)
        <3>1. t \in CompleteTurns(HistoryOf(q))
            BY DEF Selected
        <3> QED
            BY <2>2, <3>1 DEF CompleteTurns, HistoryOf, TurnInv
    <2>4. /\ rows' = rows
          /\ context' = [context EXCEPT ![q] = Selected(CompleteTurns(HistoryOf(q)))]
        BY <1>4 DEF BuildContext
    <2> HIDE DEF q
    <2>5. ASSUME NEW k \in Questions, NEW t \in context'[k] PROVE TurnInv(k, t)
        <3>1. CASE k = q
            BY <1>0, <2>1, <2>3, <2>4, <2>5, <3>1 DEF TypeOK
        <3>2. CASE k # q
            BY <1>0, <2>4, <2>5, <3>2 DEF TypeOK, ContextInv
        <3> QED
            BY <3>1, <3>2
    <2> QED
        BY <2>4, <2>5 DEF ContextInv, TurnInv
<1> QED
    BY <1>1, <1>2, <1>3, <1>4 DEF Next, vars, Tick, Post, Begin, Receipt, GiveUp

(* The registration order of stored questions does not change. *)
LEMMA RowOfKept ==
    ASSUME TableInv', rows \subseteq rows', NEW q, Stored(q)
    PROVE  RowOf(q)' = RowOf(q)
<1>1. RowOf(q) \in rows' /\ RowOf(q).q = q /\ RowOf(q).role = "user"
    BY RowOfStored
<1> QED
    BY <1>1 DEF RowOf, TableInv

(* A registration continues the participant's last conversation or opens one, as the time
   since the last question says. *)
LEMMA CommitContinues ==
    ASSUME IInv, NEW p \in Participants, Commit(p), NEW c, Registers(p, c),
           NEW q \in Recorded(p), \A x \in Recorded(p) : RowOf(x).id <= RowOf(q).id
    PROVE  RowOf(q).conv = c.id <=> serving[p].now - recordedAt[q] < TTL
<1>1. q \in Questions /\ owner[q] = p /\ Stored(q)
    BY DEF Recorded
<1>2. RowOf(q) \in rows /\ RowOf(q).q = q
    BY <1>1, RowOfStored
<1>3. PICK d \in convs : d.id = RowOf(q).conv /\ d.owner = p
    BY <1>1, <1>2 DEF IInv, RowInv
<1>4. d.lastActive = recordedAt[q]
    BY <1>3 DEF IInv, ActivityInv, LastInv
<1>5. /\ serving[p].now \in Nat /\ TTL \in Nat \ {0} /\ Cardinality(convs) \in Nat
      /\ \A f \in convs : f.id \in Nat /\ f.id <= Cardinality(convs) /\ f.lastActive \in Nat
    BY Room, Typed DEF IInv, TableInv
<1>6. \A f \in convs : f.owner = p => f.lastActive <= serving[p].now
    BY CommitServes DEF IInv, ConvInv
<1>7. CASE c \in convs
    <2>1. c.owner = p /\ c.lastActive > serving[p].now - TTL
        BY <1>7 DEF Registers, Chosen
    <2>2. d.id = c.id <=> d = c
        BY <1>3, <1>7 DEF IInv, TableInv
    <2>3. d # c => d.lastActive + TTL <= c.lastActive \/ c.lastActive + TTL <= d.lastActive
        BY <1>3, <1>7, <2>1 DEF IInv, ConvInv
    <2> QED
        BY <1>3, <1>4, <1>5, <1>6, <1>7, <2>1, <2>2, <2>3
<1>8. CASE c \notin convs
    <2>1. c.id = Cardinality(convs) + 1 /\ d.lastActive <= serving[p].now - TTL
        BY <1>3, <1>8 DEF Registers, Chosen
    <2> QED
        BY <1>3, <1>4, <1>5, <2>1
<1> QED
    BY <1>7, <1>8

(* Every step keeps conversations the runs of activity that they are. *)
LEMMA ActivityNext == IInv /\ [Next]_vars => ActivityInv'
<1> SUFFICES ASSUME IInv, TableInv', [Next]_vars PROVE ActivityInv'
    BY TableNext
<1>0. TypeOK /\ TableInv /\ ActivityInv
    BY DEF IInv
<1>a. \A q \in Questions : Stored(q) => owner'[q] = owner[q]
    <2>1. CASE \E p \in Participants, k \in Questions : Post(p, k)
        <3>1. PICK p \in Participants, k \in Questions : Post(p, k)
            BY <2>1
        <3>2. ~Stored(k)
            BY <3>1, RowsPosted DEF Post, Stored
        <3> QED
            BY <1>0, <3>1, <3>2 DEF Post, TypeOK
    <2>2. CASE owner' = owner
        BY <2>2
    <2> QED
        BY <2>1, <2>2 DEF Next, vars, Tick, Begin, Commit, Receipt, BuildContext,
           SaveAnswer,
           GiveUp
<1>1. ASSUME rows \subseteq rows', \A q \in Questions : Stored(q)' <=> Stored(q),
             UNCHANGED <<convs, recordedAt>>
      PROVE  ActivityInv'
    <2>1. ASSUME NEW p \in Participants PROVE RunsInv(p)' /\ LastInv(p)'
        <3>1. Recorded(p)' = Recorded(p)
            BY <1>1, <1>a DEF Recorded
        <3>2. \A q \in Recorded(p) : RowOf(q)' = RowOf(q)
            BY <1>1, RowOfKept DEF Recorded
        <3>3. RunsInv(p) /\ LastInv(p)
            BY <1>0 DEF ActivityInv
        <3> QED
            BY <1>1, <3>1, <3>2, <3>3 DEF RunsInv, LastInv
    <2> QED
        BY <2>1 DEF ActivityInv
<1>2. CASE UNCHANGED <<rows, convs, recordedAt>>
    BY <1>1, <1>2 DEF Stored
<1>3. ASSUME NEW p \in Participants, SaveAnswer(p) PROVE ActivityInv'
    <2>1. /\ rows' = rows \cup {AnswerRow(p)} /\ AnswerRow(p).role = "assistant"
          /\ UNCHANGED <<convs, recordedAt>>
        BY <1>3 DEF SaveAnswer, AnswerRow, NextRowid
    <2> QED
        BY <1>1, <2>1 DEF Stored
<1>4. ASSUME NEW p \in Participants, Commit(p) PROVE ActivityInv'
    <2>1. PICK c : Registers(p, c)
        BY <1>4, CommitRegisters
    <2>2. PICK q0 \in Questions : q0 = serving[p].q /\ owner[q0] = p /\ ~Stored(q0)
        BY <1>4, CommitServes
    <2>a. PICK u : u = UserRow(p, c)
        OBVIOUS
    <2>b. PICK e : e = NewConv(p, c)
        OBVIOUS
    <2>3. /\ u.q = q0 /\ u.role = "user" /\ u.conv = c.id /\ u.id = Cardinality(rows) + 1
          /\ e.id = c.id /\ e.lastActive = serving[p].now
        BY <2>2, <2>a, <2>b DEF UserRow, NewConv
    <2>4. /\ rows' = rows \cup {u} /\ convs' = (convs \ {c}) \cup {e}
          /\ recordedAt' = [recordedAt EXCEPT ![q0] = serving[p].now]
          /\ owner' = owner
        BY <2>1, <2>2, <2>a, <2>b DEF Registers
    <2>5. \A k \in Questions : k # q0 => recordedAt'[k] = recordedAt[k]
        BY <1>0, <2>4 DEF TypeOK
    <2>6. recordedAt'[q0] = serving[p].now
        BY <1>0, <2>2, <2>4 DEF TypeOK
    <2>7. \A k \in Questions : Stored(k)' <=> Stored(k) \/ k = q0
        BY <2>3, <2>4 DEF Stored
    <2>8. \A k : Stored(k) => RowOf(k)' = RowOf(k) /\ RowOf(k) \in rows
        BY <2>4, RowOfKept, RowOfStored
    <2>9. RowOf(q0)' = u
        BY <2>3, <2>4 DEF RowOf, TableInv
    <2>10. \A r \in rows : r.id \in Nat /\ r.id < u.id
        BY <1>0, <2>3, Room, Typed DEF TableInv
    <2>11. u.id \in Nat
        BY <1>0, <2>3, Room
    <2>12. ASSUME NEW k \in Participants, k # p PROVE RunsInv(k)' /\ LastInv(k)'
        <3>1. Recorded(k)' = Recorded(k) /\ q0 \notin Recorded(k)
            BY <2>2, <2>4, <2>7, <2>12 DEF Recorded
        <3>2. \A q \in Recorded(k) :
                /\ RowOf(q)' = RowOf(q) /\ recordedAt'[q] = recordedAt[q]
                /\ RowOf(q) \in rows /\ RowOf(q).q = q /\ owner[q] = k
            BY <2>5, <2>8, <3>1, RowOfStored DEF Recorded
        <3>3. RunsInv(k) /\ LastInv(k)
            BY <1>0 DEF ActivityInv
        <3>4. RunsInv(k)'
            BY <3>1, <3>2, <3>3 DEF RunsInv
        <3>5. ASSUME NEW q \in Recorded(k), NEW d \in convs', d.id = RowOf(q).conv
              PROVE  d \in convs
            <4>1. PICK f \in convs : f.id = RowOf(q).conv /\ f.owner = k
                BY <3>2 DEF IInv, RowInv
            <4>2. f.id # c.id
                <5>1. CASE c \in convs
                    BY <1>0, <2>1, <2>12, <4>1, <5>1 DEF TableInv, Registers, Chosen
                <5>2. CASE c \notin convs
                    BY <1>0, <2>1, <4>1, <5>2, Room, Typed DEF TableInv, Registers, Chosen
                <5> QED
                    BY <5>1, <5>2
            <4> QED
                BY <2>3, <2>4, <3>5, <4>1, <4>2
        <3>6. LastInv(k)'
            BY <3>1, <3>2, <3>3, <3>5 DEF LastInv
        <3> QED
            BY <3>4, <3>6
    <2>13. Recorded(p)' = Recorded(p) \cup {q0} /\ q0 \notin Recorded(p)
        BY <2>2, <2>4, <2>7 DEF Recorded
    <2>14. \A q \in Recorded(p) :
             /\ RowOf(q)' = RowOf(q) /\ recordedAt'[q] = recordedAt[q]
             /\ RowOf(q) \in rows
        BY <2>2, <2>5, <2>8 DEF Recorded
    <2>15. RunsInv(p) /\ LastInv(p)
        BY <1>0 DEF ActivityInv
    <2>16. RunsInv(p)'
        <3> SUFFICES ASSUME NEW q \in Recorded(p)', NEW r \in Recorded(p)',
                            RowOf(q)'.id < RowOf(r)'.id,
                            ~\E x \in Recorded(p)' : /\ RowOf(q)'.id < RowOf(x)'.id
                                                     /\ RowOf(x)'.id < RowOf(r)'.id
                     PROVE  RowOf(q)'.conv = RowOf(r)'.conv <=>
                              recordedAt'[r] - recordedAt'[q] < TTL
            BY DEF RunsInv
        <3>1. CASE q = q0
            BY <2>9, <2>10, <2>11, <2>13, <2>14, <3>1
        <3>2. CASE q # q0 /\ r # q0
            BY <2>13, <2>14, <2>15, <3>2 DEF RunsInv
        <3>3. CASE q # q0 /\ r = q0
            <4>1. q \in Recorded(p)
                BY <2>13, <3>3
            <4>2. \A x \in Recorded(p) : RowOf(x).id <= RowOf(q).id
                BY <2>9, <2>10, <2>13, <2>14, <3>3, <4>1
            <4>3. RowOf(q).conv = c.id <=> serving[p].now - recordedAt[q] < TTL
                BY <1>4, <2>1, <4>1, <4>2, CommitContinues
            <4> QED
                BY <2>3, <2>6, <2>9, <2>14, <3>3, <4>1, <4>3
        <3> QED
            BY <3>1, <3>2, <3>3
    <2>17. LastInv(p)'
        <3> SUFFICES ASSUME NEW q \in Recorded(p)',
                            \A x \in Recorded(p)' : RowOf(x)'.id <= RowOf(q)'.id,
                            NEW d \in convs', d.id = RowOf(q)'.conv
                     PROVE  d.lastActive = recordedAt'[q]
            BY DEF LastInv
        <3>1. q = q0
            BY <2>9, <2>10, <2>11, <2>13, <2>14
        <3>2. d.id = c.id
            BY <2>3, <2>9, <3>1
        <3>3. d = e
            BY <1>0, <2>1, <2>4, <3>2, Room, Typed DEF TableInv, Registers, Chosen
        <3> QED
            BY <2>3, <2>6, <3>1, <3>3
    <2>18. \A k \in Participants : RunsInv(k)' /\ LastInv(k)'
        BY <2>12, <2>16, <2>17
    <2> QED
        BY <2>18 DEF ActivityInv
<1> QED
    BY <1>2, <1>3, <1>4, TableSteps

-----------------------------------------------------------------------------
(* The invariant holds in every reachable state. *)
THEOREM InductiveInvariant == Spec => []IInv
<1>1. IInv /\ [Next]_vars => IInv'
    BY TypeNext, TableNext, RowNext, ConvNext, ServingNext, ActivityNext, ContextNext DEF
       IInv
<1> QED
    BY InitIInv, <1>1, PTL DEF Spec

(* Type correctness: row ids and conversation ids never exceed what the questions give rise
   to (schema.go). *)
THEOREM TypeCorrect == Spec => []TypeOK
<1>1. IInv => TypeOK
    BY DEF IInv
<1> QED
    BY InductiveInvariant, <1>1, PTL

(* Conversations are the maximal runs of activity of a participant, whatever the clock does
   between the start of a registration and its transaction (conversations.go,
   recordUserMessageOnce). *)
THEOREM ConversationsFollowActivity == Spec => []ConversationsAreActivityRuns
<1>1. IInv => ConversationsAreActivityRuns
    BY DEF IInv, ActivityInv, RunsInv, ConversationsAreActivityRuns
<1> QED
    BY InductiveInvariant, <1>1, PTL

(* What a turn of a history tells of its question's participant and of time. *)
LEMMA TurnFacts ==
    ASSUME IInv, NEW q \in Questions, NEW t \in context[q]
    PROVE  /\ owner[t[1].q] = owner[q] /\ owner[t[2].q] = owner[q]
           /\ t[1].q # q /\ t[2].q # q
           /\ t[1].id < RowOf(q).id /\ t[2].id < RowOf(q).id
           /\ t[1].q # t[2].q =>
                posted[t[2].q] <= posted[t[1].q] /\ posted[t[1].q] <= receipt[t[2].q]
<1> DEFINE r == t[1]
           a == t[2]
<1>1. TurnInv(q, t)
    BY DEF IInv, ContextInv
<1>2. PICK u \in rows :
         /\ u.q = q /\ u.role = "user"
         /\ r.conv = u.conv /\ r.id < u.id
         /\ a.conv = u.conv /\ a.id < u.id
         /\ ~\E x \in rows : x.conv = u.conv /\ x.id < u.id /\ Precedes(r, x) /\ Precedes(x, a)
    BY <1>1 DEF TurnInv
<1>3. /\ r \in rows /\ a \in rows /\ r.role = "user" /\ a.role = "assistant"
      /\ Precedes(r, a)
    BY <1>1 DEF TurnInv
<1> HIDE DEF r, a
<1>4. RowOf(q) = u
    BY <1>2, RowOfIs DEF IInv
<1>5. \A x \in rows : \E c \in convs : c.id = x.conv /\ c.owner = owner[x.q]
    BY DEF IInv, RowInv
<1>6. \A c, d \in convs : c.id = d.id => c = d
    BY DEF IInv, TableInv
<1>7. owner[r.q] = owner[q] /\ owner[a.q] = owner[q]
    BY <1>2, <1>3, <1>5, <1>6
<1>8. PICK v \in rows : v.q = a.q /\ v.role = "user" /\ v.conv = a.conv /\ v.id < a.id
    BY <1>3 DEF IInv, RowInv
<1>9. \A x \in rows : /\ x.id \in Nat /\ x.created \in Nat /\ x.q \in Questions
    BY Typed DEF IInv
<1>10. r.q # q
    BY <1>2, <1>3, <1>9 DEF IInv, TableInv
<1>11. a.q # q
    <2>1. a.q = q => v = u
        BY <1>2, <1>8 DEF IInv, TableInv
    <2> QED
        BY <1>2, <1>3, <1>8, <1>9, <2>1
<1>12. /\ r.created = posted[r.q] /\ v.created = posted[a.q]
       /\ a.created = receipt[a.q] /\ posted[a.q] <= receipt[a.q]
    BY <1>3, <1>8 DEF IInv, RowInv
<1>13. r.created <= a.created
    BY <1>3, <1>9 DEF Precedes
<1>14. v.created <= r.created
    <2>1. v.conv = u.conv /\ v.id < u.id
        BY <1>2, <1>3, <1>8, <1>9
    <2>2. Precedes(v, a)
        BY <1>3, <1>8, <1>9, <1>12 DEF Precedes
    <2>3. ~Precedes(r, v)
        BY <1>2, <2>1, <2>2
    <2> QED
        BY <1>3, <1>9, <2>3 DEF Precedes
<1> QED
    BY <1>2, <1>4, <1>7, <1>10, <1>11, <1>12, <1>13, <1>14 DEF r, a

(* The history given to the model is the participant's own past: nothing of another user,
   nothing of the question itself or of what was registered after it (history.go,
   LoadMessagesBefore). *)
THEOREM HistoryIsOwnPast == Spec => []ContextIsOwnPast
<1>1. IInv => ContextIsOwnPast
    BY TurnFacts DEF ContextIsOwnPast, ContextIsOwn, ContextIsPast
<1> QED
    BY InductiveInvariant, <1>1, PTL

(* Only turns that overlap in Discord can be paired wrongly (context_builder.go,
   completeTurns). *)
THEOREM MispairingNeedsOverlap == Spec => []MispairedOnlyIfOverlapping
<1>1. IInv => MispairedOnlyIfOverlapping
    BY TurnFacts DEF MispairedOnlyIfOverlapping
<1> QED
    BY InductiveInvariant, <1>1, PTL
=============================================================================
