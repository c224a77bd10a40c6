------------------------- MODULE SearchClientProofs -------------------------
(***************************************************************************)
(* Calls use open sessions, none is left open, and a crash of the server   *)
(* heals, for every finite set of calls, tools, slots and crashes.         *)
(***************************************************************************)
EXTENDS SearchClient, FiniteSetTheorems, TLAPS

Outcomes == {"none", "result", "context", "unavailable"}

Types ==
    /\ pc \in [Calls -> Places]
    /\ attempt \in [Calls -> 1..2]
    /\ slots \in Nat
    /\ readers \subseteq Calls
    /\ writer \in Calls \cup {Nobody}
    /\ opened \in Nat \ {0} /\ session \in 0..opened
    /\ open \in SUBSET Nat
    /\ mine \in [Calls -> Nat]
    /\ server \in [up : BOOLEAN, sessions : SUBSET Nat, tools : ToolLists \cup {Registry},
                   crashes : Nat]
    /\ expired \in [Calls -> BOOLEAN]
    /\ troubled \in [Calls -> BOOLEAN] /\ lost \in [Calls -> BOOLEAN]
    /\ result \in [Calls -> Outcomes]

Holding == {c \in Calls : Active(c) /\ pc[c] # "slot"}

SlotInv == slots = Cardinality(Holding) /\ slots <= McpSlots

(* Whoever holds the mutex for writing is past the draining of the readers, or waits for
   it, and no reader enters in the meantime. *)
LockInv ==
    /\ readers = {c \in Calls : InCall(c)}
    /\ \A c \in Calls : writer = c <=> pc[c] \in {"drain", "connect", "list"}
    /\ \A c \in Calls : pc[c] \in {"connect", "list"} => readers = {}

(* The session of the client stays the one that its readers use; the one that is made is
   another one, not known to anybody else; and there is a session while there is work. *)
SessionInv ==
    /\ \A c \in Calls : Active(c) => session # 0
    /\ \A c \in Calls : InCall(c) => mine[c] = session
    /\ \A c \in Calls : pc[c] = "list" => mine[c] \in 1..opened /\ mine[c] # session
    /\ open = ({session} \ {0}) \cup {mine[c] : c \in {d \in Calls : pc[d] = "list"}}

(* A call without trouble so far has its time, and once it has reconnected the session is
   alive, whoever replaced it since. *)
HealInv ==
    \A c \in Calls :
        /\ pc[c] = "idle" => ~expired[c] /\ attempt[c] = 1
        /\ result[c] # "none" <=> pc[c] = "done"
        /\ pc[c] # "idle" /\ expired[c] => troubled[c]
        /\ Active(c) /\ attempt[c] = 2 /\ ~troubled[c] =>
              server.up /\ session \in server.sessions
        /\ pc[c] = "done" /\ result[c] # "result" =>
              troubled[c] \/ (lost[c] /\ attempt[c] = 1)

(* The server knows only sessions that were made, none while it is down, and the client
   has the list of the session that it uses. *)
ServerInv ==
    /\ server.sessions \subseteq 1..opened
    /\ ~server.up => server.sessions = {}
    /\ ListIsCurrent

IInv == Types /\ SlotInv /\ LockInv /\ SessionInv /\ ServerInv /\ HealInv

-----------------------------------------------------------------------------
(* The invariant holds when the first call is made. *)
LEMMA InitIInv == Init => IInv
<1> SUFFICES ASSUME Init PROVE IInv
    OBVIOUS
<1>1. Types
    BY SearchClientAssumption DEF Init, Types, Places, Outcomes
<1>2. SlotInv
    <2>1. Holding = {}
        BY DEF Init, Holding, Active
    <2> QED
        BY <2>1, FS_EmptySet, SearchClientAssumption DEF Init, SlotInv
<1>3. LockInv
    BY SearchClientAssumption DEF Init, LockInv, InCall
<1>4. SessionInv
    BY DEF Init, SessionInv, Active, InCall
<1>5. HealInv
    BY DEF Init, HealInv, Active
<1>6. ServerInv
    BY DEF Init, ServerInv, ListIsCurrent
<1> QED
    BY <1>1, <1>2, <1>3, <1>4, <1>5, <1>6 DEF IInv

(* Only a call that holds a slot gives one back. *)
LEMMA SlotPositive ==
    ASSUME Types, SlotInv, NEW c \in Holding
    PROVE  /\ IsFiniteSet(Holding) /\ slots \in Nat \ {0}
           /\ Cardinality(Holding \ {c}) = slots - 1
<1>1. IsFiniteSet(Holding)
    BY FS_Subset, SearchClientAssumption DEF Holding
<1>2. Cardinality(Holding) # 0
    BY <1>1, FS_EmptySet
<1>3. Cardinality(Holding \ {c}) = Cardinality(Holding) - 1
    BY <1>1, FS_RemoveElement
<1> QED
    BY <1>1, <1>2, <1>3 DEF Types, SlotInv

(* Every step keeps the types. *)
LEMMA TypeNext == IInv /\ [Next]_vars => Types'
<1> SUFFICES ASSUME IInv, [Next]_vars PROVE Types'
    OBVIOUS
<1>0. Types /\ SlotInv
    BY DEF IInv
<1>10. ASSUME NEW c \in Calls, Active(c), pc[c] # "slot" PROVE slots - 1 \in Nat
    <2>1. c \in Holding
        BY <1>10 DEF Holding
    <2>2. slots \in Nat \ {0}
        BY <1>0, <2>1, SlotPositive
    <2> QED
        BY <2>2
<1> USE <1>0 DEF Types, Places, Outcomes, client, lock, history
<1>1. CASE Crash
    <2>1. server' = [up |-> FALSE, sessions |-> {}, tools |-> server.tools,
                     crashes |-> server.crashes + 1]
        BY <1>1 DEF Crash
    <2>2. server.crashes + 1 \in Nat
        OBVIOUS
    <2> QED
        BY <1>1, <2>1, <2>2 DEF Crash
<1>2. CASE Recover
    BY <1>2 DEF Recover
<1>3. CASE Close
    BY <1>3 DEF Close
<1>4. CASE UNCHANGED vars
    BY <1>4 DEF vars
<1>5. ASSUME NEW c \in Calls, Expire(c) \/ Start(c) \/ Step(c) PROVE Types'
    <2>1. CASE Expire(c)
        BY <2>1 DEF Expire, Active
    <2>2. CASE Start(c)
        BY <2>2 DEF Start, Goto
    <2>3. CASE TakeSlot(c)
        BY <2>3 DEF TakeSlot, Goto
    <2>4. CASE NoSlot(c)
        BY <2>4 DEF NoSlot, Goto
    <2>5. CASE BeginCall(c)
        BY <2>5 DEF BeginCall, Goto
    <2>6. CASE Reject(c)
        <3>1. slots - 1 \in Nat
            BY <2>6, <1>10 DEF Reject, Active
        <3> QED
            BY <2>6, <3>1 DEF Reject, Goto, Return
    <2>7. CASE Serve(c)
        BY <2>7 DEF Serve, Goto
    <2>8. CASE CallReturns(c)
        <3>1. slots - 1 \in Nat
            BY <2>8, <1>10 DEF CallReturns, Active
        <3> QED
            BY <2>8, <3>1 DEF CallReturns, Goto, Return, RUnlock
    <2>9. CASE CallIsCut(c)
        <3>1. slots - 1 \in Nat
            BY <2>9, <1>10 DEF CallIsCut, Active, InCall
        <3> QED
            BY <2>9, <3>1 DEF CallIsCut, Goto, Return, RUnlock, InCall
    <2>10. CASE TransportFails(c)
        <3>1. slots - 1 \in Nat
            BY <2>10, <1>10 DEF TransportFails, Active, InCall
        <3> QED
            BY <2>10, <3>1 DEF TransportFails, Goto, Return, RUnlock, InCall, Alive
    <2>11. CASE Delay(c)
        <3>1. slots - 1 \in Nat
            BY <2>11, <1>10 DEF Delay, Active
        <3> QED
            BY <2>11, <3>1 DEF Delay, Goto, Return
    <2>12. CASE AskLock(c)
        BY <2>12 DEF AskLock, Goto
    <2>13. CASE Drain(c)
        BY <2>13 DEF Drain, Goto
    <2>14. CASE Connect(c)
        BY <2>14 DEF Connect, Goto
    <2>15. CASE ConnectFails(c)
        <3>1. slots - 1 \in Nat
            BY <2>15, <1>10 DEF ConnectFails, Active
        <3> QED
            BY <2>15, <3>1 DEF ConnectFails, Goto, Return
    <2>16. CASE Replace(c)
        <3>1. server' = [up |-> server.up, sessions |-> server.sessions \ {session},
                         tools |-> server.tools, crashes |-> server.crashes]
            BY <2>16 DEF Replace
        <3>2. mine[c] \in 0..opened
            BY <2>16 DEF Replace, IInv, SessionInv
        <3> QED
            BY <2>16, <3>1, <3>2 DEF Replace, Goto
    <2>17. CASE ListFails(c)
        <3>1. slots - 1 \in Nat
            BY <2>17, <1>10 DEF ListFails, Active
        <3> QED
            BY <2>17, <3>1 DEF ListFails, Goto, Return
    <2>18. CASE CallFails(c)
        <3>1. slots - 1 \in Nat
            BY <2>18, <1>10 DEF CallFails, Active, InCall
        <3> QED
            BY <2>18, <3>1 DEF CallFails, Goto, Return, RUnlock, InCall, Alive
    <2> QED
        BY <1>5, <2>1, <2>2, <2>3, <2>4, <2>5, <2>6, <2>7, <2>8, <2>9, <2>10, <2>11, <2>12,
           <2>13, <2>14, <2>15, <2>16, <2>17, <2>18 DEF Step, Answered, Reconnect
<1> QED
    BY <1>1, <1>2, <1>3, <1>4, <1>5 DEF Next, Closed

(* Slots are taken and given back one by one. *)
LEMMA SlotNext == IInv /\ [Next]_vars => SlotInv'
<1> SUFFICES ASSUME IInv, [Next]_vars PROVE SlotInv'
    OBVIOUS
<1>0. Types /\ SlotInv
    BY DEF IInv
<1>10. ASSUME Holding' = Holding, slots' = slots PROVE SlotInv'
    BY <1>0, <1>10 DEF SlotInv
<1>11. ASSUME NEW c \in Holding, Holding' = Holding \ {c}, slots' = slots - 1
       PROVE  SlotInv'
    BY <1>0, <1>11, SlotPositive, SearchClientAssumption DEF SlotInv
<1> USE DEF Types, Places, Holding, Active
<1>1. CASE Crash
    <2>1. Holding' = Holding /\ slots' = slots
        BY <1>1, <1>0 DEF Crash, lock, client
    <2> QED
        BY <1>10, <2>1
<1>2. CASE Recover
    <2>1. Holding' = Holding /\ slots' = slots
        BY <1>2, <1>0 DEF Recover, lock, client
    <2> QED
        BY <1>10, <2>1
<1>3. CASE Close
    <2>1. Holding' = Holding /\ slots' = slots
        BY <1>3, <1>0 DEF Close, lock, client
    <2> QED
        BY <1>10, <2>1
<1>4. CASE UNCHANGED vars
    <2>1. Holding' = Holding /\ slots' = slots
        BY <1>4 DEF vars
    <2> QED
        BY <1>10, <2>1
<1>5. ASSUME NEW c \in Calls, Expire(c) \/ Start(c) \/ Step(c) PROVE SlotInv'
    <2>1. CASE Expire(c)
        <3>1. Holding' = Holding /\ slots' = slots
            BY <2>1, <1>0 DEF Expire, lock, client
        <3> QED
            BY <1>10, <3>1
    <2>2. CASE Start(c)
        <3>1. Holding' = Holding /\ slots' = slots
            BY <2>2, <1>0 DEF Start, Goto, lock, client
        <3> QED
            BY <1>10, <3>1
    <2>3. CASE TakeSlot(c)
        <3>1. Holding' = Holding \cup {c} /\ c \notin Holding
            BY <2>3, <1>0 DEF TakeSlot, Goto
        <3>2. IsFiniteSet(Holding)
            BY FS_Subset, SearchClientAssumption
        <3>3. Cardinality(Holding') = Cardinality(Holding) + 1
            BY <3>1, <3>2, FS_AddElement
        <3>4. slots' = slots + 1 /\ slots < McpSlots /\ slots = Cardinality(Holding)
            BY <2>3, <1>0 DEF TakeSlot, SlotInv
        <3> HIDE DEF Holding
        <3> QED
            BY <1>0, <3>3, <3>4, SearchClientAssumption DEF SlotInv
    <2>4. CASE NoSlot(c)
        <3>1. Holding' = Holding /\ slots' = slots
            BY <2>4, <1>0 DEF NoSlot, Goto, lock, client
        <3> QED
            BY <1>10, <3>1
    <2>5. CASE BeginCall(c)
        <3>1. Holding' = Holding /\ slots' = slots
            BY <2>5, <1>0 DEF BeginCall, Goto, lock, client
        <3> QED
            BY <1>10, <3>1
    <2>6. CASE Reject(c)
        <3>1. c \in Holding /\ slots' = slots - 1 /\ pc' = [pc EXCEPT ![c] = "done"]
            BY <2>6, <1>0 DEF Reject, Return, Goto
        <3>2. Holding' = Holding \ {c}
            BY <1>0, <3>1
        <3> QED
            BY <1>11, <3>1, <3>2
    <2>7. CASE Serve(c)
        <3>1. Holding' = Holding /\ slots' = slots
            BY <2>7, <1>0 DEF Serve, Goto, lock, client
        <3> QED
            BY <1>10, <3>1
    <2>8. CASE CallReturns(c)
        <3>1. c \in Holding /\ slots' = slots - 1 /\ pc' = [pc EXCEPT ![c] = "done"]
            BY <2>8, <1>0 DEF CallReturns, Return, Goto
        <3>2. Holding' = Holding \ {c}
            BY <1>0, <3>1
        <3> QED
            BY <1>11, <3>1, <3>2
    <2>9. CASE CallIsCut(c)
        <3>1. c \in Holding /\ slots' = slots - 1 /\ pc' = [pc EXCEPT ![c] = "done"]
            BY <2>9, <1>0 DEF CallIsCut, InCall, Return, Goto
        <3>2. Holding' = Holding \ {c}
            BY <1>0, <3>1
        <3> QED
            BY <1>11, <3>1, <3>2
    <2>10. CASE TransportFails(c)
        <3>1. CASE attempt[c] = 1
            <4>1. Holding' = Holding /\ slots' = slots
                BY <2>10, <1>0, <3>1 DEF TransportFails, InCall, Goto
            <4> QED
                BY <1>10, <4>1
        <3>2. CASE attempt[c] # 1
            <4>1. c \in Holding /\ slots' = slots - 1 /\ pc' = [pc EXCEPT ![c] = "done"]
                BY <2>10, <1>0, <3>2 DEF TransportFails, InCall, Return, Goto
            <4>2. Holding' = Holding \ {c}
                BY <1>0, <4>1
            <4> QED
                BY <1>11, <4>1, <4>2
        <3> QED
            BY <3>1, <3>2
    <2>11. CASE Delay(c)
        <3>1. CASE Goto(c, "lock") /\ UNCHANGED <<slots, result>>
            <4>1. Holding' = Holding /\ slots' = slots
                BY <2>11, <1>0, <3>1 DEF Delay, Goto
            <4> QED
                BY <1>10, <4>1
        <3>2. CASE Return(c, "context")
            <4>1. c \in Holding /\ slots' = slots - 1 /\ pc' = [pc EXCEPT ![c] = "done"]
                BY <2>11, <1>0, <3>2 DEF Delay, Return, Goto
            <4>2. Holding' = Holding \ {c}
                BY <1>0, <4>1
            <4> QED
                BY <1>11, <4>1, <4>2
        <3> QED
            BY <2>11, <3>1, <3>2 DEF Delay
    <2>12. CASE AskLock(c)
        <3>1. Holding' = Holding /\ slots' = slots
            BY <2>12, <1>0 DEF AskLock, Goto, lock, client
        <3> QED
            BY <1>10, <3>1
    <2>13. CASE Drain(c)
        <3>1. Holding' = Holding /\ slots' = slots
            BY <2>13, <1>0 DEF Drain, Goto, lock, client
        <3> QED
            BY <1>10, <3>1
    <2>14. CASE Connect(c)
        <3>1. Holding' = Holding /\ slots' = slots
            BY <2>14, <1>0 DEF Connect, Goto, lock, client
        <3> QED
            BY <1>10, <3>1
    <2>15. CASE ConnectFails(c)
        <3>1. c \in Holding /\ slots' = slots - 1 /\ pc' = [pc EXCEPT ![c] = "done"]
            BY <2>15, <1>0 DEF ConnectFails, Return, Goto
        <3>2. Holding' = Holding \ {c}
            BY <1>0, <3>1
        <3> QED
            BY <1>11, <3>1, <3>2
    <2>16. CASE Replace(c)
        <3>1. Holding' = Holding /\ slots' = slots
            BY <2>16, <1>0 DEF Replace, Goto, lock, client
        <3> QED
            BY <1>10, <3>1
    <2>17. CASE ListFails(c)
        <3>1. c \in Holding /\ slots' = slots - 1 /\ pc' = [pc EXCEPT ![c] = "done"]
            BY <2>17, <1>0 DEF ListFails, Return, Goto
        <3>2. Holding' = Holding \ {c}
            BY <1>0, <3>1
        <3> QED
            BY <1>11, <3>1, <3>2
    <2>18. CASE CallFails(c)
        <3>1. c \in Holding /\ slots' = slots - 1 /\ pc' = [pc EXCEPT ![c] = "done"]
            BY <2>18, <1>0 DEF CallFails, InCall, Return, Goto
        <3>2. Holding' = Holding \ {c}
            BY <1>0, <3>1
        <3> QED
            BY <1>11, <3>1, <3>2
    <2> QED
        BY <1>5, <2>1, <2>2, <2>3, <2>4, <2>5, <2>6, <2>7, <2>8, <2>9, <2>10, <2>11, <2>12,
           <2>13, <2>14, <2>15, <2>16, <2>17, <2>18 DEF Step, Answered, Reconnect
<1> QED
    BY <1>1, <1>2, <1>3, <1>4, <1>5 DEF Next, Closed

(* Readers and writers keep to the mutex. *)
LEMMA LockNext == IInv /\ [Next]_vars => LockInv'
<1> SUFFICES ASSUME IInv, [Next]_vars PROVE LockInv'
    OBVIOUS
<1>0. Types /\ LockInv
    BY DEF IInv
<1> USE <1>0, SearchClientAssumption DEF Types, Places, LockInv, InCall, lock, history
<1>1. CASE Crash
    BY <1>1 DEF Crash
<1>2. CASE Recover
    BY <1>2 DEF Recover
<1>3. CASE Close
    BY <1>3 DEF Close
<1>4. CASE UNCHANGED vars
    BY <1>4 DEF vars
<1>5. ASSUME NEW c \in Calls, Expire(c) \/ Start(c) \/ Step(c) PROVE LockInv'
    <2>1. CASE Expire(c)
        BY <2>1 DEF Expire
    <2>2. CASE Start(c)
        BY <2>2 DEF Start, Goto
    <2>3. CASE TakeSlot(c)
        BY <2>3 DEF TakeSlot, Goto
    <2>4. CASE NoSlot(c)
        BY <2>4 DEF NoSlot, Goto
    <2>5. CASE BeginCall(c)
        BY <2>5 DEF BeginCall, Goto
    <2>6. CASE Reject(c)
        BY <2>6 DEF Reject, Goto, Return
    <2>7. CASE Serve(c)
        BY <2>7 DEF Serve, Goto
    <2>8. CASE CallReturns(c)
        BY <2>8 DEF CallReturns, Goto, Return, RUnlock
    <2>9. CASE CallIsCut(c)
        BY <2>9 DEF CallIsCut, Goto, Return, RUnlock
    <2>10. CASE TransportFails(c)
        BY <2>10 DEF TransportFails, Goto, Return, RUnlock
    <2>11. CASE Delay(c)
        BY <2>11 DEF Delay, Goto, Return
    <2>12. CASE AskLock(c)
        BY <2>12 DEF AskLock, Goto
    <2>13. CASE Drain(c)
        BY <2>13 DEF Drain, Goto
    <2>14. CASE Connect(c)
        BY <2>14 DEF Connect, Goto
    <2>15. CASE ConnectFails(c)
        BY <2>15 DEF ConnectFails, Goto, Return
    <2>16. CASE Replace(c)
        BY <2>16 DEF Replace, Goto
    <2>17. CASE ListFails(c)
        BY <2>17 DEF ListFails, Goto, Return
    <2>18. CASE CallFails(c)
        BY <2>18 DEF CallFails, Goto, Return, RUnlock
    <2> QED
        BY <1>5, <2>1, <2>2, <2>3, <2>4, <2>5, <2>6, <2>7, <2>8, <2>9, <2>10, <2>11, <2>12,
           <2>13, <2>14, <2>15, <2>16, <2>17, <2>18 DEF Step, Answered, Reconnect
<1> QED
    BY <1>1, <1>2, <1>3, <1>4, <1>5 DEF Next, Closed

(* The session is replaced only when nobody uses it, and closed only when nobody works. *)
LEMMA SessionNext == IInv /\ [Next]_vars => SessionInv'
<1> SUFFICES ASSUME IInv, [Next]_vars PROVE SessionInv'
    OBVIOUS
<1>0. Types /\ LockInv /\ SessionInv
    BY DEF IInv
<1> USE <1>0, SearchClientAssumption DEF Types, Places, LockInv, SessionInv, InCall, Active,
        client, lock, history
<1>1. CASE Crash
    BY <1>1 DEF Crash
<1>2. CASE Recover
    BY <1>2 DEF Recover
<1>3. CASE Close
    BY <1>3 DEF Close
<1>4. CASE UNCHANGED vars
    BY <1>4 DEF vars
<1>5. ASSUME NEW c \in Calls, Expire(c) \/ Start(c) \/ Step(c) PROVE SessionInv'
    <2>1. CASE Expire(c)
        BY <2>1 DEF Expire
    <2>2. CASE Start(c)
        BY <2>2 DEF Start, Goto
    <2>3. CASE TakeSlot(c)
        BY <2>3 DEF TakeSlot, Goto
    <2>4. CASE NoSlot(c)
        BY <2>4 DEF NoSlot, Goto
    <2>5. CASE BeginCall(c)
        BY <2>5 DEF BeginCall, Goto, Usable
    <2>6. CASE Reject(c)
        BY <2>6 DEF Reject, Goto, Return
    <2>7. CASE Serve(c)
        BY <2>7 DEF Serve, Goto
    <2>8. CASE CallReturns(c)
        BY <2>8 DEF CallReturns, Goto, Return, RUnlock
    <2>9. CASE CallIsCut(c)
        BY <2>9 DEF CallIsCut, Goto, Return, RUnlock
    <2>10. CASE TransportFails(c)
        BY <2>10 DEF TransportFails, Goto, Return, RUnlock
    <2>11. CASE Delay(c)
        BY <2>11 DEF Delay, Goto, Return
    <2>12. CASE AskLock(c)
        BY <2>12 DEF AskLock, Goto
    <2>13. CASE Drain(c)
        BY <2>13 DEF Drain, Goto
    <2>14. CASE Connect(c)
        BY <2>14 DEF Connect, Goto
    <2>15. CASE ConnectFails(c)
        BY <2>15 DEF ConnectFails, Goto, Return
    <2>16. CASE Replace(c)
        BY <2>16 DEF Replace, Goto
    <2>17. CASE ListFails(c)
        BY <2>17 DEF ListFails, Goto, Return
    <2>18. CASE CallFails(c)
        BY <2>18 DEF CallFails, Goto, Return, RUnlock
    <2> QED
        BY <1>5, <2>1, <2>2, <2>3, <2>4, <2>5, <2>6, <2>7, <2>8, <2>9, <2>10, <2>11, <2>12,
           <2>13, <2>14, <2>15, <2>16, <2>17, <2>18 DEF Step, Answered, Reconnect
<1> QED
    BY <1>1, <1>2, <1>3, <1>4, <1>5 DEF Next, Closed

(* The tool list changes together with the session, and the server's only in a crash. *)
LEMMA ServerNext == IInv /\ [Next]_vars => ServerInv'
<1> SUFFICES ASSUME IInv, [Next]_vars PROVE ServerInv'
    OBVIOUS
<1>0. Types /\ LockInv /\ SessionInv /\ ServerInv
    BY DEF IInv
<1> USE <1>0 DEF Types, ServerInv, ListIsCurrent, client, lock, history
<1>1. CASE Crash
    BY <1>1 DEF Crash
<1>2. CASE Recover
    BY <1>2 DEF Recover
<1>3. CASE Close
    BY <1>3 DEF Close
<1>4. CASE UNCHANGED vars
    BY <1>4 DEF vars
<1>5. ASSUME NEW c \in Calls, Expire(c) \/ Start(c) \/ Step(c) PROVE ServerInv'
    <2>1. CASE Expire(c)
        BY <2>1 DEF Expire
    <2>2. CASE Start(c)
        BY <2>2 DEF Start
    <2>3. CASE TakeSlot(c)
        BY <2>3 DEF TakeSlot
    <2>4. CASE NoSlot(c)
        BY <2>4 DEF NoSlot
    <2>5. CASE BeginCall(c)
        BY <2>5 DEF BeginCall
    <2>6. CASE Reject(c)
        BY <2>6 DEF Reject
    <2>7. CASE Serve(c)
        BY <2>7 DEF Serve
    <2>8. CASE CallReturns(c)
        BY <2>8 DEF CallReturns
    <2>9. CASE CallIsCut(c)
        BY <2>9 DEF CallIsCut
    <2>10. CASE TransportFails(c)
        BY <2>10 DEF TransportFails
    <2>11. CASE Delay(c)
        BY <2>11 DEF Delay
    <2>12. CASE AskLock(c)
        BY <2>12 DEF AskLock
    <2>13. CASE Drain(c)
        BY <2>13 DEF Drain
    <2>14. CASE Connect(c)
        BY <2>14 DEF Connect
    <2>15. CASE ConnectFails(c)
        BY <2>15 DEF ConnectFails
    <2>16. CASE Replace(c)
        BY <2>16 DEF Replace, Alive, SessionInv, Places
    <2>17. CASE ListFails(c)
        BY <2>17 DEF ListFails, SessionInv
    <2>18. CASE CallFails(c)
        BY <2>18 DEF CallFails
    <2> QED
        BY <1>5, <2>1, <2>2, <2>3, <2>4, <2>5, <2>6, <2>7, <2>8, <2>9, <2>10, <2>11, <2>12,
           <2>13, <2>14, <2>15, <2>16, <2>17, <2>18 DEF Step, Answered, Reconnect
<1> QED
    BY <1>1, <1>2, <1>3, <1>4, <1>5 DEF Next, Closed

(* What may go wrong after a reconnection is trouble. *)
LEMMA HealNext == IInv /\ [Next]_vars => HealInv'
<1> SUFFICES ASSUME IInv, [Next]_vars PROVE HealInv'
    OBVIOUS
<1>0. Types /\ LockInv /\ SessionInv /\ ServerInv /\ HealInv
    BY DEF IInv
<1> USE <1>0 DEF Types, Places, Outcomes, HealInv, Active, client, lock, history
<1>1. CASE Crash
    BY <1>1 DEF Crash
<1>2. CASE Recover
    BY <1>2 DEF Recover
<1>3. CASE Close
    <2>1. UNCHANGED <<pc, attempt, expired, result, troubled, lost>>
        BY <1>3 DEF Close
    <2>2. \A c \in Calls : pc[c] \in {"idle", "done"}
        BY <1>3 DEF Close
    <2>3. server' = [up |-> server.up, sessions |-> server.sessions \ {session},
                     tools |-> server.tools, crashes |-> server.crashes]
        BY <1>3 DEF Close
    <2> QED
        BY <2>1, <2>2, <2>3
<1>4. CASE UNCHANGED vars
    BY <1>4 DEF vars
<1>5. ASSUME NEW c \in Calls, Expire(c) \/ Start(c) \/ Step(c) PROVE HealInv'
    <2>1. CASE Expire(c)
        BY <2>1 DEF Expire
    <2>2. CASE Start(c)
        BY <2>2 DEF Start, Goto
    <2>3. CASE TakeSlot(c)
        BY <2>3 DEF TakeSlot, Goto
    <2>4. CASE NoSlot(c)
        BY <2>4 DEF NoSlot, Goto
    <2>5. CASE BeginCall(c)
        BY <2>5 DEF BeginCall, Goto
    <2>6. CASE Reject(c)
        <3>1. /\ pc' = [pc EXCEPT ![c] = "done"]
              /\ result' = [result EXCEPT ![c] = "unavailable"]
              /\ UNCHANGED <<attempt, expired, session, server>>
            BY <2>6 DEF Reject, Goto, Return
        <3>2. pc[c] = "rlock" /\ session # 0 /\ ToolOf[c] \notin known
            BY <2>6 DEF Reject, Usable, SessionInv
        <3>3. /\ troubled[c] \/ ToolOf[c] \notin server.tools => troubled'[c]
              /\ session \notin server.sessions => lost'[c]
              /\ \A d \in Calls \ {c} : troubled'[d] = troubled[d] /\ lost'[d] = lost[d]
            BY <2>6, <3>2 DEF Reject
        <3>4. session \in server.sessions => ToolOf[c] \notin server.tools
            BY <3>2 DEF ServerInv, ListIsCurrent
        <3>5. attempt[c] = 2 /\ ~troubled[c] => session \in server.sessions
            BY <3>2
        <3>6. attempt[c] = 1 \/ attempt[c] = 2
            OBVIOUS
        <3> QED
            BY <3>1, <3>2, <3>3, <3>4, <3>5, <3>6
    <2>7. CASE Serve(c)
        BY <2>7 DEF Serve, Goto
    <2>8. CASE CallReturns(c)
        BY <2>8 DEF CallReturns, Goto, Return
    <2>9. CASE CallIsCut(c)
        BY <2>9 DEF CallIsCut, Goto, Return, InCall
    <2>10. CASE TransportFails(c)
        BY <2>10 DEF TransportFails, Goto, Return, InCall, Alive, SessionInv
    <2>11. CASE Delay(c)
        BY <2>11 DEF Delay, Goto, Return
    <2>12. CASE AskLock(c)
        BY <2>12 DEF AskLock, Goto
    <2>13. CASE Drain(c)
        BY <2>13 DEF Drain, Goto
    <2>14. CASE Connect(c)
        BY <2>14 DEF Connect, Goto
    <2>15. CASE ConnectFails(c)
        BY <2>15 DEF ConnectFails, Goto, Return
    <2>16. CASE Replace(c)
        BY <2>16 DEF Replace, Goto, InCall, Alive, SessionInv, LockInv
    <2>17. CASE ListFails(c)
        BY <2>17 DEF ListFails, Goto, Return, InCall, SessionInv, LockInv
    <2>18. CASE CallFails(c)
        <3>1. /\ pc' = [pc EXCEPT ![c] = "done"]
              /\ result' = [result EXCEPT ![c] = "unavailable"]
              /\ UNCHANGED <<attempt, expired, session, server>>
            BY <2>18 DEF CallFails, Goto, Return
        <3>2. pc[c] \in {"calling", "served"}
            BY <2>18 DEF CallFails, InCall
        <3>3. /\ troubled[c] \/ Alive(c) => troubled'[c]
              /\ ~Alive(c) => lost'[c]
              /\ \A d \in Calls \ {c} : troubled'[d] = troubled[d] /\ lost'[d] = lost[d]
            BY <2>18 DEF CallFails
        <3>4. attempt[c] = 2 /\ ~troubled[c] => Alive(c)
            BY <3>2 DEF Alive, SessionInv, InCall
        <3>5. attempt[c] = 1 \/ attempt[c] = 2
            OBVIOUS
        <3> QED
            BY <3>1, <3>2, <3>3, <3>4, <3>5
    <2> QED
        BY <1>5, <2>1, <2>2, <2>3, <2>4, <2>5, <2>6, <2>7, <2>8, <2>9, <2>10, <2>11, <2>12,
           <2>13, <2>14, <2>15, <2>16, <2>17, <2>18 DEF Step, Answered, Reconnect
<1> QED
    BY <1>1, <1>2, <1>3, <1>4, <1>5 DEF Next, Closed

(* The inductive invariant holds in every reachable state. *)
THEOREM InductiveInvariant == Spec => []IInv
<1>1. IInv /\ [Next]_vars => IInv'
    BY TypeNext, SlotNext, LockNext, SessionNext, ServerNext, HealNext DEF IInv
<1> QED
    BY InitIInv, <1>1, PTL DEF Spec

-----------------------------------------------------------------------------
(* Type correctness: the slots in use are those of the calls past the semaphore, and the
   mutex is held by those who stand behind it (tool_loop.go invoke, client.go). *)
THEOREM TypeCorrect == Spec => []TypeOK
<1>1. IInv => TypeOK
    BY DEF IInv, Types, SlotInv, Holding, LockInv, SessionInv, TypeOK, Outcomes
<1> QED
    BY InductiveInvariant, <1>1, PTL

(* No session is closed under a call that uses it, and none is left open (client.go
   Reconnect, Close). *)
THEOREM SessionsAreKept == Spec => []SessionsMatchUse
<1>1. IInv => SessionsMatchUse
    BY DEF IInv, SessionInv, SessionsMatchUse, CallsUseOpenSessions, NoSessionLeaked,
       InCall, Active
<1> QED
    BY InductiveInvariant, <1>1, PTL

(* The tool list is stale only with a lost session, and a call that met no trouble of its
   own fails only on a lost session, before anybody reconnected; never after a reconnection
   (tool_loop.go invoke, isMCPTransportError, client.go Call, Reconnect). *)
THEOREM CrashesHeal == Spec => []HealedCallsSucceed
<1>1. IInv => HealedCallsSucceed
    BY DEF IInv, Types, HealInv, ServerInv, HealedCallsSucceed, OnlyLostSessionsFail
<1> QED
    BY InductiveInvariant, <1>1, PTL
=============================================================================
