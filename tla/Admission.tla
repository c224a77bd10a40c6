----------------------------- MODULE Admission -----------------------------
(***************************************************************************)
(* The rate limit of internal/discordbot/adapter.go Handle: a token bucket *)
(* for every user, kept in a table that is swept when it gets large.  The  *)
(* tokens of a bucket are counted in the time they take to come back.      *)
(***************************************************************************)
EXTENDS Integers, FiniteSets

CONSTANTS Users,
          Burst,        \* tokens of a full bucket: 2
          Period,       \* seconds for one token: 12, from userRate
          MaxTable,     \* entries above which the table is swept: 4096
          SweepAge      \* seconds an entry is kept at least: 60

Full == Burst * Period

(* A bucket is full again before its entry may be swept: 24 and 60 seconds. *)
ASSUME AdmissionAssumption ==
    /\ Burst \in Nat \ {0} /\ Period \in Nat \ {0} /\ MaxTable \in Nat /\ SweepAge \in Nat
    /\ Full <= SweepAge

VARIABLES
    table,      \* the users with an entry (Adapter.limiters)
    credit,     \* what the bucket of an entry holds
    idle,       \* the time since lastSeen, up to one more than SweepAge
    due         \* what the user may spend if no entry is ever removed (ghost)

admissionVars == <<table, credit, idle, due>>

AdmissionInit ==
    /\ table = {}
    /\ credit = [u \in Users |-> Full]
    /\ idle = [u \in Users |-> 0]
    /\ due = [u \in Users |-> Full]

-----------------------------------------------------------------------------
(* Mutant of Old: whoever has not just written is swept. *)
OldAlready(u) == idle[u] > 0

Old(u) == idle[u] > SweepAge

Swept(entries) == {u \in entries : Old(u)}

(* A message of user u gets to the limiter.  A new entry is full.  An entry counts as
   seen although its message is refused. *)
Arrive(u) ==
    LET entries == table \cup {u}
        bucket  == IF u \in table THEN credit[u] ELSE Full
        allowed == bucket >= Period
    IN  /\ idle' = [idle EXCEPT ![u] = 0]
        /\ table' = IF Cardinality(entries) > MaxTable THEN {u} \cup (entries \ Swept(entries)) ELSE entries
        /\ credit' = [credit EXCEPT ![u] = IF allowed THEN bucket - Period ELSE bucket]
        /\ due' = [due EXCEPT ![u] = IF allowed THEN @ - Period ELSE @]

(* Mutant of Refilled: a bucket has no brim. *)
RefilledForever(bucket) == bucket + 1

Refilled(bucket) == IF bucket < Full THEN bucket + 1 ELSE Full

Second ==
    /\ credit' = [u \in Users |-> Refilled(credit[u])]
    /\ due' = [u \in Users |-> Refilled(due[u])]
    /\ idle' = [u \in Users |-> IF idle[u] <= SweepAge THEN idle[u] + 1 ELSE idle[u]]
    /\ UNCHANGED table

AdmissionNext == Second \/ \E u \in Users : Arrive(u)

AdmissionSpec == AdmissionInit /\ [][AdmissionNext]_admissionVars

-----------------------------------------------------------------------------
AdmissionTypeOK ==
    /\ table \subseteq Users
    /\ credit \in [Users -> 0 .. Full] /\ due \in [Users -> Int]
    /\ idle \in [Users -> 0 .. SweepAge + 1]

(* Sweeping gives nothing away: a user whose entry was removed, and made again, may
   spend no more than with the entry kept all the time. *)
SweepGivesNothing ==
    \A u \in Users : due[u] = IF u \in table THEN credit[u] ELSE Full
=============================================================================
