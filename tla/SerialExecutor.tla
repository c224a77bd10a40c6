--------------------------- MODULE SerialExecutor ---------------------------
(***************************************************************************)
(* What RequestQueue promises its callers: a bounded waiting room in front *)
(* of a bounded set of running jobs, never two running jobs of one         *)
(* conversation key, and, per key, no overtaking of a job that was already *)
(* dispatchable when the other one reserved its slot.  Callers, timers,    *)
(* channels, the dispatcher goroutine and the mutex are all left out.      *)
(***************************************************************************)
EXTENDS Naturals, FiniteSets

CONSTANTS Jobs,         \* one per SubmitWithAccepted call
          KeyOf,        \* conversation key of each job
          MaxQueued,
          MaxRunning

VARIABLES phase,        \* life cycle of each job
          owed,         \* per job, the same-key jobs it must not overtake
          open          \* FALSE once Shutdown closed the intake

svars == <<phase, owed, open>>

Phases == {"new", "reserved", "ready", "running", "done", "dropped"}

InPhase(ps) == {j \in Jobs : phase[j] \in ps}

SameKey(j) == {k \in Jobs : KeyOf[k] = KeyOf[j]}

SInit == /\ phase = [j \in Jobs |-> "new"]
         /\ owed = [j \in Jobs |-> {}]
         /\ open = TRUE

(* A slot is reserved, behind every dispatchable job of the same key. *)
SReserve(j) ==
    /\ open
    /\ phase[j] = "new"
    /\ Cardinality(InPhase({"reserved", "ready"})) < MaxQueued
    /\ phase' = [phase EXCEPT ![j] = "reserved"]
    /\ owed' = [owed EXCEPT ![j] = SameKey(j) \cap InPhase({"ready"})]
    /\ UNCHANGED open

(* The reserved job becomes dispatchable. *)
SEnqueue(j) ==
    /\ phase[j] = "reserved"
    /\ phase' = [phase EXCEPT ![j] = "ready"]
    /\ UNCHANGED <<owed, open>>

(* Jobs that have not started are refused, withdrawn or expired. *)
SDrop(S) ==
    /\ S \subseteq InPhase({"new", "reserved", "ready"})
    /\ phase' = [j \in Jobs |-> IF j \in S THEN "dropped" ELSE phase[j]]
    /\ UNCHANGED <<owed, open>>

(* Work starts: the key is free, a worker is free, nobody is overtaken. *)
SStart(j) ==
    /\ phase[j] = "ready"
    /\ SameKey(j) \cap InPhase({"running"}) = {}
    /\ owed[j] \cap InPhase({"ready"}) = {}
    /\ Cardinality(InPhase({"running"})) < MaxRunning
    /\ phase' = [phase EXCEPT ![j] = "running"]
    /\ UNCHANGED <<owed, open>>

(* Work ends and its key is released. *)
SFinish(j) ==
    /\ phase[j] = "running"
    /\ phase' = [phase EXCEPT ![j] = "done"]
    /\ UNCHANGED <<owed, open>>

(* Intake closes and nothing that waits will ever start. *)
SClose ==
    /\ open
    /\ open' = FALSE
    /\ phase' = [j \in Jobs |-> IF phase[j] \in {"reserved", "ready"}
                                THEN "dropped" ELSE phase[j]]
    /\ UNCHANGED owed

SNext == \/ \E j \in Jobs : SReserve(j) \/ SEnqueue(j) \/ SStart(j) \/ SFinish(j)
         \/ \E S \in SUBSET Jobs : SDrop(S)
         \/ SClose

SSpec == SInit /\ [][SNext]_svars
=============================================================================
