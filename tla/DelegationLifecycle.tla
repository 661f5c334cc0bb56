------------------------- MODULE DelegationLifecycle -------------------------
(***************************************************************************)
(* What the orchestration engine promises about delegations, with nothing  *)
(* said of queues, controllers, executors, pipelines or the database:      *)
(*   - a delegation is queued, then runs, then ends once and for all;      *)
(*   - delegations start in the order in which they were queued;           *)
(*   - no more than Capacity of them run at a time;                        *)
(*   - a restart of the process ends whatever had not ended.               *)
(* Orchestration is shown to implement this specification.                 *)
(***************************************************************************)
EXTENDS Integers, FiniteSets

CONSTANTS
    Ids,        \* delegation ids, numbered in creation order
    Capacity,   \* how many delegations may run at a time
    Lossy       \* may the history lose a write?

VARIABLE state  \* the status of every delegation

Live == {"queued", "running"}
Ended == {"completed", "failed", "cancelled"}
LifecycleStatus == Live \cup Ended \cup {"absent"}

\* The statuses a delegation may have after one step of the engine. It may be
\* created and started at once; a queued one can only be started or cancelled.
Successors(s) ==
    CASE s = "absent"  -> {"absent", "queued", "running"}
      [] s = "queued"  -> {"queued", "running", "cancelled"}
      [] s = "running" -> {"running", "completed", "failed", "cancelled"}
      [] s \in Ended   -> {s}

Starts(d) == state[d] # "running" /\ state'[d] = "running"

WithinCapacity == Cardinality({d \in Ids : state'[d] = "running"}) <= Capacity

Init == state = [d \in Ids |-> "absent"]

\* Any number of delegations move along their lifecycle in one step (a stage
\* that completes hands over to the next stage's delegation at once), and one
\* that starts leaves nobody older waiting.
Progress ==
    /\ state' \in [Ids -> LifecycleStatus]
    /\ \A d \in Ids : state'[d] \in Successors(state[d])
    /\ \A d \in Ids : Starts(d) =>
           \A older \in Ids : older < d => state'[older] # "queued"
    /\ WithinCapacity

\* The process restarts: what had ended stays as it was, what had not ended is
\* cancelled, and anything may drop out of the history, for good. When a write
\* of the history was lost, what had ended may be taken for interrupted.
Reboot ==
    /\ state' \in [Ids -> Ended \cup {"absent"}]
    /\ \A d \in Ids :
           state'[d] \in {"absent"} \cup
               (IF state[d] \in Ended THEN {state[d]} ELSE {}) \cup
               (IF state[d] \in Live \/ (Lossy /\ state[d] \in Ended)
                THEN {"cancelled"} ELSE {})

Next == Progress \/ Reboot

Spec == Init /\ [][Next]_state
==============================================================================
