---------------------------- MODULE Orchestration ----------------------------
(***************************************************************************)
(* The orchestration engine of packages/agent-runtime/src/orchestration.ts *)
(* (class OrchestrationEngine): a FIFO of delegations drained into at most *)
(* MaxParallel controllers, pipelines whose stages are delegations, and a  *)
(* best-effort delegation table that survives a restart.                   *)
(*                                                                         *)
(* JavaScript runs one callback at a time, so an action is everything the  *)
(* code does between two points where it yields: a host's call up to its   *)
(* first await, the continuation of cancelPipeline after each await, the   *)
(* then/catch of an executor's promise and its finally, in two steps.      *)
(* Goals, summaries, timestamps and events are left out; ids are numbers   *)
(* in creation order, which is also the order of created_at.               *)
(***************************************************************************)
EXTENDS Integers, FiniteSets, SequencesExt

CONSTANTS
    MaxDelegations,   \* bound: how many delegations a behaviour creates
    MaxParallel,      \* OrchestrationOptions.maxParallel, after Math.max(1, _)
    HasExecutor,      \* is OrchestrationOptions.executor given?
    Outcomes,         \* how a delegation may settle: completed and/or failed
    HistoryLimit,     \* OrchestrationOptions.historyLimit
    WritesMayFail,    \* may a write of the persistence adapter throw?
    MaxRestarts,      \* bound: how many times the process restarts
    Pipelines,        \* pipeline ids
    NumStages,        \* stages of a pipeline
    UnknownRoles,     \* the sets of stages an override may give an unknown role
    Cancellable,      \* the pipelines the host may cancel
    NoPipeline        \* the null pipelineId

ASSUME MaxDelegationsAssumption == MaxDelegations \in Nat
ASSUME MaxParallelAssumption == MaxParallel \in Nat \ {0}
ASSUME FlagAssumption == HasExecutor \in BOOLEAN /\ WritesMayFail \in BOOLEAN
ASSUME OutcomesAssumption == Outcomes \subseteq {"completed", "failed"}
ASSUME HistoryLimitAssumption == HistoryLimit \in Nat
ASSUME MaxRestartsAssumption == MaxRestarts \in Nat
ASSUME NumStagesAssumption == NumStages \in Nat \ {0}
ASSUME UnknownRolesAssumption == UnknownRoles \subseteq SUBSET (1..NumStages)
ASSUME CancellableAssumption == Cancellable \subseteq Pipelines
ASSUME NoPipelineAssumption == NoPipeline \notin Pipelines

VARIABLES
    pool,        \* delegations, queue, controllers and the executors' promises
    owner,       \* delegation.pipelineId
    pipelines,   \* the pipelines map: status and stages of each pipeline
    cancelling,  \* the stage at which cancelPipeline awaits, 0 when it does not
    rows,        \* the status column of the delegations table (durable)
    restarts     \* how many restarts happened

vars == <<pool, owner, pipelines, cancelling, rows, restarts>>

Ids == 1..MaxDelegations
Stages == 1..NumStages
NoId == 0

LiveStatus == {"queued", "running"}
EndStatus == {"completed", "failed", "cancelled"}
DelegationStatus == LiveStatus \cup EndStatus \cup {"absent"}
StageStatus == {"pending", "running", "completed", "failed", "skipped"}
PipelineStatus == {"absent", "draft", "running", "blocked", "completed", "cancelled"}

\* A promise returned by the executor: not there, unsettled, or settled with
\* its finally callback still to run.
ExecutorState == {"none", "executing", "settled"}

PoolType == [status : [Ids -> DelegationStatus], queue : Seq(Ids),
             controllers : SUBSET Ids, executors : [Ids -> ExecutorState],
             created : 0..MaxDelegations]

StageType == [status : StageStatus, delegationId : Ids \cup {NoId}, known : BOOLEAN]

PipelineType == [status : PipelineStatus, stages : [Stages -> StageType]]

-----------------------------------------------------------------------------
(***************************************************************************)
(* Delegations: operators from an engine state e (a value of pool) to the  *)
(* next one.                                                               *)
(***************************************************************************)

Engine(status, queue, controllers, executors, created) ==
    [status |-> status, queue |-> queue, controllers |-> controllers,
     executors |-> executors, created |-> created]

\* What pump has started once its loop has shifted k ids off the queue; an id
\* whose delegation is no longer queued is shifted and passed over.
Started(e, k) == {e.queue[i] : i \in {j \in 1..k : e.status[e.queue[j]] = "queued"}}

\* The controllers at that point: only an executor gets one.
Occupied(e, k) ==
    IF HasExecutor THEN e.controllers \cup Started(e, k) ELSE e.controllers

\* Mutant: > for >=.
PumpExitsLate(e, k) == k = Len(e.queue) \/ Cardinality(Occupied(e, k)) > MaxParallel

\* The condition of pump's loop is false after k iterations.
PumpExits(e, k) == k = Len(e.queue) \/ Cardinality(Occupied(e, k)) >= MaxParallel

PumpLength(e) ==
    CHOOSE k \in 0..Len(e.queue) :
        PumpExits(e, k) /\ \A j \in 0..(k - 1) : ~PumpExits(e, j)

Pump(e) ==
    LET k == PumpLength(e)
        started == Started(e, k)
    IN  Engine([d \in Ids |-> IF d \in started THEN "running" ELSE e.status[d]],
               SubSeq(e.queue, k + 1, Len(e.queue)),
               Occupied(e, k),
               [d \in Ids |-> IF HasExecutor /\ d \in started
                              THEN "executing" ELSE e.executors[d]],
               e.created)

\* Mutant: unshift for push.
EnqueueFront(e) ==
    LET d == e.created + 1
    IN  Engine([e.status EXCEPT ![d] = "queued"], <<d>> \o e.queue,
               e.controllers, e.executors, d)

\* delegate: a fresh id goes to the end of the queue, then pump.
Enqueue(e) ==
    LET d == e.created + 1
    IN  Engine([e.status EXCEPT ![d] = "queued"], Append(e.queue, d),
               e.controllers, e.executors, d)

Delegate(e) == Pump(Enqueue(e))

\* Mutant: the id stays in the queue.
NoSplice(q, d) == q

\* this.queue.splice(indexOf(d), 1); an id is in the queue at most once.
Splice(q, d) ==
    IF \E i \in 1..Len(q) : q[i] = d
    THEN RemoveAt(q, CHOOSE i \in 1..Len(q) : q[i] = d)
    ELSE q

\* cancelDelegation up to its call of onStageDelegationFinished: the slot is
\* given back at once, the executor runs on until it notices its signal.
Abort(e, d) ==
    Engine([e.status EXCEPT ![d] = "cancelled"], Splice(e.queue, d),
           e.controllers \ {d}, e.executors, e.created)

\* Mutant: the freed slot is not pumped.
CancelNoPump(e, d) == IF e.status[d] \in LiveStatus THEN Abort(e, d) ELSE e

CancelIn(e, d) == IF e.status[d] \in LiveStatus THEN Pump(Abort(e, d)) ELSE e

\* Mutant: the promise's own word for its end is stored.
SettleUnmapped(e, d, outcome) == [e EXCEPT !.status = [@ EXCEPT ![d] = "settled"]]

\* settle, up to its call of onStageDelegationFinished.
Settle(e, d, outcome) == [e EXCEPT !.status = [@ EXCEPT ![d] = outcome]]

\* The executor's promise has settled.
PromiseSettled(e, d) == [e EXCEPT !.executors = [@ EXCEPT ![d] = "settled"]]

\* Mutant: the finally callback does not pump.
ReleaseNoPump(e, d) ==
    Engine(e.status, e.queue, e.controllers \ {d},
           [e.executors EXCEPT ![d] = "none"], e.created)

\* The finally callback of pump's promise chain.
Release(e, d) ==
    Pump(Engine(e.status, e.queue, e.controllers \ {d},
                [e.executors EXCEPT ![d] = "none"], e.created))

-----------------------------------------------------------------------------
(***************************************************************************)
(* Pipelines: operators on one pipeline record pl.                         *)
(***************************************************************************)

WithStage(pl, s, status, id) ==
    [status |-> pl.status,
     stages |-> [pl.stages EXCEPT ![s] = [status |-> status, delegationId |-> id,
                                          known |-> pl.stages[s].known]]]

WithStatus(pl, status) == [status |-> status, stages |-> pl.stages]

StagesIn(pl, statuses) == {s \in Stages : pl.stages[s].status \in statuses}

FirstOf(S) == CHOOSE s \in S : \A t \in S : s <= t

\* Mutant: any pending stage may be next, the last one too.
LastPendingStage(pl) ==
    CHOOSE s \in StagesIn(pl, {"pending"}) : \A t \in StagesIn(pl, {"pending"}) : t <= s

CanAdvance(pl) ==
    pl.status \in {"running", "draft"} /\ StagesIn(pl, {"running"}) = {}

NextStage(pl) == FirstOf(StagesIn(pl, {"pending"}))

\* advancePipeline reaches delegate and delegate finds the stage's role.
StartsStage(pl) ==
    /\ CanAdvance(pl)
    /\ StagesIn(pl, {"pending"}) # {}
    /\ pl.stages[NextStage(pl)].known

AllSettled(pl) == StagesIn(pl, {"completed", "skipped"}) = Stages

\* advancePipeline on pl, d being the id delegate would return. An unknown role
\* makes delegate throw before anything changed.
Advance(pl, d) ==
    IF StartsStage(pl)
    THEN WithStage(pl, NextStage(pl), "running", d)
    ELSE IF CanAdvance(pl) /\ AllSettled(pl) THEN WithStatus(pl, "completed")
    ELSE pl

StageOf(pl, d) == {s \in Stages : pl.stages[s].delegationId = d}

\* Mutant: a cancelled delegation is not handed back to its stage.
FinishedUnlessCancelled(pl, d, status) ==
    IF StageOf(pl, d) = {} \/ status = "cancelled" THEN pl
    ELSE LET s == FirstOf(StageOf(pl, d))
         IN  IF status = "completed" THEN WithStage(pl, s, "completed", d)
             ELSE WithStatus(WithStage(pl, s, "failed", d), "blocked")

\* onStageDelegationFinished without its call of advancePipeline.
StageFinished(pl, d, status) ==
    IF StageOf(pl, d) = {} THEN pl
    ELSE LET s == FirstOf(StageOf(pl, d))
         IN  CASE status = "completed" -> WithStage(pl, s, "completed", d)
               [] status = "cancelled" -> WithStage(pl, s, "pending", NoId)
               [] OTHER -> WithStatus(WithStage(pl, s, "failed", d), "blocked")

\* cancelPipeline's "running or pending becomes skipped" for the stages lo..hi.
SkipOpen(pl, lo, hi) ==
    [status |-> pl.status,
     stages |-> [s \in Stages |->
         IF s \in lo..hi /\ pl.stages[s].status \in {"running", "pending"}
         THEN [pl.stages[s] EXCEPT !.status = "skipped"] ELSE pl.stages[s]]]

-----------------------------------------------------------------------------
\* Mutant: rows are inserted and never updated.
PersistInsertsOnly ==
    rows' = [d \in Ids |-> IF d > pool.created /\ d <= pool'.created
                           THEN "queued" ELSE rows[d]]

(***************************************************************************)
(* The delegation table. Every change of a delegation is followed by a     *)
(* write of its row; a write that throws is swallowed, and an update of a  *)
(* row that was never inserted changes nothing.                            *)
(***************************************************************************)
Persist ==
    LET changed == {d \in Ids : pool'.status[d] # pool.status[d]}
        new == {d \in changed : d > pool.created}
        mayFail(S) == IF WritesMayFail THEN SUBSET S ELSE {{}}
    IN  \E noInsert \in mayFail(new), noUpdate \in mayFail(changed) :
            rows' = [d \in Ids |->
                CASE d \notin changed -> rows[d]
                  [] d \in noInsert -> "absent"
                  [] d \in new \ noInsert -> IF d \in noUpdate THEN "queued"
                                             ELSE pool'.status[d]
                  [] OTHER -> IF d \in noUpdate \/ rows[d] = "absent" THEN rows[d]
                              ELSE pool'.status[d]]

\* Bound: a host's call leaves an id for every stage that may yet be delegated,
\* so that the bound on ids never stops an executor or a cancellation.
PipelineReserve(p) ==
    IF pipelines'[p].status \in {"cancelled", "completed"} /\ cancelling'[p] = 0
    THEN {}
    ELSE {<<p, s>> : s \in StagesIn(pipelines'[p],
              IF cancelling'[p] = 0 THEN {"pending"} ELSE {"pending", "running"})}

WithinBound ==
    pool'.created + Cardinality(UNION {PipelineReserve(p) : p \in Pipelines})
        <= MaxDelegations

-----------------------------------------------------------------------------
(***************************************************************************)
(* Actions.                                                                *)
(***************************************************************************)

EmptyPipeline == [status |-> "absent",
                  stages |-> [s \in Stages |-> [status |-> "pending",
                                                delegationId |-> NoId,
                                                known |-> TRUE]]]

Init ==
    /\ pool = Engine([d \in Ids |-> "absent"], <<>>, {}, [d \in Ids |-> "none"], 0)
    /\ owner = [d \in Ids |-> NoPipeline]
    /\ pipelines = [p \in Pipelines |-> EmptyPipeline]
    /\ cancelling = [p \in Pipelines |-> 0]
    /\ rows = [d \in Ids |-> "absent"]
    /\ restarts = 0

\* The end of every operation that may go on to the next stage: the engine is
\* in state e, pipeline p in state pl, and advancePipeline(pl) runs.
AdvancePipeline(e, p, pl) ==
    /\ StartsStage(pl) => e.created < MaxDelegations
    /\ pool' = IF StartsStage(pl) THEN Delegate(e) ELSE e
    /\ owner' = IF StartsStage(pl) THEN [owner EXCEPT ![e.created + 1] = p] ELSE owner
    /\ pipelines' = [pipelines EXCEPT ![p] = Advance(pl, e.created + 1)]
    /\ Persist

\* A host's ad-hoc delegation.
DelegateTask ==
    /\ pool.created < MaxDelegations
    /\ pool' = Delegate(pool)
    /\ Persist
    /\ UNCHANGED <<owner, pipelines, cancelling, restarts>>
    /\ WithinBound

CancelDelegation(d) ==
    /\ pool.status[d] \in LiveStatus
    /\ pool' = CancelIn(pool, d)
    /\ pipelines' = IF owner[d] = NoPipeline THEN pipelines
                    ELSE [pipelines EXCEPT ![owner[d]] = StageFinished(@, d, "cancelled")]
    /\ Persist
    /\ UNCHANGED <<owner, cancelling, restarts>>
    /\ WithinBound

\* settle in full: the delegation ends and its pipeline takes note. e is the
\* engine at that point; a stage that completed advances its pipeline.
SettleDelegation(e, d, outcome) ==
    LET p == owner[d]
        pl == StageFinished(pipelines[p], d, outcome)
    IN  IF p # NoPipeline /\ outcome = "completed" /\ StageOf(pl, d) # {}
        THEN AdvancePipeline(Settle(e, d, outcome), p, pl)
        ELSE /\ pool' = Settle(e, d, outcome)
             /\ pipelines' = IF p = NoPipeline THEN pipelines
                             ELSE [pipelines EXCEPT ![p] = pl]
             /\ Persist
             /\ UNCHANGED owner

\* The executor's promise settles: its then or catch callback runs, and does
\* nothing when the delegation is no longer running.
ExecutorSettles(d) ==
    LET e == PromiseSettled(pool, d)
    IN  /\ pool.executors[d] = "executing"
        /\ IF pool.status[d] = "running"
           THEN \E outcome \in Outcomes : SettleDelegation(e, d, outcome)
           ELSE pool' = e /\ UNCHANGED <<owner, pipelines, rows>>
        /\ UNCHANGED <<cancelling, restarts>>

ExecutorFinally(d) ==
    /\ pool.executors[d] = "settled"
    /\ pool' = Release(pool, d)
    /\ Persist
    /\ UNCHANGED <<owner, pipelines, cancelling, restarts>>

\* finishDelegation: a host settles a running delegation itself.
FinishDelegation(d) ==
    /\ pool.status[d] = "running"
    /\ \E outcome \in Outcomes : SettleDelegation(pool, d, outcome)
    /\ UNCHANGED <<cancelling, restarts>>
    /\ WithinBound

\* updateProgress and recordUsage: what they change is written to the row, the
\* status with it.
UpdateProgress(d) ==
    /\ pool.status[d] = "running"
    /\ rows[d] # "absent"
    /\ rows' = [rows EXCEPT ![d] = pool.status[d]]
    /\ UNCHANGED <<pool, owner, pipelines, cancelling, restarts>>

RecordUsage(d) ==
    /\ pool.status[d] # "absent"
    /\ rows[d] # "absent"
    /\ rows' = [rows EXCEPT ![d] = pool.status[d]]
    /\ UNCHANGED <<pool, owner, pipelines, cancelling, restarts>>

CreatePipeline(p) ==
    /\ pipelines[p].status = "absent"
    /\ \E unknown \in UnknownRoles :
           pipelines' = [pipelines EXCEPT ![p] =
               [status |-> "draft",
                stages |-> [s \in Stages |-> [status |-> "pending",
                                              delegationId |-> NoId,
                                              known |-> s \notin unknown]]]]
    /\ UNCHANGED <<pool, owner, cancelling, rows, restarts>>
    /\ WithinBound

StartPipeline(p) ==
    /\ pipelines[p].status \notin {"absent", "cancelled", "completed"}
    /\ LET pl == IF pipelines[p].status = "draft"
                 THEN WithStatus(pipelines[p], "running") ELSE pipelines[p]
       IN  AdvancePipeline(pool, p, pl)
    /\ UNCHANGED <<cancelling, restarts>>
    /\ WithinBound

Unblocked(pl) == IF pl.status = "blocked" THEN WithStatus(pl, "running") ELSE pl

RetryStage(p, s) ==
    /\ pipelines[p].status # "absent"
    /\ pipelines[p].stages[s].status = "failed"
    /\ AdvancePipeline(pool, p, Unblocked(WithStage(pipelines[p], s, "pending", NoId)))
    /\ UNCHANGED <<cancelling, restarts>>
    /\ WithinBound

SkipStage(p, s) ==
    /\ pipelines[p].status # "absent"
    /\ pipelines[p].stages[s].status \notin {"completed", "running"}
    /\ LET id == pipelines[p].stages[s].delegationId
       IN  AdvancePipeline(pool, p, Unblocked(WithStage(pipelines[p], s, "skipped", id)))
    /\ UNCHANGED <<cancelling, restarts>>
    /\ WithinBound

\* cancelPipeline's loop from stage i on, up to its next await: a stage that
\* carries a delegation is cancelled and awaited, one that carries none is
\* skipped without yielding.
CancelFrom(p, pl, i) ==
    LET linked == {s \in i..NumStages : pl.stages[s].delegationId # NoId}
        s == FirstOf(linked)
        d == pl.stages[s].delegationId
        skipped == SkipOpen(pl, i, s - 1)
    IN  /\ IF linked = {}
           THEN /\ pipelines' = [pipelines EXCEPT ![p] = SkipOpen(pl, i, NumStages)]
                /\ cancelling' = [cancelling EXCEPT ![p] = 0]
                /\ UNCHANGED <<pool, rows>>
           ELSE /\ pool' = CancelIn(pool, d)
                /\ pipelines' = [pipelines EXCEPT ![p] =
                       IF pool.status[d] \in LiveStatus
                       THEN StageFinished(skipped, d, "cancelled") ELSE skipped]
                /\ cancelling' = [cancelling EXCEPT ![p] = s]
                /\ Persist
        /\ UNCHANGED <<owner, restarts>>

\* Bound: one cancelPipeline of a pipeline is under way at a time.
CancelPipeline(p) ==
    /\ p \in Cancellable
    /\ pipelines[p].status # "absent"
    /\ cancelling[p] = 0
    /\ CancelFrom(p, WithStatus(pipelines[p], "cancelled"), 1)
    /\ WithinBound

\* Mutant: the loop passes over a stage after each await.
CancelPipelineHops(p) ==
    /\ cancelling[p] # 0
    /\ CancelFrom(p, SkipOpen(pipelines[p], cancelling[p], cancelling[p]),
                  cancelling[p] + 2)

\* Mutant: the loop does not go on to the next stage.
CancelPipelineRepeats(p) ==
    /\ cancelling[p] # 0
    /\ CancelFrom(p, SkipOpen(pipelines[p], cancelling[p], cancelling[p]), cancelling[p])

CancelPipelineResumes(p) ==
    /\ cancelling[p] # 0
    /\ CancelFrom(p, SkipOpen(pipelines[p], cancelling[p], cancelling[p]),
                  cancelling[p] + 1)

\* The rows listDelegations(historyLimit) returns: the newest ones.
Rehydrated ==
    LET present == {d \in Ids : rows[d] # "absent"}
    IN  {d \in present : Cardinality({x \in present : x > d}) < HistoryLimit}

\* The process dies and a new engine is constructed over the same table.
\* Pipelines are only in memory, so no delegation belongs to one any more.
Restart ==
    LET orphans == {d \in Rehydrated : rows[d] \in LiveStatus}
    IN  /\ restarts < MaxRestarts
        /\ restarts' = restarts + 1
        /\ pool' = Engine([d \in Ids |-> IF d \in orphans THEN "cancelled"
                                         ELSE IF d \in Rehydrated THEN rows[d]
                                         ELSE "absent"],
                          <<>>, {}, [d \in Ids |-> "none"], pool.created)
        /\ owner' = [d \in Ids |-> NoPipeline]
        /\ pipelines' = [p \in Pipelines |-> EmptyPipeline]
        /\ cancelling' = [p \in Pipelines |-> 0]
        /\ \E written \in IF WritesMayFail THEN SUBSET orphans ELSE {orphans} :
               rows' = [d \in Ids |-> IF d \in written THEN "cancelled" ELSE rows[d]]

Next ==
    \/ DelegateTask
    \/ \E d \in Ids : \/ CancelDelegation(d)
                      \/ ExecutorSettles(d)
                      \/ ExecutorFinally(d)
                      \/ FinishDelegation(d)
                      \/ UpdateProgress(d)
                      \/ RecordUsage(d)
    \/ \E p \in Pipelines : \/ CreatePipeline(p)
                            \/ StartPipeline(p)
                            \/ CancelPipeline(p)
                            \/ CancelPipelineResumes(p)
                            \/ \E s \in Stages : RetryStage(p, s) \/ SkipStage(p, s)
    \/ Restart

Spec == Init /\ [][Next]_vars

\* Executors finish (the host's contract), and the microtasks the engine left
\* behind run; the host itself never has to do anything.
Fairness ==
    /\ \A d \in Ids : WF_vars(ExecutorSettles(d)) /\ WF_vars(ExecutorFinally(d))
    /\ \A p \in Pipelines : WF_vars(CancelPipelineResumes(p))

FairSpec == Spec /\ Fairness

-----------------------------------------------------------------------------
(***************************************************************************)
(* Properties.                                                             *)
(***************************************************************************)

TypeOK ==
    /\ pool \in PoolType
    /\ owner \in [Ids -> Pipelines \cup {NoPipeline}]
    /\ pipelines \in [Pipelines -> PipelineType]
    /\ cancelling \in [Pipelines -> 0..NumStages]
    /\ rows \in [Ids -> DelegationStatus]
    /\ restarts \in 0..MaxRestarts

Running == {d \in Ids : pool.status[d] = "running"}

\* With an executor, no more than maxParallel delegations run, whatever mix of
\* host calls, late executors and pipeline steps freed and filled the slots
\* (pump, cancelDelegation, the finally callback).
SlotsBounded == HasExecutor => Cardinality(Running) <= MaxParallel

\* A delegation never waits beside a free slot: every path that frees a slot
\* pumps the queue, so no wakeup is lost.
NoIdleSlot == pool.queue # <<>> => Cardinality(pool.controllers) >= MaxParallel

\* The queue holds exactly the delegations whose status is queued, each once:
\* cancelDelegation's splice and pump's shift keep the two in step.
QueueMatchesStatus ==
    /\ \A i, j \in 1..Len(pool.queue) : pool.queue[i] = pool.queue[j] => i = j
    /\ {pool.queue[i] : i \in 1..Len(pool.queue)} = {d \in Ids : pool.status[d] = "queued"}

LiveOf(p) == {d \in Ids : owner[d] = p /\ pool.status[d] \in LiveStatus}

\* The delegations of the stages with one of the statuses.
WorkOf(p, statuses) ==
    {pipelines[p].stages[s].delegationId : s \in StagesIn(pipelines[p], statuses)}

\* A stage that runs has a delegation of its own that is queued or running, one stage
\* at a time; and no delegation of a pipeline works for nobody: its stage runs, or was
\* skipped by cancelPipeline while it worked again.
StageTracksDelegation ==
    \A p \in Pipelines :
        /\ WorkOf(p, {"running"}) \subseteq LiveOf(p)
        /\ Cardinality(StagesIn(pipelines[p], {"running"})) <= 1
        /\ LiveOf(p) \subseteq
               WorkOf(p, {"running"} \cup IF p \in Cancellable THEN {"skipped"} ELSE {})

\* Once cancelPipeline has returned, a cancelled pipeline has no delegation left
\* and no stage at work, whatever settled, failed or was retried at its awaits.
CancelledIsQuiet ==
    \A p \in Pipelines :
        pipelines[p].status = "cancelled" /\ cancelling[p] = 0 =>
            LiveOf(p) = {} /\ StagesIn(pipelines[p], {"running"}) = {}

\* "plan, implement, test, review, deploy": when a stage starts, every earlier
\* one is over: completed, skipped or failed, and not waiting to be retried.
StagesStartInOrder ==
    [][\A p \in Pipelines : \A s \in StagesIn(pipelines[p], {"running"})' :
           pipelines[p].stages[s].status # "running" =>
               \A earlier \in 1..(s - 1) :
                   pipelines'[p].stages[earlier].status \notin {"pending", "running"}]_vars

\* "Failures block the pipeline until the operator retries or skips the stage":
\* no stage works in a pipeline that has a failed one.
FailuresBlock ==
    \A p \in Pipelines : StagesIn(pipelines[p], {"failed"}) # {} =>
        StagesIn(pipelines[p], {"running"}) = {}

\* A pipeline that was cancelled stays cancelled (until the process restarts).
CancelledStaysCancelled ==
    [][\A p \in Pipelines : pipelines[p].status = "cancelled" /\ restarts' = restarts =>
           pipelines'[p].status = "cancelled"]_vars

\* A row that says queued or running belongs to a delegation that the engine
\* still tracks as live, or is older than the historyLimit newest rows: a
\* restart leaves no other row behind as if it were still in flight.
OrphansRetired ==
    \A d \in Rehydrated : rows[d] \in LiveStatus => pool.status[d] = rows[d]

\* The engine implements the abstract lifecycle: FIFO starts, terminal statuses
\* that never change, and the parallel bound, through restarts too.
Lifecycle == INSTANCE DelegationLifecycle WITH
                 state <- pool.status,
                 Capacity <- IF HasExecutor THEN MaxParallel ELSE MaxDelegations,
                 Lossy <- WritesMayFail

ImplementsLifecycle == Lifecycle!Spec

\* Every queued delegation is eventually started, cancelled or lost to a restart.
QueueDrains ==
    \A d \in Ids : pool.status[d] = "queued" ~> pool.status[d] # "queued"

\* cancelPipeline comes to its end.
CancelCompletes == \A p \in Pipelines : cancelling[p] # 0 ~> cancelling[p] = 0
==============================================================================
