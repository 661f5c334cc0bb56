------------------------- MODULE OrchestrationProofs -------------------------
(***************************************************************************)
(* Proofs about Orchestration and the panel beside it, for every value of  *)
(* their constants, in three parts.                                        *)
(*                                                                         *)
(* The engine: the types and the parallel bound (SlotsBounded); then the   *)
(* queue, which holds exactly the queued delegations (QueueMatchesStatus)  *)
(* and in which nothing waits beside a free slot (NoIdleSlot).  The bound  *)
(* is not inductive by itself.  What is: every running delegation holds a  *)
(* controller, there are at most MaxParallel controllers, and a delegation *)
(* whose executor has settled is not running (so the finally callback      *)
(* gives back no slot that is still in use).  For the queue it is added    *)
(* that an id the engine has not given out yet is unknown to it and to the *)
(* table: delegate may then put it into the queue, and a restart brings no *)
(* later id back.  The refinement of DelegationLifecycle, and the          *)
(* pipelines and the panel, are introduced below.                          *)
(***************************************************************************)
EXTENDS OrchestrationPanel, FiniteSetTheorems, SequenceTheorems, TLAPS

\* The inductive invariant of the engine's state, as a predicate on a pool e.
SlotInv(e) ==
    HasExecutor =>
        /\ \A d \in Ids : e.status[d] = "running" => d \in e.controllers
        /\ \A d \in Ids : e.executors[d] = "settled" => e.status[d] # "running"
        /\ Cardinality(e.controllers) <= MaxParallel

PoolOK(e) == e \in PoolType /\ SlotInv(e)

-----------------------------------------------------------------------------
(***************************************************************************)
(* Facts about the operators on pools.                                     *)
(***************************************************************************)

\* A nonempty set of naturals has a least element (used for the loop of pump
\* and for "the first stage such that").
LEMMA LeastElement ==
    ASSUME NEW S \in SUBSET Nat, S # {}
    PROVE  \E x \in S : \A y \in S : x <= y
<1>1. IsWellFoundedOn(OpToRel(<, Nat), Nat)
  BY NatLessThanWellFounded
<1>2. PICK x \in S : \A y \in S : ~ (<<y, x>> \in OpToRel(<, Nat))
  BY <1>1, WFMin
<1>3. \A y \in S : ~(y < x)
  BY <1>2 DEF OpToRel
<1> QED
  BY <1>3

\* The set of ids is finite, and so is every set of controllers.
LEMMA IdsFinite ==
    /\ IsFiniteSet(Ids)
    /\ \A S \in SUBSET Ids : IsFiniteSet(S) /\ Cardinality(S) \in Nat
<1>1. IsFiniteSet(Ids)
  BY FS_Interval, MaxDelegationsAssumption DEF Ids
<1> QED
  BY <1>1, FS_Subset, FS_CardinalityType

\* pump's loop ends, and PumpLength is where: after the first number of
\* iterations at which its condition is false.
LEMMA PumpLengthIsLeast ==
    ASSUME NEW e \in PoolType
    PROVE  /\ PumpLength(e) \in 0..Len(e.queue)
           /\ PumpExits(e, PumpLength(e))
           /\ \A j \in 0..(PumpLength(e) - 1) : ~PumpExits(e, j)
<1> DEFINE S == {k \in 0..Len(e.queue) : PumpExits(e, k)}
<1>0. Len(e.queue) \in Nat
  BY DEF PoolType
<1>1. Len(e.queue) \in S
  BY <1>0 DEF PumpExits
<1>2. S \in SUBSET Nat
  BY <1>0
<1>3. PICK k \in S : \A j \in S : k <= j
  BY <1>1, <1>2, LeastElement
<1>4. \A j \in 0..(k - 1) : ~PumpExits(e, j)
  BY <1>0, <1>3
<1> HIDE DEF S
<1>5. \E m \in 0..Len(e.queue) :
         PumpExits(e, m) /\ \A j \in 0..(m - 1) : ~PumpExits(e, j)
  BY <1>3, <1>4 DEF S
<1> QED
  BY <1>5 DEF PumpLength

\* What pump starts are ids of the queue whose delegation is queued.
LEMMA StartedType ==
    ASSUME NEW e \in PoolType, NEW k \in 0..Len(e.queue)
    PROVE  /\ Started(e, k) \in SUBSET Ids
           /\ \A d \in Started(e, k) : e.status[d] = "queued"
           /\ Occupied(e, k) \in SUBSET Ids
<1>1. \A j \in 1..k : e.queue[j] \in Ids
  BY DEF PoolType
<1> QED
  BY <1>1 DEF Started, Occupied, PoolType

\* pump keeps the types.
LEMMA PumpType ==
    ASSUME NEW e \in PoolType
    PROVE  Pump(e) \in PoolType
<1> DEFINE k == PumpLength(e)
<1>1. k \in 0..Len(e.queue)
  BY PumpLengthIsLeast
<1>2. Started(e, k) \in SUBSET Ids /\ Occupied(e, k) \in SUBSET Ids
  BY <1>1, StartedType
<1>3. SubSeq(e.queue, k + 1, Len(e.queue)) \in Seq(Ids)
  BY <1>1, SubSeqProperties DEF PoolType
<1> HIDE DEF k
<1>4. [d \in Ids |-> IF d \in Started(e, k) THEN "running" ELSE e.status[d]]
         \in [Ids -> DelegationStatus]
  BY DEF PoolType, DelegationStatus, LiveStatus
<1>5. [d \in Ids |-> IF HasExecutor /\ d \in Started(e, k)
                     THEN "executing" ELSE e.executors[d]] \in [Ids -> ExecutorState]
  BY DEF PoolType, ExecutorState
<1>6. e.created \in 0..MaxDelegations
  BY DEF PoolType
<1> QED
  BY <1>2, <1>3, <1>4, <1>5, <1>6 DEF Pump, Engine, PoolType, k

\* One more iteration of pump's loop takes at most one more slot.
LEMMA OneSlotPerIteration ==
    ASSUME NEW e \in PoolType, NEW k \in 1..Len(e.queue),
           Cardinality(Occupied(e, k - 1)) < MaxParallel
    PROVE  Cardinality(Occupied(e, k)) <= MaxParallel
<1>1. k \in 0..Len(e.queue) /\ k - 1 \in 0..Len(e.queue)
  BY DEF PoolType
<1>2. Occupied(e, k) \in SUBSET Ids /\ Occupied(e, k - 1) \in SUBSET Ids
  BY <1>1, StartedType
<1> DEFINE T == Occupied(e, k - 1) \cup {e.queue[k]}
<1>3. IsFiniteSet(Occupied(e, k - 1)) /\ Cardinality(Occupied(e, k - 1)) \in Nat
  BY <1>2, IdsFinite
<1>4. IsFiniteSet(T) /\ Cardinality(T) <= Cardinality(Occupied(e, k - 1)) + 1
      /\ Cardinality(T) \in Nat
  <2>1. IsFiniteSet(T)
    BY <1>3, FS_AddElement
  <2>2. Cardinality(T) = IF e.queue[k] \in Occupied(e, k - 1)
                         THEN Cardinality(Occupied(e, k - 1))
                         ELSE Cardinality(Occupied(e, k - 1)) + 1
    BY <1>3, FS_AddElement
  <2> HIDE DEF T
  <2> QED
    BY <2>1, <2>2, <1>3
<1>5. Occupied(e, k) \in SUBSET T
  BY <1>1 DEF Occupied, Started
<1>6. Cardinality(Occupied(e, k)) <= Cardinality(T) /\ Cardinality(Occupied(e, k)) \in Nat
  BY <1>4, <1>5, FS_Subset, FS_CardinalityType
<1> QED
  BY <1>3, <1>4, <1>6, MaxParallelAssumption

\* pump never takes more than MaxParallel slots, and each delegation it starts
\* holds one.
LEMMA PumpOK ==
    ASSUME NEW e, PoolOK(e)
    PROVE  PoolOK(Pump(e))
<1>0. e \in PoolType /\ SlotInv(e)
  BY DEF PoolOK
<1>1. Pump(e) \in PoolType
  BY <1>0, PumpType
<1> DEFINE k == PumpLength(e)
<1>2. /\ k \in 0..Len(e.queue)
      /\ \A j \in 0..(k - 1) : ~PumpExits(e, j)
  BY <1>0, PumpLengthIsLeast
<1>3. Started(e, k) \in SUBSET Ids
  BY <1>0, <1>2, StartedType
<1> SUFFICES ASSUME HasExecutor PROVE SlotInv(Pump(e))
  BY <1>1 DEF PoolOK, SlotInv
<1>4. Cardinality(Occupied(e, k)) <= MaxParallel
  <2>1. CASE k = 0
    <3>1. Occupied(e, k) = e.controllers
      BY <2>1 DEF Occupied, Started
    <3> QED
      BY <3>1, <1>0 DEF SlotInv
  <2>2. CASE k # 0
    <3>1. k \in 1..Len(e.queue) /\ k - 1 \in 0..(k - 1)
      BY <1>2, <2>2
    <3>2. ~PumpExits(e, k - 1)
      BY <1>2, <3>1
    <3>3. Cardinality(Occupied(e, k - 1)) \in Nat
      BY <1>0, <3>1, StartedType, IdsFinite
    <3>4. Cardinality(Occupied(e, k - 1)) < MaxParallel
      BY <3>2, <3>3, MaxParallelAssumption DEF PumpExits
    <3> QED
      BY <1>0, <3>1, <3>4, OneSlotPerIteration
  <2> QED
    BY <2>1, <2>2
<1> HIDE DEF k
<1>5. \A d \in Ids : Pump(e).status[d] = "running" => d \in Pump(e).controllers
  BY <1>0 DEF Pump, Engine, Occupied, SlotInv, k
<1>6. \A d \in Ids : Pump(e).executors[d] = "settled" => Pump(e).status[d] # "running"
  BY <1>0 DEF Pump, Engine, SlotInv
<1>7. Cardinality(Pump(e).controllers) <= MaxParallel
  BY <1>4 DEF Pump, Engine, k
<1> QED
  BY <1>5, <1>6, <1>7 DEF SlotInv

\* delegate puts a fresh, queued id into the queue: no slot is taken yet.
LEMMA EnqueueOK ==
    ASSUME NEW e, PoolOK(e), e.created < MaxDelegations
    PROVE  PoolOK(Enqueue(e))
<1> DEFINE d == e.created + 1
<1>1. e \in PoolType /\ SlotInv(e)
  BY DEF PoolOK
<1>2. d \in Ids /\ d \in 0..MaxDelegations
  BY <1>1, MaxDelegationsAssumption DEF PoolType, Ids
<1>3. Append(e.queue, d) \in Seq(Ids)
  BY <1>1, <1>2 DEF PoolType
<1> HIDE DEF d
<1>4. [e.status EXCEPT ![d] = "queued"] \in [Ids -> DelegationStatus]
  BY <1>1 DEF PoolType, DelegationStatus, LiveStatus
<1>5. Enqueue(e) = [status |-> [e.status EXCEPT ![d] = "queued"],
                    queue |-> Append(e.queue, d), controllers |-> e.controllers,
                    executors |-> e.executors, created |-> d]
  BY DEF Enqueue, Engine, d
<1>6. Enqueue(e) \in PoolType
  BY <1>1, <1>2, <1>3, <1>4, <1>5 DEF PoolType
<1>7. SlotInv(Enqueue(e))
  BY <1>1, <1>5 DEF SlotInv, PoolType
<1> QED
  BY <1>6, <1>7 DEF PoolOK

\* delegate as a whole.
LEMMA DelegateOK ==
    ASSUME NEW e, PoolOK(e), e.created < MaxDelegations
    PROVE  PoolOK(Delegate(e))
BY EnqueueOK, PumpOK DEF Delegate

\* The splice of cancelDelegation leaves a sequence of ids.
LEMMA SpliceType ==
    ASSUME NEW q \in Seq(Ids), NEW d
    PROVE  Splice(q, d) \in Seq(Ids)
<1>1. CASE \E i \in 1..Len(q) : q[i] = d
  <2> DEFINE i == CHOOSE i \in 1..Len(q) : q[i] = d
  <2>1. i \in 1..Len(q)
    BY <1>1
  <2> HIDE DEF i
  <2>2. Len(q) \in Nat /\ \A j \in 1..Len(q) : q[j] \in Ids
    OBVIOUS
  <2>3. SubSeq(q, 1, i - 1) \in Seq(Ids)
    BY <2>1, <2>2, SubSeqProperties
  <2>4. SubSeq(q, i + 1, Len(q)) \in Seq(Ids)
    BY <2>1, <2>2, SubSeqProperties
  <2>5. Splice(q, d) = SubSeq(q, 1, i - 1) \o SubSeq(q, i + 1, Len(q))
    BY <1>1 DEF Splice, RemoveAt, i
  <2> QED
    BY <2>3, <2>4, <2>5, ConcatProperties
<1>2. CASE ~ \E i \in 1..Len(q) : q[i] = d
  BY <1>2 DEF Splice
<1> QED
  BY <1>1, <1>2

\* cancelDelegation gives back the slot of the delegation that stops running.
LEMMA AbortOK ==
    ASSUME NEW e, PoolOK(e), NEW d \in Ids
    PROVE  PoolOK(Abort(e, d))
<1>1. e \in PoolType /\ SlotInv(e)
  BY DEF PoolOK
<1>2. Splice(e.queue, d) \in Seq(Ids)
  BY <1>1, SpliceType DEF PoolType
<1>3. Abort(e, d) = [status |-> [e.status EXCEPT ![d] = "cancelled"],
                     queue |-> Splice(e.queue, d), controllers |-> e.controllers \ {d},
                     executors |-> e.executors, created |-> e.created]
  BY DEF Abort, Engine
<1>4. [e.status EXCEPT ![d] = "cancelled"] \in [Ids -> DelegationStatus]
  BY <1>1 DEF PoolType, DelegationStatus, EndStatus
<1>5. Abort(e, d) \in PoolType
  BY <1>1, <1>2, <1>3, <1>4 DEF PoolType
<1>6. HasExecutor => Cardinality(e.controllers \ {d}) <= MaxParallel
  <2>1. /\ IsFiniteSet(e.controllers) /\ Cardinality(e.controllers) \in Nat
        /\ Cardinality(e.controllers \ {d}) \in Nat
    BY <1>1, IdsFinite DEF PoolType
  <2>2. Cardinality(e.controllers \ {d}) <= Cardinality(e.controllers)
    BY <2>1, FS_Subset
  <2> QED
    BY <2>1, <2>2, <1>1, MaxParallelAssumption DEF SlotInv
<1>7. SlotInv(Abort(e, d))
  BY <1>1, <1>3, <1>6 DEF SlotInv, PoolType
<1> QED
  BY <1>5, <1>7 DEF PoolOK

\* cancelDelegation as a whole.
LEMMA CancelOK ==
    ASSUME NEW e, PoolOK(e), NEW d \in Ids
    PROVE  PoolOK(CancelIn(e, d))
BY AbortOK, PumpOK DEF CancelIn

\* settle ends a delegation and touches no slot; marking the executor's promise
\* as settled is sound because the delegation has ended.
LEMMA SettleOK ==
    ASSUME NEW e, PoolOK(e), NEW d \in Ids, NEW outcome \in Outcomes
    PROVE  /\ PoolOK(Settle(e, d, outcome))
           /\ PoolOK(Settle(PromiseSettled(e, d), d, outcome))
<1>1. e \in PoolType /\ SlotInv(e)
  BY DEF PoolOK
<1>2. outcome \in DelegationStatus /\ outcome # "running"
  BY OutcomesAssumption DEF DelegationStatus, EndStatus
<1>3. [e.status EXCEPT ![d] = outcome] \in [Ids -> DelegationStatus]
  BY <1>1, <1>2 DEF PoolType
<1>4. [e.executors EXCEPT ![d] = "settled"] \in [Ids -> ExecutorState]
  BY <1>1 DEF PoolType, ExecutorState
<1>5. Settle(e, d, outcome) =
          [status |-> [e.status EXCEPT ![d] = outcome], queue |-> e.queue,
           controllers |-> e.controllers, executors |-> e.executors, created |-> e.created]
  BY <1>1 DEF Settle, PoolType
<1>6. PromiseSettled(e, d) =
          [status |-> e.status, queue |-> e.queue, controllers |-> e.controllers,
           executors |-> [e.executors EXCEPT ![d] = "settled"], created |-> e.created]
  BY <1>1 DEF PromiseSettled, PoolType
<1>7. Settle(PromiseSettled(e, d), d, outcome) =
          [status |-> [e.status EXCEPT ![d] = outcome], queue |-> e.queue,
           controllers |-> e.controllers,
           executors |-> [e.executors EXCEPT ![d] = "settled"], created |-> e.created]
  BY <1>6 DEF Settle
<1>8. PoolOK(Settle(e, d, outcome))
  BY <1>1, <1>2, <1>3, <1>5 DEF PoolOK, SlotInv, PoolType
<1>9. PoolOK(Settle(PromiseSettled(e, d), d, outcome))
  BY <1>1, <1>2, <1>3, <1>4, <1>7 DEF PoolOK, SlotInv, PoolType
<1> QED
  BY <1>8, <1>9

\* An executor that settles after its delegation ended changes nothing else.
LEMMA LateSettleOK ==
    ASSUME NEW e, PoolOK(e), NEW d \in Ids, e.status[d] # "running"
    PROVE  PoolOK(PromiseSettled(e, d))
<1>1. e \in PoolType /\ SlotInv(e)
  BY DEF PoolOK
<1>2. PromiseSettled(e, d) =
          [status |-> e.status, queue |-> e.queue, controllers |-> e.controllers,
           executors |-> [e.executors EXCEPT ![d] = "settled"], created |-> e.created]
  BY <1>1 DEF PoolType, PromiseSettled
<1>3. [e.executors EXCEPT ![d] = "settled"] \in [Ids -> ExecutorState]
  BY <1>1 DEF PoolType, ExecutorState
<1> QED
  BY <1>1, <1>2, <1>3 DEF PoolOK, SlotInv, PoolType

\* The finally callback gives back a slot that no running delegation holds.
LEMMA ReleaseOK ==
    ASSUME NEW e, PoolOK(e), NEW d \in Ids, e.executors[d] = "settled"
    PROVE  PoolOK(Release(e, d))
<1> DEFINE r == Engine(e.status, e.queue, e.controllers \ {d},
                   [e.executors EXCEPT ![d] = "none"], e.created)
<1>1. e \in PoolType /\ SlotInv(e)
  BY DEF PoolOK
<1>2. r = [status |-> e.status, queue |-> e.queue, controllers |-> e.controllers \ {d},
           executors |-> [e.executors EXCEPT ![d] = "none"], created |-> e.created]
  BY DEF Engine
<1> HIDE DEF r
<1>3. [e.executors EXCEPT ![d] = "none"] \in [Ids -> ExecutorState]
  BY <1>1 DEF PoolType, ExecutorState
<1>4. HasExecutor => Cardinality(e.controllers \ {d}) <= MaxParallel
  <2>1. /\ IsFiniteSet(e.controllers) /\ Cardinality(e.controllers) \in Nat
        /\ Cardinality(e.controllers \ {d}) \in Nat
    BY <1>1, IdsFinite DEF PoolType
  <2>2. Cardinality(e.controllers \ {d}) <= Cardinality(e.controllers)
    BY <2>1, FS_Subset
  <2> QED
    BY <2>1, <2>2, <1>1, MaxParallelAssumption DEF SlotInv
<1>5. r \in PoolType
  BY <1>1, <1>2, <1>3 DEF PoolType
<1>6. SlotInv(r)
  BY <1>1, <1>2, <1>4 DEF SlotInv, PoolType
<1> QED
  BY <1>5, <1>6, PumpOK DEF PoolOK, Release, r

-----------------------------------------------------------------------------
(***************************************************************************)
(* Facts about the operators on pipelines.                                 *)
(***************************************************************************)

\* "The first stage such that" is a stage when there is one.
LEMMA FirstOfType ==
    ASSUME NEW S \in SUBSET Stages, S # {}
    PROVE  FirstOf(S) \in S
<1>1. S \in SUBSET Nat
  BY NumStagesAssumption DEF Stages
<1>2. \E s \in S : \A t \in S : s <= t
  BY <1>1, LeastElement
<1> QED
  BY <1>2 DEF FirstOf

\* Replacing a stage's status and delegation keeps the type.
LEMMA WithStageType ==
    ASSUME NEW pl \in PipelineType, NEW s \in Stages, NEW st \in StageStatus,
           NEW id \in Ids \cup {NoId}
    PROVE  WithStage(pl, s, st, id) \in PipelineType
<1>1. pl.status \in PipelineStatus /\ pl.stages \in [Stages -> StageType]
  BY DEF PipelineType
<1>2. [status |-> st, delegationId |-> id, known |-> pl.stages[s].known] \in StageType
  BY <1>1 DEF StageType
<1> QED
  BY <1>1, <1>2 DEF WithStage, PipelineType

\* Replacing the status of a pipeline keeps the type.
LEMMA WithStatusType ==
    ASSUME NEW pl \in PipelineType, NEW st \in PipelineStatus
    PROVE  WithStatus(pl, st) \in PipelineType
BY DEF WithStatus, PipelineType

\* advancePipeline keeps the type; it needs an id only to start a stage.
LEMMA AdvanceType ==
    ASSUME NEW pl \in PipelineType, NEW d, StartsStage(pl) => d \in Ids
    PROVE  Advance(pl, d) \in PipelineType
<1>1. CASE StartsStage(pl)
  <2>1. NextStage(pl) \in Stages
    BY <1>1, FirstOfType DEF NextStage, StartsStage, StagesIn
  <2> QED
    BY <1>1, <2>1, WithStageType DEF Advance, StageStatus
<1>2. CASE ~StartsStage(pl)
  BY <1>2, WithStatusType DEF Advance, PipelineStatus
<1> QED
  BY <1>1, <1>2

\* onStageDelegationFinished keeps the type.
LEMMA StageFinishedType ==
    ASSUME NEW pl \in PipelineType, NEW d \in Ids, NEW st
    PROVE  StageFinished(pl, d, st) \in PipelineType
<1>1. CASE StageOf(pl, d) = {}
  BY <1>1 DEF StageFinished
<1>2. CASE StageOf(pl, d) # {}
  <2> DEFINE s == FirstOf(StageOf(pl, d))
  <2>1. s \in Stages
    BY <1>2, FirstOfType DEF StageOf
  <2> HIDE DEF s
  <2>2. /\ WithStage(pl, s, "completed", d) \in PipelineType
        /\ WithStage(pl, s, "pending", NoId) \in PipelineType
        /\ WithStage(pl, s, "failed", d) \in PipelineType
    BY <2>1, WithStageType DEF StageStatus
  <2>3. WithStatus(WithStage(pl, s, "failed", d), "blocked") \in PipelineType
    BY <2>2, WithStatusType DEF PipelineStatus
  <2> QED
    BY <1>2, <2>2, <2>3 DEF StageFinished, s
<1> QED
  BY <1>1, <1>2

\* Skipping what is open keeps the type.
LEMMA SkipOpenType ==
    ASSUME NEW pl \in PipelineType, NEW lo, NEW hi
    PROVE  SkipOpen(pl, lo, hi) \in PipelineType
<1>1. pl.status \in PipelineStatus /\ pl.stages \in [Stages -> StageType]
  BY DEF PipelineType
<1>2. \A s \in Stages : [pl.stages[s] EXCEPT !.status = "skipped"] \in StageType
  BY <1>1 DEF StageType, StageStatus
<1> QED
  BY <1>1, <1>2 DEF SkipOpen, PipelineType

-----------------------------------------------------------------------------
(***************************************************************************)
(* The inductive invariant of the specification.                           *)
(***************************************************************************)

IInv == TypeOK /\ SlotInv(pool)

\* The part of the state that is not in the pool.
RestType ==
    /\ owner \in [Ids -> Pipelines \cup {NoPipeline}]
    /\ pipelines \in [Pipelines -> PipelineType]
    /\ cancelling \in [Pipelines -> 0..NumStages]
    /\ rows \in [Ids -> DelegationStatus]
    /\ restarts \in 0..MaxRestarts

\* IInv in terms of the pool lemmas, in one state and in the next.
LEMMA IInvParts ==
    /\ IInv <=> PoolOK(pool) /\ RestType
    /\ IInv' <=> PoolOK(pool') /\ RestType'
BY DEF IInv, TypeOK, PoolOK, SlotInv, RestType

\* Writing the table keeps the type of its status column.
LEMMA PersistType ==
    ASSUME pool' \in PoolType, rows \in [Ids -> DelegationStatus], Persist
    PROVE  rows' \in [Ids -> DelegationStatus]
<1>1. \A d \in Ids : pool'.status[d] \in DelegationStatus
  BY DEF PoolType
<1> QED
  BY <1>1 DEF Persist, DelegationStatus, LiveStatus

\* advancePipeline, from any operation that ends in it.
LEMMA AdvancePipelineOK ==
    ASSUME NEW e, PoolOK(e), RestType, NEW p \in Pipelines, NEW pl \in PipelineType,
           AdvancePipeline(e, p, pl)
    PROVE  /\ PoolOK(pool')
           /\ owner' \in [Ids -> Pipelines \cup {NoPipeline}]
           /\ pipelines' \in [Pipelines -> PipelineType]
           /\ rows' \in [Ids -> DelegationStatus]
<1>1. StartsStage(pl) => e.created < MaxDelegations
  BY DEF AdvancePipeline
<1>2. PoolOK(pool')
  BY <1>1, DelegateOK DEF AdvancePipeline
<1>3. e.created \in 0..MaxDelegations
  BY DEF PoolOK, PoolType
<1>4. StartsStage(pl) => e.created + 1 \in Ids
  BY <1>1, <1>3, MaxDelegationsAssumption DEF Ids
<1>5. Advance(pl, e.created + 1) \in PipelineType
  BY <1>4, AdvanceType
<1>6. pipelines' \in [Pipelines -> PipelineType]
  BY <1>5 DEF AdvancePipeline, RestType
<1>7. owner' \in [Ids -> Pipelines \cup {NoPipeline}]
  BY <1>4 DEF AdvancePipeline, RestType
<1>8. rows' \in [Ids -> DelegationStatus]
  BY <1>2, PersistType DEF PoolOK, RestType, AdvancePipeline
<1> QED
  BY <1>2, <1>6, <1>7, <1>8

\* settle, with the pipeline's reaction.
LEMMA SettleDelegationOK ==
    ASSUME NEW e, RestType, NEW d \in Ids, NEW outcome \in Outcomes,
           PoolOK(Settle(e, d, outcome)), SettleDelegation(e, d, outcome)
    PROVE  /\ PoolOK(pool')
           /\ owner' \in [Ids -> Pipelines \cup {NoPipeline}]
           /\ pipelines' \in [Pipelines -> PipelineType]
           /\ rows' \in [Ids -> DelegationStatus]
<1> DEFINE p == owner[d]
           pl == StageFinished(pipelines[p], d, outcome)
<1>1. p \in Pipelines \cup {NoPipeline}
  BY DEF RestType
<1>2. p # NoPipeline => p \in Pipelines /\ pl \in PipelineType
  BY <1>1, StageFinishedType DEF RestType
<1>3. CASE p # NoPipeline /\ outcome = "completed" /\ StageOf(pl, d) # {}
  <2>1. AdvancePipeline(Settle(e, d, outcome), p, pl)
    BY <1>3 DEF SettleDelegation
  <2> HIDE DEF pl, p
  <2> QED
    BY <1>2, <1>3, <2>1, AdvancePipelineOK
<1>4. CASE ~(p # NoPipeline /\ outcome = "completed" /\ StageOf(pl, d) # {})
  <2>1. /\ pool' = Settle(e, d, outcome)
        /\ pipelines' = IF p = NoPipeline THEN pipelines
                        ELSE [pipelines EXCEPT ![p] = pl]
        /\ Persist
        /\ UNCHANGED owner
    BY <1>4 DEF SettleDelegation
  <2>2. PoolOK(pool')
    BY <2>1
  <2>3. rows' \in [Ids -> DelegationStatus]
    BY <2>1, <2>2, PersistType DEF PoolOK, RestType
  <2> HIDE DEF pl, p
  <2>4. pipelines' \in [Pipelines -> PipelineType]
    BY <1>2, <2>1 DEF RestType
  <2> QED
    BY <2>1, <2>2, <2>3, <2>4 DEF RestType
<1> QED
  BY <1>3, <1>4

\* One stretch of cancelPipeline's loop.
LEMMA CancelFromOK ==
    ASSUME PoolOK(pool), RestType, NEW p \in Pipelines, NEW pl \in PipelineType,
           NEW i \in Nat \ {0}, CancelFrom(p, pl, i)
    PROVE  PoolOK(pool') /\ RestType'
<1> DEFINE linked == {s \in i..NumStages : pl.stages[s].delegationId # NoId}
           s == FirstOf(linked)
           d == pl.stages[s].delegationId
           skipped == SkipOpen(pl, i, s - 1)
<1>1. linked \in SUBSET Stages
  BY NumStagesAssumption DEF Stages
<1>2. UNCHANGED <<owner, restarts>>
  BY DEF CancelFrom
<1>3. CASE linked = {}
  <2>1. /\ pipelines' = [pipelines EXCEPT ![p] = SkipOpen(pl, i, NumStages)]
        /\ cancelling' = [cancelling EXCEPT ![p] = 0]
        /\ UNCHANGED <<pool, rows>>
    BY <1>3 DEF CancelFrom
  <2>2. SkipOpen(pl, i, NumStages) \in PipelineType
    BY SkipOpenType
  <2>3. 0 \in 0..NumStages
    BY NumStagesAssumption
  <2> QED
    BY <1>2, <2>1, <2>2, <2>3 DEF RestType
<1>4. CASE linked # {}
  <2>1. s \in linked
    BY <1>1, <1>4, FirstOfType
  <2>2. s \in Stages /\ s \in 0..NumStages
    BY <1>1, <2>1, NumStagesAssumption DEF Stages
  <2>3. d \in Ids
    BY <2>1, <2>2 DEF PipelineType, StageType
  <2>4. skipped \in PipelineType
    BY SkipOpenType
  <2>5. /\ pool' = CancelIn(pool, d)
        /\ pipelines' = [pipelines EXCEPT ![p] =
               IF pool.status[d] \in LiveStatus
               THEN StageFinished(skipped, d, "cancelled") ELSE skipped]
        /\ cancelling' = [cancelling EXCEPT ![p] = s]
        /\ Persist
    BY <1>4 DEF CancelFrom
  <2> HIDE DEF s, d, skipped, linked
  <2>6. PoolOK(pool')
    BY <2>3, <2>5, CancelOK
  <2>7. StageFinished(skipped, d, "cancelled") \in PipelineType
    BY <2>3, <2>4, StageFinishedType
  <2>8. rows' \in [Ids -> DelegationStatus]
    BY <2>5, <2>6, PersistType DEF PoolOK, RestType
  <2> QED
    BY <1>2, <2>2, <2>4, <2>5, <2>6, <2>7, <2>8 DEF RestType
<1> QED
  BY <1>3, <1>4

\* The initial state satisfies the invariant.
LEMMA InitIInv == Init => IInv
<1> SUFFICES ASSUME Init PROVE IInv
  OBVIOUS
<1>1. pool = [status |-> [d \in Ids |-> "absent"], queue |-> <<>>, controllers |-> {},
              executors |-> [d \in Ids |-> "none"], created |-> 0]
  BY DEF Init, Engine
<1>2. PoolOK(pool)
  <2>1. pool \in PoolType
    BY <1>1, MaxDelegationsAssumption DEF PoolType, DelegationStatus, ExecutorState
  <2>2. Cardinality({}) = 0
    BY FS_EmptySet
  <2>3. SlotInv(pool)
    BY <1>1, <2>2, MaxParallelAssumption DEF SlotInv
  <2> QED
    BY <2>1, <2>3 DEF PoolOK
<1>3. EmptyPipeline \in PipelineType
  BY DEF EmptyPipeline, PipelineType, PipelineStatus, StageType, StageStatus
<1>4. RestType
  BY <1>3, NumStagesAssumption, MaxRestartsAssumption
     DEF Init, RestType, DelegationStatus
<1> QED
  BY <1>2, <1>4, IInvParts

\* A restart of the process: nothing runs and no slot is taken.
LEMMA RestartOK ==
    ASSUME PoolOK(pool), RestType, Restart
    PROVE  PoolOK(pool') /\ RestType'
<1> DEFINE orphans == {d \in Rehydrated : rows[d] \in LiveStatus}
           status == [d \in Ids |-> IF d \in orphans THEN "cancelled"
                                    ELSE IF d \in Rehydrated THEN rows[d] ELSE "absent"]
<1>1. /\ pool' = Engine(status, <<>>, {}, [d \in Ids |-> "none"], pool.created)
      /\ restarts < MaxRestarts /\ restarts' = restarts + 1
      /\ owner' = [d \in Ids |-> NoPipeline]
      /\ pipelines' = [p \in Pipelines |-> EmptyPipeline]
      /\ cancelling' = [p \in Pipelines |-> 0]
      /\ \E written \in SUBSET orphans :
             rows' = [d \in Ids |-> IF d \in written THEN "cancelled" ELSE rows[d]]
  BY DEF Restart
<1>2. \A d \in Ids : status[d] \in DelegationStatus \ {"running"}
  BY DEF RestType, DelegationStatus, EndStatus, LiveStatus
<1>3. status \in [Ids -> DelegationStatus]
  BY <1>2
<1>4. rows' \in [Ids -> DelegationStatus]
  BY <1>1 DEF RestType, DelegationStatus, EndStatus
<1> HIDE DEF status, orphans
<1>5. pool' \in PoolType
  BY <1>1, <1>3 DEF Engine, PoolOK, PoolType, ExecutorState
<1>6. SlotInv(pool')
  <2>1. Cardinality({}) = 0
    BY FS_EmptySet
  <2> QED
    BY <1>1, <1>2, <2>1, MaxParallelAssumption DEF SlotInv, Engine
<1>7. EmptyPipeline \in PipelineType
  BY DEF EmptyPipeline, PipelineType, PipelineStatus, StageType, StageStatus
<1>8. RestType'
  BY <1>1, <1>4, <1>7, NumStagesAssumption, MaxRestartsAssumption DEF RestType
<1> QED
  BY <1>5, <1>6, <1>8 DEF PoolOK

\* Every step keeps the invariant.
LEMMA NextIInv == IInv /\ [Next]_vars => IInv'
<1> SUFFICES ASSUME IInv, [Next]_vars PROVE IInv'
  OBVIOUS
<1>0. PoolOK(pool) /\ RestType
  BY IInvParts
<1> SUFFICES PoolOK(pool') /\ RestType'
  BY IInvParts
<1>1. CASE DelegateTask
  <2>1. PoolOK(pool')
    BY <1>0, <1>1, DelegateOK DEF DelegateTask
  <2> QED
    BY <1>0, <1>1, <2>1, PersistType DEF DelegateTask, RestType, PoolOK
<1>2. ASSUME NEW d \in Ids, CancelDelegation(d) PROVE PoolOK(pool') /\ RestType'
  <2>1. PoolOK(pool')
    BY <1>0, <1>2, CancelOK DEF CancelDelegation
  <2>2. rows' \in [Ids -> DelegationStatus]
    BY <1>0, <1>2, <2>1, PersistType DEF CancelDelegation, RestType, PoolOK
  <2>3. pipelines' \in [Pipelines -> PipelineType]
    <3>1. CASE owner[d] = NoPipeline
      BY <1>0, <1>2, <3>1 DEF CancelDelegation, RestType
    <3>2. CASE owner[d] # NoPipeline
      <4>1. owner[d] \in Pipelines
        BY <1>0, <3>2 DEF RestType
      <4>2. StageFinished(pipelines[owner[d]], d, "cancelled") \in PipelineType
        BY <1>0, <4>1, StageFinishedType DEF RestType
      <4> QED
        BY <1>0, <1>2, <3>2, <4>1, <4>2 DEF CancelDelegation, RestType
    <3> QED
      BY <3>1, <3>2
  <2> QED
    BY <1>0, <1>2, <2>1, <2>2, <2>3 DEF CancelDelegation, RestType
<1>3. ASSUME NEW d \in Ids, ExecutorSettles(d) PROVE PoolOK(pool') /\ RestType'
  <2>1. CASE pool.status[d] = "running"
    <3>1. PICK outcome \in Outcomes : SettleDelegation(PromiseSettled(pool, d), d, outcome)
      BY <1>3, <2>1 DEF ExecutorSettles
    <3>2. PoolOK(Settle(PromiseSettled(pool, d), d, outcome))
      BY <1>0, SettleOK
    <3>3. /\ PoolOK(pool') /\ owner' \in [Ids -> Pipelines \cup {NoPipeline}]
          /\ pipelines' \in [Pipelines -> PipelineType]
          /\ rows' \in [Ids -> DelegationStatus]
      BY <1>0, <3>1, <3>2, SettleDelegationOK
    <3> QED
      BY <1>0, <1>3, <3>3 DEF ExecutorSettles, RestType
  <2>2. CASE pool.status[d] # "running"
    <3>1. pool' = PromiseSettled(pool, d)
      BY <1>3, <2>2 DEF ExecutorSettles
    <3>2. PoolOK(pool')
      BY <1>0, <2>2, <3>1, LateSettleOK
    <3> QED
      BY <1>0, <1>3, <2>2, <3>2 DEF ExecutorSettles, RestType
  <2> QED
    BY <2>1, <2>2
<1>4. ASSUME NEW d \in Ids, ExecutorFinally(d) PROVE PoolOK(pool') /\ RestType'
  <2>1. PoolOK(pool')
    BY <1>0, <1>4, ReleaseOK DEF ExecutorFinally
  <2> QED
    BY <1>0, <1>4, <2>1, PersistType DEF ExecutorFinally, RestType, PoolOK
<1>5. ASSUME NEW d \in Ids, FinishDelegation(d) PROVE PoolOK(pool') /\ RestType'
  <2>1. PICK outcome \in Outcomes : SettleDelegation(pool, d, outcome)
    BY <1>5 DEF FinishDelegation
  <2>2. PoolOK(Settle(pool, d, outcome))
    BY <1>0, SettleOK
  <2>3. /\ PoolOK(pool') /\ owner' \in [Ids -> Pipelines \cup {NoPipeline}]
        /\ pipelines' \in [Pipelines -> PipelineType]
        /\ rows' \in [Ids -> DelegationStatus]
    BY <1>0, <2>1, <2>2, SettleDelegationOK
  <2> QED
    BY <1>0, <1>5, <2>3 DEF FinishDelegation, RestType
<1>6. ASSUME NEW d \in Ids, UpdateProgress(d) \/ RecordUsage(d)
      PROVE  PoolOK(pool') /\ RestType'
  BY <1>0, <1>6 DEF UpdateProgress, RecordUsage, RestType, PoolOK, PoolType
<1>7. ASSUME NEW p \in Pipelines, CreatePipeline(p) PROVE PoolOK(pool') /\ RestType'
  <2>1. \A unknown : [s \in Stages |-> [status |-> "pending", delegationId |-> NoId,
                                      known |-> s \notin unknown]] \in [Stages -> StageType]
    BY DEF StageType, StageStatus
  <2> QED
    BY <1>0, <1>7, <2>1 DEF CreatePipeline, RestType, PipelineType, PipelineStatus
<1>8. ASSUME NEW p \in Pipelines, NEW pl \in PipelineType, AdvancePipeline(pool, p, pl),
             UNCHANGED <<cancelling, restarts>>
      PROVE  PoolOK(pool') /\ RestType'
  BY <1>0, <1>8, AdvancePipelineOK DEF RestType
<1>9. ASSUME NEW p \in Pipelines, StartPipeline(p) PROVE PoolOK(pool') /\ RestType'
  <2>1. pipelines[p] \in PipelineType /\ WithStatus(pipelines[p], "running") \in PipelineType
    BY <1>0, WithStatusType DEF RestType, PipelineStatus
  <2> QED
    BY <1>8, <1>9, <2>1 DEF StartPipeline
<1>10. ASSUME NEW pl \in PipelineType PROVE Unblocked(pl) \in PipelineType
  BY WithStatusType DEF Unblocked, PipelineStatus
<1>11. ASSUME NEW p \in Pipelines, NEW s \in Stages, RetryStage(p, s)
       PROVE  PoolOK(pool') /\ RestType'
  <2>1. WithStage(pipelines[p], s, "pending", NoId) \in PipelineType
    BY <1>0, WithStageType DEF RestType, StageStatus
  <2> QED
    BY <1>8, <1>10, <1>11, <2>1 DEF RetryStage
<1>12. ASSUME NEW p \in Pipelines, NEW s \in Stages, SkipStage(p, s)
       PROVE  PoolOK(pool') /\ RestType'
  <2>1. pipelines[p].stages[s].delegationId \in Ids \cup {NoId}
    BY <1>0 DEF RestType, PipelineType, StageType
  <2>2. WithStage(pipelines[p], s, "skipped", pipelines[p].stages[s].delegationId)
            \in PipelineType
    BY <1>0, <2>1, WithStageType DEF RestType, StageStatus
  <2> QED
    BY <1>8, <1>10, <1>12, <2>2 DEF SkipStage
<1>13. ASSUME NEW p \in Pipelines, CancelPipeline(p) PROVE PoolOK(pool') /\ RestType'
  <2>1. WithStatus(pipelines[p], "cancelled") \in PipelineType
    BY <1>0, WithStatusType DEF RestType, PipelineStatus
  <2> QED
    BY <1>0, <1>13, <2>1, CancelFromOK DEF CancelPipeline
<1>14. ASSUME NEW p \in Pipelines, CancelPipelineResumes(p)
       PROVE  PoolOK(pool') /\ RestType'
  <2>1. SkipOpen(pipelines[p], cancelling[p], cancelling[p]) \in PipelineType
    BY <1>0, SkipOpenType DEF RestType
  <2>2. cancelling[p] + 1 \in Nat \ {0}
    BY <1>0 DEF RestType
  <2> QED
    BY <1>0, <1>14, <2>1, <2>2, CancelFromOK DEF CancelPipelineResumes
<1>15. CASE Restart
  BY <1>0, <1>15, RestartOK
<1>16. CASE UNCHANGED vars
  BY <1>0, <1>16 DEF vars, PoolOK, PoolType, SlotInv, RestType
<1> QED
  BY <1>1, <1>2, <1>3, <1>4, <1>5, <1>6, <1>7, <1>9, <1>11, <1>12, <1>13, <1>14,
     <1>15, <1>16 DEF Next

-----------------------------------------------------------------------------
(***************************************************************************)
(* Theorems.                                                               *)
(***************************************************************************)

\* The inductive invariant holds in every reachable state of the engine.
THEOREM IInvHolds == Spec => []IInv
<1> QED
  BY InitIInv, NextIInv, PTL DEF Spec

\* Type correctness: every operation leaves queue, statuses, controllers,
\* pipelines and rows well formed, whatever its inputs.
THEOREM TypeCorrect == Spec => []TypeOK
<1>1. IInv => TypeOK
  BY DEF IInv
<1> QED
  BY <1>1, IInvHolds, PTL

\* The parallel bound: an engine with an executor never has more than maxParallel
\* delegations running, for every number of delegations, pipelines and restarts.
THEOREM ParallelBound == Spec => []SlotsBounded
<1>1. IInv => SlotsBounded
  <2> SUFFICES ASSUME IInv, HasExecutor PROVE Cardinality(Running) <= MaxParallel
    BY DEF SlotsBounded
  <2>1. pool \in PoolType /\ SlotInv(pool)
    BY DEF IInv, TypeOK
  <2>2. Running \in SUBSET pool.controllers /\ pool.controllers \in SUBSET Ids
    BY <2>1 DEF Running, SlotInv, PoolType
  <2>3. /\ IsFiniteSet(pool.controllers) /\ Cardinality(pool.controllers) \in Nat
        /\ Cardinality(Running) \in Nat
    BY <2>2, IdsFinite DEF Running
  <2>4. Cardinality(Running) <= Cardinality(pool.controllers)
    BY <2>2, <2>3, FS_Subset
  <2> QED
    BY <2>1, <2>3, <2>4, MaxParallelAssumption DEF SlotInv
<1> QED
  BY <1>1, IInvHolds, PTL

-----------------------------------------------------------------------------
(***************************************************************************)
(* The queue and the free slots.                                           *)
(***************************************************************************)

Distinct(q) == \A i, j \in 1..Len(q) : q[i] = q[j] => i = j

\* Older ids come first (and Distinct follows).
InOrder(q) == \A i, j \in 1..Len(q) : i < j => q[i] < q[j]

\* The invariant of the engine's queue, as a predicate on a pool e.
QueueInv(e) ==
    /\ Distinct(e.queue)
    /\ InOrder(e.queue)
    /\ \A i \in 1..Len(e.queue) : e.status[e.queue[i]] = "queued"
    /\ \A d \in Ids : e.status[d] = "queued" => \E i \in 1..Len(e.queue) : e.queue[i] = d
    /\ \A d \in Ids : d > e.created => e.status[d] = "absent"

QueueOK(e) == e \in PoolType /\ QueueInv(e)

Pumped(e) == e.queue # <<>> => Cardinality(e.controllers) >= MaxParallel

\* An engine that a step may go on from or end with.
Steady(e) == QueueOK(e) /\ Pumped(e) /\ e.created >= pool.created

\* The table has no row of an id that was not given out.
RowsKnown == \A d \in Ids : d > pool.created => rows[d] = "absent"

QInv == IInv /\ QueueInv(pool) /\ Pumped(pool) /\ RowsKnown

-----------------------------------------------------------------------------
(***************************************************************************)
(* Facts about the operators on pools.                                     *)
(***************************************************************************)

\* pump shifts the first ids off the queue and changes no other status; when its loop ends with
\* ids left, the slots are taken.
LEMMA PumpQueue ==
    ASSUME NEW e, QueueOK(e)
    PROVE  /\ QueueOK(Pump(e))
           /\ Pumped(Pump(e))
           /\ Pump(e).created = e.created
<1> DEFINE k == PumpLength(e)
           n == Len(e.queue)
           r == Pump(e)
<1>1. e \in PoolType /\ QueueInv(e)
  BY DEF QueueOK
<1>2. k \in 0..n /\ PumpExits(e, k)
  BY <1>1, PumpLengthIsLeast
<1>3. n \in Nat /\ \A i \in 1..n : e.queue[i] \in Ids
  BY <1>1 DEF PoolType
<1>4. r \in PoolType
  BY <1>1, PumpType
<1>5. /\ r.queue = SubSeq(e.queue, k + 1, n)
      /\ r.controllers = Occupied(e, k)
      /\ r.created = e.created
      /\ \A d \in Ids : r.status[d] = IF d \in Started(e, k) THEN "running" ELSE e.status[d]
  BY DEF Pump, Engine
<1> HIDE DEF k, n, r
<1>6. /\ Len(r.queue) = n - k
      /\ \A i \in 1..(n - k) : r.queue[i] = e.queue[k + i]
  <2>1. \A i \in (k + 1)..n : e.queue[i] \in Ids
    BY <1>2, <1>3
  <2>2. k + 1 \in Int /\ n \in Int
    BY <1>2, <1>3
  <2>3. /\ Len(r.queue) = IF k + 1 <= n THEN n - (k + 1) + 1 ELSE 0
        /\ \A i \in 1..(n - (k + 1) + 1) : r.queue[i] = e.queue[k + 1 + i - 1]
    BY <1>5, <2>1, <2>2, SubSeqProperties
  <2>4. n - (k + 1) + 1 = n - k /\ (k + 1 <= n \/ n - k = 0)
    BY <1>2, <1>3
  <2>5. Len(r.queue) = n - k
    BY <1>2, <1>3, <2>3, <2>4
  <2>6. \A i \in 1..(n - k) : r.queue[i] = e.queue[k + 1 + i - 1]
    BY <2>3, <2>4
  <2>7. \A i \in 1..(n - k) : k + 1 + i - 1 = k + i
    BY <1>2, <1>3
  <2> QED
    BY <2>5, <2>6, <2>7
<1>7. \A i \in 1..n : e.queue[i] \in Started(e, k) <=> i \in 1..k
  <2>1. \A i, j \in 1..n : e.queue[i] = e.queue[j] => i = j
    BY <1>1 DEF QueueInv, Distinct, n
  <2>2. \A i \in 1..n : e.status[e.queue[i]] = "queued"
    BY <1>1 DEF QueueInv, n
  <2> QED
    BY <1>2, <1>3, <2>1, <2>2 DEF Started
<1>8. Distinct(r.queue)
  <2> SUFFICES ASSUME NEW i \in 1..(n - k), NEW j \in 1..(n - k), r.queue[i] = r.queue[j]
               PROVE  i = j
    BY <1>6 DEF Distinct
  <2>1. k + i \in 1..n /\ k + j \in 1..n /\ e.queue[k + i] = e.queue[k + j]
    BY <1>2, <1>3, <1>6
  <2>2. k + i = k + j
    BY <1>1, <2>1 DEF QueueInv, Distinct, n
  <2> QED
    BY <1>2, <2>2
<1>9. \A i \in 1..Len(r.queue) : r.status[r.queue[i]] = "queued"
  <2> SUFFICES ASSUME NEW i \in 1..(n - k) PROVE r.status[r.queue[i]] = "queued"
    BY <1>6
  <2>1. k + i \in 1..n /\ k + i \notin 1..k /\ r.queue[i] = e.queue[k + i]
    BY <1>2, <1>3, <1>6
  <2>2. e.status[e.queue[k + i]] = "queued"
    BY <1>1, <2>1 DEF QueueInv, n
  <2>3. e.queue[k + i] \in Ids /\ e.queue[k + i] \notin Started(e, k)
    BY <1>3, <1>7, <2>1
  <2>4. r.status[e.queue[k + i]] = "queued"
    BY <1>5, <2>2, <2>3
  <2> QED
    BY <2>1, <2>4
<1>10. ASSUME NEW d \in Ids, r.status[d] = "queued"
       PROVE  \E i \in 1..Len(r.queue) : r.queue[i] = d
  <2>1. d \notin Started(e, k) /\ e.status[d] = "queued"
    BY <1>5, <1>10
  <2>2. PICK j \in 1..n : e.queue[j] = d
    BY <1>1, <2>1 DEF QueueInv, n
  <2>3. j \notin 1..k
    BY <1>7, <2>1, <2>2
  <2>4. j - k \in 1..(n - k) /\ k + (j - k) = j
    BY <1>2, <1>3, <2>3
  <2> QED
    BY <1>6, <2>2, <2>4
<1>11. \A d \in Ids : d > r.created => r.status[d] = "absent"
  <2>1. \A d \in Started(e, k) : e.status[d] = "queued"
    BY <1>1, <1>2, StartedType DEF n
  <2> QED
    BY <1>1, <1>5, <2>1 DEF QueueInv
<1>12. Pumped(r)
  <2> SUFFICES ASSUME r.queue # <<>> PROVE Cardinality(r.controllers) >= MaxParallel
    BY DEF Pumped
  <2>1. k # n
    BY <1>2, <1>3, <1>5, SubSeqEmpty
  <2> QED
    BY <1>2, <1>5, <2>1 DEF PumpExits, n
<1>13. InOrder(r.queue)
  <2> SUFFICES ASSUME NEW i \in 1..(n - k), NEW j \in 1..(n - k), i < j
               PROVE  r.queue[i] < r.queue[j]
    BY <1>6 DEF InOrder
  <2>1. k + i \in 1..n /\ k + j \in 1..n /\ k + i < k + j
    BY <1>2, <1>3
  <2>2. r.queue[i] = e.queue[k + i] /\ r.queue[j] = e.queue[k + j]
    BY <1>6
  <2>3. \A x, y \in 1..n : x < y => e.queue[x] < e.queue[y]
    BY <1>1 DEF QueueInv, InOrder, n
  <2>4. e.queue[k + i] < e.queue[k + j]
    BY <2>1, <2>3
  <2> QED
    BY <2>2, <2>4
<1> QED
  BY <1>4, <1>5, <1>8, <1>9, <1>10, <1>11, <1>12, <1>13 DEF QueueOK, QueueInv, r

\* delegate appends an id that was not in the queue.
LEMMA EnqueueQueue ==
    ASSUME NEW e, QueueOK(e), e.created < MaxDelegations
    PROVE  QueueOK(Enqueue(e)) /\ Enqueue(e).created = e.created + 1
<1> DEFINE d == e.created + 1
           n == Len(e.queue)
           q == Append(e.queue, d)
<1>1. e \in PoolType /\ QueueInv(e)
  BY DEF QueueOK
<1>2. d \in Ids /\ d \in 0..MaxDelegations
  BY <1>1, MaxDelegationsAssumption DEF PoolType, Ids
<1>3. n \in Nat /\ e.queue \in Seq(Ids)
  BY <1>1 DEF PoolType
<1>4. /\ q \in Seq(Ids) /\ Len(q) = n + 1
      /\ \A i \in 1..n : q[i] = e.queue[i]
      /\ q[n + 1] = d
  BY <1>2, <1>3, AppendProperties
<1>5. e.status[d] = "absent"
  BY <1>1, <1>2 DEF QueueInv, PoolType
<1>6. \A i \in 1..n : e.queue[i] # d /\ e.queue[i] \in Ids
  BY <1>1, <1>3, <1>5 DEF QueueInv
<1>7. Enqueue(e) = [status |-> [e.status EXCEPT ![d] = "queued"],
                    queue |-> q, controllers |-> e.controllers,
                    executors |-> e.executors, created |-> d]
  BY DEF Enqueue, Engine
<1> HIDE DEF d, q, n
<1>8. e.status \in [Ids -> DelegationStatus]
  BY <1>1 DEF PoolType
<1>9. [e.status EXCEPT ![d] = "queued"] \in [Ids -> DelegationStatus]
  BY <1>8 DEF DelegationStatus, LiveStatus
<1>10. Enqueue(e) \in PoolType
  BY <1>1, <1>2, <1>4, <1>7, <1>9 DEF PoolType
<1>11. Distinct(q)
  <2>1. \A i, j \in 1..n : e.queue[i] = e.queue[j] => i = j
    BY <1>1 DEF QueueInv, Distinct, n
  <2>2. 1..(n + 1) = (1..n) \cup {n + 1}
    BY <1>3
  <2> QED
    BY <1>4, <1>6, <2>1, <2>2 DEF Distinct
<1>12. \A i \in 1..Len(q) : [e.status EXCEPT ![d] = "queued"][q[i]] = "queued"
  <2>1. \A i \in 1..n : e.status[e.queue[i]] = "queued"
    BY <1>1 DEF QueueInv, n
  <2>2. 1..(n + 1) = (1..n) \cup {n + 1}
    BY <1>3
  <2> QED
    BY <1>2, <1>4, <1>6, <1>8, <2>1, <2>2
<1>13. ASSUME NEW x \in Ids, [e.status EXCEPT ![d] = "queued"][x] = "queued"
       PROVE  \E i \in 1..Len(q) : q[i] = x
  <2>1. CASE x = d
    BY <1>3, <1>4, <2>1
  <2>2. CASE x # d
    <3>1. PICK i \in 1..n : e.queue[i] = x
      BY <1>1, <1>8, <1>13, <2>2 DEF QueueInv, n
    <3> QED
      BY <1>3, <1>4, <3>1
  <2> QED
    BY <2>1, <2>2
<1>14. \A x \in Ids : x > d => [e.status EXCEPT ![d] = "queued"][x] = "absent"
  BY <1>1, <1>8, MaxDelegationsAssumption DEF QueueInv, PoolType, Ids, d
<1>15. InOrder(q)
  <2>1. \A i, j \in 1..n : i < j => e.queue[i] < e.queue[j]
    BY <1>1 DEF QueueInv, InOrder, n
  <2>2. \A i \in 1..n : e.queue[i] < d
    <3>1. \A i \in 1..n : e.status[e.queue[i]] = "queued"
      BY <1>1 DEF QueueInv, n
    <3>2. \A i \in 1..n : ~(e.queue[i] > e.created)
      BY <1>1, <1>6, <3>1 DEF QueueInv
    <3>3. e.created \in Int /\ \A i \in 1..n : e.queue[i] \in Int
      BY <1>1, <1>6, MaxDelegationsAssumption DEF PoolType, Ids
    <3> QED
      BY <3>2, <3>3 DEF d
  <2>3. 1..(n + 1) = (1..n) \cup {n + 1}
    BY <1>3
  <2>4. SUFFICES ASSUME NEW i \in 1..(n + 1), NEW j \in 1..(n + 1), i < j
                 PROVE  q[i] < q[j]
    BY <1>4 DEF InOrder
  <2>5. i \in 1..n
    BY <1>3, <2>4
  <2> QED
    BY <1>4, <2>1, <2>2, <2>3, <2>4, <2>5
<1> QED
  BY <1>7, <1>10, <1>11, <1>12, <1>13, <1>14, <1>15 DEF QueueOK, QueueInv, d

\* delegate as a whole.
LEMMA DelegateQueue ==
    ASSUME NEW e, QueueOK(e), e.created < MaxDelegations
    PROVE  /\ QueueOK(Delegate(e)) /\ Pumped(Delegate(e))
           /\ Delegate(e).created = e.created + 1
BY EnqueueQueue, PumpQueue DEF Delegate

\* The splice of cancelDelegation takes out one id and keeps the others in their order.
LEMMA SpliceQueue ==
    ASSUME NEW q \in Seq(Ids), NEW d \in Ids, Distinct(q)
    PROVE  /\ Distinct(Splice(q, d))
           /\ InOrder(q) => InOrder(Splice(q, d))
           /\ \A j \in 1..Len(Splice(q, d)) :
                  Splice(q, d)[j] # d /\ \E i \in 1..Len(q) : Splice(q, d)[j] = q[i]
           /\ \A i \in 1..Len(q) : q[i] # d =>
                  \E j \in 1..Len(Splice(q, d)) : Splice(q, d)[j] = q[i]
<1> DEFINE n == Len(q)
           r == Splice(q, d)
<1>1. CASE \E i \in 1..Len(q) : q[i] = d
  <2> DEFINE k == CHOOSE i \in 1..Len(q) : q[i] = d
             s1 == SubSeq(q, 1, k - 1)
             s2 == SubSeq(q, k + 1, Len(q))
  <2>1. k \in 1..n /\ q[k] = d
    BY <1>1
  <2>2. r = s1 \o s2
    BY <1>1 DEF Splice, RemoveAt
  <2> HIDE DEF k, r
  <2>3. n \in Nat /\ \A i \in 1..n : q[i] \in Ids
    OBVIOUS
  <2>4. \A i, j \in 1..n : q[i] = q[j] => i = j
    BY DEF Distinct
  <2> HIDE DEF n
  <2>5. /\ s1 \in Seq(Ids) /\ Len(s1) = k - 1
        /\ \A i \in 1..(k - 1) : s1[i] = q[i]
    <3>1. 1 \in Int /\ k - 1 \in Int /\ \A i \in 1..(k - 1) : q[i] \in Ids
      BY <2>1, <2>3
    <3>2. /\ s1 \in Seq(Ids)
          /\ Len(s1) = IF 1 <= k - 1 THEN k - 1 - 1 + 1 ELSE 0
          /\ \A i \in 1..(k - 1 - 1 + 1) : s1[i] = q[1 + i - 1]
      BY <3>1, SubSeqProperties
    <3> HIDE DEF s1
    <3> QED
      BY <2>1, <2>3, <3>2
  <2>6. /\ s2 \in Seq(Ids) /\ Len(s2) = n - k
        /\ \A i \in 1..(n - k) : s2[i] = q[k + i]
    <3>1. k + 1 \in Int /\ n \in Int /\ \A i \in (k + 1)..n : q[i] \in Ids
      BY <2>1, <2>3
    <3>2. /\ s2 \in Seq(Ids)
          /\ Len(s2) = IF k + 1 <= n THEN n - (k + 1) + 1 ELSE 0
          /\ \A i \in 1..(n - (k + 1) + 1) : s2[i] = q[k + 1 + i - 1]
      BY <3>1, SubSeqProperties DEF n
    <3> HIDE DEF s2
    <3> QED
      BY <2>1, <2>3, <3>2
  <2> HIDE DEF s1, s2
  <2>7. /\ Len(r) = n - 1
        /\ \A i \in 1..(n - 1) : r[i] = IF i <= k - 1 THEN s1[i] ELSE s2[i - (k - 1)]
    <3>1. /\ Len(r) = Len(s1) + Len(s2)
          /\ \A i \in 1..(Len(s1) + Len(s2)) :
                 r[i] = IF i <= Len(s1) THEN s1[i] ELSE s2[i - Len(s1)]
      BY <2>2, <2>5, <2>6, ConcatProperties
    <3>2. Len(s1) + Len(s2) = n - 1
      BY <2>1, <2>3, <2>5, <2>6
    <3> QED
      BY <2>5, <3>1, <3>2
  <2>8. \A i \in 1..(n - 1) : r[i] = IF i < k THEN q[i] ELSE q[i + 1]
    <3> SUFFICES ASSUME NEW i \in 1..(n - 1) PROVE r[i] = IF i < k THEN q[i] ELSE q[i + 1]
      OBVIOUS
    <3>1. CASE i < k
      BY <2>1, <2>3, <2>5, <2>7, <3>1
    <3>2. CASE ~(i < k)
      <4>1. i - (k - 1) \in 1..(n - k) /\ k + (i - (k - 1)) = i + 1
        BY <2>1, <2>3, <3>2
      <4>2. ~(i <= k - 1)
        BY <2>1, <2>3, <3>2
      <4>3. r[i] = s2[i - (k - 1)]
        BY <2>7, <4>2
      <4> QED
        BY <2>6, <3>2, <4>1, <4>3
    <3> QED
      BY <3>1, <3>2
  <2>9. Distinct(r)
    <3> SUFFICES ASSUME NEW i \in 1..(n - 1), NEW j \in 1..(n - 1), r[i] = r[j]
                 PROVE  i = j
      BY <2>7 DEF Distinct
    <3> DEFINE a == IF i < k THEN i ELSE i + 1
               b == IF j < k THEN j ELSE j + 1
    <3>1. a \in 1..n /\ b \in 1..n
      BY <2>1, <2>3
    <3>2. q[a] = q[b]
      BY <2>8
    <3>3. a = b
      BY <2>4, <3>1, <3>2
    <3> QED
      BY <2>1, <2>3, <3>3
  <2>10. ASSUME NEW j \in 1..(n - 1)
         PROVE  r[j] # d /\ \E i \in 1..n : r[j] = q[i]
    <3> DEFINE a == IF j < k THEN j ELSE j + 1
    <3>1. a \in 1..n /\ a # k
      BY <2>1, <2>3
    <3>2. r[j] = q[a]
      BY <2>8
    <3>3. q[a] # d
      BY <2>1, <2>4, <3>1
    <3> HIDE DEF a
    <3> QED
      BY <3>1, <3>2, <3>3
  <2>11. ASSUME NEW i \in 1..n, q[i] # d
         PROVE  \E j \in 1..(n - 1) : r[j] = q[i]
    <3>1. i # k
      BY <2>1, <2>11
    <3>2. CASE i < k
      <4>1. i \in 1..(n - 1) /\ r[i] = q[i]
        BY <2>1, <2>3, <2>8, <3>2
      <4> QED
        BY <4>1
    <3>3. CASE i > k
      <4>1. i - 1 \in 1..(n - 1) /\ ~(i - 1 < k) /\ (i - 1) + 1 = i
        BY <2>1, <2>3, <3>3
      <4>2. r[i - 1] = q[i]
        BY <2>8, <4>1
      <4> QED
        BY <4>1, <4>2
    <3> QED
      BY <2>1, <2>3, <3>1, <3>2, <3>3
  <2>12. ASSUME InOrder(q) PROVE InOrder(r)
    <3> SUFFICES ASSUME NEW i \in 1..(n - 1), NEW j \in 1..(n - 1), i < j
                 PROVE  r[i] < r[j]
      BY <2>7 DEF InOrder
    <3> DEFINE a == IF i < k THEN i ELSE i + 1
               b == IF j < k THEN j ELSE j + 1
    <3>1. a \in 1..n /\ b \in 1..n /\ a < b
      BY <2>1, <2>3
    <3>2. r[i] = q[a] /\ r[j] = q[b]
      BY <2>8
    <3>3. q[a] < q[b]
      BY <2>12, <3>1 DEF InOrder, n
    <3> QED
      BY <3>2, <3>3
  <2> QED
    BY <2>7, <2>9, <2>10, <2>11, <2>12 DEF r, n
<1>2. CASE ~ \E i \in 1..Len(q) : q[i] = d
  <2>1. Splice(q, d) = q
    BY <1>2 DEF Splice
  <2> QED
    BY <1>2, <2>1
<1> QED
  BY <1>1, <1>2

\* cancelDelegation ends a live delegation and takes it out of the queue.
LEMMA AbortQueue ==
    ASSUME NEW e, QueueOK(e), NEW d \in Ids, e.status[d] \in LiveStatus
    PROVE  QueueOK(Abort(e, d)) /\ Abort(e, d).created = e.created
<1> DEFINE r == Splice(e.queue, d)
           status == [e.status EXCEPT ![d] = "cancelled"]
<1>1. e \in PoolType /\ QueueInv(e)
  BY DEF QueueOK
<1>2. e.queue \in Seq(Ids) /\ Distinct(e.queue) /\ e.status \in [Ids -> DelegationStatus]
  BY <1>1 DEF PoolType, QueueInv
<1>3. r \in Seq(Ids)
  BY <1>2, SpliceType
<1>4. /\ Distinct(r) /\ InOrder(r)
      /\ \A j \in 1..Len(r) : r[j] # d /\ \E i \in 1..Len(e.queue) : r[j] = e.queue[i]
      /\ \A i \in 1..Len(e.queue) : e.queue[i] # d => \E j \in 1..Len(r) : r[j] = e.queue[i]
  BY <1>1, <1>2, SpliceQueue DEF QueueInv
<1>5. Abort(e, d) = [status |-> status, queue |-> r, controllers |-> e.controllers \ {d},
                     executors |-> e.executors, created |-> e.created]
  BY DEF Abort, Engine
<1> HIDE DEF r
<1>6. status \in [Ids -> DelegationStatus]
  BY <1>2 DEF DelegationStatus, EndStatus
<1>7. Abort(e, d) \in PoolType
  BY <1>1, <1>3, <1>5, <1>6 DEF PoolType
<1>8. \A j \in 1..Len(r) : status[r[j]] = "queued"
  <2> SUFFICES ASSUME NEW j \in 1..Len(r) PROVE status[r[j]] = "queued"
    OBVIOUS
  <2>1. r[j] # d /\ r[j] \in Ids
    BY <1>3, <1>4
  <2>2. PICK i \in 1..Len(e.queue) : r[j] = e.queue[i]
    BY <1>4
  <2> QED
    BY <1>1, <1>2, <2>1, <2>2 DEF QueueInv
<1>9. ASSUME NEW x \in Ids, status[x] = "queued"
      PROVE  \E j \in 1..Len(r) : r[j] = x
  <2>1. x # d /\ e.status[x] = "queued"
    BY <1>2, <1>9
  <2>2. PICK i \in 1..Len(e.queue) : e.queue[i] = x
    BY <1>1, <2>1 DEF QueueInv
  <2> QED
    BY <1>4, <2>1, <2>2
<1>10. \A x \in Ids : x > e.created => status[x] = "absent"
  BY <1>1, <1>2 DEF QueueInv, LiveStatus
<1> QED
  BY <1>4, <1>5, <1>7, <1>8, <1>9, <1>10 DEF QueueOK, QueueInv

\* cancelDelegation as a whole.
LEMMA CancelQueue ==
    ASSUME NEW e, QueueOK(e), Pumped(e), NEW d \in Ids
    PROVE  /\ QueueOK(CancelIn(e, d)) /\ Pumped(CancelIn(e, d))
           /\ CancelIn(e, d).created = e.created
<1>1. CASE e.status[d] \in LiveStatus
  BY <1>1, AbortQueue, PumpQueue DEF CancelIn
<1>2. CASE e.status[d] \notin LiveStatus
  BY <1>2 DEF CancelIn
<1> QED
  BY <1>1, <1>2

\* Neither the queue nor the slots change when an executor's promise settles.
LEMMA PromiseQueue ==
    ASSUME NEW e, QueueOK(e), Pumped(e), NEW d \in Ids
    PROVE  /\ QueueOK(PromiseSettled(e, d)) /\ Pumped(PromiseSettled(e, d))
           /\ PromiseSettled(e, d).created = e.created
           /\ PromiseSettled(e, d).status = e.status
<1>1. e \in PoolType
  BY DEF QueueOK
<1>2. PromiseSettled(e, d) =
          [status |-> e.status, queue |-> e.queue, controllers |-> e.controllers,
           executors |-> [e.executors EXCEPT ![d] = "settled"], created |-> e.created]
  BY <1>1 DEF PoolType, PromiseSettled
<1>3. [e.executors EXCEPT ![d] = "settled"] \in [Ids -> ExecutorState]
  BY <1>1 DEF PoolType, ExecutorState
<1> QED
  BY <1>1, <1>2, <1>3 DEF QueueOK, QueueInv, Pumped, PoolType

\* settle ends a running delegation, which is not in the queue.
LEMMA SettleQueue ==
    ASSUME NEW e, QueueOK(e), Pumped(e), NEW d \in Ids, NEW outcome \in Outcomes,
           e.status[d] = "running"
    PROVE  /\ QueueOK(Settle(e, d, outcome)) /\ Pumped(Settle(e, d, outcome))
           /\ Settle(e, d, outcome).created = e.created
<1> DEFINE status == [e.status EXCEPT ![d] = outcome]
<1>1. e \in PoolType /\ QueueInv(e)
  BY DEF QueueOK
<1>2. outcome \in DelegationStatus /\ outcome # "queued"
  BY OutcomesAssumption DEF DelegationStatus, EndStatus
<1>3. status \in [Ids -> DelegationStatus]
  BY <1>1, <1>2 DEF PoolType
<1>4. Settle(e, d, outcome) =
          [status |-> status, queue |-> e.queue, controllers |-> e.controllers,
           executors |-> e.executors, created |-> e.created]
  BY <1>1 DEF Settle, PoolType
<1>5. \A i \in 1..Len(e.queue) : e.queue[i] \in Ids
  BY <1>1 DEF PoolType
<1>6. \A i \in 1..Len(e.queue) : status[e.queue[i]] = "queued"
  BY <1>1, <1>5 DEF QueueInv, PoolType
<1>7. \A x \in Ids : status[x] = "queued" => \E i \in 1..Len(e.queue) : e.queue[i] = x
  BY <1>1, <1>2 DEF QueueInv, PoolType
<1>8. \A x \in Ids : x > e.created => status[x] = "absent"
  BY <1>1 DEF QueueInv, PoolType
<1> HIDE DEF status
<1>9. Settle(e, d, outcome) \in PoolType
  BY <1>1, <1>3, <1>4 DEF PoolType
<1>10. QueueInv(Settle(e, d, outcome))
  BY <1>1, <1>4, <1>6, <1>7, <1>8 DEF QueueInv
<1> QED
  BY <1>4, <1>9, <1>10 DEF QueueOK, Pumped

\* The finally callback frees a slot and pumps.
LEMMA ReleaseQueue ==
    ASSUME NEW e, QueueOK(e), NEW d \in Ids
    PROVE  /\ QueueOK(Release(e, d)) /\ Pumped(Release(e, d))
           /\ Release(e, d).created = e.created
<1> DEFINE r == Engine(e.status, e.queue, e.controllers \ {d},
                       [e.executors EXCEPT ![d] = "none"], e.created)
<1>1. e \in PoolType /\ QueueInv(e)
  BY DEF QueueOK
<1>2. [e.executors EXCEPT ![d] = "none"] \in [Ids -> ExecutorState]
  BY <1>1 DEF PoolType, ExecutorState
<1>3. r \in PoolType /\ r.created = e.created
  BY <1>1, <1>2 DEF Engine, PoolType
<1>4. QueueInv(r)
  BY <1>1 DEF QueueInv, Engine
<1> HIDE DEF r
<1>5. QueueOK(Pump(r)) /\ Pumped(Pump(r)) /\ Pump(r).created = r.created
  BY <1>3, <1>4, PumpQueue DEF QueueOK
<1> QED
  BY <1>3, <1>5 DEF Release, r

-----------------------------------------------------------------------------
(***************************************************************************)
(* The steps.                                                              *)
(***************************************************************************)

\* What QInv adds to IInv, in terms of the pool lemmas, in one state and in the next.
LEMMA QInvParts ==
    /\ QInv => QueueOK(pool) /\ Pumped(pool) /\ RowsKnown /\ PoolOK(pool) /\ RestType
    /\ (IInv' /\ QueueOK(pool') /\ Pumped(pool') /\ RowsKnown') => QInv'
BY IInvParts DEF QInv, QueueOK, QueueInv, Distinct, InOrder, Pumped, PoolOK

\* Writing the table puts in no row of an id that was not given out.
LEMMA PersistRows ==
    ASSUME QueueOK(pool), RowsKnown, QueueOK(pool'), pool'.created >= pool.created,
           Persist \/ UNCHANGED rows
    PROVE  RowsKnown'
<1> SUFFICES ASSUME NEW d \in Ids, d > pool'.created PROVE rows'[d] = "absent"
  BY DEF RowsKnown
<1>1. d > pool.created
  BY MaxDelegationsAssumption DEF QueueOK, PoolType, Ids
<1>2. pool.status[d] = "absent" /\ pool'.status[d] = "absent" /\ rows[d] = "absent"
  BY <1>1 DEF QueueOK, QueueInv, RowsKnown
<1> QED
  BY <1>2 DEF Persist

\* A step that ends with a steady engine and writes the table keeps the invariant.
LEMMA StepQueue ==
    ASSUME QInv, [Next]_vars, Steady(pool'), Persist \/ UNCHANGED rows
    PROVE  QInv'
<1>1. IInv'
  BY NextIInv DEF QInv
<1>2. QueueOK(pool) /\ RowsKnown
  BY QInvParts
<1>3. QueueOK(pool') /\ Pumped(pool') /\ pool'.created >= pool.created
  BY DEF Steady
<1>4. RowsKnown'
  BY <1>2, <1>3, PersistRows
<1> QED
  BY <1>1, <1>3, <1>4, QInvParts

\* advancePipeline delegates the next stage or leaves the engine alone.
LEMMA AdvanceQueue ==
    ASSUME NEW e, Steady(e), pool \in PoolType, NEW p, NEW pl, AdvancePipeline(e, p, pl)
    PROVE  Steady(pool') /\ Persist
<1>1. e.created \in Nat /\ pool.created \in Nat
  BY MaxDelegationsAssumption DEF Steady, QueueOK, PoolType
<1>2. CASE StartsStage(pl)
  <2>1. pool' = Delegate(e) /\ e.created < MaxDelegations
    BY <1>2 DEF AdvancePipeline
  <2>2. /\ QueueOK(Delegate(e)) /\ Pumped(Delegate(e))
        /\ Delegate(e).created = e.created + 1
    BY <2>1, DelegateQueue DEF Steady
  <2> QED
    BY <1>1, <2>1, <2>2 DEF Steady, AdvancePipeline
<1>3. CASE ~StartsStage(pl)
  BY <1>3 DEF AdvancePipeline, Steady
<1> QED
  BY <1>2, <1>3

\* settle, with the pipeline's reaction.
LEMMA SettleDelegationQueue ==
    ASSUME NEW e, Steady(e), pool \in PoolType, NEW d \in Ids, NEW outcome \in Outcomes,
           e.status[d] = "running", SettleDelegation(e, d, outcome)
    PROVE  Steady(pool') /\ Persist
<1>1. Steady(Settle(e, d, outcome))
  BY SettleQueue DEF Steady
<1>2. \/ \E p, pl : AdvancePipeline(Settle(e, d, outcome), p, pl)
      \/ pool' = Settle(e, d, outcome) /\ Persist
  BY DEF SettleDelegation
<1> QED
  BY <1>1, <1>2, AdvanceQueue

\* One stretch of cancelPipeline's loop cancels one delegation or none.
LEMMA CancelFromQueue ==
    ASSUME Steady(pool), NEW p \in Pipelines, NEW pl \in PipelineType,
           NEW i \in Nat \ {0}, CancelFrom(p, pl, i)
    PROVE  Steady(pool') /\ (Persist \/ UNCHANGED rows)
<1> DEFINE linked == {s \in i..NumStages : pl.stages[s].delegationId # NoId}
           s == FirstOf(linked)
           d == pl.stages[s].delegationId
<1>1. linked \in SUBSET Stages
  BY NumStagesAssumption DEF Stages
<1>2. CASE linked = {}
  BY <1>2 DEF CancelFrom
<1>3. CASE linked # {}
  <2>1. s \in linked
    BY <1>1, <1>3, FirstOfType
  <2>2. d \in Ids
    BY <1>1, <2>1 DEF PipelineType, StageType
  <2>3. pool' = CancelIn(pool, d) /\ Persist
    BY <1>3 DEF CancelFrom
  <2> HIDE DEF d
  <2> QED
    BY <2>2, <2>3, CancelQueue DEF Steady
<1> QED
  BY <1>2, <1>3

\* At the start nothing is queued.
LEMMA InitQInv == Init => QInv
<1> SUFFICES ASSUME Init PROVE QInv
  OBVIOUS
<1>1. /\ pool = [status |-> [d \in Ids |-> "absent"], queue |-> <<>>, controllers |-> {},
                 executors |-> [d \in Ids |-> "none"], created |-> 0]
      /\ rows = [d \in Ids |-> "absent"]
  BY DEF Init, Engine
<1>2. Len(<<>>) = 0
  OBVIOUS
<1>3. QueueInv(pool) /\ Pumped(pool)
  BY <1>1, <1>2 DEF QueueInv, Distinct, InOrder, Pumped
<1> QED
  BY <1>1, <1>3, InitIInv DEF QInv, RowsKnown

\* A restart brings back ended delegations only, of ids that have a row.
LEMMA RestartQueue ==
    ASSUME QueueOK(pool), RestType, RowsKnown, Restart, pool' \in PoolType
    PROVE  QueueOK(pool') /\ Pumped(pool') /\ RowsKnown'
<1> DEFINE orphans == {d \in Rehydrated : rows[d] \in LiveStatus}
           status == [d \in Ids |-> IF d \in orphans THEN "cancelled"
                                    ELSE IF d \in Rehydrated THEN rows[d] ELSE "absent"]
<1>1. /\ pool' = Engine(status, <<>>, {}, [d \in Ids |-> "none"], pool.created)
      /\ \E written \in SUBSET orphans :
             rows' = [d \in Ids |-> IF d \in written THEN "cancelled" ELSE rows[d]]
  BY DEF Restart
<1>2. pool'.status = status /\ pool'.queue = <<>> /\ pool'.created = pool.created
  BY <1>1 DEF Engine
<1>3. \A d \in Rehydrated : d \in Ids /\ rows[d] # "absent"
  BY DEF Rehydrated
<1>4. \A d \in Ids : status[d] # "queued"
  BY DEF LiveStatus
<1>5. \A d \in Ids : d > pool.created => d \notin Rehydrated /\ rows[d] = "absent"
  BY <1>3 DEF RowsKnown
<1>6. \A d \in Ids : d > pool.created => status[d] = "absent"
  BY <1>5
<1>7. RowsKnown'
  BY <1>1, <1>2, <1>5 DEF RowsKnown
<1> HIDE DEF status, orphans
<1>8. Len(<<>>) = 0
  OBVIOUS
<1>9. QueueInv(pool')
  BY <1>2, <1>4, <1>6, <1>8 DEF QueueInv, Distinct, InOrder
<1> QED
  BY <1>2, <1>7, <1>9 DEF QueueOK, Pumped

\* Every step keeps the invariant.
LEMMA NextQInv == QInv /\ [Next]_vars => QInv'
<1> SUFFICES ASSUME QInv, [Next]_vars PROVE QInv'
  OBVIOUS
<1>0. /\ QueueOK(pool) /\ Pumped(pool) /\ RowsKnown /\ PoolOK(pool) /\ RestType
      /\ pool \in PoolType /\ pool.created \in Nat
  BY QInvParts, MaxDelegationsAssumption DEF QueueOK, PoolType
<1>1. Steady(pool)
  BY <1>0 DEF Steady
<1>2. ASSUME Steady(pool'), Persist \/ UNCHANGED rows PROVE QInv'
  BY <1>2, StepQueue
<1>3. CASE DelegateTask
  <2>1. pool' = Delegate(pool) /\ pool.created < MaxDelegations /\ Persist
    BY <1>3 DEF DelegateTask
  <2>2. Steady(pool')
    BY <1>0, <2>1, DelegateQueue DEF Steady
  <2> QED
    BY <1>2, <2>1, <2>2
<1>4. ASSUME NEW d \in Ids, CancelDelegation(d) PROVE QInv'
  <2>1. pool' = CancelIn(pool, d) /\ Persist
    BY <1>4 DEF CancelDelegation
  <2>2. Steady(pool')
    BY <1>0, <2>1, CancelQueue DEF Steady
  <2> QED
    BY <1>2, <2>1, <2>2
<1>5. ASSUME NEW d \in Ids, ExecutorSettles(d) PROVE QInv'
  <2>1. Steady(PromiseSettled(pool, d)) /\ PromiseSettled(pool, d).status = pool.status
    BY <1>0, PromiseQueue DEF Steady
  <2>2. CASE pool.status[d] = "running"
    <3>1. PICK outcome \in Outcomes : SettleDelegation(PromiseSettled(pool, d), d, outcome)
      BY <1>5, <2>2 DEF ExecutorSettles
    <3>2. Steady(pool') /\ Persist
      BY <1>0, <2>1, <2>2, <3>1, SettleDelegationQueue
    <3> QED
      BY <1>2, <3>2
  <2>3. CASE pool.status[d] # "running"
    <3>1. pool' = PromiseSettled(pool, d) /\ UNCHANGED rows
      BY <1>5, <2>3 DEF ExecutorSettles
    <3> QED
      BY <1>2, <2>1, <3>1
  <2> QED
    BY <2>2, <2>3
<1>6. ASSUME NEW d \in Ids, ExecutorFinally(d) PROVE QInv'
  <2>1. pool' = Release(pool, d) /\ Persist
    BY <1>6 DEF ExecutorFinally
  <2>2. Steady(pool')
    BY <1>0, <2>1, ReleaseQueue DEF Steady
  <2> QED
    BY <1>2, <2>1, <2>2
<1>7. ASSUME NEW d \in Ids, FinishDelegation(d) PROVE QInv'
  <2>1. PICK outcome \in Outcomes : SettleDelegation(pool, d, outcome)
    BY <1>7 DEF FinishDelegation
  <2>2. Steady(pool') /\ Persist
    BY <1>0, <1>1, <1>7, <2>1, SettleDelegationQueue DEF FinishDelegation
  <2> QED
    BY <1>2, <2>2
<1>8. ASSUME NEW d \in Ids, UpdateProgress(d) \/ RecordUsage(d) PROVE QInv'
  <2>1. IInv'
    BY NextIInv DEF QInv
  <2>2. pool' = pool /\ rows[d] # "absent" /\ rows' = [rows EXCEPT ![d] = pool.status[d]]
    BY <1>8 DEF UpdateProgress, RecordUsage
  <2>3. RowsKnown'
    BY <1>0, <2>2 DEF RowsKnown, RestType
  <2> QED
    BY <1>0, <2>1, <2>2, <2>3, QInvParts
<1>9. ASSUME NEW p \in Pipelines, CreatePipeline(p) PROVE QInv'
  <2>1. pool' = pool /\ UNCHANGED rows
    BY <1>9 DEF CreatePipeline
  <2> QED
    BY <1>1, <1>2, <2>1
<1>10. ASSUME NEW p, NEW pl, AdvancePipeline(pool, p, pl) PROVE QInv'
  BY <1>0, <1>1, <1>2, <1>10, AdvanceQueue
<1>11. ASSUME NEW p \in Pipelines, StartPipeline(p) PROVE QInv'
  BY <1>10, <1>11 DEF StartPipeline
<1>12. ASSUME NEW p \in Pipelines, NEW s \in Stages, RetryStage(p, s) \/ SkipStage(p, s)
       PROVE  QInv'
  BY <1>10, <1>12 DEF RetryStage, SkipStage
<1>13. ASSUME NEW p \in Pipelines, CancelPipeline(p) PROVE QInv'
  <2>1. WithStatus(pipelines[p], "cancelled") \in PipelineType
    BY <1>0, WithStatusType DEF RestType, PipelineStatus
  <2>2. CancelFrom(p, WithStatus(pipelines[p], "cancelled"), 1)
    BY <1>13 DEF CancelPipeline
  <2> QED
    BY <1>1, <1>2, <2>1, <2>2, CancelFromQueue
<1>14. ASSUME NEW p \in Pipelines, CancelPipelineResumes(p) PROVE QInv'
  <2>1. SkipOpen(pipelines[p], cancelling[p], cancelling[p]) \in PipelineType
    BY <1>0, SkipOpenType DEF RestType
  <2>2. cancelling[p] + 1 \in Nat \ {0}
    BY <1>0 DEF RestType
  <2>3. CancelFrom(p, SkipOpen(pipelines[p], cancelling[p], cancelling[p]),
                   cancelling[p] + 1)
    BY <1>14 DEF CancelPipelineResumes
  <2> QED
    BY <1>1, <1>2, <2>1, <2>2, <2>3, CancelFromQueue
<1>15. CASE Restart
  <2>1. IInv'
    BY NextIInv DEF QInv
  <2>2. pool' \in PoolType
    BY <2>1, IInvParts DEF PoolOK
  <2> QED
    BY <1>0, <1>15, <2>1, <2>2, RestartQueue, QInvParts
<1>16. CASE UNCHANGED vars
  BY <1>1, <1>2, <1>16 DEF vars
<1> QED
  BY <1>3, <1>4, <1>5, <1>6, <1>7, <1>8, <1>9, <1>11, <1>12, <1>13, <1>14, <1>15, <1>16
     DEF Next

-----------------------------------------------------------------------------
(***************************************************************************)
(* Theorems.                                                               *)
(***************************************************************************)

\* The inductive invariant of the queue holds in every reachable state.
THEOREM QInvHolds == Spec => []QInv
<1> QED
  BY InitQInv, NextQInv, PTL DEF Spec

\* The queue and the statuses agree: no queued delegation is forgotten, none is
\* in the queue twice or after it ended, for every number of ids, slots and restarts.
THEOREM QueueAgrees == Spec => []QueueMatchesStatus
<1>1. QInv => QueueMatchesStatus
  <2> SUFFICES ASSUME QInv PROVE QueueMatchesStatus
    OBVIOUS
  <2>1. pool \in PoolType /\ QueueInv(pool)
    BY QInvParts DEF QueueOK
  <2>2. \A i \in 1..Len(pool.queue) : pool.queue[i] \in Ids
    BY <2>1 DEF PoolType
  <2> QED
    BY <2>1, <2>2 DEF QueueMatchesStatus, QueueInv, Distinct
<1> QED
  BY <1>1, QInvHolds, PTL

\* No wakeup is lost: a delegation waits only while every slot is taken.
THEOREM NoSlotIdles == Spec => []NoIdleSlot
<1>1. QInv => NoIdleSlot
  BY DEF QInv, Pumped, NoIdleSlot
<1> QED
  BY <1>1, QInvHolds, PTL

-----------------------------------------------------------------------------
(***************************************************************************)
(* Proof that Orchestration implements DelegationLifecycle, for every      *)
(* value of its constants: every step of the engine is a Progress of the   *)
(* delegations, a Reboot, or leaves them as they are.                      *)
(*                                                                         *)
(* FIFO starts follow from the order of the queue (QInv).  What a restart  *)
(* may bring back follows from two facts about the table: a row follows    *)
(* its delegation, or lags behind it when writes may fail; and the rows    *)
(* within the history limit are of delegations the engine still knows.     *)
(***************************************************************************)

\* A row says what its delegation's status is, or what it was while the delegation was live.
RowsFollow ==
    \A d \in Ids : rows[d] # "absent" /\ pool.status[d] # "absent" =>
        rows[d] = pool.status[d] \/ (WritesMayFail /\ rows[d] \in LiveStatus)

\* A restart brings back nothing that an earlier one has dropped.
HistoryKnown == \A d \in Rehydrated : pool.status[d] # "absent"

RInv == QInv /\ RowsFollow /\ HistoryKnown

\* From e to g delegations move along the lifecycle and none starts.
Calm(e, g) ==
    \A d \in Ids :
        /\ g.status[d] \in Lifecycle!Successors(e.status[d])
        /\ g.status[d] = "running" => e.status[d] = "running"
        /\ e.status[d] = "absent" /\ g.status[d] # "absent" => d > e.created

\* From e to f delegations move along the lifecycle, and start in their order.
Moves(e, f) ==
    /\ \A d \in Ids : f.status[d] \in Lifecycle!Successors(e.status[d])
    /\ \A d \in Ids : e.status[d] = "absent" /\ f.status[d] # "absent" => d > e.created
    /\ \A d, x \in Ids :
           e.status[d] # "running" /\ f.status[d] = "running" /\ x < d => f.status[x] # "queued"

-----------------------------------------------------------------------------
(***************************************************************************)
(* Facts about the operators on pools.                                     *)
(***************************************************************************)

\* What may follow each status, in the words of Orchestration.
LEMMA SuccessorStatus ==
    ASSUME NEW s \in DelegationStatus, NEW t
    PROVE  t \in Lifecycle!Successors(s) <=>
               \/ t = s
               \/ s = "absent" /\ t \in {"queued", "running"}
               \/ s = "queued" /\ t \in {"running", "cancelled"}
               \/ s = "running" /\ t \in {"completed", "failed", "cancelled"}
<1>1. s \in {"absent", "queued", "running", "completed", "failed", "cancelled"}
  BY DEF DelegationStatus, LiveStatus, EndStatus
<1> QED
  BY <1>1 DEF Lifecycle!Successors, Lifecycle!Ended

\* pump starts queued delegations only, and the oldest of them.
LEMMA PumpStartsOldest ==
    ASSUME NEW e, QueueOK(e)
    PROVE  /\ \A d \in Ids : \/ Pump(e).status[d] = e.status[d]
                             \/ e.status[d] = "queued" /\ Pump(e).status[d] = "running"
           /\ \A d, x \in Ids :
                  e.status[d] # "running" /\ Pump(e).status[d] = "running" /\ x < d =>
                      Pump(e).status[x] # "queued"
<1> DEFINE k == PumpLength(e)
           n == Len(e.queue)
<1>1. e \in PoolType /\ QueueInv(e) /\ n \in Nat
  BY DEF QueueOK, PoolType
<1>2. k \in 0..n
  BY <1>1, PumpLengthIsLeast
<1>3. \A d \in Ids : Pump(e).status[d] = IF d \in Started(e, k) THEN "running" ELSE e.status[d]
  BY DEF Pump, Engine
<1>4. \A d \in Started(e, k) : e.status[d] = "queued"
  BY <1>1, <1>2, StartedType
<1> HIDE DEF k
<1>5. ASSUME NEW d \in Ids, NEW x \in Ids, e.status[d] # "running",
             Pump(e).status[d] = "running", x < d, Pump(e).status[x] = "queued"
      PROVE  FALSE
  <2>1. d \in Started(e, k) /\ x \notin Started(e, k) /\ e.status[x] = "queued"
    BY <1>3, <1>5
  <2>2. PICK i \in 1..k : e.queue[i] = d
    BY <2>1 DEF Started
  <2>3. PICK j \in 1..n : e.queue[j] = x
    BY <1>1, <2>1 DEF QueueInv
  <2>4. j \notin 1..k
    BY <2>1, <2>3 DEF Started
  <2>5. i \in 1..n /\ i < j
    BY <1>1, <1>2, <2>3, <2>4
  <2>6. d < x
    BY <1>1, <2>2, <2>3, <2>5 DEF QueueInv, InOrder
  <2> QED
    BY <1>5, <2>6, MaxDelegationsAssumption DEF Ids
<1> QED
  BY <1>3, <1>4, <1>5

\* Calm changes followed by pump.
LEMMA PumpMoves ==
    ASSUME NEW e \in PoolType, NEW g, QueueOK(g), Calm(e, g)
    PROVE  Moves(e, Pump(g))
<1>1. \A d \in Ids : \/ Pump(g).status[d] = g.status[d]
                     \/ g.status[d] = "queued" /\ Pump(g).status[d] = "running"
  BY PumpStartsOldest
<1>2. \A d, x \in Ids :
          g.status[d] # "running" /\ Pump(g).status[d] = "running" /\ x < d =>
              Pump(g).status[x] # "queued"
  BY PumpStartsOldest
<1>3. ASSUME NEW d \in Ids PROVE Pump(g).status[d] \in Lifecycle!Successors(e.status[d])
  <2>1. e.status[d] \in DelegationStatus /\ g.status[d] \in Lifecycle!Successors(e.status[d])
    BY DEF PoolType, Calm
  <2> QED
    BY <1>1, <2>1, SuccessorStatus
<1>4. ASSUME NEW d \in Ids, e.status[d] = "absent", Pump(g).status[d] # "absent"
      PROVE  d > e.created
  BY <1>1, <1>4 DEF Calm
<1> QED
  BY <1>2, <1>3, <1>4 DEF Moves, Calm

\* Calm changes alone.
LEMMA CalmMoves ==
    ASSUME NEW e, NEW g, Calm(e, g)
    PROVE  Moves(e, g)
BY DEF Calm, Moves

\* Nothing moves.
LEMMA SameCalm ==
    ASSUME NEW e \in PoolType, NEW g, g.status = e.status
    PROVE  Calm(e, g)
<1>1. \A d \in Ids : e.status[d] \in DelegationStatus
  BY DEF PoolType
<1> QED
  BY <1>1, SuccessorStatus DEF Calm

\* A fresh id is queued, after other calm changes or none.
LEMMA EnqueueCalm ==
    ASSUME NEW e \in PoolType, NEW g, QueueOK(g), Calm(e, g), g.created = e.created,
           g.created < MaxDelegations
    PROVE  Calm(e, Enqueue(g))
<1> DEFINE d == g.created + 1
<1>1. d \in Ids /\ e.created \in Nat /\ d > e.created
  BY MaxDelegationsAssumption DEF PoolType, Ids
<1>2. g.status[d] = "absent" /\ g.status \in [Ids -> DelegationStatus]
  BY <1>1 DEF QueueOK, QueueInv, PoolType
<1>3. e.status[d] = "absent"
  <2>1. e.status[d] \in DelegationStatus /\ g.status[d] \in Lifecycle!Successors(e.status[d])
    BY <1>1 DEF PoolType, Calm
  <2> QED
    BY <1>2, <2>1, SuccessorStatus
<1>4. Enqueue(g).status = [g.status EXCEPT ![d] = "queued"]
  BY DEF Enqueue, Engine
<1>5. "queued" \in Lifecycle!Successors("absent")
  BY SuccessorStatus DEF DelegationStatus
<1> HIDE DEF d
<1> QED
  BY <1>1, <1>2, <1>3, <1>4, <1>5 DEF Calm

\* A live delegation is cancelled.
LEMMA AbortCalm ==
    ASSUME NEW e \in PoolType, NEW d \in Ids, e.status[d] \in LiveStatus
    PROVE  Calm(e, Abort(e, d))
<1>1. Abort(e, d).status = [e.status EXCEPT ![d] = "cancelled"]
  BY DEF Abort, Engine
<1>2. \A x \in Ids : e.status[x] \in DelegationStatus
  BY DEF PoolType
<1>3. "cancelled" \in Lifecycle!Successors(e.status[d]) /\ e.status[d] # "absent"
  BY <1>2, SuccessorStatus DEF LiveStatus
<1>4. \A x \in Ids : e.status[x] \in Lifecycle!Successors(e.status[x])
  BY <1>2, SuccessorStatus
<1> QED
  BY <1>1, <1>3, <1>4 DEF Calm, PoolType

\* A running delegation ends by itself.
LEMMA SettleCalm ==
    ASSUME NEW e \in PoolType, NEW g \in PoolType, g.status = e.status, NEW d \in Ids,
           NEW outcome \in Outcomes, e.status[d] = "running"
    PROVE  Calm(e, Settle(g, d, outcome))
<1>1. Settle(g, d, outcome).status = [e.status EXCEPT ![d] = outcome]
  BY DEF Settle, PoolType
<1>2. \A x \in Ids : e.status[x] \in DelegationStatus
  BY DEF PoolType
<1>3. outcome \in Lifecycle!Successors(e.status[d]) /\ outcome # "running"
  BY <1>2, SuccessorStatus, OutcomesAssumption
<1>4. \A x \in Ids : e.status[x] \in Lifecycle!Successors(e.status[x])
  BY <1>2, SuccessorStatus
<1> QED
  BY <1>1, <1>3, <1>4 DEF Calm, PoolType

-----------------------------------------------------------------------------
(***************************************************************************)
(* The steps.                                                              *)
(***************************************************************************)

\* advancePipeline.
LEMMA AdvanceMoves ==
    ASSUME pool \in PoolType, NEW e, QueueOK(e), Calm(pool, e), e.created = pool.created,
           NEW p, NEW pl, AdvancePipeline(e, p, pl)
    PROVE  Moves(pool, pool') /\ Persist
<1>1. CASE StartsStage(pl)
  <2>1. pool' = Pump(Enqueue(e)) /\ e.created < MaxDelegations /\ Persist
    BY <1>1 DEF AdvancePipeline, Delegate
  <2>2. QueueOK(Enqueue(e)) /\ Calm(pool, Enqueue(e))
    BY <2>1, EnqueueQueue, EnqueueCalm
  <2> QED
    BY <2>1, <2>2, PumpMoves
<1>2. CASE ~StartsStage(pl)
  BY <1>2, CalmMoves DEF AdvancePipeline
<1> QED
  BY <1>1, <1>2

\* settle, with the pipeline's reaction; e is pool or pool with a promise settled.
LEMMA SettleMoves ==
    ASSUME QueueOK(pool), NEW e, QueueOK(e), Pumped(e), e.status = pool.status,
           e.created = pool.created, NEW d \in Ids, NEW outcome \in Outcomes,
           pool.status[d] = "running", SettleDelegation(e, d, outcome)
    PROVE  Moves(pool, pool') /\ Persist
<1>1. pool \in PoolType /\ e \in PoolType
  BY DEF QueueOK
<1>2. Calm(pool, Settle(e, d, outcome))
  BY <1>1, SettleCalm
<1>3. QueueOK(Settle(e, d, outcome)) /\ Settle(e, d, outcome).created = pool.created
  BY SettleQueue
<1>4. \/ \E p, pl : AdvancePipeline(Settle(e, d, outcome), p, pl)
      \/ pool' = Settle(e, d, outcome) /\ Persist
  BY DEF SettleDelegation
<1> QED
  BY <1>1, <1>2, <1>3, <1>4, AdvanceMoves, CalmMoves

\* cancelDelegation, of a live delegation or of another.
LEMMA CancelMoves ==
    ASSUME QueueOK(pool), NEW d \in Ids, pool' = CancelIn(pool, d)
    PROVE  Moves(pool, pool')
<1>1. pool \in PoolType
  BY DEF QueueOK
<1>2. CASE pool.status[d] \in LiveStatus
  <2>1. pool' = Pump(Abort(pool, d))
    BY <1>2 DEF CancelIn
  <2> QED
    BY <1>1, <1>2, <2>1, AbortQueue, AbortCalm, PumpMoves
<1>3. CASE pool.status[d] \notin LiveStatus
  <2>1. pool' = pool
    BY <1>3 DEF CancelIn
  <2> QED
    BY <1>1, <2>1, SameCalm, CalmMoves
<1> QED
  BY <1>2, <1>3

\* One stretch of cancelPipeline's loop.
LEMMA CancelFromMoves ==
    ASSUME QueueOK(pool), NEW p \in Pipelines, NEW pl \in PipelineType,
           NEW i \in Nat \ {0}, CancelFrom(p, pl, i)
    PROVE  (Moves(pool, pool') /\ Persist) \/ UNCHANGED <<pool, rows>>
<1> DEFINE linked == {s \in i..NumStages : pl.stages[s].delegationId # NoId}
           s == FirstOf(linked)
           d == pl.stages[s].delegationId
<1>1. linked \in SUBSET Stages /\ pool \in PoolType
  BY NumStagesAssumption DEF Stages, QueueOK
<1>2. CASE linked = {}
  <2>1. UNCHANGED <<pool, rows>>
    BY <1>2 DEF CancelFrom
  <2> QED
    BY <2>1
<1>3. CASE linked # {}
  <2>1. s \in linked
    BY <1>1, <1>3, FirstOfType
  <2>2. d \in Ids
    BY <1>1, <2>1 DEF PipelineType, StageType
  <2>3. pool' = CancelIn(pool, d) /\ Persist
    BY <1>3 DEF CancelFrom
  <2> HIDE DEF d
  <2> QED
    BY <2>2, <2>3, CancelMoves
<1> QED
  BY <1>2, <1>3

\* The steps that touch only a row write the delegation's status to it.
RowRefreshed ==
    \E d \in Ids : /\ rows[d] # "absent" /\ pool.status[d] # "absent"
                   /\ rows' = [rows EXCEPT ![d] = pool.status[d]]
                   /\ UNCHANGED pool

\* Every step but a restart moves the delegations along and writes the table.
LEMMA StepMoves ==
    ASSUME QInv, Next
    PROVE  \/ Moves(pool, pool') /\ Persist
           \/ pool'.status = pool.status /\ UNCHANGED rows
           \/ RowRefreshed
           \/ Restart
<1> DEFINE Goal == \/ Moves(pool, pool') /\ Persist
                   \/ pool'.status = pool.status /\ UNCHANGED rows
                   \/ RowRefreshed
                   \/ Restart
<1>0. QueueOK(pool) /\ Pumped(pool) /\ RestType /\ pool \in PoolType
  BY QInvParts DEF QueueOK
<1>13. Calm(pool, pool)
  BY <1>0, SameCalm
<1>1. CASE DelegateTask
  <2>1. pool' = Pump(Enqueue(pool)) /\ pool.created < MaxDelegations /\ Persist
    BY <1>1 DEF DelegateTask, Delegate
  <2>2. QueueOK(Enqueue(pool)) /\ Calm(pool, Enqueue(pool))
    BY <1>0, <1>13, <2>1, EnqueueQueue, EnqueueCalm
  <2> QED
    BY <1>0, <2>1, <2>2, PumpMoves
<1>2. ASSUME NEW d \in Ids, CancelDelegation(d) PROVE Goal
  BY <1>0, <1>2, CancelMoves DEF CancelDelegation
<1>3. ASSUME NEW d \in Ids, ExecutorSettles(d) PROVE Goal
  <2>1. /\ QueueOK(PromiseSettled(pool, d)) /\ Pumped(PromiseSettled(pool, d))
        /\ PromiseSettled(pool, d).created = pool.created
        /\ PromiseSettled(pool, d).status = pool.status
    BY <1>0, PromiseQueue
  <2>2. CASE pool.status[d] = "running"
    <3>1. PICK outcome \in Outcomes : SettleDelegation(PromiseSettled(pool, d), d, outcome)
      BY <1>3, <2>2 DEF ExecutorSettles
    <3> QED
      BY <1>0, <2>1, <2>2, <3>1, SettleMoves
  <2>3. CASE pool.status[d] # "running"
    <3>1. pool' = PromiseSettled(pool, d) /\ UNCHANGED rows
      BY <1>3, <2>3 DEF ExecutorSettles
    <3> QED
      BY <2>1, <3>1
  <2> QED
    BY <2>2, <2>3
<1>4. ASSUME NEW d \in Ids, ExecutorFinally(d) PROVE Goal
  <2> DEFINE r == Engine(pool.status, pool.queue, pool.controllers \ {d},
                         [pool.executors EXCEPT ![d] = "none"], pool.created)
  <2>1. pool' = Pump(r) /\ Persist
    BY <1>4 DEF ExecutorFinally, Release
  <2>2. r \in PoolType /\ r.status = pool.status
    BY <1>0 DEF Engine, PoolType, ExecutorState
  <2>3. QueueInv(r)
    BY <1>0 DEF QueueOK, QueueInv, Engine
  <2> HIDE DEF r
  <2>4. Calm(pool, r)
    BY <1>0, <2>2, SameCalm
  <2> QED
    BY <1>0, <2>1, <2>2, <2>3, <2>4, PumpMoves DEF QueueOK
<1>5. ASSUME NEW d \in Ids, FinishDelegation(d) PROVE Goal
  BY <1>0, <1>5, SettleMoves DEF FinishDelegation
<1>6. ASSUME NEW d \in Ids, UpdateProgress(d) \/ RecordUsage(d) PROVE Goal
  BY <1>6 DEF UpdateProgress, RecordUsage, RowRefreshed
<1>7. ASSUME NEW p \in Pipelines, CreatePipeline(p) PROVE Goal
  <2>1. UNCHANGED <<pool, rows>>
    BY <1>7 DEF CreatePipeline
  <2> QED
    BY <2>1
<1>8. ASSUME NEW p, NEW pl, AdvancePipeline(pool, p, pl) PROVE Goal
  BY <1>0, <1>13, <1>8, AdvanceMoves
<1>9. ASSUME NEW p \in Pipelines, StartPipeline(p) PROVE Goal
  BY <1>8, <1>9 DEF StartPipeline
<1>10. ASSUME NEW p \in Pipelines, NEW s \in Stages, RetryStage(p, s) \/ SkipStage(p, s)
       PROVE  Goal
  BY <1>8, <1>10 DEF RetryStage, SkipStage
<1>11. ASSUME NEW p \in Pipelines, CancelPipeline(p) PROVE Goal
  <2>1. WithStatus(pipelines[p], "cancelled") \in PipelineType
    BY <1>0, WithStatusType DEF RestType, PipelineStatus
  <2>2. CancelFrom(p, WithStatus(pipelines[p], "cancelled"), 1)
    BY <1>11 DEF CancelPipeline
  <2> QED
    BY <1>0, <2>1, <2>2, CancelFromMoves
<1>12. ASSUME NEW p \in Pipelines, CancelPipelineResumes(p) PROVE Goal
  <2>1. SkipOpen(pipelines[p], cancelling[p], cancelling[p]) \in PipelineType
    BY <1>0, SkipOpenType DEF RestType
  <2>2. cancelling[p] + 1 \in Nat \ {0}
    BY <1>0 DEF RestType
  <2>3. CancelFrom(p, SkipOpen(pipelines[p], cancelling[p], cancelling[p]),
                   cancelling[p] + 1)
    BY <1>12 DEF CancelPipelineResumes
  <2> QED
    BY <1>0, <2>1, <2>2, <2>3, CancelFromMoves
<1> QED
  BY <1>1, <1>2, <1>3, <1>4, <1>5, <1>6, <1>7, <1>9, <1>10, <1>11, <1>12 DEF Next

\* No row disappears, and one that appears is of a delegation that has just been created.
LEMMA PersistKeepsRows ==
    ASSUME QInv, QInv', Moves(pool, pool'), Persist
    PROVE  \A d \in Ids :
               /\ rows[d] # "absent" => rows'[d] # "absent"
               /\ rows[d] = "absent" /\ rows'[d] # "absent" => pool'.status[d] # "absent"
<1> SUFFICES ASSUME NEW d \in Ids
             PROVE  /\ rows[d] # "absent" => rows'[d] # "absent"
                    /\ rows[d] = "absent" /\ rows'[d] # "absent" => pool'.status[d] # "absent"
  OBVIOUS
<1>1. /\ pool.status[d] \in DelegationStatus /\ pool'.status[d] \in DelegationStatus
      /\ d > pool.created => pool.status[d] = "absent" /\ rows[d] = "absent"
  BY DEF QInv, QueueInv, RowsKnown, IInv, TypeOK, PoolType
<1>2. pool'.status[d] \in Lifecycle!Successors(pool.status[d])
  BY DEF Moves
<1>3. pool'.status[d] # pool.status[d] => pool'.status[d] # "absent"
  BY <1>1, <1>2, SuccessorStatus
<1> QED
  BY <1>1, <1>3 DEF Persist

\* The rows within the history limit can only be pushed out of it.
LEMMA RehydratedShrinks ==
    ASSUME NEW d \in Ids, d \in Rehydrated', rows[d] # "absent",
           \A x \in Ids : rows[x] # "absent" => rows'[x] # "absent"
    PROVE  d \in Rehydrated
<1> DEFINE newer == {x \in {y \in Ids : rows[y] # "absent"} : x > d}
           newerThen == {x \in {y \in Ids : rows'[y] # "absent"} : x > d}
<1>1. newer \in SUBSET newerThen /\ newer \in SUBSET Ids /\ newerThen \in SUBSET Ids
  OBVIOUS
<1>2. Cardinality(newerThen) < HistoryLimit
  BY DEF Rehydrated
<1>3. /\ IsFiniteSet(newerThen)
      /\ Cardinality(newer) \in Nat /\ Cardinality(newerThen) \in Nat
  BY <1>1, IdsFinite
<1>4. Cardinality(newer) <= Cardinality(newerThen)
  BY <1>1, <1>3, FS_Subset
<1>5. Cardinality(newer) < HistoryLimit
  BY <1>2, <1>3, <1>4, HistoryLimitAssumption
<1> QED
  BY <1>5 DEF Rehydrated

\* The table follows the delegations.
LEMMA PersistRInv ==
    ASSUME RInv, QInv', Moves(pool, pool'), Persist
    PROVE  RInv'
<1>0. QInv /\ RowsFollow /\ HistoryKnown
  BY DEF RInv
<1>1. \A d \in Ids :
          /\ rows[d] # "absent" => rows'[d] # "absent"
          /\ rows[d] = "absent" /\ rows'[d] # "absent" => pool'.status[d] # "absent"
  BY <1>0, PersistKeepsRows
<1>2. \A d \in Ids :
          /\ pool.status[d] \in DelegationStatus /\ d \in Int /\ pool.created \in Int
          /\ d > pool.created => pool.status[d] = "absent"
          /\ pool'.status[d] \in Lifecycle!Successors(pool.status[d])
          /\ pool.status[d] = "absent" /\ pool'.status[d] # "absent" => d > pool.created
  BY <1>0, MaxDelegationsAssumption DEF QInv, QueueInv, IInv, TypeOK, PoolType, Moves, Ids
<1>3. \A d \in Ids : pool.status[d] # "absent" => pool'.status[d] # "absent"
  BY <1>2, SuccessorStatus
<1>4. HistoryKnown'
  <2> SUFFICES ASSUME NEW d \in Ids, d \in Rehydrated' PROVE pool'.status[d] # "absent"
    BY DEF HistoryKnown, Rehydrated
  <2>1. rows'[d] # "absent"
    BY DEF Rehydrated
  <2>2. CASE rows[d] # "absent"
    <3>1. d \in Rehydrated
      BY <1>1, <2>2, RehydratedShrinks
    <3> QED
      BY <1>0, <1>3, <3>1 DEF HistoryKnown
  <2>3. CASE rows[d] = "absent"
    BY <1>1, <2>1, <2>3
  <2> QED
    BY <2>2, <2>3
<1>5. RowsFollow'
  <2> SUFFICES ASSUME NEW d \in Ids, rows'[d] # "absent", pool'.status[d] # "absent"
               PROVE  rows'[d] = pool'.status[d] \/ (WritesMayFail /\ rows'[d] \in LiveStatus)
    BY DEF RowsFollow
  <2>1. CASE pool'.status[d] = pool.status[d]
    <3>1. rows'[d] = rows[d]
      BY <2>1 DEF Persist
    <3> QED
      BY <1>0, <2>1, <3>1 DEF RowsFollow
  <2>2. CASE pool'.status[d] # pool.status[d]
    <3>1. \/ rows'[d] = pool'.status[d]
          \/ WritesMayFail /\ d > pool.created /\ rows'[d] = "queued"
          \/ (WritesMayFail \/ rows[d] = "absent") /\ d <= pool.created /\ rows'[d] = rows[d]
      BY <1>2, <2>2, FlagAssumption DEF Persist
    <3>2. d <= pool.created => pool.status[d] # "absent"
      BY <1>2
    <3>3. pool.status[d] # "absent" => pool.status[d] \in LiveStatus
      BY <1>2, <2>2, SuccessorStatus DEF LiveStatus
    <3> QED
      BY <1>0, <3>1, <3>2, <3>3 DEF RowsFollow, LiveStatus
  <2> QED
    BY <2>1, <2>2
<1> QED
  BY <1>4, <1>5 DEF RInv

\* A restart leaves the rows it has read in step with what it made of them.
LEMMA RestartRInv ==
    ASSUME RInv, QInv', Restart
    PROVE  RInv' /\ Lifecycle!Reboot
<1> DEFINE orphans == {d \in Rehydrated : rows[d] \in LiveStatus}
           status == [d \in Ids |-> IF d \in orphans THEN "cancelled"
                                    ELSE IF d \in Rehydrated THEN rows[d] ELSE "absent"]
<1>0. QInv /\ RowsFollow /\ HistoryKnown /\ rows \in [Ids -> DelegationStatus]
      /\ pool \in PoolType
  BY DEF RInv, QInv, IInv, TypeOK
<1>1. pool'.status = status
  BY DEF Restart, Engine
<1>2. PICK written \in IF WritesMayFail THEN SUBSET orphans ELSE {orphans} :
          rows' = [d \in Ids |-> IF d \in written THEN "cancelled" ELSE rows[d]]
  BY DEF Restart
<1>3. \A d \in Rehydrated : d \in Ids /\ rows[d] # "absent"
  BY DEF Rehydrated
<1>4. \A d \in Ids : status[d] = IF d \in orphans THEN "cancelled"
                                 ELSE IF d \in Rehydrated THEN rows[d] ELSE "absent"
  OBVIOUS
<1>5. \A d \in orphans : d \in Rehydrated /\ rows[d] \in LiveStatus
  OBVIOUS
<1>6. \A d \in Rehydrated : rows[d] \in LiveStatus => d \in orphans
  OBVIOUS
<1>7. written \in SUBSET orphans /\ (~WritesMayFail => written = orphans)
  BY <1>2
<1> HIDE DEF orphans, status
<1>8. \A d \in Ids : rows[d] # "absent" <=> rows'[d] # "absent"
  BY <1>2, <1>3, <1>5, <1>7
<1>9. HistoryKnown'
  <2>1. \A d \in Rehydrated' : d \in Ids /\ rows'[d] # "absent"
    BY DEF Rehydrated
  <2>2. \A d \in Rehydrated' : d \in Rehydrated
    BY <1>8, <2>1, RehydratedShrinks
  <2>3. \A d \in Rehydrated : status[d] # "absent"
    BY <1>3, <1>4
  <2> QED
    BY <1>1, <2>2, <2>3 DEF HistoryKnown
<1>10. RowsFollow'
  <2> SUFFICES ASSUME NEW d \in Ids, status[d] # "absent"
               PROVE  rows'[d] = status[d] \/ (WritesMayFail /\ rows'[d] \in LiveStatus)
    BY <1>1 DEF RowsFollow
  <2>1. CASE d \in orphans
    BY <1>2, <1>4, <1>5, <1>7, <2>1
  <2>2. CASE d \notin orphans
    BY <1>2, <1>4, <1>7, <2>2
  <2> QED
    BY <2>1, <2>2
<1>11. ASSUME NEW d \in Ids
       PROVE  status[d] \in {"absent"} \cup
                  (IF pool.status[d] \in Lifecycle!Ended THEN {pool.status[d]} ELSE {}) \cup
                  (IF \/ pool.status[d] \in Lifecycle!Live
                      \/ WritesMayFail /\ pool.status[d] \in Lifecycle!Ended
                   THEN {"cancelled"} ELSE {})
  <2>1. CASE d \notin Rehydrated
    BY <1>4, <1>5, <2>1
  <2>2. CASE d \in Rehydrated
    <3>1. pool.status[d] # "absent" /\ rows[d] # "absent"
      BY <1>0, <1>3, <2>2 DEF HistoryKnown
    <3>2. rows[d] = pool.status[d] \/ (WritesMayFail /\ rows[d] \in LiveStatus)
      BY <1>0, <3>1 DEF RowsFollow
    <3>3. /\ pool.status[d] \in Lifecycle!Live \cup Lifecycle!Ended
          /\ rows[d] \in LiveStatus \cup Lifecycle!Ended
          /\ Lifecycle!Live = LiveStatus
      BY <1>0, <3>1 DEF PoolType, DelegationStatus, LiveStatus, EndStatus,
                        Lifecycle!Live, Lifecycle!Ended
    <3>4. CASE rows[d] \in LiveStatus
      BY <1>4, <1>6, <2>2, <3>2, <3>3, <3>4
    <3>5. CASE rows[d] \notin LiveStatus
      <4>1. status[d] = rows[d]
        BY <1>4, <1>5, <2>2, <3>5
      <4> QED
        BY <3>2, <3>3, <3>5, <4>1
    <3> QED
      BY <3>4, <3>5
  <2> QED
    BY <2>1, <2>2
<1>12. status \in [Ids -> Lifecycle!Ended \cup {"absent"}]
  <2>1. \A d \in Ids : status[d] \in Lifecycle!Ended \cup {"absent"}
    BY <1>0, <1>4, <1>6 DEF DelegationStatus, LiveStatus, EndStatus, Lifecycle!Ended
  <2> QED
    BY <2>1 DEF status
<1>13. Lifecycle!Reboot
  BY <1>1, <1>11, <1>12 DEF Lifecycle!Reboot
<1> QED
  BY <1>9, <1>10, <1>13 DEF RInv

\* Moves within the slots are a step of the lifecycle.
LEMMA MovesIsProgress ==
    ASSUME QInv, QInv', Moves(pool, pool')
    PROVE  Lifecycle!Progress
<1>1. /\ pool'.status \in [Ids -> DelegationStatus]
      /\ SlotInv(pool') /\ pool'.controllers \in SUBSET Ids
  BY DEF QInv, IInv, TypeOK, PoolType
<1>2. DelegationStatus = Lifecycle!LifecycleStatus
  BY DEF DelegationStatus, LiveStatus, EndStatus, Lifecycle!LifecycleStatus,
         Lifecycle!Live, Lifecycle!Ended
<1> DEFINE running == {d \in Ids : pool'.status[d] = "running"}
<1>3. Cardinality(running) <= IF HasExecutor THEN MaxParallel ELSE MaxDelegations
  <2>0. running \in SUBSET Ids /\ Cardinality(running) \in Nat
    BY IdsFinite
  <2>1. CASE HasExecutor
    <3>1. running \in SUBSET pool'.controllers
      BY <1>1, <2>1 DEF SlotInv
    <3>2. IsFiniteSet(pool'.controllers) /\ Cardinality(pool'.controllers) \in Nat
      BY <1>1, IdsFinite
    <3>3. Cardinality(running) <= Cardinality(pool'.controllers)
      BY <3>1, <3>2, FS_Subset
    <3>4. Cardinality(pool'.controllers) <= MaxParallel
      BY <1>1, <2>1 DEF SlotInv
    <3> QED
      BY <2>0, <2>1, <3>2, <3>3, <3>4, MaxParallelAssumption
  <2>2. CASE ~HasExecutor
    <3>1. IsFiniteSet(Ids) /\ Cardinality(Ids) = MaxDelegations
      BY FS_Interval, MaxDelegationsAssumption DEF Ids
    <3>2. Cardinality(running) <= Cardinality(Ids)
      BY <2>0, <3>1, FS_Subset
    <3> QED
      BY <2>2, <3>1, <3>2
  <2> QED
    BY <2>1, <2>2
\* The instance has a Cardinality of its own, with the same definition.
<1>4. Lifecycle!WithinCapacity
  BY <1>3, Zenon DEF Lifecycle!WithinCapacity, Lifecycle!Cardinality, Cardinality
<1>5. \A d \in Ids : Lifecycle!Starts(d) =>
          \A older \in Ids : older < d => pool'.status[older] # "queued"
  BY DEF Moves, Lifecycle!Starts
<1> QED
  BY <1>1, <1>2, <1>4, <1>5 DEF Lifecycle!Progress, Moves

\* The initial states.
LEMMA InitRInv == Init => RInv /\ Lifecycle!Init
<1> SUFFICES ASSUME Init PROVE RInv /\ Lifecycle!Init
  OBVIOUS
<1>1. pool.status = [d \in Ids |-> "absent"] /\ rows = [d \in Ids |-> "absent"]
  BY DEF Init, Engine
<1> QED
  BY <1>1, InitQInv DEF RInv, RowsFollow, HistoryKnown, Rehydrated, Lifecycle!Init

\* Every step keeps the invariant and is a step of the lifecycle or a stutter.
LEMMA NextRInv ==
    RInv /\ [Next]_vars => RInv' /\ [Lifecycle!Next]_(pool.status)
<1> SUFFICES ASSUME RInv, [Next]_vars PROVE RInv' /\ [Lifecycle!Next]_(pool.status)
  OBVIOUS
<1>1. QInv /\ QInv'
  BY NextQInv DEF RInv
<1>2. CASE Moves(pool, pool') /\ Persist
  BY <1>1, <1>2, PersistRInv, MovesIsProgress DEF Lifecycle!Next
<1>3. CASE pool'.status = pool.status /\ UNCHANGED rows
  BY <1>1, <1>3 DEF RInv, RowsFollow, HistoryKnown, Rehydrated
<1>4. CASE RowRefreshed
  <2>1. PICK d \in Ids : /\ rows[d] # "absent" /\ pool.status[d] # "absent"
                         /\ rows' = [rows EXCEPT ![d] = pool.status[d]]
                         /\ UNCHANGED pool
    BY <1>4 DEF RowRefreshed
  <2>2. rows \in [Ids -> DelegationStatus]
    BY <1>1 DEF QInv, IInv, TypeOK
  <2>3. \A x \in Ids : rows'[x] = IF x = d THEN pool.status[d] ELSE rows[x]
    BY <2>1, <2>2
  <2>4. RowsFollow'
    BY <2>1, <2>3 DEF RInv, RowsFollow
  <2>5. \A x \in Ids : rows[x] # "absent" <=> rows'[x] # "absent"
    BY <2>1, <2>3
  <2>6. \A x \in Rehydrated' : x \in Rehydrated
    <3>1. \A x \in Rehydrated' : x \in Ids /\ rows'[x] # "absent"
      BY DEF Rehydrated
    <3> QED
      BY <2>5, <3>1, RehydratedShrinks
  <2>7. HistoryKnown'
    BY <2>1, <2>6 DEF RInv, HistoryKnown
  <2> QED
    BY <1>1, <2>1, <2>4, <2>7 DEF RInv
<1>5. CASE Restart
  BY <1>1, <1>5, RestartRInv DEF Lifecycle!Next
<1>6. CASE UNCHANGED vars
  BY <1>3, <1>6 DEF vars
<1> QED
  BY <1>1, <1>2, <1>3, <1>4, <1>5, <1>6, StepMoves

-----------------------------------------------------------------------------
(***************************************************************************)
(* Theorem.                                                                *)
(***************************************************************************)

\* The engine implements the delegation lifecycle: delegations start in their order, within
\* the slots, end once and for all, and a restart ends what had not ended.
THEOREM EngineImplementsLifecycle == Spec => ImplementsLifecycle
<1> QED
  BY InitRInv, NextRInv, PTL DEF Spec, ImplementsLifecycle, Lifecycle!Spec

-----------------------------------------------------------------------------
(***************************************************************************)
(* Proofs about the pipelines of Orchestration and the panel beside it: a  *)
(* cancelled pipeline rests, stages and delegations agree, stages start in *)
(* their order, the table keeps no orphan, the panel shows the work.       *)
(*                                                                         *)
(* The first two need what binds a stage to its delegation in every state. *)
(* Links says it of one pipeline; it is kept by each operation on that     *)
(* pipeline's record, and by what happens to the delegations of the others *)
(* because a delegation has one owner.  Quiet follows cancelPipeline       *)
(* through its awaits: the stages it has passed stay at rest.  Tight, the  *)
(* converse of a clause of Links, holds only while no cancellation is      *)
(* undone, so it is carried along by a parameter.                          *)
(***************************************************************************)

-----------------------------------------------------------------------------
(***************************************************************************)
(* The invariant of the pipelines, and the operators it is about.          *)
(***************************************************************************)

\* The delegations that are queued or running.
Live(e) == {d \in Ids : e.status[d] \in LiveStatus}

\* The stages of pl, a state of pipeline p, and its delegations agree, own being the
\* owners and L the live delegations: a stage's delegation is its pipeline's and no other
\* stage's; a live delegation of the pipeline is some stage's; at most one stage runs,
\* and it has a live delegation; a pending stage has none and one that is over no live one.
Links(p, pl, own, L) ==
    /\ \A s \in Stages : pl.stages[s].delegationId # NoId => own[pl.stages[s].delegationId] = p
    /\ \A s, u \in Stages :
           pl.stages[s].delegationId = pl.stages[u].delegationId
           /\ pl.stages[s].delegationId # NoId => s = u
    /\ \A d \in L : own[d] = p => \E s \in Stages : pl.stages[s].delegationId = d
    /\ \A s \in Stages :
           /\ pl.stages[s].status = "running" => pl.stages[s].delegationId \in L
           /\ pl.stages[s].status = "pending" => pl.stages[s].delegationId = NoId
           /\ pl.stages[s].status \in {"completed", "failed"} =>
                  pl.stages[s].delegationId \notin L
    /\ \A s, u \in Stages :
           pl.stages[s].status = "running" /\ pl.stages[u].status = "running" => s = u
    /\ pl.status = "absent" => \A s \in Stages : pl.stages[s].delegationId = NoId

\* In a cancelled pipeline nothing is at work in the stages that cancelPipeline has passed:
\* the first c ones, or all when it has returned.
Quiet(pl, c, L) ==
    pl.status = "cancelled" =>
        \A s \in Stages : c = 0 \/ s <= c =>
            pl.stages[s].status # "running" /\ pl.stages[s].delegationId \notin L

\* A stage whose delegation is live runs.
Tight(pl, L) ==
    \A s \in Stages : pl.stages[s].delegationId \in L => pl.stages[s].status = "running"

\* An id that was not given out belongs to no pipeline.
OwnersKnown == \A d \in Ids : d > pool.created => owner[d] = NoPipeline

\* All of that of a pipeline; a stage with a live delegation runs if tight.
Fits(p, pl, c, own, L, tight) ==
    Links(p, pl, own, L) /\ Quiet(pl, c, L) /\ (tight => Tight(pl, L))

\* Every pipeline fits, those of T tightly.
PipesFit(T) ==
    /\ OwnersKnown
    /\ \A p \in Pipelines :
           Fits(p, pipelines[p], cancelling[p], owner, Live(pool), p \in T)

\* A pipeline of T that cancelPipeline works on says so.
CancelHolds(T) == \A p \in T : cancelling[p] # 0 => pipelines[p].status = "cancelled"

\* Nothing that pump starts was not live before.
LEMMA PumpLive ==
    ASSUME NEW e, QueueOK(e)
    PROVE  Live(Pump(e)) = Live(e)
BY PumpStartsOldest DEF Live, LiveStatus

\* delegate adds the new id to the live delegations.
LEMMA DelegateLive ==
    ASSUME NEW e, QueueOK(e), e.created < MaxDelegations
    PROVE  Live(Delegate(e)) = Live(e) \cup {e.created + 1}
<1>1. QueueOK(Enqueue(e))
  BY EnqueueQueue
<1>2. e.created + 1 \in Ids /\ e.status \in [Ids -> DelegationStatus]
  BY MaxDelegationsAssumption DEF QueueOK, PoolType, Ids
<1>3. Enqueue(e).status = [e.status EXCEPT ![e.created + 1] = "queued"]
  BY DEF Enqueue, Engine
<1>4. Live(Enqueue(e)) = Live(e) \cup {e.created + 1}
  BY <1>2, <1>3 DEF Live, LiveStatus
<1> QED
  BY <1>1, <1>4, PumpLive DEF Delegate

\* cancelDelegation takes out the one it is called for.
LEMMA CancelLive ==
    ASSUME NEW e, QueueOK(e), NEW d \in Ids
    PROVE  Live(CancelIn(e, d)) = Live(e) \ {d}
<1>1. CASE e.status[d] \in LiveStatus
  <2>1. QueueOK(Abort(e, d))
    BY <1>1, AbortQueue
  <2>2. Abort(e, d).status = [e.status EXCEPT ![d] = "cancelled"]
    BY DEF Abort, Engine
  <2>3. e.status \in [Ids -> DelegationStatus]
    BY DEF QueueOK, PoolType
  <2>4. Live(Abort(e, d)) = Live(e) \ {d}
    BY <2>2, <2>3 DEF Live, LiveStatus
  <2> QED
    BY <1>1, <2>1, <2>4, PumpLive DEF CancelIn
<1>2. CASE e.status[d] \notin LiveStatus
  BY <1>2 DEF CancelIn, Live
<1> QED
  BY <1>1, <1>2

\* ... as settle does.
LEMMA SettleLive ==
    ASSUME NEW e \in PoolType, NEW d \in Ids, NEW outcome \in Outcomes
    PROVE  Live(Settle(e, d, outcome)) = Live(e) \ {d}
<1>1. e.status \in [Ids -> DelegationStatus]
  BY DEF PoolType
<1>2. Settle(e, d, outcome).status = [e.status EXCEPT ![d] = outcome]
  BY DEF Settle, PoolType
<1>3. outcome \notin LiveStatus
  BY OutcomesAssumption DEF LiveStatus
<1> QED
  BY <1>1, <1>2, <1>3 DEF Live

\* The finally callback ends no delegation.
LEMMA ReleaseLive ==
    ASSUME NEW e, QueueOK(e), NEW d \in Ids
    PROVE  Live(Release(e, d)) = Live(e)
<1> DEFINE g == Engine(e.status, e.queue, e.controllers \ {d},
                       [e.executors EXCEPT ![d] = "none"], e.created)
<1>1. QueueOK(g) /\ Live(g) = Live(e)
  BY DEF QueueOK, QueueInv, PoolType, ExecutorState, Engine, Live
<1> HIDE DEF g
<1>2. Live(Pump(g)) = Live(g)
  BY <1>1, PumpLive
<1>3. Release(e, d) = Pump(g)
  BY DEF Release, g
<1> QED
  BY <1>1, <1>2, <1>3

\* What the operators on a pipeline do to its stages.
LEMMA WithStageIs ==
    ASSUME NEW pl \in PipelineType, NEW s \in Stages, NEW st, NEW id
    PROVE  /\ WithStage(pl, s, st, id).status = pl.status
           /\ WithStage(pl, s, st, id).stages[s].status = st
           /\ WithStage(pl, s, st, id).stages[s].delegationId = id
           /\ \A u \in Stages \ {s} : WithStage(pl, s, st, id).stages[u] = pl.stages[u]
BY DEF WithStage, PipelineType

\* cancelPipeline's skip of the stages lo..hi.
LEMMA SkipOpenIs ==
    ASSUME NEW pl \in PipelineType, NEW lo, NEW hi
    PROVE  /\ SkipOpen(pl, lo, hi).status = pl.status
           /\ \A u \in Stages :
                  /\ SkipOpen(pl, lo, hi).stages[u].delegationId = pl.stages[u].delegationId
                  /\ SkipOpen(pl, lo, hi).stages[u].status =
                         IF u \in lo..hi /\ pl.stages[u].status \in {"running", "pending"}
                         THEN "skipped" ELSE pl.stages[u].status
<1>1. \A u \in Stages : pl.stages[u] \in StageType
  BY DEF PipelineType
<1> QED
  BY <1>1 DEF SkipOpen, StageType

\* onStageDelegationFinished changes the one stage that the delegation is of.
LEMMA FinishedIs ==
    ASSUME NEW pl \in PipelineType, NEW d \in Ids, NEW st \in EndStatus,
           NEW s \in Stages, pl.stages[s].delegationId = d,
           \A u \in Stages : pl.stages[u].delegationId = d => u = s
    PROVE  LET f == StageFinished(pl, d, st)
           IN  /\ f.status = pl.status \/ (f.status = "blocked" /\ st = "failed")
               /\ f.stages[s].status =
                      CASE st = "completed" -> "completed"
                        [] st = "cancelled" -> "pending"
                        [] OTHER -> "failed"
               /\ f.stages[s].delegationId = IF st = "cancelled" THEN NoId ELSE d
               /\ \A u \in Stages \ {s} : f.stages[u] = pl.stages[u]
<1>1. StageOf(pl, d) = {s}
  BY DEF StageOf
<1>2. FirstOf(StageOf(pl, d)) = s
  BY <1>1 DEF FirstOf, Stages
<1>3. StageFinished(pl, d, st) =
         CASE st = "completed" -> WithStage(pl, s, "completed", d)
           [] st = "cancelled" -> WithStage(pl, s, "pending", NoId)
           [] OTHER -> WithStatus(WithStage(pl, s, "failed", d), "blocked")
  BY <1>1, <1>2 DEF StageFinished
<1>4. \A x : WithStatus(x, "blocked").status = "blocked"
             /\ WithStatus(x, "blocked").stages = x.stages
  BY DEF WithStatus
<1> QED
  BY <1>3, <1>4, WithStageIs DEF EndStatus

-----------------------------------------------------------------------------
(***************************************************************************)
(* One pipeline: what an operation does to its stages keeps its links.     *)
(***************************************************************************)

\* What a stage is handed back: its delegation is live no more.
LEMMA FinishedLinks ==
    ASSUME NEW pl \in PipelineType, NEW p, NEW own, NEW L \in SUBSET Ids, Links(p, pl, own, L),
           NEW d \in L, own[d] = p, NEW st \in EndStatus
    PROVE  LET f == StageFinished(pl, d, st)
           IN  /\ Links(p, f, own, L \ {d})
               /\ \A c : Quiet(pl, c, L) => Quiet(f, c, L \ {d})
               /\ Tight(pl, L) => Tight(f, L \ {d})
               /\ f.status = pl.status \/ (f.status = "blocked" /\ st = "failed")
<1> DEFINE f == StageFinished(pl, d, st)
<1>1. d # NoId /\ NoId \notin L
  BY DEF Ids, NoId
<1>2. PICK s \in Stages : pl.stages[s].delegationId = d
  BY DEF Links
<1>3. \A u \in Stages : pl.stages[u].delegationId = d => u = s
  BY <1>1, <1>2 DEF Links
<1>4. /\ f.status = pl.status \/ (f.status = "blocked" /\ st = "failed")
      /\ f.stages[s].status \in {"completed", "pending", "failed"}
      /\ f.stages[s].status = "pending" <=> st = "cancelled"
      /\ f.stages[s].delegationId = IF st = "cancelled" THEN NoId ELSE d
      /\ \A u \in Stages \ {s} : f.stages[u] = pl.stages[u]
  BY <1>2, <1>3, FinishedIs DEF EndStatus
<1> HIDE DEF f
<1>5. Links(p, f, own, L \ {d})
  <2>1. \A u \in Stages : f.stages[u].delegationId # NoId => own[f.stages[u].delegationId] = p
    BY <1>4 DEF Links
  <2>2. \A u, v \in Stages : f.stages[u].delegationId = f.stages[v].delegationId
                             /\ f.stages[u].delegationId # NoId => u = v
    BY <1>2, <1>3, <1>4 DEF Links
  <2>3. \A x \in L \ {d} : own[x] = p => \E u \in Stages : f.stages[u].delegationId = x
    BY <1>2, <1>4 DEF Links
  <2>4. \A u \in Stages :
           /\ f.stages[u].status = "running" => f.stages[u].delegationId \in L \ {d}
           /\ f.stages[u].status = "pending" => f.stages[u].delegationId = NoId
           /\ f.stages[u].status \in {"completed", "failed"} =>
                  f.stages[u].delegationId \notin L \ {d}
    BY <1>1, <1>3, <1>4 DEF Links
  <2>5. \A u, v \in Stages :
           f.stages[u].status = "running" /\ f.stages[v].status = "running" => u = v
    BY <1>4 DEF Links
  <2>6. f.status # "absent"
    BY <1>1, <1>2, <1>4 DEF Links
  <2> QED
    BY <2>1, <2>2, <2>3, <2>4, <2>5, <2>6 DEF Links
<1>6. ASSUME NEW c, Quiet(pl, c, L)
      PROVE  Quiet(f, c, L \ {d})
  BY <1>1, <1>4, <1>6 DEF Quiet
<1>7. ASSUME Tight(pl, L)
      PROVE  Tight(f, L \ {d})
  BY <1>1, <1>4, <1>7 DEF Tight
<1> QED
  BY <1>4, <1>5, <1>6, <1>7 DEF f

\* Another delegation ends, or is given to another pipeline.
LEMMA OthersLinks ==
    ASSUME NEW pl, NEW p, NEW own, NEW L \in SUBSET Ids, Links(p, pl, own, L), NEW d,
           own[d] # p
    PROVE  /\ Links(p, pl, own, L \ {d})
           /\ \A c : Quiet(pl, c, L) => Quiet(pl, c, L \ {d})
           /\ Tight(pl, L) => Tight(pl, L \ {d})
<1>1. NoId \notin L
  BY DEF Ids, NoId
<1>2. \A s \in Stages : pl.stages[s].status = "running" => pl.stages[s].delegationId \in L \ {d}
  BY <1>1 DEF Links
<1> QED
  BY <1>2 DEF Links, Quiet, Tight

\* Another pipeline gets a new delegation, or nobody does.
LEMMA NewElsewhere ==
    ASSUME NEW pl \in PipelineType, NEW p \in Pipelines, NEW c, NEW own, NEW L \in SUBSET Ids,
           NEW tight, Fits(p, pl, c, own, L, tight),
           NEW n \in Ids, own[n] = NoPipeline, n \notin L,
           NEW own2, own2[n] # p, \A d \in Ids \ {n} : own2[d] = own[d]
    PROVE  Fits(p, pl, c, own2, L \cup {n}, tight)
<1>1. \A s \in Stages : pl.stages[s].delegationId \in Ids \cup {NoId}
  BY DEF PipelineType, StageType
<1>2. n # NoId
  BY DEF Ids, NoId
<1>3. \A s \in Stages : pl.stages[s].delegationId # n
  BY <1>2, NoPipelineAssumption DEF Fits, Links
<1> QED
  BY <1>1, <1>3 DEF Fits, Links, Quiet, Tight

\* advancePipeline starts a stage that had no delegation with the one it created.
LEMMA AdvanceLinks ==
    ASSUME NEW pl \in PipelineType, NEW p \in Pipelines, NEW own, NEW L \in SUBSET Ids,
           Links(p, pl, own, L), NEW n \in Ids, own[n] = NoPipeline, n \notin L, StartsStage(pl),
           NEW own2, own2[n] = p, \A d \in Ids \ {n} : own2[d] = own[d]
    PROVE  LET f == Advance(pl, n)
           IN  /\ Links(p, f, own2, L \cup {n})
               /\ \A c : Quiet(f, c, L \cup {n})
               /\ Tight(pl, L) => Tight(f, L \cup {n})
               /\ f.status = pl.status
<1> DEFINE f == Advance(pl, n)
           s == NextStage(pl)
<1>1. /\ s \in Stages /\ pl.stages[s].status = "pending"
      /\ pl.status \in {"running", "draft"}
      /\ \A u \in Stages : pl.stages[u].status # "running"
  BY FirstOfType DEF StartsStage, CanAdvance, NextStage, StagesIn
<1>2. f = WithStage(pl, s, "running", n)
  BY DEF Advance
<1> HIDE DEF f, s
<1>3. /\ f.status = pl.status
      /\ f.stages[s].status = "running" /\ f.stages[s].delegationId = n
      /\ \A u \in Stages \ {s} : f.stages[u] = pl.stages[u]
  BY <1>1, <1>2, WithStageIs
<1>4. \A u \in Stages : pl.stages[u].delegationId \in Ids \cup {NoId}
  BY DEF PipelineType, StageType
<1>5. n # NoId /\ NoId \notin L
  BY DEF Ids, NoId
<1>6. pl.stages[s].delegationId = NoId
  BY <1>1 DEF Links
<1>7. \A u \in Stages : pl.stages[u].delegationId # n
  BY <1>5, NoPipelineAssumption DEF Links
<1>8. Links(p, f, own2, L \cup {n})
  <2>1. \A u \in Stages : f.stages[u].delegationId # NoId => own2[f.stages[u].delegationId] = p
    BY <1>3, <1>4, <1>7 DEF Links
  <2>2. \A u, v \in Stages : f.stages[u].delegationId = f.stages[v].delegationId
                             /\ f.stages[u].delegationId # NoId => u = v
    BY <1>3, <1>7 DEF Links
  <2>3. \A x \in L \cup {n} : own2[x] = p => \E u \in Stages : f.stages[u].delegationId = x
    BY <1>1, <1>3, <1>5, <1>6 DEF Links
  <2>4. \A u \in Stages :
           /\ f.stages[u].status = "running" => f.stages[u].delegationId \in L \cup {n}
           /\ f.stages[u].status = "pending" => f.stages[u].delegationId = NoId
           /\ f.stages[u].status \in {"completed", "failed"} =>
                  f.stages[u].delegationId \notin L \cup {n}
    BY <1>3, <1>7 DEF Links
  <2>5. \A u, v \in Stages :
           f.stages[u].status = "running" /\ f.stages[v].status = "running" => u = v
    BY <1>1, <1>3
  <2>6. f.status # "absent"
    BY <1>1, <1>3
  <2> QED
    BY <2>1, <2>2, <2>3, <2>4, <2>5, <2>6 DEF Links
<1>9. \A c : Quiet(f, c, L \cup {n})
  BY <1>1, <1>3 DEF Quiet
<1>10. ASSUME Tight(pl, L)
       PROVE  Tight(f, L \cup {n})
  BY <1>1, <1>3, <1>7, <1>10 DEF Tight
<1> QED
  BY <1>3, <1>8, <1>9, <1>10 DEF f

\* When it starts none, it changes no stage.
LEMMA NoAdvanceLinks ==
    ASSUME NEW pl \in PipelineType, NEW p, NEW own, NEW L, ~StartsStage(pl), NEW n
    PROVE  LET f == Advance(pl, n)
           IN  /\ Links(p, pl, own, L) => Links(p, f, own, L)
               /\ \A c : Quiet(pl, c, L) => Quiet(f, c, L)
               /\ Tight(pl, L) => Tight(f, L)
               /\ pl.status = "cancelled" => f.status = "cancelled"
<1> DEFINE f == Advance(pl, n)
<1>1. f.stages = pl.stages /\ (f.status = pl.status \/ f.status = "completed")
  BY DEF Advance, WithStatus
<1>2. pl.status = "cancelled" => f.status = pl.status
  BY DEF Advance, CanAdvance
<1> HIDE DEF f
<1> QED
  BY <1>1, <1>2 DEF Links, Quiet, Tight, f

\* The host retries a stage that failed, or skips one that is not at work.
LEMMA RetryLinks ==
    ASSUME NEW pl \in PipelineType, NEW p, NEW own, NEW L \in SUBSET Ids, Links(p, pl, own, L),
           NEW s \in Stages, pl.stages[s].status = "failed"
    PROVE  LET f == Unblocked(WithStage(pl, s, "pending", NoId))
           IN  /\ Links(p, f, own, L)
               /\ \A c : Quiet(pl, c, L) => Quiet(f, c, L)
               /\ Tight(pl, L) => Tight(f, L)
<1> DEFINE f == Unblocked(WithStage(pl, s, "pending", NoId))
<1>1. /\ f.status = "cancelled" => pl.status = "cancelled"
      /\ f.status = "absent" => pl.status = "absent"
      /\ f.stages[s].status = "pending" /\ f.stages[s].delegationId = NoId
      /\ \A u \in Stages \ {s} : f.stages[u] = pl.stages[u]
  BY WithStageIs DEF Unblocked, WithStatus
<1> HIDE DEF f
<1>2. NoId \notin L
  BY DEF Ids, NoId
<1>3. pl.stages[s].delegationId \notin L
  BY DEF Links
<1>4. Links(p, f, own, L)
  <2>1. /\ \A u \in Stages : f.stages[u].delegationId # NoId => own[f.stages[u].delegationId] = p
        /\ \A u, v \in Stages : f.stages[u].delegationId = f.stages[v].delegationId
                                /\ f.stages[u].delegationId # NoId => u = v
    BY <1>1 DEF Links
  <2>2. \A x \in L : own[x] = p => \E u \in Stages : f.stages[u].delegationId = x
    BY <1>1, <1>3 DEF Links
  <2>3. \A u \in Stages :
           /\ f.stages[u].status = "running" => f.stages[u].delegationId \in L
           /\ f.stages[u].status = "pending" => f.stages[u].delegationId = NoId
           /\ f.stages[u].status \in {"completed", "failed"} =>
                  f.stages[u].delegationId \notin L
    BY <1>1 DEF Links
  <2>4. \A u, v \in Stages :
           f.stages[u].status = "running" /\ f.stages[v].status = "running" => u = v
    BY <1>1 DEF Links
  <2>5. f.status = "absent" => \A u \in Stages : f.stages[u].delegationId = NoId
    BY <1>1 DEF Links
  <2> QED
    BY <2>1, <2>2, <2>3, <2>4, <2>5 DEF Links
<1> QED
  BY <1>1, <1>2, <1>4 DEF Quiet, Tight, f

\* skipStage's change of a stage that is neither completed nor running.
LEMMA SkipLinks ==
    ASSUME NEW pl \in PipelineType, NEW p, NEW own, NEW L, Links(p, pl, own, L),
           NEW s \in Stages, pl.stages[s].status \notin {"completed", "running"}
    PROVE  LET f == Unblocked(WithStage(pl, s, "skipped", pl.stages[s].delegationId))
           IN  /\ Links(p, f, own, L)
               /\ \A c : Quiet(pl, c, L) => Quiet(f, c, L)
               /\ Tight(pl, L) => Tight(f, L)
<1> DEFINE f == Unblocked(WithStage(pl, s, "skipped", pl.stages[s].delegationId))
<1>1. /\ f.status = "cancelled" => pl.status = "cancelled"
      /\ f.status = "absent" => pl.status = "absent"
      /\ f.stages[s].status = "skipped"
      /\ f.stages[s].delegationId = pl.stages[s].delegationId
      /\ \A u \in Stages \ {s} : f.stages[u] = pl.stages[u]
  BY WithStageIs DEF Unblocked, WithStatus
<1> HIDE DEF f
<1>2. \A u \in Stages : f.stages[u].delegationId = pl.stages[u].delegationId
  BY <1>1
<1>3. \A u \in Stages : f.stages[u].status = pl.stages[u].status
                         \/ (u = s /\ f.stages[u].status = "skipped")
  BY <1>1
<1>4. Links(p, f, own, L)
  <2>1. f.status = "absent" => pl.status = "absent"
    BY <1>1
  <2> QED
    BY <1>2, <1>3, <2>1 DEF Links
<1>5. \A c : Quiet(pl, c, L) => Quiet(f, c, L)
  BY <1>1, <1>2, <1>3 DEF Quiet
<1>6. Tight(pl, L) => Tight(f, L)
  BY <1>2, <1>3 DEF Tight
<1> QED
  BY <1>4, <1>5, <1>6 DEF f

\* cancelPipeline skips stages; none of those it skips may have a live delegation.
LEMMA SkipOpenLinks ==
    ASSUME NEW pl \in PipelineType, NEW p, NEW own, NEW L, Links(p, pl, own, L), NEW lo, NEW hi
    PROVE  LET f == SkipOpen(pl, lo, hi)
           IN  /\ Links(p, f, own, L)
               /\ \A c : Quiet(pl, c, L) => Quiet(f, c, L)
               /\ Tight(pl, L) /\ (\A s \in Stages : s \in lo..hi => pl.stages[s].delegationId \notin L)
                      => Tight(f, L)
<1> DEFINE f == SkipOpen(pl, lo, hi)
<1>1. /\ f.status = pl.status
      /\ \A u \in Stages :
             /\ f.stages[u].delegationId = pl.stages[u].delegationId
             /\ f.stages[u].status = pl.stages[u].status \/ f.stages[u].status = "skipped"
             /\ u \notin lo..hi => f.stages[u].status = pl.stages[u].status
  BY SkipOpenIs
<1> HIDE DEF f
<1>2. Links(p, f, own, L)
  BY <1>1 DEF Links
<1>3. \A c : Quiet(pl, c, L) => Quiet(f, c, L)
  BY <1>1 DEF Quiet
<1>4. Tight(pl, L) /\ (\A s \in Stages : s \in lo..hi => pl.stages[s].delegationId \notin L)
         => Tight(f, L)
  BY <1>1 DEF Tight
<1> QED
  BY <1>2, <1>3, <1>4 DEF f

-----------------------------------------------------------------------------
(***************************************************************************)
(* All pipelines: every action keeps the invariant.                        *)
(***************************************************************************)

\* The id that delegate gives out next is nobody's.
LEMMA NextIdFree ==
    ASSUME NEW e, QueueOK(e), e.created = pool.created, OwnersKnown,
           e.created < MaxDelegations
    PROVE  /\ e.created + 1 \in Ids /\ owner[e.created + 1] = NoPipeline
           /\ e.created + 1 \notin Live(e)
<1>1. e.created \in Nat /\ e.created + 1 \in Ids
  BY MaxDelegationsAssumption DEF QueueOK, PoolType, Ids
<1>2. e.status[e.created + 1] = "absent"
  BY <1>1 DEF QueueOK, QueueInv
<1> QED
  BY <1>1, <1>2 DEF OwnersKnown, Live, LiveStatus

\* An operation that ends in advancePipeline keeps the invariant when the pipeline it hands
\* over fits, started stage or not.
LEMMA AdvanceFits ==
    ASSUME NEW T, NEW e, QueueOK(e), e.created = pool.created, pool \in PoolType,
           RestType, OwnersKnown, NEW p \in Pipelines, NEW pl \in PipelineType,
           Fits(p, pl, cancelling[p], owner, Live(e), p \in T),
           \A q \in Pipelines \ {p} :
               Fits(q, pipelines[q], cancelling[q], owner, Live(e), q \in T),
           AdvancePipeline(e, p, pl), cancelling' = cancelling
    PROVE  PipesFit(T)'
<1> DEFINE n == e.created + 1
           L == Live(e)
<1>1. L \in SUBSET Ids /\ owner \in [Ids -> Pipelines \cup {NoPipeline}]
      /\ pipelines \in [Pipelines -> PipelineType]
  BY DEF Live, RestType
<1>2. pipelines' = [pipelines EXCEPT ![p] = Advance(pl, n)]
  BY DEF AdvancePipeline
<1>3. CASE StartsStage(pl)
  <2>1. /\ e.created < MaxDelegations /\ pool' = Delegate(e)
        /\ owner' = [owner EXCEPT ![n] = p]
    BY <1>3 DEF AdvancePipeline
  <2>2. n \in Ids /\ owner[n] = NoPipeline /\ n \notin L
    BY <2>1, NextIdFree
  <2>3. Live(pool') = L \cup {n} /\ pool'.created = n
    BY <2>1, DelegateLive, DelegateQueue
  <2> HIDE DEF n, L
  <2>4. owner'[n] = p /\ \A d \in Ids \ {n} : owner'[d] = owner[d]
    BY <1>1, <2>1, <2>2
  <2>5. Fits(p, Advance(pl, n), cancelling[p], owner', L \cup {n}, p \in T)
    <3>1. Links(p, pl, owner, L) /\ (p \in T => Tight(pl, L))
      BY DEF Fits, L
    <3>2. /\ Links(p, Advance(pl, n), owner', L \cup {n})
          /\ \A c : Quiet(Advance(pl, n), c, L \cup {n})
          /\ Tight(pl, L) => Tight(Advance(pl, n), L \cup {n})
      <4>1. L \in SUBSET Ids /\ n \in Ids /\ n \notin L /\ owner[n] = NoPipeline
        BY <1>1, <2>2
      <4> QED
        BY <1>3, <2>4, <3>1, <4>1, AdvanceLinks
    <3> QED
      BY <3>1, <3>2 DEF Fits
  <2>6. ASSUME NEW q \in Pipelines \ {p}
        PROVE  Fits(q, pipelines[q], cancelling[q], owner', L \cup {n}, q \in T)
    <3>1. owner'[n] # q /\ pipelines[q] \in PipelineType
      BY <1>1, <2>4
    <3>2. Fits(q, pipelines[q], cancelling[q], owner, L, q \in T)
      BY DEF L
    <3> QED
      BY <1>1, <2>2, <2>4, <3>1, <3>2, NewElsewhere
  <2>7. OwnersKnown'
    <3>1. pool.created + 1 = n /\ pool.created \in Int
      BY DEF n, PoolType
    <3> QED
      BY <2>3, <2>4, <3>1 DEF OwnersKnown, Ids
  <2>8. \A q \in Pipelines : pipelines'[q] = IF q = p THEN Advance(pl, n) ELSE pipelines[q]
    BY <1>1, <1>2
  <2> QED
    BY <2>3, <2>5, <2>6, <2>7, <2>8 DEF PipesFit
<1>4. CASE ~StartsStage(pl)
  <2>1. pool' = e /\ owner' = owner
    BY <1>4 DEF AdvancePipeline
  <2>2. Fits(p, Advance(pl, n), cancelling[p], owner, L, p \in T)
    <3> HIDE DEF L, n
    <3> QED
      BY <1>4, NoAdvanceLinks DEF Fits, L
  <2>3. \A q \in Pipelines : pipelines'[q] = IF q = p THEN Advance(pl, n) ELSE pipelines[q]
    BY <1>1, <1>2
  <2>4. OwnersKnown'
    BY <2>1 DEF OwnersKnown
  <2> QED
    BY <2>1, <2>2, <2>3, <2>4 DEF PipesFit
<1> QED
  BY <1>3, <1>4

\* A delegation of p that ends is handed back to its stage; the other pipelines do not see it.
LEMMA FinishedFits ==
    ASSUME NEW T, RestType, NEW L \in SUBSET Ids, NEW p \in Pipelines, NEW d \in L,
           owner[d] = p, NEW st \in EndStatus, NEW pl \in PipelineType, NEW c,
           Fits(p, pl, c, owner, L, p \in T),
           \A q \in Pipelines \ {p} : Fits(q, pipelines[q], cancelling[q], owner, L, q \in T)
    PROVE  /\ StageFinished(pl, d, st) \in PipelineType
           /\ Fits(p, StageFinished(pl, d, st), c, owner, L \ {d}, p \in T)
           /\ \A q \in Pipelines \ {p} :
                  Fits(q, pipelines[q], cancelling[q], owner, L \ {d}, q \in T)
<1>1. StageFinished(pl, d, st) \in PipelineType
  BY StageFinishedType
<1>2. Fits(p, StageFinished(pl, d, st), c, owner, L \ {d}, p \in T)
  BY FinishedLinks DEF Fits
<1>3. \A q \in Pipelines \ {p} : Fits(q, pipelines[q], cancelling[q], owner, L \ {d}, q \in T)
  BY OthersLinks DEF Fits
<1> QED
  BY <1>1, <1>2, <1>3

\* An ad-hoc delegation ends.
LEMMA AdHocFits ==
    ASSUME NEW T, NEW L \in SUBSET Ids, NEW d, owner[d] = NoPipeline,
           \A q \in Pipelines : Fits(q, pipelines[q], cancelling[q], owner, L, q \in T)
    PROVE  \A q \in Pipelines : Fits(q, pipelines[q], cancelling[q], owner, L \ {d}, q \in T)
BY OthersLinks, NoPipelineAssumption DEF Fits

\* settle keeps the invariant, for an ad-hoc delegation and for a stage's, for every outcome.
LEMMA SettleFits ==
    ASSUME NEW T, QueueOK(pool), RestType, PipesFit(T), NEW e, QueueOK(e), Pumped(e),
           e.status = pool.status, e.created = pool.created, NEW d \in Ids,
           NEW outcome \in Outcomes, pool.status[d] = "running",
           SettleDelegation(e, d, outcome), cancelling' = cancelling
    PROVE  PipesFit(T)'
<1> DEFINE g == Settle(e, d, outcome)
           p == owner[d]
           L == Live(pool)
           pl == StageFinished(pipelines[p], d, outcome)
<1>1. /\ L \in SUBSET Ids /\ d \in L /\ outcome \in EndStatus
      /\ owner \in [Ids -> Pipelines \cup {NoPipeline}]
      /\ pipelines \in [Pipelines -> PipelineType]
  BY OutcomesAssumption DEF Live, LiveStatus, RestType, EndStatus
<1>2. e \in PoolType /\ pool \in PoolType
  BY DEF QueueOK
<1>3. QueueOK(g) /\ g.created = pool.created
  BY SettleQueue
<1>4. Live(g) = L \ {d}
  BY <1>2, SettleLive DEF Live
<1>5. OwnersKnown /\ \A q \in Pipelines : Fits(q, pipelines[q], cancelling[q], owner, L, q \in T)
  BY DEF PipesFit
<1>6. CASE p = NoPipeline
  <2>1. pool' = g /\ pipelines' = pipelines /\ owner' = owner
    BY <1>6 DEF SettleDelegation
  <2> HIDE DEF g, L
  <2>2. \A q \in Pipelines : Fits(q, pipelines[q], cancelling[q], owner, L \ {d}, q \in T)
    BY <1>1, <1>5, <1>6, AdHocFits
  <2> QED
    BY <1>3, <1>4, <1>5, <2>1, <2>2 DEF PipesFit, OwnersKnown
<1>7. CASE p # NoPipeline
  <2>1. p \in Pipelines /\ pipelines[p] \in PipelineType
    BY <1>1, <1>7
  <2>2. /\ pl \in PipelineType
        /\ Fits(p, pl, cancelling[p], owner, L \ {d}, p \in T)
        /\ \A q \in Pipelines \ {p} :
               Fits(q, pipelines[q], cancelling[q], owner, L \ {d}, q \in T)
    <3> HIDE DEF L
    <3> QED
      BY <1>1, <1>5, <2>1, FinishedFits
  <2>3. CASE outcome = "completed" /\ StageOf(pl, d) # {}
    <3>1. AdvancePipeline(g, p, pl)
      BY <1>7, <2>3 DEF SettleDelegation
    <3> HIDE DEF g, L, pl, p
    <3> QED
      <4>1. /\ Fits(p, pl, cancelling[p], owner, Live(g), p \in T)
            /\ \A q \in Pipelines \ {p} :
                   Fits(q, pipelines[q], cancelling[q], owner, Live(g), q \in T)
        BY <1>4, <2>2
      <4> HIDE DEF Fits, Live
      <4> QED
        BY ZenonT(60), <1>2, <1>3, <1>5, <2>1, <2>2, <3>1, <4>1, AdvanceFits
  <2>4. CASE ~(outcome = "completed" /\ StageOf(pl, d) # {})
    <3>1. /\ pool' = g /\ owner' = owner
          /\ pipelines' = [pipelines EXCEPT ![p] = pl]
      BY <1>7, <2>4 DEF SettleDelegation
    <3> HIDE DEF g, L, pl
    <3>2. \A q \in Pipelines : pipelines'[q] = IF q = p THEN pl ELSE pipelines[q]
      BY <1>1, <3>1
    <3>3. OwnersKnown'
      BY <1>3, <1>5, <3>1 DEF OwnersKnown
    <3>4. Live(pool') = L \ {d} /\ cancelling' = cancelling
      BY <1>4, <3>1
    <3>5. ASSUME NEW q \in Pipelines
          PROVE  Fits(q, pipelines'[q], cancelling'[q], owner', Live(pool'), q \in T)
      <4> HIDE DEF Fits, Live
      <4> QED
        BY <2>2, <3>1, <3>2, <3>4
    <3>6. (\A q \in Pipelines :
               Fits(q, pipelines[q], cancelling[q], owner, Live(pool), q \in T))'
      BY <3>5
    <3> QED
      BY <3>3, <3>6 DEF PipesFit
  <2> QED
    BY <2>3, <2>4
<1> QED
  BY <1>6, <1>7

\* cancelPipeline's loop from stage i on, when the stages before it are quiet.
LEMMA CancelFromFits ==
    ASSUME NEW T, QueueOK(pool), Pumped(pool), RestType, PipesFit(T),
           NEW p \in Pipelines, NEW pl \in PipelineType, NEW i \in Nat \ {0},
           Links(p, pl, owner, Live(pool)), p \in T => Tight(pl, Live(pool)),
           pl.status = "cancelled" => \A s \in Stages : s < i =>
               pl.stages[s].status # "running" /\ pl.stages[s].delegationId \notin Live(pool),
           CancelFrom(p, pl, i)
    PROVE  PipesFit(T)'
<1> DEFINE L == Live(pool)
           linked == {s \in i..NumStages : pl.stages[s].delegationId # NoId}
<1>1. /\ L \in SUBSET Ids /\ NoId \notin L
      /\ owner \in [Ids -> Pipelines \cup {NoPipeline}]
      /\ pipelines \in [Pipelines -> PipelineType]
      /\ cancelling \in [Pipelines -> 0..NumStages]
      /\ \A s \in Stages : pl.stages[s].delegationId \in Ids \cup {NoId}
  BY DEF Live, Ids, NoId, RestType, PipelineType, StageType
<1>2. /\ OwnersKnown
      /\ \A q \in Pipelines : Fits(q, pipelines[q], cancelling[q], owner, L, q \in T)
  BY DEF PipesFit
<1>3. \A s \in Stages : s \in Nat \ {0} /\ (s >= i => s \in i..NumStages)
  BY NumStagesAssumption DEF Stages
<1>4. linked \in SUBSET Stages
  BY DEF Stages
<1>5. owner' = owner
  BY DEF CancelFrom
<1>6. CASE linked = {}
  <2> DEFINE f == SkipOpen(pl, i, NumStages)
  <2>1. /\ pipelines' = [pipelines EXCEPT ![p] = f]
        /\ cancelling' = [cancelling EXCEPT ![p] = 0]
        /\ pool' = pool
    BY <1>6 DEF CancelFrom
  <2>2. \A s \in Stages : s >= i => pl.stages[s].delegationId = NoId
    BY <1>3, <1>6
  <2>3. Links(p, f, owner, L) /\ (p \in T => Tight(f, L))
    <3>1. \A s \in Stages : s \in i..NumStages => pl.stages[s].delegationId \notin L
      BY <1>1, <2>2
    <3> HIDE DEF f
    <3> QED
      BY <3>1, SkipOpenLinks DEF f
  <2>4. Quiet(f, 0, L)
    <3>1. /\ f.status = pl.status
          /\ \A s \in Stages : /\ f.stages[s].delegationId = pl.stages[s].delegationId
                               /\ f.stages[s].status = "running" =>
                                      pl.stages[s].status = "running"
      BY SkipOpenIs
    <3>2. \A s \in Stages : s >= i =>
             pl.stages[s].status # "running" /\ pl.stages[s].delegationId \notin L
      BY <1>1, <2>2 DEF Links
    <3> HIDE DEF f
    <3> QED
      BY <1>3, <3>1, <3>2 DEF Quiet
  <2> HIDE DEF f, L
  <2>5. \A q \in Pipelines : /\ pipelines'[q] = IF q = p THEN f ELSE pipelines[q]
                             /\ cancelling'[q] = IF q = p THEN 0 ELSE cancelling[q]
    BY <1>1, <2>1
  <2>6. Fits(p, f, 0, owner, L, p \in T)
    BY <2>3, <2>4 DEF Fits
  <2>7. Live(pool)' = L /\ OwnersKnown'
    BY <1>2, <1>5, <2>1 DEF L, Live, OwnersKnown
  <2> QED
    BY <1>2, <1>5, <2>5, <2>6, <2>7 DEF PipesFit
<1>7. CASE linked # {}
  <2> DEFINE s == FirstOf(linked)
             d == pl.stages[s].delegationId
             k == SkipOpen(pl, i, s - 1)
             f == IF pool.status[d] \in LiveStatus THEN StageFinished(k, d, "cancelled") ELSE k
  <2>1. /\ s \in Stages /\ s >= i /\ d # NoId
        /\ \A u \in Stages : i <= u /\ u < s => pl.stages[u].delegationId = NoId
    <3>1. linked \in SUBSET Nat
      BY <1>4 DEF Stages
    <3>2. PICK x \in linked : \A y \in linked : x <= y
      BY <1>7, <3>1, LeastElement
    <3>3. s \in linked /\ \A y \in linked : s <= y
      BY <3>2 DEF FirstOf
    <3> HIDE DEF s
    <3> QED
      BY <1>3, <1>4, <3>3 DEF Stages
  <2>2. /\ pool' = CancelIn(pool, d)
        /\ pipelines' = [pipelines EXCEPT ![p] = f]
        /\ cancelling' = [cancelling EXCEPT ![p] = s]
    BY <1>7 DEF CancelFrom
  <2> HIDE DEF s, linked
  <2>3. d \in Ids /\ owner[d] = p
    BY <1>1, <2>1 DEF Links
  <2>4. Live(pool') = L \ {d} /\ pool'.created = pool.created
    BY <2>2, <2>3, CancelLive, CancelQueue
  <2>5. k \in PipelineType /\ Links(p, k, owner, L) /\ (p \in T => Tight(k, L))
    <3>1. \A u \in Stages : u \in i..(s - 1) => pl.stages[u].delegationId \notin L
      BY <1>1, <1>3, <2>1
    <3>2. k \in PipelineType
      BY SkipOpenType
    <3>3. /\ Links(p, k, owner, L)
          /\ Tight(pl, L) /\ (\A u \in Stages : u \in i..(s - 1) => pl.stages[u].delegationId \notin L)
                 => Tight(k, L)
      BY SkipOpenLinks
    <3> HIDE DEF k
    <3> QED
      BY <3>1, <3>2, <3>3
  <2>6. /\ k.status = pl.status
        /\ \A u \in Stages : /\ k.stages[u].delegationId = pl.stages[u].delegationId
                             /\ k.stages[u].status = "running" => pl.stages[u].status = "running"
    BY SkipOpenIs
  <2>7. d \in L <=> pool.status[d] \in LiveStatus
    BY <2>3 DEF Live
  <2> HIDE DEF d, k, L
  <2>8. pl.status = "cancelled" => \A u \in Stages : u < s =>
            k.stages[u].status # "running" /\ k.stages[u].delegationId \notin L
    BY <1>1, <1>3, <2>1, <2>6 DEF Links, L
  <2>9. Fits(p, f, s, owner, L \ {d}, p \in T)
    <3>1. CASE d \in L
      <4>1. f = StageFinished(k, d, "cancelled")
        BY <2>7, <3>1
      <4> HIDE DEF f
      <4>2. /\ Links(p, f, owner, L \ {d}) /\ (p \in T => Tight(f, L \ {d}))
            /\ f.status = k.status
        <5>1. "cancelled" \in EndStatus /\ "cancelled" # "failed"
          BY DEF EndStatus
        <5>2. /\ Links(p, StageFinished(k, d, "cancelled"), owner, L \ {d})
              /\ Tight(k, L) => Tight(StageFinished(k, d, "cancelled"), L \ {d})
              /\ StageFinished(k, d, "cancelled").status = k.status
          <6>1. L \in SUBSET Ids
            BY <1>1
          <6>2. owner[d] = p /\ k \in PipelineType /\ Links(p, k, owner, L)
            BY <2>3, <2>5
          <6>3. k \in PipelineType /\ L \in SUBSET Ids /\ Links(p, k, owner, L) /\ d \in L
                /\ owner[d] = p /\ "cancelled" \in EndStatus
            BY <3>1, <5>1, <6>1, <6>2
          <6> QED
            BY SMTT(30), <5>1, <6>3, FinishedLinks
        <5> QED
          BY <2>5, <4>1, <5>2
      <4>3. /\ f.stages[s].status = "pending" /\ f.stages[s].delegationId = NoId
            /\ \A u \in Stages \ {s} : f.stages[u] = k.stages[u]
        <5>1. k.stages[s].delegationId = d
          BY <2>1, <2>6 DEF d
        <5>2. \A u \in Stages : k.stages[u].delegationId = d => u = s
          BY <2>1, <2>5, <5>1 DEF Links
        <5> QED
          BY <2>1, <2>3, <2>5, <4>1, <5>1, <5>2, FinishedIs DEF EndStatus
      <4>4. Quiet(f, s, L \ {d})
        <5> HIDE DEF f
        <5>1. s # 0 /\ \A u \in Stages : u <= s => u < s \/ u = s
          BY <2>1 DEF Stages
        <5> QED
          BY <1>1, <2>6, <2>8, <4>2, <4>3, <5>1 DEF Quiet, L
      <4> QED
        BY <4>2, <4>4 DEF Fits
    <3>2. CASE d \notin L
      <4>1. f = k /\ L \ {d} = L
        BY <2>7, <3>2
      <4>2. k.stages[s].status # "running" /\ k.stages[s].delegationId \notin L
        BY <2>1, <2>5, <2>6, <3>2 DEF Links, d
      <4>3. Quiet(k, s, L)
        <5>1. s # 0 /\ \A u \in Stages : u <= s => u < s \/ u = s
          BY <2>1 DEF Stages
        <5> QED
          BY <2>6, <2>8, <4>2, <5>1 DEF Quiet
      <4> QED
        BY <2>5, <4>1, <4>3 DEF Fits
    <3> QED
      BY <3>1, <3>2
  <2> HIDE DEF f
  <2>10. \A q \in Pipelines \ {p} :
            Fits(q, pipelines[q], cancelling[q], owner, L \ {d}, q \in T)
    BY <1>1, <1>2, <2>3, OthersLinks DEF Fits, L
  <2>11. \A q \in Pipelines : /\ pipelines'[q] = IF q = p THEN f ELSE pipelines[q]
                              /\ cancelling'[q] = IF q = p THEN s ELSE cancelling[q]
    BY <1>1, <2>2
  <2> QED
    BY <1>2, <1>5, <2>4, <2>9, <2>10, <2>11 DEF PipesFit, OwnersKnown
<1> QED
  BY <1>6, <1>7

\* Every step keeps the invariant, while the pipelines of T that cancelPipeline works on
\* say that they are cancelled.
LEMMA NextFits ==
    ASSUME NEW T \in SUBSET Pipelines, QInv, PipesFit(T), CancelHolds(T), [Next]_vars
    PROVE  PipesFit(T)'
<1>1. /\ QueueOK(pool) /\ Pumped(pool) /\ RestType /\ pool \in PoolType
      /\ owner \in [Ids -> Pipelines \cup {NoPipeline}]
      /\ pipelines \in [Pipelines -> PipelineType]
      /\ cancelling \in [Pipelines -> 0..NumStages]
  BY QInvParts DEF QueueOK, RestType
<1>2. /\ OwnersKnown
      /\ \A q \in Pipelines :
             Fits(q, pipelines[q], cancelling[q], owner, Live(pool), q \in T)
  BY DEF PipesFit
<1>3. Live(pool) \in SUBSET Ids
  BY DEF Live
<1>4. CASE DelegateTask
  <2> DEFINE n == pool.created + 1
  <2>1. /\ pool' = Delegate(pool) /\ pool.created < MaxDelegations
        /\ owner' = owner /\ pipelines' = pipelines /\ cancelling' = cancelling
    BY <1>4 DEF DelegateTask
  <2>2. n \in Ids /\ owner[n] = NoPipeline /\ n \notin Live(pool)
    BY <1>1, <1>2, <2>1, NextIdFree
  <2>3. Live(pool') = Live(pool) \cup {n} /\ pool'.created = n
    BY <1>1, <2>1, DelegateLive, DelegateQueue
  <2>4. OwnersKnown'
    <3>1. n > pool.created
      BY <1>1 DEF PoolType
    <3> HIDE DEF n
    <3>2. \A d \in Ids : d > n => d > pool.created
      BY <1>1, <2>2, <3>1 DEF PoolType, Ids
    <3> QED
      BY <1>2, <2>1, <2>3, <3>2 DEF OwnersKnown
  <2> HIDE DEF n
  <2>5. ASSUME NEW q \in Pipelines
        PROVE  Fits(q, pipelines[q], cancelling[q], owner, Live(pool) \cup {n}, q \in T)
    <3>1. owner[n] # q /\ pipelines[q] \in PipelineType
      BY <1>1, <2>2, NoPipelineAssumption
    <3> QED
      BY <1>2, <1>3, <2>2, <3>1, NewElsewhere
  <2> QED
    BY <2>1, <2>3, <2>4, <2>5 DEF PipesFit
<1>5. ASSUME NEW d \in Ids, CancelDelegation(d) PROVE PipesFit(T)'
  <2> DEFINE p == owner[d]
             L == Live(pool)
             pl == StageFinished(pipelines[p], d, "cancelled")
  <2>1. /\ pool' = CancelIn(pool, d) /\ pool.status[d] \in LiveStatus
        /\ owner' = owner /\ cancelling' = cancelling
        /\ pipelines' = IF p = NoPipeline THEN pipelines ELSE [pipelines EXCEPT ![p] = pl]
    BY <1>5 DEF CancelDelegation
  <2>2. Live(pool') = L \ {d} /\ pool'.created = pool.created /\ d \in L
    BY <1>1, <2>1, CancelLive, CancelQueue DEF Live
  <2>3. OwnersKnown'
    BY <1>2, <2>1, <2>2 DEF OwnersKnown
  <2> HIDE DEF L
  <2>4. CASE p = NoPipeline
    <3>1. \A q \in Pipelines : Fits(q, pipelines[q], cancelling[q], owner, L \ {d}, q \in T)
      BY <1>2, <1>3, <2>4, AdHocFits DEF L
    <3> QED
      BY <2>1, <2>2, <2>3, <2>4, <3>1 DEF PipesFit
  <2>5. CASE p # NoPipeline
    <3>1. p \in Pipelines /\ pipelines[p] \in PipelineType /\ "cancelled" \in EndStatus
      BY <1>1, <2>5 DEF EndStatus
    <3> HIDE DEF pl
    <3>2. /\ Fits(p, pl, cancelling[p], owner, L \ {d}, p \in T)
          /\ \A q \in Pipelines \ {p} :
                 Fits(q, pipelines[q], cancelling[q], owner, L \ {d}, q \in T)
      BY <1>1, <1>2, <1>3, <2>2, <3>1, FinishedFits DEF L, pl
    <3>3. \A q \in Pipelines : pipelines'[q] = IF q = p THEN pl ELSE pipelines[q]
      BY <1>1, <2>1, <2>5
    <3> QED
      BY ZenonT(60), <2>1, <2>2, <2>3, <3>2, <3>3 DEF PipesFit
  <2> QED
    BY <2>4, <2>5
<1>6. ASSUME NEW d \in Ids, ExecutorSettles(d) PROVE PipesFit(T)'
  <2> DEFINE e == PromiseSettled(pool, d)
  <2>1. /\ QueueOK(e) /\ Pumped(e) /\ e.created = pool.created /\ e.status = pool.status
        /\ cancelling' = cancelling
    BY <1>1, <1>6, PromiseQueue DEF ExecutorSettles
  <2>2. CASE pool.status[d] = "running"
    <3>1. PICK outcome \in Outcomes : SettleDelegation(e, d, outcome)
      BY <1>6, <2>2 DEF ExecutorSettles
    <3> HIDE DEF e
    <3> QED
      BY <1>1, <2>1, <2>2, <3>1, SettleFits
  <2>3. CASE pool.status[d] # "running"
    <3>1. pool' = e /\ owner' = owner /\ pipelines' = pipelines
      BY <1>6, <2>3 DEF ExecutorSettles
    <3> HIDE DEF e
    <3> QED
      BY <1>2, <2>1, <3>1 DEF PipesFit, OwnersKnown, Live
  <2> QED
    BY <2>2, <2>3
<1>7. ASSUME NEW d \in Ids, ExecutorFinally(d) PROVE PipesFit(T)'
  <2>1. pool' = Release(pool, d) /\ UNCHANGED <<owner, pipelines, cancelling>>
    BY <1>7 DEF ExecutorFinally
  <2>2. Live(pool') = Live(pool) /\ pool'.created = pool.created
    BY <1>1, <2>1, ReleaseLive, ReleaseQueue
  <2> QED
    BY <1>2, <2>1, <2>2 DEF PipesFit, OwnersKnown
<1>8. ASSUME NEW d \in Ids, FinishDelegation(d) PROVE PipesFit(T)'
  <2>1. PICK outcome \in Outcomes : SettleDelegation(pool, d, outcome)
    BY <1>8 DEF FinishDelegation
  <2>2. pool.status[d] = "running" /\ cancelling' = cancelling
    BY <1>8 DEF FinishDelegation
  <2> QED
    BY <1>1, <2>1, <2>2, SettleFits
<1>9. CASE UNCHANGED <<pool, owner, pipelines, cancelling>>
  BY <1>2, <1>9 DEF PipesFit, OwnersKnown
<1>10. ASSUME NEW p \in Pipelines, CreatePipeline(p) PROVE PipesFit(T)'
  <2>1. PICK unknown \in UnknownRoles : pipelines' = [pipelines EXCEPT ![p] =
               [status |-> "draft",
                stages |-> [s \in Stages |-> [status |-> "pending",
                                              delegationId |-> NoId,
                                              known |-> s \notin unknown]]]]
    BY <1>10 DEF CreatePipeline
  <2>2. UNCHANGED <<pool, owner, cancelling>> /\ pipelines[p].status = "absent"
    BY <1>10 DEF CreatePipeline
  <2>3. /\ pipelines'[p].status = "draft"
        /\ \A s \in Stages : pipelines'[p].stages[s].status = "pending"
                             /\ pipelines'[p].stages[s].delegationId = NoId
        /\ \A q \in Pipelines \ {p} : pipelines'[q] = pipelines[q]
    BY <1>1, <2>1
  <2>4. NoId \notin Live(pool)
    BY DEF Live, Ids, NoId
  <2>5. \A d \in Live(pool) : owner[d] # p
    BY <1>2, <1>3, <2>2, <2>4 DEF Fits, Links
  <2>6. Fits(p, pipelines'[p], cancelling[p], owner, Live(pool), p \in T)
    BY <2>3, <2>4, <2>5 DEF Fits, Links, Quiet, Tight
  <2> QED
    BY <1>2, <2>2, <2>3, <2>6 DEF PipesFit, OwnersKnown
<1>11. ASSUME NEW p \in Pipelines, StartPipeline(p) PROVE PipesFit(T)'
  <2> DEFINE pl == IF pipelines[p].status = "draft"
                   THEN WithStatus(pipelines[p], "running") ELSE pipelines[p]
  <2>1. AdvancePipeline(pool, p, pl) /\ cancelling' = cancelling
    BY <1>11 DEF StartPipeline
  <2>2. pl \in PipelineType
    BY <1>1, WithStatusType DEF PipelineStatus
  <2>3. /\ pl.stages = pipelines[p].stages
        /\ pl.status = "cancelled" => pipelines[p].status = "cancelled"
        /\ pl.status = "absent" => pipelines[p].status = "absent"
    BY DEF WithStatus
  <2> HIDE DEF pl
  <2>4. Fits(p, pl, cancelling[p], owner, Live(pool), p \in T)
    BY <1>2, <2>3 DEF Fits, Links, Quiet, Tight
  <2> QED
    BY <1>1, <1>2, <2>1, <2>2, <2>4, AdvanceFits
<1>12. ASSUME NEW p \in Pipelines, NEW s \in Stages, RetryStage(p, s) PROVE PipesFit(T)'
  <2> DEFINE pl == Unblocked(WithStage(pipelines[p], s, "pending", NoId))
  <2>1. /\ AdvancePipeline(pool, p, pl) /\ cancelling' = cancelling
        /\ pipelines[p].stages[s].status = "failed"
    BY <1>12 DEF RetryStage
  <2>2. pl \in PipelineType
    BY <1>1, WithStatusType, WithStageType DEF Unblocked, PipelineStatus, StageStatus
  <2> HIDE DEF pl
  <2>3. Fits(p, pl, cancelling[p], owner, Live(pool), p \in T)
    BY <1>1, <1>2, <1>3, <2>1, RetryLinks DEF Fits, pl
  <2> QED
    BY <1>1, <1>2, <2>1, <2>2, <2>3, AdvanceFits
<1>13. ASSUME NEW p \in Pipelines, NEW s \in Stages, SkipStage(p, s) PROVE PipesFit(T)'
  <2> DEFINE id == pipelines[p].stages[s].delegationId
             pl == Unblocked(WithStage(pipelines[p], s, "skipped", id))
  <2>1. /\ AdvancePipeline(pool, p, pl) /\ cancelling' = cancelling
        /\ pipelines[p].stages[s].status \notin {"completed", "running"}
    BY <1>13 DEF SkipStage
  <2>2. pl \in PipelineType
    <3>1. id \in Ids \cup {NoId}
      BY <1>1 DEF PipelineType, StageType
    <3> HIDE DEF id
    <3> QED
      BY <1>1, <3>1, WithStatusType, WithStageType
         DEF Unblocked, PipelineStatus, StageStatus
  <2> HIDE DEF pl
  <2>3. Fits(p, pl, cancelling[p], owner, Live(pool), p \in T)
    BY <1>1, <1>2, <1>3, <2>1, SkipLinks DEF Fits, pl
  <2> QED
    BY <1>1, <1>2, <2>1, <2>2, <2>3, AdvanceFits
<1>14. ASSUME NEW p \in Pipelines, CancelPipeline(p) PROVE PipesFit(T)'
  <2> DEFINE pl == WithStatus(pipelines[p], "cancelled")
  <2>1. CancelFrom(p, pl, 1) /\ pipelines[p].status # "absent"
    BY <1>14 DEF CancelPipeline
  <2>2. pl \in PipelineType
    BY <1>1, WithStatusType DEF PipelineStatus
  <2>3. pl.stages = pipelines[p].stages /\ pl.status = "cancelled"
    BY DEF WithStatus
  <2> HIDE DEF pl
  <2>4. Links(p, pl, owner, Live(pool)) /\ (p \in T => Tight(pl, Live(pool)))
    BY <1>2, <2>3 DEF Fits, Links, Tight
  <2>5. \A u \in Stages : ~(u < 1)
    BY DEF Stages
  <2> QED
    BY <1>1, <2>1, <2>2, <2>4, <2>5, CancelFromFits
<1>15. ASSUME NEW p \in Pipelines, CancelPipelineResumes(p) PROVE PipesFit(T)'
  <2> DEFINE c == cancelling[p]
             pl == SkipOpen(pipelines[p], c, c)
  <2>1. CancelFrom(p, pl, c + 1) /\ c # 0 /\ c \in 0..NumStages
    BY <1>1, <1>15 DEF CancelPipelineResumes
  <2>2. pl \in PipelineType
    BY <1>1, SkipOpenType
  <2>3. c + 1 \in Nat \ {0}
    BY <2>1, NumStagesAssumption
  <2> HIDE DEF pl, c
  <2>4. Links(p, pl, owner, Live(pool)) /\ Quiet(pl, c, Live(pool))
    BY <1>1, <1>2, SkipOpenLinks DEF Fits, pl, c
  <2>5. p \in T => Tight(pl, Live(pool))
    <3>1. SUFFICES ASSUME p \in T PROVE Tight(pl, Live(pool))
      OBVIOUS
    <3>2. pipelines[p].status = "cancelled"
      BY <2>1, <3>1 DEF CancelHolds, c
    <3>3. \A s \in Stages : s \in c..c => pipelines[p].stages[s].delegationId \notin Live(pool)
      BY <1>2, <2>1, <3>2 DEF Fits, Quiet, c
    <3>4. Links(p, pipelines[p], owner, Live(pool)) /\ Tight(pipelines[p], Live(pool))
      BY <1>2, <3>1 DEF Fits
    <3> QED
      BY <1>1, <3>3, <3>4, SkipOpenLinks DEF pl
  <2>6. pl.status = "cancelled" => \A s \in Stages : s < c + 1 =>
            pl.stages[s].status # "running" /\ pl.stages[s].delegationId \notin Live(pool)
    <3>1. \A s \in Stages : s < c + 1 => s <= c
      BY <2>1 DEF Stages
    <3> QED
      BY <2>4, <3>1 DEF Quiet
  <2> QED
    BY <1>1, <2>1, <2>2, <2>3, <2>4, <2>5, <2>6, CancelFromFits
<1>16. CASE Restart
  <2>1. /\ \A d \in Ids : owner'[d] = NoPipeline
        /\ \A q \in Pipelines : pipelines'[q] = EmptyPipeline /\ cancelling'[q] = 0
    BY <1>16 DEF Restart
  <2>2. /\ EmptyPipeline.status = "absent"
        /\ \A s \in Stages : /\ EmptyPipeline.stages[s].status = "pending"
                             /\ EmptyPipeline.stages[s].delegationId = NoId
    BY DEF EmptyPipeline
  <2> HIDE DEF EmptyPipeline
  <2>3. NoId \notin Live(pool') /\ Live(pool') \in SUBSET Ids
    BY DEF Live, Ids, NoId
  <2>4. \A q \in Pipelines : Fits(q, EmptyPipeline, 0, owner', Live(pool'), q \in T)
    BY <2>1, <2>2, <2>3, NoPipelineAssumption DEF Fits, Links, Quiet, Tight
  <2> QED
    BY <2>1, <2>4 DEF PipesFit, OwnersKnown
<1> QED
  BY <1>4, <1>5, <1>6, <1>7, <1>8, <1>9, <1>10, <1>11, <1>12, <1>13, <1>14, <1>15, <1>16
     DEF Next, UpdateProgress, RecordUsage, vars

\* It holds at the start.
LEMMA InitFits == ASSUME NEW T, Init PROVE PipesFit(T)
<1>1. /\ \A d \in Ids : owner[d] = NoPipeline
      /\ \A q \in Pipelines : pipelines[q] = EmptyPipeline /\ cancelling[q] = 0
  BY DEF Init
<1>2. /\ EmptyPipeline.status = "absent"
      /\ \A s \in Stages : /\ EmptyPipeline.stages[s].status = "pending"
                           /\ EmptyPipeline.stages[s].delegationId = NoId
  BY DEF EmptyPipeline
<1> HIDE DEF EmptyPipeline
<1>3. NoId \notin Live(pool) /\ Live(pool) \in SUBSET Ids
  BY DEF Live, Ids, NoId
<1>4. \A q \in Pipelines : Fits(q, EmptyPipeline, 0, owner, Live(pool), q \in T)
  BY <1>1, <1>2, <1>3, NoPipelineAssumption DEF Fits, Links, Quiet, Tight
<1> QED
  BY <1>1, <1>4 DEF PipesFit, OwnersKnown

-----------------------------------------------------------------------------
(***************************************************************************)
(* Stages and their delegations.                                           *)
(***************************************************************************)

\* The pipelines that the host does not cancel: cancelPipeline never works on one.
Kept == Pipelines \ Cancellable
KeptRest == \A p \in Kept : cancelling[p] = 0

\* What is known of pipelines whatever the host does.
PipesInv == PipesFit(Kept) /\ KeptRest

\* Links and Quiet hold of every pipeline in every state: whatever order host calls, late
\* executors, awaits of cancelPipeline and restarts come in.
THEOREM PipesInvHolds == Spec => []PipesInv
<1>1. Init => PipesInv
  BY InitFits DEF PipesInv, KeptRest, Kept, Init
<1>2. QInv /\ PipesInv /\ [Next]_vars => PipesFit(Kept)'
  BY NextFits DEF PipesInv, KeptRest, Kept, CancelHolds
<1>3. QInv /\ KeptRest /\ [Next]_vars => KeptRest'
  <2>1. SUFFICES ASSUME QInv, KeptRest, [Next]_vars, NEW p \in Kept
                 PROVE  cancelling'[p] = 0
    BY DEF KeptRest
  <2>2. cancelling \in [Pipelines -> 0..NumStages] /\ p \in Pipelines /\ cancelling[p] = 0
    BY <2>1, QInvParts DEF RestType, Kept, KeptRest
  <2>3. ASSUME NEW q \in Pipelines, CancelPipeline(q) \/ CancelPipelineResumes(q)
        PROVE  cancelling'[p] = 0
    <3>1. q # p
      BY <2>1, <2>2, <2>3 DEF CancelPipeline, CancelPipelineResumes, Kept
    <3>2. \E c : cancelling' = [cancelling EXCEPT ![q] = c]
      BY <2>3 DEF CancelPipeline, CancelPipelineResumes, CancelFrom
    <3> QED
      BY <2>2, <3>1, <3>2
  <2>4. CASE Restart
    BY <2>2, <2>4 DEF Restart
  <2>5. CASE UNCHANGED cancelling
    BY <2>2, <2>5
  <2> QED
    BY <2>1, <2>3, <2>4, <2>5
       DEF Next, DelegateTask, CancelDelegation, ExecutorSettles, ExecutorFinally,
           FinishDelegation, UpdateProgress, RecordUsage, CreatePipeline, StartPipeline,
           RetryStage, SkipStage, vars
<1> QED
  BY <1>1, <1>2, <1>3, QInvHolds, PTL DEF Spec, PipesInv

\* Once cancelPipeline has returned, a cancelled pipeline has no live delegation and no running
\* stage, whatever settled, failed or was retried at its awaits (cancelPipeline, settle).
THEOREM CancelledPipelinesRest == Spec => []CancelledIsQuiet
<1>1. PipesInv => CancelledIsQuiet
  <2>1. SUFFICES ASSUME PipesInv, NEW p \in Pipelines,
                        pipelines[p].status = "cancelled", cancelling[p] = 0
                 PROVE  LiveOf(p) = {} /\ StagesIn(pipelines[p], {"running"}) = {}
    BY DEF CancelledIsQuiet
  <2>2. /\ Links(p, pipelines[p], owner, Live(pool))
        /\ \A s \in Stages : pipelines[p].stages[s].status # "running"
                             /\ pipelines[p].stages[s].delegationId \notin Live(pool)
    BY <2>1 DEF PipesInv, PipesFit, Fits, Quiet
  <2>3. \A d \in LiveOf(p) : d \in Live(pool) /\ owner[d] = p
    BY DEF LiveOf, Live
  <2> QED
    BY <2>2, <2>3 DEF Links, StagesIn
<1> QED
  BY <1>1, PipesInvHolds, PTL

\* What Links and Tight say of a pipeline's stages and its live delegations.
LEMMA LinksTrack ==
    ASSUME NEW p \in Pipelines, Links(p, pipelines[p], owner, Live(pool))
    PROVE  /\ WorkOf(p, {"running"}) \subseteq LiveOf(p)
           /\ Cardinality(StagesIn(pipelines[p], {"running"})) <= 1
           /\ RestType => LiveOf(p) \subseteq WorkOf(p, {"running", "skipped"})
           /\ Tight(pipelines[p], Live(pool)) => LiveOf(p) \subseteq WorkOf(p, {"running"})
<1> DEFINE pl == pipelines[p]
           L == Live(pool)
           R == StagesIn(pl, {"running"})
<1>1. LiveOf(p) = {d \in L : owner[d] = p}
  BY DEF LiveOf, Live
<1>2. NoId \notin L
  BY DEF Live, Ids, NoId
<1> HIDE DEF L
<1>3. WorkOf(p, {"running"}) \subseteq LiveOf(p)
  <2>1. \A s \in R : pl.stages[s].delegationId \in LiveOf(p)
    BY <1>1, <1>2 DEF Links, StagesIn, L
  <2> HIDE DEF pl
  <2>2. WorkOf(p, {"running"}) = {pl.stages[s].delegationId : s \in R}
    BY DEF WorkOf, pl
  <2> QED
    BY <2>1, <2>2
<1>4. Cardinality(R) <= 1
  <2>1. \A s, u \in R : s = u
    BY DEF Links, StagesIn
  <2>2. CASE R = {}
    BY <2>2, FS_EmptySet
  <2>3. CASE R # {}
    <3>1. PICK s \in R : R = {s}
      BY <2>1, <2>3
    <3>2. Cardinality({s}) = 1
      BY FS_Singleton
    <3> HIDE DEF R
    <3> QED
      BY <3>1, <3>2
  <2> QED
    BY <2>2, <2>3
<1>5. ASSUME RestType
      PROVE  LiveOf(p) \subseteq WorkOf(p, {"running", "skipped"})
  <2>1. ASSUME NEW d \in LiveOf(p)
        PROVE  \E s \in Stages : pl.stages[s].delegationId = d
                                  /\ pl.stages[s].status \in {"running", "skipped"}
    <3>1. d \in L /\ owner[d] = p /\ d # NoId
      BY <1>1, <1>2, <2>1
    <3>2. PICK s \in Stages : pl.stages[s].delegationId = d
      BY <3>1 DEF Links, L
    <3>3. pl.stages[s].status \in StageStatus
      BY <1>5, <3>2 DEF RestType, PipelineType, StageType
    <3>4. pl.stages[s].status \notin {"pending", "completed", "failed"}
      BY <3>1, <3>2 DEF Links, L
    <3> QED
      BY <3>2, <3>3, <3>4 DEF StageStatus
  <2> QED
    BY <2>1 DEF WorkOf, StagesIn
<1>6. ASSUME Tight(pl, L)
      PROVE  LiveOf(p) \subseteq WorkOf(p, {"running"})
  <2>1. ASSUME NEW d \in LiveOf(p)
        PROVE  \E s \in Stages : pl.stages[s].delegationId = d
                                  /\ pl.stages[s].status = "running"
    BY <1>1, <1>6, <2>1 DEF Links, Tight, L
  <2> QED
    BY <2>1 DEF WorkOf, StagesIn
<1> QED
  BY <1>3, <1>4, <1>5, <1>6 DEF L

\* A pipeline's running stage and its live delegation go together, whatever settles late, is
\* cancelled, retried or skipped (onStageDelegationFinished, advancePipeline): exactly so in a
\* pipeline that the host does not cancel.
THEOREM StagesTrack == Spec => []StageTracksDelegation
<1>1. QInv /\ PipesInv => StageTracksDelegation
  <2>1. SUFFICES ASSUME QInv, PipesInv, NEW p \in Pipelines
                 PROVE  /\ WorkOf(p, {"running"}) \subseteq LiveOf(p)
                        /\ Cardinality(StagesIn(pipelines[p], {"running"})) <= 1
                        /\ LiveOf(p) \subseteq
                               WorkOf(p, {"running"} \cup
                                         IF p \in Cancellable THEN {"skipped"} ELSE {})
    BY DEF StageTracksDelegation
  <2>2. /\ Links(p, pipelines[p], owner, Live(pool)) /\ RestType
        /\ p \notin Cancellable => Tight(pipelines[p], Live(pool))
    BY <2>1, QInvParts DEF PipesInv, PipesFit, Fits, Kept
  <2>3. CASE p \in Cancellable
    <3>1. {"running"} \cup (IF p \in Cancellable THEN {"skipped"} ELSE {}) = {"running", "skipped"}
      BY <2>3
    <3> QED
      BY <2>2, <3>1, LinksTrack
  <2>4. CASE p \notin Cancellable
    <3>1. {"running"} \cup (IF p \in Cancellable THEN {"skipped"} ELSE {}) = {"running"}
      BY <2>4
    <3> QED
      BY <2>2, <2>4, <3>1, LinksTrack
  <2> QED
    BY <2>3, <2>4
<1> QED
  BY <1>1, QInvHolds, PipesInvHolds, PTL

\* CancelFrom leaves the status of a cancelled pipeline.
LEMMA CancelFromHolds ==
    ASSUME NEW p \in Pipelines, NEW pl \in PipelineType, NEW i \in Nat \ {0}, RestType,
           pl.status = "cancelled", CancelFrom(p, pl, i), CancelHolds(Pipelines)
    PROVE  CancelHolds(Pipelines)'
<1> DEFINE linked == {s \in i..NumStages : pl.stages[s].delegationId # NoId}
           s == FirstOf(linked)
           d == pl.stages[s].delegationId
           k == SkipOpen(pl, i, s - 1)
           f == IF linked = {} THEN SkipOpen(pl, i, NumStages)
                ELSE IF pool.status[d] \in LiveStatus THEN StageFinished(k, d, "cancelled")
                ELSE k
<1>1. pipelines' = [pipelines EXCEPT ![p] = f]
      /\ \A q \in Pipelines \ {p} : cancelling'[q] = cancelling[q]
  BY DEF CancelFrom, RestType
<1>2. k.status = "cancelled" /\ SkipOpen(pl, i, NumStages).status = "cancelled"
  BY DEF SkipOpen
<1> HIDE DEF k
<1>3. StageFinished(k, d, "cancelled").status = k.status
  BY DEF StageFinished, WithStage
<1>4. f.status = "cancelled"
  BY <1>2, <1>3
<1> HIDE DEF f
<1>5. pipelines \in [Pipelines -> PipelineType]
  BY DEF RestType
<1> QED
  BY <1>1, <1>4, <1>5 DEF CancelHolds

\* cancelPipeline holds the pipeline it works on, unless something else gives it another status.
LEMMA CancelHoldsStep ==
    ASSUME RestType, CancelHolds(Pipelines), [Next]_vars,
           [\A p \in Pipelines : pipelines[p].status = "cancelled" /\ restarts' = restarts =>
               pipelines'[p].status = "cancelled"]_vars
    PROVE  CancelHolds(Pipelines)'
<1>1. ASSUME NEW p \in Pipelines, CancelPipeline(p)
      PROVE  CancelHolds(Pipelines)'
  <2>1. WithStatus(pipelines[p], "cancelled") \in PipelineType
    BY WithStatusType DEF RestType, PipelineStatus
  <2>2. WithStatus(pipelines[p], "cancelled").status = "cancelled"
    BY DEF WithStatus
  <2>3. CancelFrom(p, WithStatus(pipelines[p], "cancelled"), 1)
    BY <1>1 DEF CancelPipeline
  <2> QED
    BY <2>1, <2>2, <2>3, CancelFromHolds
<1>2. ASSUME NEW p \in Pipelines, CancelPipelineResumes(p)
      PROVE  CancelHolds(Pipelines)'
  <2> DEFINE pl == SkipOpen(pipelines[p], cancelling[p], cancelling[p])
  <2>1. pl \in PipelineType
    BY SkipOpenType DEF RestType
  <2>2. pl.status = "cancelled"
    BY <1>2 DEF SkipOpen, CancelHolds, CancelPipelineResumes
  <2>3. CancelFrom(p, pl, cancelling[p] + 1) /\ cancelling[p] + 1 \in Nat \ {0}
    BY <1>2, NumStagesAssumption DEF CancelPipelineResumes, RestType
  <2> HIDE DEF pl
  <2> QED
    BY <2>1, <2>2, <2>3, CancelFromHolds
<1>3. CASE Restart
  BY <1>3 DEF Restart, CancelHolds
<1>4. CASE cancelling' = cancelling /\ restarts' = restarts
  <2>1. CASE vars' = vars
    BY <2>1 DEF vars, CancelHolds
  <2>2. CASE \A p \in Pipelines : pipelines[p].status = "cancelled" /\ restarts' = restarts =>
                 pipelines'[p].status = "cancelled"
    BY <1>4, <2>2 DEF CancelHolds
  <2> QED
    BY <2>1, <2>2
<1> QED
  BY <1>1, <1>2, <1>3, <1>4
     DEF Next, DelegateTask, CancelDelegation, ExecutorSettles, ExecutorFinally,
         FinishDelegation, UpdateProgress, RecordUsage, CreatePipeline, StartPipeline,
         RetryStage, SkipStage, vars

\* In every behaviour in which no cancellation is undone the stages that run and the live
\* delegations are the same, in the pipelines that the host cancels too: what
\* StageTracksDelegation leaves open comes of finding an undone cancellation only.
THEOREM NothingSkippedWorks ==
    Spec /\ CancelledStaysCancelled => [](\A p \in Pipelines : LiveOf(p) = WorkOf(p, {"running"}))
<1>1. Init => PipesFit(Pipelines) /\ CancelHolds(Pipelines)
  BY InitFits DEF Init, CancelHolds
<1>2. QInv /\ PipesFit(Pipelines) /\ CancelHolds(Pipelines) /\ [Next]_vars
      /\ [\A p \in Pipelines : pipelines[p].status = "cancelled" /\ restarts' = restarts =>
             pipelines'[p].status = "cancelled"]_vars
         => PipesFit(Pipelines)' /\ CancelHolds(Pipelines)'
  BY NextFits, CancelHoldsStep, QInvParts
<1>3. PipesFit(Pipelines) => \A p \in Pipelines : LiveOf(p) = WorkOf(p, {"running"})
  BY LinksTrack DEF PipesFit, Fits
<1> QED
  BY <1>1, <1>2, <1>3, QInvHolds, PTL DEF Spec, CancelledStaysCancelled

-----------------------------------------------------------------------------
(***************************************************************************)
(* The delegation table.                                                   *)
(***************************************************************************)

\* With a table whose writes do not fail, no restart leaves a row that says queued or running
\* among the newest ones unless the engine tracks it as such (rehydrate, persist).
THEOREM OrphansAreRetired ==
    ASSUME ~WritesMayFail
    PROVE  Spec => []OrphansRetired
<1>1. Init => RInv
  BY InitRInv
<1>2. RInv /\ [Next]_vars => RInv'
  BY NextRInv
<1>3. RInv => OrphansRetired
  BY DEF RInv, RowsFollow, HistoryKnown, OrphansRetired, Rehydrated
<1> QED
  BY <1>1, <1>2, <1>3, PTL DEF Spec

-----------------------------------------------------------------------------
(***************************************************************************)
(* The order of the stages.                                                *)
(***************************************************************************)

\* No stage starts between the states old and new of a pipeline.
StartsNone(old, new) ==
    \A s \in Stages : new.stages[s].status = "running" => old.stages[s].status = "running"

\* A stage that starts between them finds every earlier one over.
Ordered(old, new) ==
    \A s, earlier \in Stages :
        new.stages[s].status = "running" /\ old.stages[s].status # "running" /\ earlier < s =>
            new.stages[earlier].status \notin {"pending", "running"}

\* The step is in order for every pipeline.
AllOrdered == \A q \in Pipelines : Ordered(pipelines[q], pipelines'[q])

\* FirstOf is the least element.
LEMMA FirstOfLeast ==
    ASSUME NEW S \in SUBSET Stages, S # {}
    PROVE  FirstOf(S) \in S /\ \A t \in S : FirstOf(S) <= t
<1>1. S \in SUBSET Nat
  BY NumStagesAssumption DEF Stages
<1>2. \E s \in S : \A t \in S : s <= t
  BY <1>1, LeastElement
<1> QED
  BY <1>2 DEF FirstOf

\* advancePipeline starts the first pending stage, when no other is running.
LEMMA AdvanceOrdered ==
    ASSUME NEW pl \in PipelineType, NEW old, StartsNone(old, pl), NEW n
    PROVE  Ordered(old, Advance(pl, n))
<1>1. CASE StartsStage(pl)
  <2> DEFINE s == NextStage(pl)
  <2>1. s \in Stages /\ \A t \in Stages : pl.stages[t].status = "pending" => s <= t
    BY <1>1, FirstOfLeast DEF NextStage, StartsStage, StagesIn
  <2>2. \A t \in Stages : pl.stages[t].status # "running"
    BY <1>1 DEF StartsStage, CanAdvance, StagesIn
  <2>3. Advance(pl, n) = WithStage(pl, s, "running", n)
    BY <1>1 DEF Advance
  <2> HIDE DEF s
  <2>4. \A u \in Stages \ {s} : WithStage(pl, s, "running", n).stages[u] = pl.stages[u]
    BY <2>1, WithStageIs
  <2>5. \A u \in Stages : u < s => ~(s <= u) /\ u # s
    BY <2>1 DEF Stages
  <2> QED
    BY <2>1, <2>2, <2>3, <2>4, <2>5 DEF Ordered
<1>2. CASE ~StartsStage(pl)
  <2>1. Advance(pl, n).stages = pl.stages
    BY <1>2 DEF Advance, WithStatus
  <2> QED
    BY <2>1 DEF Ordered, StartsNone
<1> QED
  BY <1>1, <1>2

\* A change of one pipeline that starts no stage is in order.
LEMMA QuietChange ==
    ASSUME RestType, NEW p \in Pipelines, NEW f, StartsNone(pipelines[p], f),
           pipelines' = [pipelines EXCEPT ![p] = f]
    PROVE  AllOrdered
<1>1. pipelines \in [Pipelines -> PipelineType]
  BY DEF RestType
<1>2. \A q \in Pipelines : pipelines'[q] = IF q = p THEN f ELSE pipelines[q]
  BY <1>1
<1> QED
  BY <1>2 DEF AllOrdered, Ordered, StartsNone

\* ... and one that ends in advancePipeline.
LEMMA AdvancePipelineOrdered ==
    ASSUME RestType, NEW p \in Pipelines, NEW pl \in PipelineType,
           StartsNone(pipelines[p], pl), NEW e, AdvancePipeline(e, p, pl)
    PROVE  AllOrdered
<1>1. pipelines \in [Pipelines -> PipelineType]
  BY DEF RestType
<1>2. pipelines' = [pipelines EXCEPT ![p] = Advance(pl, e.created + 1)]
  BY DEF AdvancePipeline
<1>3. Ordered(pipelines[p], Advance(pl, e.created + 1))
  BY AdvanceOrdered
<1> HIDE DEF Ordered
<1>4. \A q \in Pipelines : pipelines'[q] = IF q = p THEN Advance(pl, e.created + 1)
                                           ELSE pipelines[q]
  BY <1>1, <1>2
<1>5. \A q \in Pipelines : Ordered(pipelines[q], pipelines[q])
  BY DEF Ordered
<1> QED
  BY <1>3, <1>4, <1>5 DEF AllOrdered

\* A stage that ends does not start.
LEMMA FinishedStartsNone ==
    ASSUME NEW pl \in PipelineType, NEW d, NEW st
    PROVE  StartsNone(pl, StageFinished(pl, d, st))
<1>1. CASE StageOf(pl, d) = {}
  BY <1>1 DEF StageFinished, StartsNone
<1>2. CASE StageOf(pl, d) # {}
  <2> DEFINE s == FirstOf(StageOf(pl, d))
  <2>1. s \in Stages
    BY <1>2, FirstOfType DEF StageOf
  <2>2. \/ StageFinished(pl, d, st) = WithStage(pl, s, "completed", d)
        \/ StageFinished(pl, d, st) = WithStage(pl, s, "pending", NoId)
        \/ StageFinished(pl, d, st) = WithStatus(WithStage(pl, s, "failed", d), "blocked")
    BY <1>2 DEF StageFinished
  <2> HIDE DEF s
  <2>3. \A x : WithStatus(x, "blocked").stages = x.stages
    BY DEF WithStatus
  <2> QED
    BY <2>1, <2>2, <2>3, WithStageIs DEF StartsNone
<1> QED
  BY <1>1, <1>2

\* cancelPipeline starts no stage.
LEMMA CancelFromOrdered ==
    ASSUME RestType, NEW p \in Pipelines, NEW pl \in PipelineType,
           StartsNone(pipelines[p], pl), NEW i \in Nat \ {0}, CancelFrom(p, pl, i)
    PROVE  AllOrdered
<1> DEFINE linked == {s \in i..NumStages : pl.stages[s].delegationId # NoId}
           s == FirstOf(linked)
           d == pl.stages[s].delegationId
           k == SkipOpen(pl, i, s - 1)
           all == SkipOpen(pl, i, NumStages)
<1>1. pipelines' = [pipelines EXCEPT ![p] =
          IF linked = {} THEN all
          ELSE IF pool.status[d] \in LiveStatus THEN StageFinished(k, d, "cancelled") ELSE k]
  BY DEF CancelFrom
<1>2. /\ k \in PipelineType /\ StartsNone(pl, k)
      /\ StartsNone(pl, all)
  BY SkipOpenType, SkipOpenIs DEF StartsNone
<1> HIDE DEF linked, k, all, d
<1>3. StartsNone(k, StageFinished(k, d, "cancelled"))
  BY <1>2, FinishedStartsNone
<1>4. /\ StartsNone(pipelines[p], all) /\ StartsNone(pipelines[p], k)
      /\ StartsNone(pipelines[p], StageFinished(k, d, "cancelled"))
  BY <1>2, <1>3 DEF StartsNone
<1> QED
  BY <1>1, <1>4, QuietChange

\* settle hands a stage that completed to advancePipeline, and no other.
LEMMA SettleOrdered ==
    ASSUME RestType, NEW e, NEW d \in Ids, NEW outcome, SettleDelegation(e, d, outcome)
    PROVE  AllOrdered
<1> DEFINE p == owner[d]
           pl == StageFinished(pipelines[p], d, outcome)
<1>1. /\ owner \in [Ids -> Pipelines \cup {NoPipeline}]
      /\ pipelines \in [Pipelines -> PipelineType]
  BY DEF RestType
<1>2. CASE p = NoPipeline
  BY <1>2 DEF SettleDelegation, AllOrdered, Ordered
<1>3. CASE p # NoPipeline
  <2>1. p \in Pipelines
    BY <1>1, <1>3
  <2>2. pl \in PipelineType /\ StartsNone(pipelines[p], pl)
    BY <1>1, <2>1, StageFinishedType, FinishedStartsNone
  <2>3. \/ AdvancePipeline(Settle(e, d, outcome), p, pl)
        \/ pipelines' = [pipelines EXCEPT ![p] = pl]
    BY <1>3 DEF SettleDelegation
  <2> HIDE DEF p, pl
  <2> QED
    BY <2>1, <2>2, <2>3, AdvancePipelineOrdered, QuietChange
<1> QED
  BY <1>2, <1>3

\* Every step keeps the order of the stages.
LEMMA NextOrdered == ASSUME QInv, [Next]_vars PROVE AllOrdered
<1>1. /\ RestType
      /\ owner \in [Ids -> Pipelines \cup {NoPipeline}]
      /\ pipelines \in [Pipelines -> PipelineType]
      /\ cancelling \in [Pipelines -> 0..NumStages]
  BY QInvParts DEF RestType
<1>2. CASE UNCHANGED pipelines
  BY <1>2 DEF AllOrdered, Ordered
<1>3. ASSUME NEW d \in Ids, CancelDelegation(d) PROVE AllOrdered
  <2>1. CASE owner[d] = NoPipeline
    BY <1>2, <1>3, <2>1 DEF CancelDelegation
  <2>2. CASE owner[d] # NoPipeline
    <3>1. owner[d] \in Pipelines
      BY <1>1, <2>2
    <3>2. pipelines' = [pipelines EXCEPT ![owner[d]] =
              StageFinished(pipelines[owner[d]], d, "cancelled")]
      BY <1>3, <2>2 DEF CancelDelegation
    <3>3. StartsNone(pipelines[owner[d]], StageFinished(pipelines[owner[d]], d, "cancelled"))
      BY <1>1, <3>1, FinishedStartsNone
    <3> QED
      BY <1>1, <3>1, <3>2, <3>3, QuietChange
  <2> QED
    BY <2>1, <2>2
<1>4. ASSUME NEW d \in Ids, ExecutorSettles(d) \/ FinishDelegation(d) PROVE AllOrdered
  <2>1. CASE \E e, outcome : SettleDelegation(e, d, outcome)
    BY <1>1, <2>1, SettleOrdered
  <2> QED
    BY <1>2, <1>4, <2>1 DEF ExecutorSettles, FinishDelegation
<1>5. ASSUME NEW p \in Pipelines, CreatePipeline(p) PROVE AllOrdered
  <2>1. PICK unknown \in UnknownRoles : pipelines' = [pipelines EXCEPT ![p] =
               [status |-> "draft",
                stages |-> [s \in Stages |-> [status |-> "pending",
                                              delegationId |-> NoId,
                                              known |-> s \notin unknown]]]]
    BY <1>5 DEF CreatePipeline
  <2>2. StartsNone(pipelines[p], pipelines'[p])
    BY <1>1, <2>1 DEF StartsNone
  <2>3. pipelines' = [pipelines EXCEPT ![p] = pipelines'[p]]
    BY <1>1, <2>1
  <2> QED
    BY <1>1, <2>2, <2>3, QuietChange
<1>6. ASSUME NEW p \in Pipelines, StartPipeline(p) PROVE AllOrdered
  <2> DEFINE pl == IF pipelines[p].status = "draft"
                   THEN WithStatus(pipelines[p], "running") ELSE pipelines[p]
  <2>1. AdvancePipeline(pool, p, pl)
    BY <1>6 DEF StartPipeline
  <2>2. pl \in PipelineType
    BY <1>1, WithStatusType DEF PipelineStatus
  <2>3. StartsNone(pipelines[p], pl)
    BY DEF StartsNone, WithStatus
  <2> HIDE DEF pl
  <2> QED
    BY <1>1, <2>1, <2>2, <2>3, AdvancePipelineOrdered
<1>7. ASSUME NEW p \in Pipelines, NEW s \in Stages, RetryStage(p, s) \/ SkipStage(p, s)
      PROVE  AllOrdered
  <2>1. PICK st \in {"pending", "skipped"}, id \in Ids \cup {NoId} :
            AdvancePipeline(pool, p, Unblocked(WithStage(pipelines[p], s, st, id)))
    <3>1. pipelines[p].stages[s].delegationId \in Ids \cup {NoId}
      BY <1>1 DEF PipelineType, StageType
    <3> QED
      BY <1>7, <3>1 DEF RetryStage, SkipStage
  <2> DEFINE w == WithStage(pipelines[p], s, st, id)
  <2>2. w \in PipelineType /\ StartsNone(pipelines[p], w)
    <3>1. pipelines[p] \in PipelineType /\ st \in StageStatus /\ st # "running"
      BY <1>1 DEF StageStatus
    <3>2. w \in PipelineType
      BY <3>1, WithStageType
    <3>3. /\ w.stages[s].status = st
          /\ \A u \in Stages \ {s} : w.stages[u] = pipelines[p].stages[u]
      BY <3>1, WithStageIs
    <3> HIDE DEF w
    <3> QED
      BY <3>1, <3>2, <3>3 DEF StartsNone
  <2> HIDE DEF w
  <2>3. Unblocked(w) \in PipelineType
    BY <2>2, WithStatusType DEF Unblocked, PipelineStatus
  <2>4. StartsNone(pipelines[p], Unblocked(w))
    BY <2>2 DEF StartsNone, Unblocked, WithStatus
  <2> QED
    BY <1>1, <2>1, <2>3, <2>4, AdvancePipelineOrdered DEF w
<1>8. ASSUME NEW p \in Pipelines, CancelPipeline(p) PROVE AllOrdered
  <2>1. WithStatus(pipelines[p], "cancelled") \in PipelineType
    BY <1>1, WithStatusType DEF PipelineStatus
  <2>2. StartsNone(pipelines[p], WithStatus(pipelines[p], "cancelled"))
    BY DEF StartsNone, WithStatus
  <2> QED
    BY <1>1, <1>8, <2>1, <2>2, CancelFromOrdered DEF CancelPipeline
<1>9. ASSUME NEW p \in Pipelines, CancelPipelineResumes(p) PROVE AllOrdered
  <2> DEFINE pl == SkipOpen(pipelines[p], cancelling[p], cancelling[p])
  <2>1. pl \in PipelineType /\ StartsNone(pipelines[p], pl)
    BY <1>1, SkipOpenType, SkipOpenIs DEF StartsNone
  <2>2. CancelFrom(p, pl, cancelling[p] + 1) /\ cancelling[p] + 1 \in Nat \ {0}
    BY <1>1, <1>9, NumStagesAssumption DEF CancelPipelineResumes
  <2> HIDE DEF pl
  <2> QED
    BY <1>1, <2>1, <2>2, CancelFromOrdered
<1>10. CASE Restart
  <2>1. \A q \in Pipelines : \A s \in Stages : pipelines'[q].stages[s].status = "pending"
    BY <1>10 DEF Restart, EmptyPipeline
  <2> QED
    BY <2>1 DEF AllOrdered, Ordered
<1> QED
  BY <1>2, <1>3, <1>4, <1>5, <1>6, <1>7, <1>8, <1>9, <1>10
     DEF Next, DelegateTask, ExecutorFinally, UpdateProgress, RecordUsage, vars

\* A stage starts only when every earlier one is completed, skipped or failed, and waits for no
\* retry (advancePipeline after settle, startPipeline, retryStage and skipStage).
THEOREM StagesInTheirOrder == Spec => StagesStartInOrder
<1>1. AllOrdered =>
          \A p \in Pipelines : \A s \in StagesIn(pipelines[p], {"running"})' :
              pipelines[p].stages[s].status # "running" =>
                  \A earlier \in 1..(s - 1) :
                      pipelines'[p].stages[earlier].status \notin {"pending", "running"}
  <2>1. \A s \in Stages : \A earlier \in 1..(s - 1) : earlier \in Stages /\ earlier < s
    BY NumStagesAssumption DEF Stages
  <2> QED
    BY <2>1 DEF AllOrdered, Ordered, StagesIn
<1>2. QInv /\ [Next]_vars =>
          [\A p \in Pipelines : \A s \in StagesIn(pipelines[p], {"running"})' :
              pipelines[p].stages[s].status # "running" =>
                  \A earlier \in 1..(s - 1) :
                      pipelines'[p].stages[earlier].status \notin {"pending", "running"}]_vars
  BY <1>1, NextOrdered
<1> QED
  BY <1>2, QInvHolds, PTL DEF Spec, StagesStartInOrder

-----------------------------------------------------------------------------
(***************************************************************************)
(* The panel.                                                              *)
(***************************************************************************)

\* What a panel shows of the delegations stays right while they stay as they are.
LEMMA SameView ==
    ASSUME PanelShowsWork, panel' = panel, pool'.queue = pool.queue, pool'.status = pool.status
    PROVE  PanelShowsWork'
BY DEF PanelShowsWork, EngineView

\* A pump that starts nothing leaves the queue and the statuses alone.
LEMMA IdlePump ==
    ASSUME NEW e, QueueOK(e),
           \A d \in Ids : e.status[d] = "queued" => Pump(e).status[d] # "running"
    PROVE  Pump(e).queue = e.queue /\ Pump(e).status = e.status
<1> DEFINE k == PumpLength(e)
           n == Len(e.queue)
<1>1. /\ e \in PoolType /\ QueueInv(e) /\ n \in Nat
      /\ e.status \in [Ids -> DelegationStatus] /\ e.queue \in Seq(Ids)
  BY DEF QueueOK, PoolType
<1>2. k \in 0..n
  BY <1>1, PumpLengthIsLeast
<1>3. k = 0
  <2>1. SUFFICES ASSUME k # 0 PROVE FALSE
    OBVIOUS
  <2>2. 1 \in 1..k /\ 1 \in 1..n
    BY <1>1, <1>2, <2>1
  <2>3. e.queue[1] \in Ids /\ e.status[e.queue[1]] = "queued"
    BY <1>1, <2>2 DEF QueueInv
  <2>4. e.queue[1] \in Started(e, k)
    BY <2>2, <2>3 DEF Started
  <2> HIDE DEF k
  <2>5. Pump(e).status[e.queue[1]] = "running"
    BY <2>3, <2>4 DEF Pump, Engine, k
  <2> QED
    BY <2>3, <2>5
<1> HIDE DEF k
<1>4. Started(e, k) = {}
  BY <1>3 DEF Started
<1>5. Pump(e).status = [d \in Ids |-> IF d \in Started(e, k) THEN "running" ELSE e.status[d]]
      /\ Pump(e).queue = SubSeq(e.queue, k + 1, n)
  BY DEF Pump, Engine, k
<1>6. Pump(e).status = e.status
  BY <1>1, <1>4, <1>5
<1>7. SubSeq(e.queue, 1, n) = e.queue
  BY <1>1
<1> QED
  BY <1>3, <1>5, <1>6, <1>7

\* The finally callback that starts nothing changes nothing that the panel shows.
LEMMA ReleaseSame ==
    ASSUME QueueOK(pool), NEW d \in Ids, pool' = Release(pool, d), ~PumpStarts
    PROVE  pool'.queue = pool.queue /\ pool'.status = pool.status
<1> DEFINE g == Engine(pool.status, pool.queue, pool.controllers \ {d},
                       [pool.executors EXCEPT ![d] = "none"], pool.created)
<1>1. QueueOK(g) /\ g.queue = pool.queue /\ g.status = pool.status
  BY DEF QueueOK, QueueInv, PoolType, ExecutorState, Engine
<1>2. pool' = Pump(g)
  BY DEF Release
<1> HIDE DEF g
<1>3. \A x \in Ids : g.status[x] = "queued" => Pump(g).status[x] # "running"
  BY <1>1, <1>2 DEF PumpStarts
<1> QED
  BY <1>1, <1>2, <1>3, IdlePump

\* An operation that ends in advancePipeline and gives out no id leaves the engine alone.
LEMMA AdvanceSame ==
    ASSUME QueueOK(pool), NEW p, NEW pl, AdvancePipeline(pool, p, pl), ~Delegates
    PROVE  pool' = pool
<1>1. CASE StartsStage(pl)
  <2>1. pool' = Delegate(pool) /\ pool.created < MaxDelegations
    BY <1>1 DEF AdvancePipeline
  <2>2. pool'.created = pool.created + 1 /\ pool.created \in Nat
    BY <2>1, DelegateQueue, MaxDelegationsAssumption DEF QueueOK, PoolType
  <2> QED
    BY <2>2 DEF Delegates
<1>2. CASE ~StartsStage(pl)
  BY <1>2 DEF AdvancePipeline
<1> QED
  BY <1>1, <1>2

\* A cancellation that leaves a delegation's status leaves the engine.
LEMMA CancelSame ==
    ASSUME QueueOK(pool), NEW d \in Ids, pool' = CancelIn(pool, d),
           pool'.status[d] = pool.status[d]
    PROVE  pool' = pool
<1>1. CASE pool.status[d] \in LiveStatus
  <2>1. Live(pool') = Live(pool) \ {d}
    BY CancelLive
  <2> QED
    BY <1>1, <2>1 DEF Live
<1>2. CASE pool.status[d] \notin LiveStatus
  BY <1>2 DEF CancelIn
<1> QED
  BY <1>1, <1>2

\* The panel after a step of cancelPipeline's loop.
LEMMA CancellingShows ==
    ASSUME QueueOK(pool), RestType, PanelShowsWork, NEW p \in Pipelines,
           NEW pl \in PipelineType,
           \A s \in Stages : pl.stages[s].delegationId = pipelines[p].stages[s].delegationId,
           NEW i \in Nat \ {0}, CancelFrom(p, pl, i), ShowsCancelling(p)
    PROVE  PanelShowsWork'
<1>1. CASE panel' = EngineView'
  BY <1>1 DEF PanelShowsWork, EngineView
<1>2. ASSUME NEW x, ShowsCancelled(x) PROVE PanelShowsWork'
  BY <1>2 DEF ShowsCancelled, Refresh, PanelShowsWork, EngineView
<1>3. CASE cancelling'[p] # 0 /\ panel' = panel /\
           LET d == pipelines[p].stages[cancelling'[p]].delegationId
           IN  pool'.status[d] = pool.status[d]
  <2> DEFINE linked == {s \in i..NumStages : pl.stages[s].delegationId # NoId}
             s == FirstOf(linked)
             d == pl.stages[s].delegationId
  <2>1. linked \in SUBSET Stages
    BY NumStagesAssumption DEF Stages
  <2>2. cancelling' = [cancelling EXCEPT ![p] = IF linked = {} THEN 0 ELSE s]
        /\ (linked # {} => pool' = CancelIn(pool, d))
    BY DEF CancelFrom
  <2>3. cancelling'[p] = IF linked = {} THEN 0 ELSE s
    BY <2>2 DEF RestType
  <2>4. linked # {} /\ cancelling'[p] = s
    BY <1>3, <2>3
  <2>5. s \in linked /\ s \in Stages
    BY <2>1, <2>4, FirstOfType
  <2>6. d # NoId /\ d = pipelines[p].stages[s].delegationId
    BY <2>5
  <2>7. d \in Ids
    BY <2>5, <2>6 DEF PipelineType, StageType
  <2> HIDE DEF linked, s
  <2>8. pool' = CancelIn(pool, d) /\ pool'.status[d] = pool.status[d]
    BY <1>3, <2>2, <2>4, <2>6
  <2>9. pool' = pool
    BY <2>7, <2>8, CancelSame
  <2> QED
    BY <1>3, <2>9, SameView
<1> QED
  BY <1>1, <1>2, <1>3 DEF ShowsCancelling, Refresh, NotRefreshed

\* The panel's steps are steps of the engine.
LEMMA PanelNextNext == [PanelNext]_panelVars => [Next]_vars
BY DEF PanelNext, Next, panelVars

\* Every step that the panel is not told of changes nothing that it shows of the delegations.
LEMMA PanelStep ==
    ASSUME QInv, PanelShowsWork, [PanelNext]_panelVars
    PROVE  PanelShowsWork'
<1>1. /\ QueueOK(pool) /\ Pumped(pool) /\ RestType
      /\ pipelines \in [Pipelines -> PipelineType]
      /\ cancelling \in [Pipelines -> 0..NumStages]
  BY QInvParts DEF RestType
<1>2. CASE Refresh
  BY <1>2 DEF Refresh, PanelShowsWork, EngineView
<1>3. ASSUME NEW d, ShowsCancelled(d) PROVE PanelShowsWork'
  BY <1>3 DEF ShowsCancelled, Refresh, PanelShowsWork, EngineView
<1>4. ASSUME NEW d \in Ids, ExecutorSettles(d), pool.status[d] # "running", NotRefreshed
      PROVE  PanelShowsWork'
  <2>1. pool' = PromiseSettled(pool, d)
    BY <1>4 DEF ExecutorSettles
  <2>2. pool'.queue = pool.queue /\ pool'.status = pool.status
    BY <1>1, <2>1 DEF PromiseSettled, QueueOK, PoolType
  <2> QED
    BY <1>4, <2>2, SameView DEF NotRefreshed
<1>5. ASSUME NEW d \in Ids, ExecutorFinally(d), ShowsAdvance PROVE PanelShowsWork'
  <2>1. CASE ~PumpStarts /\ NotRefreshed
    BY <1>1, <1>5, <2>1, ReleaseSame, SameView DEF ExecutorFinally, NotRefreshed
  <2> QED
    BY <1>2, <1>5, <2>1 DEF ShowsAdvance
<1>6. ASSUME NEW p, NEW pl, AdvancePipeline(pool, p, pl), ShowsAdvance PROVE PanelShowsWork'
  <2>1. CASE ~Delegates /\ NotRefreshed
    BY <1>1, <1>6, <2>1, AdvanceSame, SameView DEF NotRefreshed
  <2> QED
    BY <1>2, <1>6, <2>1 DEF ShowsAdvance
<1>7. ASSUME NEW p \in Pipelines, StartPipeline(p), ShowsStart(p) PROVE PanelShowsWork'
  <2>1. \E pl : AdvancePipeline(pool, p, pl)
    BY <1>7 DEF StartPipeline
  <2> QED
    BY <1>2, <1>6, <1>7, <2>1 DEF ShowsStart
<1>8. ASSUME NEW p \in Pipelines, NEW s \in Stages, RetryStage(p, s) \/ SkipStage(p, s),
             ShowsAdvance
      PROVE  PanelShowsWork'
  <2>1. \E pl : AdvancePipeline(pool, p, pl)
    BY <1>8 DEF RetryStage, SkipStage
  <2> QED
    BY <1>6, <1>8, <2>1
<1>9. ASSUME NEW p \in Pipelines, CancelPipeline(p), ShowsCancelling(p) PROVE PanelShowsWork'
  <2> DEFINE pl == WithStatus(pipelines[p], "cancelled")
  <2>1. CancelFrom(p, pl, 1)
    BY <1>9 DEF CancelPipeline
  <2>2. pl \in PipelineType /\ pl.stages = pipelines[p].stages
    BY <1>1, WithStatusType DEF PipelineStatus, WithStatus
  <2> HIDE DEF pl
  <2> QED
    BY <1>1, <1>9, <2>1, <2>2, CancellingShows
<1>10. ASSUME NEW p \in Pipelines, CancelPipelineResumes(p), ShowsCancelling(p)
       PROVE  PanelShowsWork'
  <2> DEFINE pl == SkipOpen(pipelines[p], cancelling[p], cancelling[p])
  <2>1. CancelFrom(p, pl, cancelling[p] + 1) /\ cancelling[p] + 1 \in Nat \ {0}
    BY <1>1, <1>10, NumStagesAssumption DEF CancelPipelineResumes
  <2>2. pl \in PipelineType
        /\ \A s \in Stages : pl.stages[s].delegationId = pipelines[p].stages[s].delegationId
    BY <1>1, SkipOpenType, SkipOpenIs
  <2> HIDE DEF pl
  <2> QED
    BY <1>1, <1>10, <2>1, <2>2, CancellingShows
<1>11. CASE UNCHANGED panelVars
  BY <1>11, SameView DEF panelVars, vars
<1> QED
  BY <1>2, <1>3, <1>4, <1>5, <1>7, <1>8, <1>9, <1>10, <1>11 DEF PanelNext

\* Between two operations the panel shows the running delegations as they are, and the waiting
\* ones in their order (OrchestrationPanelStore.refresh and the engine's events).
THEOREM PanelIsRight == PanelSpec => []PanelShowsWork
<1>1. PanelInit => QInv /\ PanelShowsWork
  BY InitQInv DEF PanelInit, PanelShowsWork, EngineView
<1>2. QInv /\ PanelShowsWork /\ [PanelNext]_panelVars => QInv' /\ PanelShowsWork'
  BY NextQInv, PanelNextNext, PanelStep
<1> QED
  BY <1>1, <1>2, PTL DEF PanelSpec

=============================================================================
