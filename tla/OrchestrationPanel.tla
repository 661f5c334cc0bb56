-------------------------- MODULE OrchestrationPanel --------------------------
(***************************************************************************)
(* The store behind the orchestration panel (src/tui/orchestration-panel.ts)*)
(* beside the engine it mirrors.  The store subscribes to the engine and   *)
(* copies its state on every event; the engine emits events in the middle  *)
(* of its operations, and what an operation changes after its last event   *)
(* is not shown until the next one.                                        *)
(*                                                                         *)
(* Every action of Orchestration is taken with what its last event lets    *)
(* the store see.  The store shows the newest pipeline; the model keeps a  *)
(* copy of each.  Specialists, costs and suggestions are views of them.    *)
(***************************************************************************)
EXTENDS Orchestration

VARIABLE panel  \* OrchestrationPanelStore.state: pipeline, active and queued

panelVars == <<vars, panel>>

\* getQueuedDelegations.
Waiting(queue, status) == SelectSeq(queue, LAMBDA d : status[d] = "queued")

\* listPipelines, getActiveDelegations and getQueuedDelegations.
EngineView ==
    [pipelines |-> pipelines,
     active |-> {d \in Ids : pool.status[d] = "running"},
     queued |-> Waiting(pool.queue, pool.status)]

PanelInit == Init /\ panel = EngineView

\* refresh at an event after which the operation changes nothing more, or at no event.
Refresh == panel' = EngineView'
NotRefreshed == panel' = panel

\* pump has started a delegation, and said so.
PumpStarts == \E d \in Ids : pool.status[d] \in {"absent", "queued"} /\ pool'.status[d] = "running"

\* cancelDelegation: after its event the stage goes back to pending, without another one.
ShowsCancelled(d) ==
    IF PumpStarts THEN Refresh
    ELSE panel' = [EngineView' EXCEPT !.pipelines =
             [p \in Pipelines |-> [pipelines'[p] EXCEPT !.stages =
                 [s \in Stages |-> IF pipelines[p].stages[s].delegationId = d
                                   THEN pipelines[p].stages[s] ELSE @[s]]]]]

\* The finally callback and the operations that end in advancePipeline: only a delegation that
\* is queued or starts and a pipeline that completes are told of.
Delegates == pool'.created # pool.created
CompletesPipeline ==
    \E p \in Pipelines : pipelines[p].status # "completed" /\ pipelines'[p].status = "completed"

\* Mutant: pump starts delegations without an event.
ShowsAdvanceOnly == IF Delegates \/ CompletesPipeline THEN Refresh ELSE NotRefreshed

ShowsAdvance == IF Delegates \/ PumpStarts \/ CompletesPipeline THEN Refresh ELSE NotRefreshed

\* startPipeline tells of a draft that runs.
ShowsStart(p) == IF pipelines[p].status = "draft" THEN Refresh ELSE ShowsAdvance

\* cancelPipeline tells of its end, and of every delegation it cancels on the way.
ShowsCancelling(p) ==
    IF cancelling'[p] = 0 THEN Refresh
    ELSE LET d == pipelines[p].stages[cancelling'[p]].delegationId
         IN  IF pool'.status[d] # pool.status[d] THEN ShowsCancelled(d) ELSE NotRefreshed

PanelNext ==
    \/ DelegateTask /\ Refresh
    \/ \E d \in Ids :
          \/ CancelDelegation(d) /\ ShowsCancelled(d)
          \/ ExecutorSettles(d) /\ IF pool.status[d] = "running" THEN Refresh ELSE NotRefreshed
          \/ ExecutorFinally(d) /\ ShowsAdvance
          \/ FinishDelegation(d) /\ Refresh
          \/ UpdateProgress(d) /\ Refresh
          \/ RecordUsage(d) /\ Refresh
    \/ \E p \in Pipelines :
          \/ CreatePipeline(p) /\ Refresh
          \/ StartPipeline(p) /\ ShowsStart(p)
          \/ CancelPipeline(p) /\ ShowsCancelling(p)
          \/ CancelPipelineResumes(p) /\ ShowsCancelling(p)
          \/ \E s \in Stages : (RetryStage(p, s) \/ SkipStage(p, s)) /\ ShowsAdvance
    \/ Restart /\ Refresh

PanelSpec == PanelInit /\ [][PanelNext]_panelVars

PanelFairSpec == PanelSpec /\ Fairness

-----------------------------------------------------------------------------
(***************************************************************************)
(* Properties.                                                             *)
(***************************************************************************)

\* However host calls, late executors and stages come together, between two operations the
\* panel shows the delegations as they are: what runs, and what waits in its order.
PanelShowsWork == panel.active = EngineView.active /\ panel.queued = EngineView.queued

\* "The store mirrors the engine on every orchestration event, so renderers always read a
\* consistent snapshot": a stage that the panel shows as running has a delegation that the
\* same panel shows as running or queued.
PanelShowsStages ==
    \A p \in Pipelines : \A s \in StagesIn(panel.pipelines[p], {"running"}) :
        panel.pipelines[p].stages[s].delegationId \in panel.active \cup Range(panel.queued)
===============================================================================
