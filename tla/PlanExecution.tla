---------------------------- MODULE PlanExecution ----------------------------
(***************************************************************************)
(* Planner of planner/planner.ts, which drafts plans with the model and    *)
(* hands the steps of the current one to subagents, and spawn of           *)
(* planner/subagent.ts, which runs one child process per step.             *)
(*                                                                         *)
(* A step is its id and its status: the model numbers the steps, and       *)
(* nothing keeps it from giving a number twice. Everything else a plan     *)
(* says is left out, as are what a subagent prints and its receipt.        *)
(***************************************************************************)
EXTENDS Integers, FiniteSetsExt, SequencesExt

CONSTANTS
    StepLists,     \* the lists of step ids a model answers
    HasModel,      \* a model invoker is wired
    OwnTrees,      \* ids of the steps whose worktree path exists
    MaxPlans,      \* bound: requests for a plan
    MaxExecutions  \* bound: executions

VARIABLES
    plans,       \* every plan() call: where it is, its status and its steps
    currentPlan, \* Planner.currentPlan, 0 for none
    executions,  \* every execute() call: its plan, its step and its subagent
    worktrees    \* the worktrees of the repository

planVars == <<plans, currentPlan, executions, worktrees>>

NoPlan == 0
Finished == {"completed", "skipped"}
StepTree(id) == <<"step", id>>
AddedTree(n) == <<"subagent", n>>

PlanInit ==
    /\ plans = <<>>
    /\ currentPlan = NoPlan
    /\ executions = <<>>
    /\ worktrees = {StepTree(id) : id \in OwnTrees}

-----------------------------------------------------------------------------
\* Drafting.

RequestPlan ==
    /\ Len(plans) < MaxPlans
    /\ plans' = Append(plans, [at |-> "orienting", status |-> "drafting", steps |-> <<>>])
    /\ UNCHANGED <<currentPlan, executions, worktrees>>

\* parsePlanResponse: the steps of the answer, in its order.
ParsedSteps(ids) == [k \in DOMAIN ids |-> [id |-> ids[k], status |-> "pending"]]

\* The seed becomes the current plan; without a model it gets one placeholder step.
Seed(p) ==
    /\ plans[p].at = "orienting"
    /\ plans' = [plans EXCEPT ![p] = IF HasModel THEN [@ EXCEPT !.at = "asking"]
                                     ELSE [at |-> "ready", status |-> "awaiting-approval",
                                           steps |-> ParsedSteps(<<1>>)]]
    /\ currentPlan' = p
    /\ UNCHANGED <<executions, worktrees>>

\* The seed is returned as it is, without steps.
ModelFails(p) ==
    /\ plans[p].at = "asking"
    /\ plans' = [plans EXCEPT ![p].at = "ready", ![p].status = "awaiting-approval"]
    /\ UNCHANGED <<currentPlan, executions, worktrees>>

\* Whatever was drafted meanwhile, the plan that is answered is the current one.
ModelAnswers(p, ids) ==
    /\ plans[p].at = "asking"
    /\ plans' = [plans EXCEPT ![p] = [at |-> "ready", status |-> "awaiting-approval",
                                      steps |-> ParsedSteps(ids)]]
    /\ currentPlan' = p
    /\ UNCHANGED <<executions, worktrees>>

-----------------------------------------------------------------------------
\* Statuses.

PlanStatus(plan) ==
    LET statuses == {plan.steps[k].status : k \in DOMAIN plan.steps}
    IN  CASE statuses = {}               -> plan.status
          [] statuses \subseteq Finished -> "completed"
          [] "in-progress" \in statuses  -> "executing"
          [] "failed" \in statuses       -> "failed"
          [] OTHER                       -> plan.status

\* The first step with the id, when there is one.
MarkStep(all, p, id, status) ==
    LET named == {k \in DOMAIN all[p].steps : all[p].steps[k].id = id}
        marked == [all[p] EXCEPT !.steps[Min(named)].status = status]
    IN  IF named = {} THEN all ELSE [all EXCEPT ![p] = [marked EXCEPT !.status = PlanStatus(marked)]]

\* Mutant: the plan that asks for the update is not compared with the current one.
UpdateAnyPlan(all, p, id, status) == MarkStep(all, currentPlan, id, status)

\* updateStep: a plan that is no longer the current one is left alone.
UpdateStep(all, p, id, status) == IF p = currentPlan THEN MarkStep(all, p, id, status) ELSE all

-----------------------------------------------------------------------------
\* Execution.

StepOf(e) == plans[executions[e].plan].steps[executions[e].step].id

\* The steps after k that an execution does not pass over.
StepsAfter(steps, k) == {j \in DOMAIN steps : j > k /\ steps[j].status \notin Finished}

\* The end of the loop, or the next step marked in progress and its spawn begun: its
\* worktree is made when the path of the step does not exist, at another path.
Proceed(e, execution, updated) ==
    LET p == execution.plan
        rest == StepsAfter(updated[p].steps, execution.step)
        id == updated[p].steps[Min(rest)].id
        Goes(at, step) == executions' = [d \in DOMAIN executions \cup {e} |->
                              IF d = e THEN [execution EXCEPT !.at = at, !.step = step] ELSE executions[d]]
    IN  \/ /\ rest = {}
           /\ Goes("ended", execution.step)
           /\ plans' = updated
           /\ UNCHANGED worktrees
        \/ /\ rest # {}
           /\ plans' = UpdateStep(updated, p, id, "in-progress")
           /\ \/ /\ Goes("registering", Min(rest))
                 /\ worktrees' = worktrees \cup (IF StepTree(id) \in worktrees THEN {}
                                                 ELSE {AddedTree(Cardinality(worktrees))})
              \/ /\ StepTree(id) \notin worktrees  \* git fails
                 /\ Goes("thrown", Min(rest))
                 /\ UNCHANGED worktrees

Execute ==
    LET new == [plan |-> currentPlan, at |-> "registering", step |-> 0, cancelled |-> FALSE,
                result |-> "none", completed |-> 0, failed |-> 0]
    IN  /\ currentPlan # NoPlan
        /\ Len(executions) < MaxExecutions
        /\ Proceed(Len(executions) + 1, new, plans)
        /\ UNCHANGED currentPlan

\* The agent is registered, or that fails; the child is started at the step's path.
StartChild(e) ==
    /\ executions[e].at = "registering"
    /\ executions' = [executions EXCEPT ![e].at = "running", ![e].cancelled = FALSE]
    /\ UNCHANGED <<plans, currentPlan, worktrees>>

\* The time is up, or cancel: the child is asked to stop.
Terminate(e) ==
    /\ executions[e].at = "running"
    /\ ~executions[e].cancelled
    /\ executions' = [executions EXCEPT ![e].cancelled = TRUE]
    /\ UNCHANGED <<plans, currentPlan, worktrees>>

\* The child exits, or could not be started; a terminated one timed out however it exits.
ChildExits(e, ok) ==
    /\ executions[e].at = "running"
    /\ ok => StepTree(StepOf(e)) \in worktrees
    /\ executions' = [executions EXCEPT ![e].at = "recording",
                          ![e].result = CASE executions[e].cancelled -> "timeout"
                                          [] ok                      -> "completed"
                                          [] OTHER                   -> "failed"]
    /\ UNCHANGED <<plans, currentPlan, worktrees>>

\* Mutant: a spawn that throws is counted and its step forgotten.
ForgetThrown(e) ==
    /\ executions[e].at = "thrown"
    /\ Proceed(e, [executions[e] EXCEPT !.failed = @ + 1], plans)
    /\ UNCHANGED currentPlan

SpawnThrown(e) ==
    /\ executions[e].at = "thrown"
    /\ Proceed(e, [executions[e] EXCEPT !.failed = @ + 1],
               UpdateStep(plans, executions[e].plan, StepOf(e), "failed"))
    /\ UNCHANGED currentPlan

\* The receipt is recorded, or that fails; the step gets its result and the loop goes on.
SpawnReturns(e) ==
    LET ok == executions[e].result = "completed"
        counted == IF ok THEN [executions[e] EXCEPT !.completed = @ + 1]
                   ELSE [executions[e] EXCEPT !.failed = @ + 1]
    IN  /\ executions[e].at = "recording"
        /\ Proceed(e, counted, UpdateStep(plans, executions[e].plan, StepOf(e),
                                          IF ok THEN "completed" ELSE "failed"))
        /\ UNCHANGED currentPlan

PlanNext ==
    \/ RequestPlan \/ Execute
    \/ \E p \in DOMAIN plans : Seed(p) \/ ModelFails(p) \/ \E ids \in StepLists : ModelAnswers(p, ids)
    \/ \E e \in DOMAIN executions :
          \/ StartChild(e) \/ Terminate(e) \/ SpawnThrown(e) \/ SpawnReturns(e)
          \/ \E ok \in BOOLEAN : ChildExits(e, ok)

PlanSpec == PlanInit /\ [][PlanNext]_planVars

-----------------------------------------------------------------------------
(***************************************************************************)
(* Properties.                                                             *)
(***************************************************************************)

DistinctIds(plan) == \A j, k \in DOMAIN plan.steps : plan.steps[j].id = plan.steps[k].id => j = k

\* A step changes its status only when an execution of its own plan moves on: one that
\* outlives its plan never touches the plan drafted after it, whose steps have the same
\* numbers.
OnlyItsPlan ==
    [][\A p \in DOMAIN plans :
          plans'[p].steps # plans[p].steps /\ plans[p].at = "ready" =>
              \E e \in DOMAIN executions' :
                  /\ executions'[e].plan = p
                  /\ e \in DOMAIN executions => executions'[e] # executions[e]]_planVars

\* When nothing executes the current plan any more, and something did, every step of it has
\* a result and the status of the plan is theirs, whatever threw, timed out or ran twice:
\* provided the model did not give a number twice.
ExecutedIsSettled ==
    LET plan == plans[currentPlan]
        ofCurrent == {e \in DOMAIN executions : executions[e].plan = currentPlan}
    IN  /\ currentPlan # NoPlan
        /\ \A e \in ofCurrent : executions[e].at = "ended"
        /\ \E e \in ofCurrent : executions[e].step # 0
        /\ DistinctIds(plan)
        => /\ \A k \in DOMAIN plan.steps : plan.steps[k].status \in {"completed", "failed"}
           /\ plan.status = IF \E k \in DOMAIN plan.steps : plan.steps[k].status = "failed"
                            THEN "failed" ELSE "completed"

\* "Each subagent operates inside its own git worktree": the child of a subagent runs at the
\* path of a worktree.
RunsInWorktree ==
    \A e \in DOMAIN executions : executions[e].at = "running" => StepTree(StepOf(e)) \in worktrees
===============================================================================
