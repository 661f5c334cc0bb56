----------------------------- MODULE Provisioning -----------------------------
(***************************************************************************)
(* From an intent to deployments: Architect of planner/architect.ts,       *)
(* Deployer of planner/deploy.ts and the variants that wrap them,          *)
(* MvpPlanner with MvpDeployer (mvp.ts) and FullSolutionPlanner            *)
(* (full-solution.ts), against the gateway of routing-client.ts.           *)
(*                                                                         *)
(* A plan is its status and the number of its workloads; what a workload   *)
(* is, prices and trust tiers are left out. A poll of a deployment is one  *)
(* step; a quote with its commit is two, the gateway's and the answer's.   *)
(* What becomes of a deployment that came up is left out.                  *)
(***************************************************************************)
EXTENDS Integers, FiniteSets, SequencesExt

CONSTANTS
    Planners,      \* of "architect", "mvp", "full"
    MaxWorkloads,  \* bound: workloads of a plan
    MaxDesigns,    \* bound: designs
    MaxDeploys,    \* bound: deploys
    MaxPlacements  \* bound: deployments

VARIABLES
    designs,    \* every design: its planner, its status and its workloads
    current,    \* the current plan of each planner, 0 for none
    deploys,    \* every deploy: its plan, where it is and the results so far
    deployments \* the gateway's: the deploy and workload each is for, and its state

provisionVars == <<designs, current, deploys, deployments>>

NoDesign == 0
NoDeployment == 0
Terminal == {"running", "failed"}  \* one that is destroyed counts as failed

ProvisionInit ==
    /\ designs = <<>>
    /\ current = [k \in Planners |-> NoDesign]
    /\ deploys = <<>>
    /\ deployments = <<>>

-----------------------------------------------------------------------------
\* Designing and approving.

\* A plan has a workload: one is made up when the answer of the model names none.
WorkloadCounts == 1..MaxWorkloads

Design(k) ==
    /\ Len(designs) < MaxDesigns
    /\ designs' = Append(designs, [planner |-> k, status |-> "drafting", workloads |-> 0])
    /\ UNCHANGED <<current, deploys, deployments>>

\* The model answers, or a heuristic does; every workload was quoted, or the quote failed.
\* The plan that is ready last is the current one.
Designed(p, workloads) ==
    /\ designs[p].status = "drafting"
    /\ designs' = [designs EXCEPT ![p].status = "awaiting-approval", ![p].workloads = workloads]
    /\ current' = [current EXCEPT ![designs[p].planner] = p]
    /\ UNCHANGED <<deploys, deployments>>

Approve(k) ==
    /\ current[k] # NoDesign
    /\ designs[current[k]].status = "awaiting-approval"
    /\ designs' = [designs EXCEPT ![current[k]].status = "approved"]
    /\ UNCHANGED <<current, deploys, deployments>>

-----------------------------------------------------------------------------
\* Deploying. The tools deploy the current plan of their planner; nothing deploys the plan
\* of the full solution planner.

Deploy(k) ==
    /\ k # "full"
    /\ current[k] # NoDesign
    /\ designs[current[k]].status = "approved"
    /\ Len(deploys) < MaxDeploys
    /\ deploys' = Append(deploys, [plan |-> current[k], at |-> "covenant", results |-> <<>>,
                                   deployment |-> NoDeployment, status |-> "none"])
    /\ UNCHANGED <<designs, current, deployments>>

\* checkCovenant: an answer other than deny lets it pass; no answer does not.
CovenantAllows(d) ==
    /\ deploys[d].at = "covenant"
    /\ deploys' = [deploys EXCEPT ![d].at = "quoting"]
    /\ UNCHANGED <<designs, current, deployments>>

CovenantDenies(d) ==
    /\ deploys[d].at = "covenant"
    /\ deploys' = [deploys EXCEPT ![d].at = "denied"]
    /\ UNCHANGED <<designs, current, deployments>>

\* The loop over the workloads goes on with the result of this one.
WithResult(deploy, deployment, state) ==
    LET results == Append(deploy.results, [deployment |-> deployment, state |-> state])
    IN  [deploy EXCEPT !.results = results, !.deployment = NoDeployment,
                       !.at = IF Len(results) < designs[deploy.plan].workloads THEN "quoting"
                              ELSE "finishing"]

\* The quote failed or named no candidate, or the commit failed: no deployment is known.
NotCommitted(d) ==
    /\ deploys[d].at = "quoting"
    /\ deploys' = [deploys EXCEPT ![d] = WithResult(@, NoDeployment, "failed")]
    /\ UNCHANGED <<designs, current, deployments>>

\* There is a fresh quote, and the gateway places the workload.
Commit(d) ==
    /\ deploys[d].at = "quoting"
    /\ Len(deployments) < MaxPlacements
    /\ deployments' = Append(deployments, [deploy |-> d, workload |-> Len(deploys[d].results) + 1,
                                           state |-> "provisioning", lost |-> FALSE])
    /\ deploys' = [deploys EXCEPT ![d].at = "committed", ![d].deployment = Len(deployments) + 1]
    /\ UNCHANGED <<designs, current>>

CommitAnswered(d) ==
    /\ deploys[d].at = "committed"
    /\ deploys' = [deploys EXCEPT ![d].at = "monitoring"]
    /\ UNCHANGED <<designs, current, deployments>>

\* The answer does not arrive: for the deployer the commit failed.
CommitLost(d) ==
    /\ deploys[d].at = "committed"
    /\ deploys' = [deploys EXCEPT ![d] = WithResult(@, NoDeployment, "failed")]
    /\ deployments' = [deployments EXCEPT ![deploys[d].deployment].lost = TRUE]
    /\ UNCHANGED <<designs, current>>

\* A poll that reads a terminal state; one that fails or reads another changes nothing.
PollEnds(d) ==
    LET id == deploys[d].deployment
        state == deployments[id].state
    IN  /\ deploys[d].at = "monitoring"
        /\ state \in Terminal
        /\ deploys' = [deploys EXCEPT ![d] = WithResult(@, id, IF state = "running" THEN "running"
                                                               ELSE "failed")]
        /\ UNCHANGED <<designs, current, deployments>>

\* Mutant: the error is returned without the deployment.
MonitorForgets(d) ==
    /\ deploys[d].at = "monitoring"
    /\ deploys' = [deploys EXCEPT ![d] = WithResult(@, NoDeployment, "failed")]
    /\ UNCHANGED <<designs, current, deployments>>

\* The time is up, or the caller aborts: the deployment is left as it is.
MonitorFails(d) ==
    /\ deploys[d].at = "monitoring"
    /\ deploys' = [deploys EXCEPT ![d] = WithResult(@, deploys[d].deployment, "failed")]
    /\ UNCHANGED <<designs, current, deployments>>

\* setStatus of the architect leaves a plan alone that another has replaced; every plan of
\* the MVP planner has an architect of its own.
Marked(p, status) ==
    IF designs[p].planner = "architect" /\ p # current["architect"] THEN designs
    ELSE [designs EXCEPT ![p].status = status]

Finish(d) ==
    LET results == deploys[d].results
        running == {k \in DOMAIN results : results[k].state = "running"}
        status == IF running = DOMAIN results THEN "deployed"
                  ELSE IF running # {} THEN "partial" ELSE "failed"
    IN  /\ deploys[d].at = "finishing"
        /\ deploys' = [deploys EXCEPT ![d].at = "ended", ![d].status = status]
        /\ designs' = Marked(deploys[d].plan, IF status = "failed" THEN "failed" ELSE "deployed")
        /\ UNCHANGED <<current, deployments>>

\* What the gateway does with a deployment.
DeploymentMoves(id, state) ==
    /\ deployments[id].state = "provisioning"
    /\ deployments' = [deployments EXCEPT ![id].state = state]
    /\ UNCHANGED <<designs, current, deploys>>

ProvisionNext ==
    \/ \E k \in Planners : Design(k) \/ Approve(k) \/ Deploy(k)
    \/ \E p \in DOMAIN designs, workloads \in WorkloadCounts : Designed(p, workloads)
    \/ \E d \in DOMAIN deploys :
          \/ CovenantAllows(d) \/ CovenantDenies(d) \/ NotCommitted(d) \/ Commit(d)
          \/ CommitAnswered(d) \/ CommitLost(d) \/ PollEnds(d) \/ MonitorFails(d) \/ Finish(d)
    \/ \E id \in DOMAIN deployments, state \in Terminal : DeploymentMoves(id, state)

ProvisionSpec == ProvisionInit /\ [][ProvisionNext]_provisionVars

-----------------------------------------------------------------------------
(***************************************************************************)
(* Properties.                                                             *)
(***************************************************************************)

\* What a deploy that has ended says is true at the gateway: every deployment it made is in
\* its result under its workload, unless the answer of the commit was lost; a workload it
\* calls running has a deployment that came up; and the plan it spent is no longer approved,
\* so that it takes a new approval to spend again, unless another plan has replaced it.
ResultsTellGateway ==
    \A d \in DOMAIN deploys : deploys[d].at = "ended" =>
        LET results == deploys[d].results
            p == deploys[d].plan
        IN  /\ Len(results) = designs[p].workloads
            /\ \A id \in DOMAIN deployments :
                  deployments[id].deploy = d /\ ~deployments[id].lost =>
                      results[deployments[id].workload].deployment = id
            /\ \A k \in DOMAIN results : results[k].state = "running" =>
                  /\ results[k].deployment # NoDeployment
                  /\ deployments[results[k].deployment].state # "provisioning"
            /\ current[designs[p].planner] = p => designs[p].status \in {"deployed", "failed"}

\* One approval pays for one deployment of a workload.
ProvisionedOnce ==
    \A i, j \in DOMAIN deployments :
        /\ deploys[deployments[i].deploy].plan = deploys[deployments[j].deploy].plan
        /\ deployments[i].workload = deployments[j].workload
        => i = j
===============================================================================
