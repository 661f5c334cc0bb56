----------------------------- MODULE ClientParts -----------------------------
(***************************************************************************)
(* What stands between the user, the gateway and other programs, side by   *)
(* side: the launcher's refresh and the plugin's broker of credentials,    *)
(* deployments, sandpits, private models and receipts, plans, the debugger *)
(* and the ACP server.  They share no state: a behaviour is one of a part. *)
(***************************************************************************)
EXTENDS Naturals, Sequences

CONSTANTS
    Processes, MaxTokens, MaxFailures,                        \* of TokenRefresh
    Providers, OtherClients, EnvKey, Launcher, SecureStore,   \* of CredentialBroker
    MaxGrants, MaxLogins, MaxLogouts,
    StepLists, HasModel, OwnTrees, MaxPlans, MaxExecutions,   \* of PlanExecution
    MaxEvents, MaxCommands, MaxChanges,                       \* of SessionDebugger
    Planners, MaxWorkloads, MaxDesigns, MaxDeploys,           \* of Provisioning
    MaxPlacements,
    MaxSandpits, MaxSandpitCalls, MaxMetered,                 \* of Sandpits
    MaxModelCalls, MaxCheckpoints,                            \* of PrivateModels
    MaxSessions, MaxCalls, PageSize, EditModes, ReadModes,    \* of AcpServer
    Roles,
    Amounts, Texts, MaxReceipts, MaxEdits                     \* of ReceiptAnchor

ASSUME ProcessesAssumption == "nobody" \notin Processes
ASSUME MaxTokensAssumption == MaxTokens \in Nat \ {0}
ASSUME MaxFailuresAssumption == MaxFailures \in Nat
ASSUME StepListsAssumption == StepLists \subseteq Seq(Nat)
ASSUME MaxWorkloadsAssumption == MaxWorkloads \in Nat
ASSUME AmountsAssumption == Amounts \subseteq Nat
ASSUME TextsAssumption == Texts \subseteq Seq(STRING)
ASSUME MaxMeteredAssumption == MaxMetered \in Nat
ASSUME PageSizeAssumption == PageSize \in Nat \ {0}

VARIABLES
    part,  \* the part that runs
    lock, procs, keyring, server, history,
    broker, store, flight, clients, logout, brokerServer,
    plans, currentPlan, executions, worktrees,
    tape, steps, log, breakpoints, tripped, generator, operator, replay,
    designs, current, deploys, deployments,
    sandpits, sandpitCalls, metered,
    modelCalls, jobs, instances,
    sessions, acpPlans, calls, workspace, diffs, pager, open,
    receipts, recorded, settled, checked, edits

Refresh == INSTANCE TokenRefresh
Broker == INSTANCE CredentialBroker WITH server <- brokerServer
Plan == INSTANCE PlanExecution
Debugger == INSTANCE SessionDebugger
Provision == INSTANCE Provisioning
Sandpit == INSTANCE Sandpits
Model == INSTANCE PrivateModels
Acp == INSTANCE AcpServer WITH plans <- acpPlans
Receipts == INSTANCE ReceiptAnchor

refreshVars == <<lock, procs, keyring, server, history>>
brokerVars == <<broker, store, flight, clients, logout, brokerServer>>
planVars == <<plans, currentPlan, executions, worktrees>>
debuggerVars == <<tape, steps, log, breakpoints, tripped, generator, operator, replay>>
provisionVars == <<designs, current, deploys, deployments>>
sandpitsVars == <<sandpits, sandpitCalls, metered>>
modelsVars == <<modelCalls, jobs, instances>>
acpVars == <<sessions, acpPlans, calls, workspace, diffs, pager, open>>
receiptsVars == <<receipts, recorded, settled, checked, edits>>

Some(starts) == {CHOOSE s \in starts : TRUE}
Starts(p, starts) == IF part = p THEN starts ELSE Some(starts)

Parts ==
    {"refresh", "broker", "plan", "debugger", "provision", "sandpits", "models", "acp",
     "receipts"}

\* A part begins in any of its initial states, the others stay in one of theirs.
Init ==
    /\ part \in Parts
    /\ Refresh!RefreshBegins(Starts("refresh", Refresh!RefreshStarts))
    /\ Broker!BrokerBegins(Starts("broker", Broker!BrokerStarts))
    /\ Plan!PlanInit
    /\ Debugger!DebuggerBegins(Starts("debugger", Debugger!DebuggerStarts))
    /\ Provision!ProvisionInit
    /\ Sandpit!SandpitInit
    /\ Model!ModelInit
    /\ Acp!AcpInit
    /\ Receipts!ReceiptInit

Rest(p) ==
    /\ UNCHANGED part
    /\ IF p = "refresh" THEN TRUE ELSE UNCHANGED refreshVars
    /\ IF p = "broker" THEN TRUE ELSE UNCHANGED brokerVars
    /\ IF p = "plan" THEN TRUE ELSE UNCHANGED planVars
    /\ IF p = "debugger" THEN TRUE ELSE UNCHANGED debuggerVars
    /\ IF p = "provision" THEN TRUE ELSE UNCHANGED provisionVars
    /\ IF p = "sandpits" THEN TRUE ELSE UNCHANGED sandpitsVars
    /\ IF p = "models" THEN TRUE ELSE UNCHANGED modelsVars
    /\ IF p = "acp" THEN TRUE ELSE UNCHANGED acpVars
    /\ IF p = "receipts" THEN TRUE ELSE UNCHANGED receiptsVars

Next ==
    \/ part = "refresh" /\ Refresh!RefreshNext /\ Rest("refresh")
    \/ part = "broker" /\ Broker!BrokerNext /\ Rest("broker")
    \/ part = "plan" /\ Plan!PlanNext /\ Rest("plan")
    \/ part = "debugger" /\ Debugger!DebuggerNext /\ Rest("debugger")
    \/ part = "provision" /\ Provision!ProvisionNext /\ Rest("provision")
    \/ part = "sandpits" /\ Sandpit!SandpitNext /\ Rest("sandpits")
    \/ part = "models" /\ Model!ModelNext /\ Rest("models")
    \/ part = "acp" /\ Acp!AcpNext /\ Rest("acp")
    \/ part = "receipts" /\ Receipts!ReceiptNext /\ Rest("receipts")

vars ==
    <<part, refreshVars, brokerVars, planVars, debuggerVars, provisionVars, sandpitsVars,
      modelsVars, acpVars, receiptsVars>>

Spec ==
    /\ Init /\ [][Next]_vars

-----------------------------------------------------------------------------
\* While no lock is taken from a living launcher, one at a time rotates the refresh token, over
\* crashes, stale locks and a keyring that refuses or is late, and a used token is presented again
\* only where it was stranded.
LaunchersTakeTurns == Refresh!RotationIsExclusive

\* Over logins, logouts, lost answers and a store that refuses, the server sees a token of the
\* broker's twice only when its first answer was lost or the store kept it, and a request that
\* was refused is sent again with another token.
CredentialsAreCurrent == Broker!NoReplay /\ Broker!RetryIsFresh

\* What the client tells is what the gateway did and charged: a deploy that ended tells every
\* deployment it made, a sandpit counts every job once, a training tells every checkpoint in
\* order, a root that anchors receipts is that of no other leaves, and a receipt that is
\* verified under it reads as recorded.
GatewayIsTold ==
    /\ Provision!ResultsTellGateway
    /\ Sandpit!JobsCountOnce
    /\ Model!FollowedToTheEnd
    /\ Receipts!RootsTellReceipts

\* What the operator sees is what happened: every step of a plan that was executed has its
\* result, a pause that was answered does not wait and a replay shows what lies before its
\* cursor, a list read page by page misses only sessions updated meanwhile, and the diffs lead
\* to the file as it is, but for what an unreadable file or a torn write lost.
OperatorSeesTheWork ==
    /\ Plan!ExecutedIsSettled
    /\ Debugger!PausesAreAnswered /\ Debugger!ReplayFollowsCursor
    /\ Acp!PagesMissOnlyTouched /\ Acp!DiffsTellTheFile

\* An execution changes steps of its own plan only, whatever is planned while it runs.
OnlyItsPlan == Plan!OnlyItsPlan
=============================================================================
