----------------------------- MODULE AgentRuntime -----------------------------
(***************************************************************************)
(* One session of packages/agent-runtime/src/runtime.ts (class             *)
(* CapixAgentRuntime): its turns, tool approvals, grants, usage totals and *)
(* receipts. Every map of the runtime is keyed by session or by tool call, *)
(* and hosts answer an approval with the session of its event, so sessions *)
(* do not touch each other here.                                           *)
(*                                                                         *)
(* A turn is an async generator: it runs from one yield or await to the    *)
(* next, and only while its consumer pulls. An action is one such stretch, *)
(* or one host call. Message texts, events and the tools' own work are     *)
(* left out; a turn's usage is a number of cost units.                     *)
(***************************************************************************)
EXTENDS ModePermissions, FiniteSets, FiniteSetsExt

CONSTANTS
    Turns,          \* turn ids
    NoTurn,         \* no controller
    Tools,          \* names of tools a model may call
    Registered,     \* the ones in the tool registry
    Risk,           \* riskClass of each tool
    AlwaysAsk,      \* tools with alwaysRequiresApproval
    Modes,          \* the modes the host switches between
    MaxToolRounds,  \* RuntimeOptions.maxToolRounds
    MaxCost,        \* bound: cost units a turn spends
    MaxRestarts,    \* bound: restarts of the process
    Answers,        \* who may decide an approval: the operator, or autoApprove's verdict
    HostWaitsFor,   \* when the host sends the next message (see MaySend)
    MayAbandon      \* may a consumer stop iterating before the turn's end?

\* The tool of a turn that calls none.
NoTool == "no tool"

ASSUME TurnsAssumption == NoTurn \notin Turns /\ IsFiniteSet(Turns)
ASSUME ToolsAssumption ==
    Registered \subseteq Tools /\ AlwaysAsk \subseteq Tools /\ NoTool \notin Tools
ASSUME RiskAssumption == Risk \in [Tools -> RiskClasses]
\* The one tool of the runtime's own that is on an allowlist is read_file; what a
\* host registers under another name of READ_TOOLS only reads, too.
ASSUME AllowlistAssumption ==
    \A tool \in Registered : tool \in Allowlist("plan") => Risk[tool] = "read"
ASSUME ModesAssumption == Modes \subseteq AgentModes /\ Modes # {}
ASSUME RoundsAssumption == MaxToolRounds \in Nat
ASSUME CostAssumption == MaxCost \in Nat
ASSUME RestartsAssumption == MaxRestarts \in Nat
ASSUME AnswersAssumption == Answers \subseteq {"operator", "approve", "deny"}
ASSUME HostAssumption == HostWaitsFor \in {"turn", "status"} /\ MayAbandon \in BOOLEAN

VARIABLES
    session,     \* the session's row: status, mode, total_cost_minor
    controller,  \* turnControllers.get(session)
    turns,       \* the turns' local state
    waiters,     \* approvalWaiters: the turns whose current call is undecided
    grants,      \* sessionGrants.get(session)
    receipts,    \* the cost on each turn's receipt, 0 when it has none
    childCancel, \* cancelChildSession is between its await and its update
    restarts     \* how many restarts happened

vars == <<session, controller, turns, waiters, grants, receipts, childCancel, restarts>>

\* Where a turn is suspended: not sent; at the yield of turn.started, before
\* the try block; in the model's stream; at the yield of tool.requested or
\* awaiting the approval; in tool.execute; at the last yield; ended.
TurnPlaces == {"none", "started", "model", "requested", "running", "closing", "done"}

Verdicts == {"none", "approved", "rejected", "timeout", "cancelled"}

TurnType == [pc : TurnPlaces, mode : AgentModes, base : Nat, cost : 0..MaxCost,
             round : 0..MaxToolRounds, calls : Nat, aborted : BOOLEAN,
             tool : Tools \cup {NoTool}, decision : Decisions, verdict : Verdicts]

SessionType == [status : {"active", "idle", "completed", "failed"},
                mode : Modes, total : Nat]

\* A turn that was sent and whose generator has not ended.
InFlight(t) == turns[t].pc \notin {"none", "done"}

\* ... and that can still spend or run a tool.
Working(t) == turns[t].pc \in {"started", "model", "requested", "running"}

-----------------------------------------------------------------------------

Init ==
    /\ session \in [status : {"active"}, mode : Modes, total : {0}]
    /\ controller = NoTurn
    /\ turns = [t \in Turns |->
           [pc |-> "none", mode |-> "ask", base |-> 0, cost |-> 0, round |-> 0,
            calls |-> 0, aborted |-> FALSE, tool |-> NoTool, decision |-> "deny",
            verdict |-> "none"]]
    /\ waiters = {}
    /\ grants = [tool \in Tools |-> "none"]
    /\ receipts = [t \in Turns |-> 0]
    /\ childCancel = FALSE
    /\ restarts = 0

\* The host's discipline, which no code of the runtime enforces: it waits for the answer to
\* its last message.send, or only until the session no longer says active.
MaySend ==
    IF HostWaitsFor = "turn" THEN \A t \in Turns : ~InFlight(t)
    ELSE session.status # "active" \/ \A t \in Turns : ~InFlight(t)

\* Mutant: the session's status is left as it was.
SendMessageQuietly(t) ==
    /\ turns[t].pc = "none"
    /\ MaySend
    /\ turns' = [turns EXCEPT ![t].pc = "started", ![t].mode = session.mode,
                              ![t].base = session.total]
    /\ controller' = t
    /\ UNCHANGED <<session, waiters, grants, receipts, childCancel, restarts>>

\* sendMessage up to its first yield: the row is read, and the totals of the
\* turn's end will be computed from this copy.
SendMessage(t) ==
    /\ turns[t].pc = "none"
    /\ MaySend
    /\ turns' = [turns EXCEPT ![t].pc = "started", ![t].mode = session.mode,
                              ![t].base = session.total]
    /\ controller' = t
    /\ session' = [session EXCEPT !.status = "active"]
    /\ UNCHANGED <<waiters, grants, receipts, childCancel, restarts>>

\* The consumer pulls past turn.started into the first model round.
BeginModel(t) ==
    /\ turns[t].pc = "started"
    /\ turns' = [turns EXCEPT ![t].pc = "model"]
    /\ UNCHANGED <<session, controller, waiters, grants, receipts, childCancel, restarts>>

\* The stream yields a usage chunk.
ModelUsage(t) ==
    /\ turns[t].pc = "model"
    /\ ~turns[t].aborted
    /\ turns[t].cost < MaxCost
    /\ turns' = [turns EXCEPT ![t].cost = @ + 1]
    /\ UNCHANGED <<session, controller, waiters, grants, receipts, childCancel, restarts>>

\* Mutant: a cancelled turn gets its receipt and is left out of the totals.
WriteTotalsUnlessAborted(t) ==
    IF turns[t].cost > 0
    THEN /\ receipts' = [receipts EXCEPT ![t] = turns[t].cost]
         /\ session' = IF turns[t].aborted THEN session
                       ELSE [session EXCEPT !.total = turns[t].base + turns[t].cost]
    ELSE UNCHANGED <<receipts, session>>

\* The end of the try block: the receipt and the session's totals; the yield of
\* turn.completed follows.
WriteTotals(t) ==
    IF turns[t].cost > 0
    THEN /\ receipts' = [receipts EXCEPT ![t] = turns[t].cost]
         /\ session' = [session EXCEPT !.total = turns[t].base + turns[t].cost]
    ELSE UNCHANGED <<receipts, session>>

\* The stream ends with no tool call, or the turn was aborted meanwhile.
ModelEnds(t) ==
    /\ turns[t].pc = "model"
    /\ turns' = [turns EXCEPT ![t].pc = "closing"]
    /\ WriteTotals(t)
    /\ UNCHANGED <<controller, waiters, grants, childCancel, restarts>>

\* The invoker throws (also because it was aborted): turn.failed.
ModelFails(t) ==
    /\ turns[t].pc = "model"
    /\ turns' = [turns EXCEPT ![t].pc = "closing"]
    /\ UNCHANGED <<session, controller, waiters, grants, receipts, childCancel, restarts>>

\* executeToolCall's decision: the profile and the grants, then a tool that
\* always asks unless it was granted.
Decide(t, tool) ==
    LET check == CheckModePermission(turns[t].mode, tool, Risk[tool], grants[tool])
    IN  IF check = "allow" /\ tool \in AlwaysAsk /\ grants[tool] # "allow"
        THEN "ask" ELSE check

\* waitForApproval: a policy answers a call at once, or leaves it to the operator,
\* who gets a waiter.
FirstVerdict(answer) ==
    CASE answer = "approve"  -> "approved"
      [] answer = "deny"     -> "rejected"
      [] answer = "operator" -> "none"

\* The stream ends with a call of a registered tool: executeToolCall up to the
\* yield of tool.requested, the waiter registered first.
ModelCallsTool(t, tool) ==
    LET decision == Decide(t, tool)
    IN  /\ turns[t].pc = "model"
        /\ ~turns[t].aborted
        /\ tool \in Registered
        /\ \E answer \in Answers :
               LET verdict == IF decision = "ask" THEN FirstVerdict(answer) ELSE "none"
               IN  /\ turns' = [turns EXCEPT ![t].pc = "requested", ![t].tool = tool,
                                    ![t].decision = decision, ![t].verdict = verdict]
                   /\ waiters' = IF decision = "ask" /\ verdict = "none"
                                 THEN waiters \cup {t} ELSE waiters
        /\ UNCHANGED <<session, controller, grants, receipts, childCancel, restarts>>

\* The end of a round: the next one, unless this was the last.
NextRound(t) ==
    LET more == turns[t].round + 1 <= MaxToolRounds
    IN  /\ turns' = [turns EXCEPT ![t].pc = IF more THEN "model" ELSE "closing",
                                  ![t].round = IF more THEN @ + 1 ELSE @,
                                  ![t].calls = @ + 1, ![t].tool = NoTool]
        /\ IF more THEN UNCHANGED <<receipts, session>> ELSE WriteTotals(t)

\* A call of a tool nobody registered is rejected and the round ends.
ModelCallsUnknownTool(t, tool) ==
    /\ turns[t].pc = "model"
    /\ ~turns[t].aborted
    /\ tool \notin Registered
    /\ NextRound(t)
    /\ UNCHANGED <<controller, waiters, grants, childCancel, restarts>>

Refused(t) ==
    \/ turns[t].decision = "deny"
    \/ turns[t].decision = "ask" /\ turns[t].verdict \in {"rejected", "timeout", "cancelled"}

Admitted(t) ==
    \/ turns[t].decision = "allow"
    \/ turns[t].decision = "ask" /\ turns[t].verdict = "approved"

\* The turn goes on after tool.requested with a denied or rejected call ...
ToolRejected(t) ==
    /\ turns[t].pc = "requested"
    /\ Refused(t)
    /\ NextRound(t)
    /\ UNCHANGED <<controller, waiters, grants, childCancel, restarts>>

\* ... or with one that may run. The abort signal is not looked at here.
ToolStarts(t) ==
    /\ turns[t].pc = "requested"
    /\ Admitted(t)
    /\ turns' = [turns EXCEPT ![t].pc = "running"]
    /\ UNCHANGED <<session, controller, waiters, grants, receipts, childCancel, restarts>>

\* tool.execute returns or throws; either way the model is asked again.
ToolFinishes(t) ==
    /\ turns[t].pc = "running"
    /\ NextRound(t)
    /\ UNCHANGED <<controller, waiters, grants, childCancel, restarts>>

\* Mutant: the finally block keeps the controller.
FinallyKeepsController(t) ==
    /\ turns' = [turns EXCEPT ![t].pc = "done", ![t].tool = NoTool]
    /\ session' = [session EXCEPT !.status = IF @ = "active" THEN "idle" ELSE @]
    /\ UNCHANGED <<controller, waiters, grants, receipts, childCancel, restarts>>

\* The finally block: the entry of the session is deleted, whoever's it is.
TurnFinally(t) ==
    /\ turns' = [turns EXCEPT ![t].pc = "done", ![t].tool = NoTool]
    /\ controller' = NoTurn
    /\ session' = [session EXCEPT !.status = IF @ = "active" THEN "idle" ELSE @]
    /\ UNCHANGED <<waiters, grants, receipts, childCancel, restarts>>

TurnEnds(t) == turns[t].pc = "closing" /\ TurnFinally(t)

\* The consumer breaks out of its loop at a yield inside the try block, where
\* the generator still runs its finally block ...
AbandonTurn(t) ==
    /\ MayAbandon
    /\ turns[t].pc \in {"model", "requested", "running", "closing"}
    /\ TurnFinally(t)

\* ... or at turn.started, before the try block.
AbandonStarted(t) ==
    /\ MayAbandon
    /\ turns[t].pc = "started"
    /\ turns' = [turns EXCEPT ![t].pc = "done"]
    /\ UNCHANGED <<session, controller, waiters, grants, receipts, childCancel, restarts>>

-----------------------------------------------------------------------------

\* approveTool: the waiter is taken, "always" becomes a grant.
ApproveTool(t, approved, always) ==
    /\ t \in waiters
    /\ waiters' = waiters \ {t}
    /\ grants' = IF always
                 THEN [grants EXCEPT ![turns[t].tool] =
                          IF approved THEN "allow" ELSE "deny"]
                 ELSE grants
    /\ turns' = [turns EXCEPT ![t].verdict = IF approved THEN "approved" ELSE "rejected"]
    /\ UNCHANGED <<session, controller, receipts, childCancel, restarts>>

\* Mutant: the timer drops the waiter and resolves nothing.
TimerForgets(t) ==
    /\ t \in waiters
    /\ waiters' = waiters \ {t}
    /\ UNCHANGED <<session, controller, turns, grants, receipts, childCancel, restarts>>

\* The approval timer fires.
ApprovalTimesOut(t) ==
    /\ t \in waiters
    /\ waiters' = waiters \ {t}
    /\ turns' = [turns EXCEPT ![t].verdict = "timeout"]
    /\ UNCHANGED <<session, controller, grants, receipts, childCancel, restarts>>

\* Mutant: the controller is dropped and not aborted.
DropController ==
    /\ controller' = NoTurn
    /\ UNCHANGED <<turns, waiters>>

\* controller.abort() and turnControllers.delete, in cancelTurn and
\* disposeSession: the listener of a pending approval answers "turn cancelled".
AbortController ==
    /\ controller' = NoTurn
    /\ waiters' = waiters \ {controller}
    /\ turns' = IF controller = NoTurn THEN turns
                ELSE [turns EXCEPT ![controller].aborted = TRUE,
                          ![controller].verdict =
                              IF controller \in waiters THEN "cancelled" ELSE @]

CancelTurn ==
    /\ AbortController
    /\ session' = [session EXCEPT !.status = "idle"]
    /\ UNCHANGED <<grants, receipts, childCancel, restarts>>

DisposeSession ==
    /\ AbortController
    /\ session' = [session EXCEPT !.status = "completed"]
    /\ UNCHANGED <<grants, receipts, childCancel, restarts>>

\* cancelChildSession: cancelTurn, an await, then the status.
CancelChildSession ==
    /\ ~childCancel
    /\ AbortController
    /\ session' = [session EXCEPT !.status = "idle"]
    /\ childCancel' = TRUE
    /\ UNCHANGED <<grants, receipts, restarts>>

CancelChildSessionResumes ==
    /\ childCancel
    /\ childCancel' = FALSE
    /\ session' = [session EXCEPT !.status = "failed"]
    /\ UNCHANGED <<controller, turns, waiters, grants, receipts, restarts>>

ResumeSession ==
    /\ session' = [session EXCEPT !.status = "active"]
    /\ UNCHANGED <<controller, turns, waiters, grants, receipts, childCancel, restarts>>

SetMode(mode) ==
    /\ session' = [session EXCEPT !.mode = mode]
    /\ UNCHANGED <<controller, turns, waiters, grants, receipts, childCancel, restarts>>

\* The process dies; the database keeps the session and its receipts.
Restart ==
    /\ restarts < MaxRestarts
    /\ restarts' = restarts + 1
    /\ turns' = [t \in Turns |->
           IF InFlight(t) THEN [turns[t] EXCEPT !.pc = "done", !.tool = NoTool]
           ELSE turns[t]]
    /\ controller' = NoTurn
    /\ waiters' = {}
    /\ grants' = [tool \in Tools |-> "none"]
    /\ childCancel' = FALSE
    /\ UNCHANGED <<session, receipts>>

\* What a turn does on its own once it is pulled.
TurnStep(t) ==
    \/ BeginModel(t)
    \/ ModelUsage(t)
    \/ ModelEnds(t)
    \/ ModelFails(t)
    \/ \E tool \in Tools : ModelCallsTool(t, tool) \/ ModelCallsUnknownTool(t, tool)
    \/ ToolRejected(t)
    \/ ToolStarts(t)
    \/ ToolFinishes(t)
    \/ TurnEnds(t)

Next ==
    \/ \E t \in Turns :
           \/ SendMessage(t)
           \/ TurnStep(t)
           \/ AbandonTurn(t)
           \/ AbandonStarted(t)
           \/ \E approved, always \in BOOLEAN : ApproveTool(t, approved, always)
           \/ ApprovalTimesOut(t)
    \/ CancelTurn
    \/ DisposeSession
    \/ CancelChildSession
    \/ CancelChildSessionResumes
    \/ ResumeSession
    \/ \E mode \in Modes : SetMode(mode)
    \/ Restart

Spec == Init /\ [][Next]_vars

\* Hosts pull until the end, models and tools return, and the approval timer
\* fires; no operator ever has to answer.
Fairness ==
    \A t \in Turns : WF_vars(TurnStep(t)) /\ WF_vars(ApprovalTimesOut(t))

FairSpec == Spec /\ Fairness

-----------------------------------------------------------------------------
(***************************************************************************)
(* Properties.                                                             *)
(***************************************************************************)

TypeOK ==
    /\ session \in SessionType
    /\ controller \in Turns \cup {NoTurn}
    /\ turns \in [Turns -> TurnType]
    /\ waiters \subseteq Turns
    /\ grants \in [Tools -> Grants]
    /\ receipts \in [Turns -> 0..MaxCost]
    /\ childCancel \in BOOLEAN
    /\ restarts \in 0..MaxRestarts

\* What getUsage reports as the session's cost is the sum of the receipts it
\* lists: no turn's spend is lost or counted twice (the totals are computed
\* from a copy of the row taken when the turn began).
TotalsMatchReceipts ==
    session.total = SumFunction(receipts)

\* "In-flight turn abort controllers": a turn that still works and was not
\* aborted can be aborted by cancelTurn.
WorkingTurnIsCancellable ==
    \A t \in Turns : Working(t) /\ ~turns[t].aborted => controller = t

\* The map of controllers holds in-flight turns only: an entry never outlives its
\* generator, so cancelTurn aborts what runs and nothing keeps a session busy.
ControllersInFlight == controller # NoTurn => InFlight(controller)

\* A session that says idle or completed has no turn at work, except one that was
\* aborted and is winding down. (The "failed" of cancelChildSession is written an
\* await after the abort and may land on a turn begun meanwhile.)
QuietSessionIsQuiet ==
    session.status \in {"idle", "completed"} =>
        \A t \in Turns : Working(t) => turns[t].aborted

\* "A grant can never promote a tool the mode forbids": whatever was granted in
\* other modes of the session, a turn runs no tool its own mode forbids.
ForbiddenNeverRuns ==
    \A t \in Turns : turns[t].pc = "running" =>
        ~Forbids(turns[t].mode, turns[t].tool, Risk[turns[t].tool])

\* A tool call waits for the operator only as long as its turn does: no waiter
\* outlives its turn or its answer.
WaitersAreAsking ==
    \A t \in waiters : turns[t].pc = "requested" /\ turns[t].decision = "ask"
                       /\ turns[t].verdict = "none" /\ ~turns[t].aborted

\* Whatever ends a turn whose consumer pulls to the end leaves nothing of it behind: neither a
\* waiter for an answer nor a controller that keeps its session busy.
NothingLeftBehind == WaitersAreAsking /\ ControllersInFlight

\* Every turn comes to its end, even when no operator ever answers.
TurnsEnd == \A t \in Turns : turns[t].pc = "started" ~> turns[t].pc = "done"
==============================================================================
