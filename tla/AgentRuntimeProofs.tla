-------------------------- MODULE AgentRuntimeProofs --------------------------
(***************************************************************************)
(* Proofs about AgentRuntime, for any turns, tools, modes, bounds and ways *)
(* of answering an approval.                                               *)
(*                                                                         *)
(* Three invariants build on each other. CallsInv: what a turn calls, what *)
(* was granted and what was decided agree with the mode's profile.         *)
(* WaitingInv: a waiter or a controller belongs to a turn that needs it,   *)
(* unless a consumer abandoned the turn. AccountInv, for a host that waits *)
(* for the answer to its last message: one turn is in flight at a time, so *)
(* the copy of the row it works from is still the row.                     *)
(***************************************************************************)
EXTENDS AgentRuntime, FiniteSetTheorems, WellFoundedInduction, TLAPS

\* A call of the turn is being decided or made.
Calling(t) == turns[t].pc \in {"requested", "running"}

\* A turn that its consumer abandoned.
Abandoned(t) == turns[t].pc = "done" /\ MayAbandon

\* A call that waits for the operator.
Asking(t) == /\ turns[t].pc = "requested" /\ turns[t].decision = "ask"
             /\ turns[t].verdict = "none" /\ ~turns[t].aborted

\* A turn has a tool while it calls one, and a registered one; a call that is
\* not denied is one that the turn's mode does not forbid; a waiter belongs to a
\* call that asks, unless the turn was abandoned.
CallInv(t) ==
    /\ turns[t].tool \in IF Calling(t) THEN Registered ELSE {NoTool}
    /\ turns[t].pc = "running" \/ (turns[t].pc = "requested" /\ turns[t].decision # "deny")
          => ~Forbids(turns[t].mode, turns[t].tool, Risk[turns[t].tool])
    /\ t \in waiters => Asking(t) \/ Abandoned(t)

\* "Always allow" was only ever said of a tool that some mode allows at all.
GrantsInv == \A tool \in Tools : grants[tool] = "allow" => Risk[tool] # "network"

CallsInv == TypeOK /\ GrantsInv /\ \A t \in Turns : CallInv(t)

\* A controller outlives its turn only when the consumer abandoned that.
ControllerInv == controller # NoTurn => InFlight(controller) \/ Abandoned(controller)

\* One turn is in flight at a time; a turn that works has no receipt yet and
\* started from the totals the row still has; whatever works and was not aborted can be
\* aborted, and nothing works in a session that says otherwise.
AccountInv ==
    /\ \A t, u \in Turns : InFlight(t) /\ InFlight(u) => t = u
    /\ \A t \in Turns : turns[t].pc = "none" => receipts[t] = 0
    /\ \A t \in Turns : Working(t) => turns[t].base = session.total /\ receipts[t] = 0
    /\ TotalsMatchReceipts
    /\ WorkingTurnIsCancellable
    /\ QuietSessionIsQuiet

-----------------------------------------------------------------------------
(***************************************************************************)
(* Types.                                                                  *)
(***************************************************************************)

\* The decision on a call is one of the three.
LEMMA DecideTyped ==
    ASSUME TypeOK, NEW t \in Turns, NEW tool \in Tools
    PROVE  Decide(t, tool) \in Decisions
BY RiskAssumption DEF Decide, CheckModePermission, RiskPermission, Decisions, TypeOK, Grants

\* The record of a turn that ends has its type.
LEMMA EndTyped ==
    ASSUME NEW r \in TurnType
    PROVE  [r EXCEPT !.pc = "done", !.tool = NoTool] \in TurnType
BY DEF TurnType, TurnPlaces

\* The end of a round keeps the types.
LEMMA RoundTyped ==
    ASSUME TypeOK, NEW t \in Turns, NextRound(t)
    PROVE  turns' \in [Turns -> TurnType] /\ session' \in SessionType
           /\ receipts' \in [Turns -> 0..MaxCost]
<1> USE RoundsAssumption, CostAssumption
<1>1. turns[t] \in TurnType /\ turns \in [Turns -> TurnType]
  BY DEF TypeOK
<1>2. turns' \in [Turns -> TurnType]
  BY <1>1 DEF NextRound, TurnType, TurnPlaces
<1>3. session' \in SessionType /\ receipts' \in [Turns -> 0..MaxCost]
  BY <1>1 DEF NextRound, WriteTotals, TypeOK, SessionType, TurnType
<1> QED
  BY <1>2, <1>3

\* An abort keeps the types.
LEMMA AbortTyped ==
    ASSUME TypeOK, AbortController
    PROVE  turns' \in [Turns -> TurnType] /\ waiters' \subseteq Turns
           /\ controller' \in Turns \cup {NoTurn}
<1>1. CASE controller = NoTurn
  BY <1>1 DEF TypeOK, AbortController
<1>2. CASE controller # NoTurn
  <2>1. controller \in Turns /\ turns[controller] \in TurnType
    BY <1>2 DEF TypeOK
  <2>2. [turns[controller] EXCEPT !.aborted = TRUE,
            !.verdict = IF controller \in waiters THEN "cancelled" ELSE @] \in TurnType
    BY <2>1 DEF TurnType, Verdicts
  <2> QED
    BY <1>2, <2>1, <2>2 DEF TypeOK, AbortController
<1> QED
  BY <1>1, <1>2

\* Every step keeps the types.
LEMMA TypeStep == TypeOK /\ [Next]_vars => TypeOK'
<1> USE TurnsAssumption, ToolsAssumption, ModesAssumption, RoundsAssumption, CostAssumption,
        RestartsAssumption
<1> SUFFICES ASSUME TypeOK, [Next]_vars
             PROVE  TypeOK'
  OBVIOUS
<1>1. ASSUME NEW t \in Turns, SendMessage(t)
      PROVE  TypeOK'
  <2>1. session.mode \in AgentModes /\ session.total \in Nat /\ turns[t] \in TurnType
    BY DEF TypeOK, SessionType
  <2>2. turns' \in [Turns -> TurnType]
    BY <1>1, <2>1 DEF TypeOK, SendMessage, TurnType, TurnPlaces
  <2>3. session' \in SessionType
    BY <1>1 DEF TypeOK, SendMessage, SessionType
  <2> QED
    BY <1>1, <2>2, <2>3 DEF TypeOK, SendMessage
<1>2. ASSUME NEW t \in Turns, BeginModel(t)
      PROVE  TypeOK'
  BY <1>2 DEF TypeOK, BeginModel, TurnType, TurnPlaces
<1>3. ASSUME NEW t \in Turns, ModelUsage(t)
      PROVE  TypeOK'
  BY <1>3 DEF TypeOK, ModelUsage, TurnType
<1>4. ASSUME NEW t \in Turns, ModelEnds(t)
      PROVE  TypeOK'
  <2>1. /\ turns \in [Turns -> TurnType] /\ session \in SessionType
        /\ receipts \in [Turns -> 0..MaxCost]
        /\ turns[t].cost \in 0..MaxCost /\ turns[t].base \in Nat
    BY DEF TypeOK, TurnType
  <2>2. turns' \in [Turns -> TurnType]
    <3>1. [turns[t] EXCEPT !.pc = "closing"] \in TurnType
      BY <2>1 DEF TurnType, TurnPlaces
    <3> QED
      BY <1>4, <2>1, <3>1 DEF ModelEnds
  <2>3. receipts' \in [Turns -> 0..MaxCost]
    BY <1>4, <2>1 DEF ModelEnds, WriteTotals
  <2>4. session' \in SessionType
    BY <1>4, <2>1 DEF ModelEnds, WriteTotals, SessionType
  <2> QED
    BY <1>4, <2>2, <2>3, <2>4 DEF TypeOK, ModelEnds
<1>5. ASSUME NEW t \in Turns, ModelFails(t)
      PROVE  TypeOK'
  BY <1>5 DEF TypeOK, ModelFails, TurnType, TurnPlaces
<1>6. ASSUME NEW t \in Turns, NEW tool \in Tools, ModelCallsTool(t, tool)
      PROVE  TypeOK'
  <2>1. Decide(t, tool) \in Decisions
    BY DecideTyped
  <2> HIDE DEF Decisions
  <2>2. \A answer \in Answers : FirstVerdict(answer) \in Verdicts
    BY AnswersAssumption DEF FirstVerdict, Verdicts
  <2> DEFINE asked(verdict) == [turns[t] EXCEPT !.pc = "requested", !.tool = tool,
                                    !.decision = Decide(t, tool), !.verdict = verdict]
  <2>3. ASSUME NEW verdict \in Verdicts
        PROVE  asked(verdict) \in TurnType
    <3>1. turns[t] \in TurnType
      BY DEF TypeOK
    <3> QED
      BY <2>1, <3>1 DEF TurnType, TurnPlaces
  <2> HIDE DEF Verdicts
  <2>4. PICK verdict \in Verdicts : turns' = [turns EXCEPT ![t] = asked(verdict)]
    <3> DEFINE verdict(answer) == IF Decide(t, tool) = "ask" THEN FirstVerdict(answer) ELSE "none"
    <3>1. \A answer \in Answers : verdict(answer) \in Verdicts
      BY <2>2 DEF Verdicts
    <3>2. PICK answer \in Answers : turns' = [turns EXCEPT ![t] = asked(verdict(answer))]
      BY <1>6 DEF ModelCallsTool
    <3> HIDE DEF verdict, asked
    <3> QED
      BY ZenonT(30), <3>1, <3>2
  <2>5. turns' \in [Turns -> TurnType]
    BY <2>3, <2>4 DEF TypeOK
  <2> QED
    BY <1>6, <2>5 DEF TypeOK, ModelCallsTool
<1>7. ASSUME NEW t \in Turns, NEW tool \in Tools, ModelCallsUnknownTool(t, tool)
      PROVE  TypeOK'
  BY <1>7, RoundTyped DEF TypeOK, ModelCallsUnknownTool
<1>8. ASSUME NEW t \in Turns, ToolRejected(t)
      PROVE  TypeOK'
  BY <1>8, RoundTyped DEF TypeOK, ToolRejected
<1>9. ASSUME NEW t \in Turns, ToolStarts(t)
      PROVE  TypeOK'
  BY <1>9 DEF TypeOK, ToolStarts, TurnType, TurnPlaces
<1>10. ASSUME NEW t \in Turns, ToolFinishes(t)
       PROVE  TypeOK'
  BY <1>10, RoundTyped DEF TypeOK, ToolFinishes
<1>11. ASSUME NEW t \in Turns, TurnFinally(t)
       PROVE  TypeOK'
  <2>1. turns' \in [Turns -> TurnType]
    BY <1>11, EndTyped DEF TypeOK, TurnFinally
  <2>2. session' \in SessionType
    BY <1>11 DEF TypeOK, TurnFinally, SessionType
  <2> QED
    BY <1>11, <2>1, <2>2 DEF TypeOK, TurnFinally
<1>12. ASSUME NEW t \in Turns, AbandonStarted(t)
       PROVE  TypeOK'
  BY <1>12 DEF TypeOK, AbandonStarted, TurnType, TurnPlaces
<1>13. ASSUME NEW t \in Turns, NEW approved \in BOOLEAN, NEW always \in BOOLEAN,
              ApproveTool(t, approved, always)
       PROVE  TypeOK'
  <2>1. turns' \in [Turns -> TurnType]
    BY <1>13 DEF TypeOK, ApproveTool, TurnType, Verdicts
  <2>2. grants' \in [Tools -> Grants]
    BY <1>13 DEF TypeOK, ApproveTool, Grants
  <2> QED
    BY <1>13, <2>1, <2>2 DEF TypeOK, ApproveTool
<1>14. ASSUME NEW t \in Turns, ApprovalTimesOut(t)
       PROVE  TypeOK'
  BY <1>14 DEF TypeOK, ApprovalTimesOut, TurnType, Verdicts
<1>15. CASE CancelTurn
  BY <1>15, AbortTyped DEF TypeOK, CancelTurn, SessionType
<1>16. CASE DisposeSession
  BY <1>16, AbortTyped DEF TypeOK, DisposeSession, SessionType
<1>17. CASE CancelChildSession
  BY <1>17, AbortTyped DEF TypeOK, CancelChildSession, SessionType
<1>18. CASE CancelChildSessionResumes
  BY <1>18 DEF TypeOK, CancelChildSessionResumes, SessionType
<1>19. CASE ResumeSession
  BY <1>19 DEF TypeOK, ResumeSession, SessionType
<1>20. ASSUME NEW mode \in Modes, SetMode(mode)
       PROVE  TypeOK'
  BY <1>20 DEF TypeOK, SetMode, SessionType
<1>21. CASE Restart
  <2>1. turns' \in [Turns -> TurnType]
    BY <1>21, EndTyped DEF TypeOK, Restart
  <2>2. grants' \in [Tools -> Grants]
    BY <1>21 DEF Restart, Grants
  <2>3. restarts' \in 0..MaxRestarts
    <3>1. restarts \in 0..MaxRestarts /\ restarts < MaxRestarts /\ restarts' = restarts + 1
      BY <1>21 DEF TypeOK, Restart
    <3> QED
      BY <3>1
  <2> QED
    BY <1>21, <2>1, <2>2, <2>3 DEF TypeOK, Restart
<1>22. CASE UNCHANGED vars
  BY <1>22 DEF TypeOK, vars
<1> QED
  BY <1>1, <1>2, <1>3, <1>4, <1>5, <1>6, <1>7, <1>8, <1>9, <1>10, <1>11, <1>12, <1>13,
     <1>14, <1>15, <1>16, <1>17, <1>18, <1>19, <1>20, <1>21, <1>22
     DEF Next, TurnStep, TurnEnds, AbandonTurn

\* They hold at the start.
LEMMA TypeInit == Init => TypeOK
<1> SUFFICES ASSUME Init PROVE TypeOK
  OBVIOUS
<1>1. turns \in [Turns -> TurnType]
  BY RoundsAssumption, CostAssumption
     DEF Init, TurnType, TurnPlaces, AgentModes, Decisions, Verdicts
<1>2. session \in SessionType
  BY DEF Init, SessionType
<1>3. grants \in [Tools -> Grants] /\ receipts \in [Turns -> 0..MaxCost]
  BY CostAssumption DEF Init, Grants
<1>4. restarts \in 0..MaxRestarts /\ childCancel \in BOOLEAN
  <2>1. restarts = 0 /\ childCancel = FALSE
    BY DEF Init
  <2>2. 0 \in 0..MaxRestarts
    BY RestartsAssumption
  <2> QED
    BY <2>1, <2>2
<1>5. controller \in Turns \cup {NoTurn} /\ waiters \subseteq Turns
  BY DEF Init
<1> QED
  BY <1>1, <1>2, <1>3, <1>4, <1>5 DEF TypeOK

\* Every reachable state has its types: no round beyond maxToolRounds is begun, and no
\* turn is left between two places of its generator.
THEOREM TypeCorrect == Spec => []TypeOK
BY TypeInit, TypeStep, PTL DEF Spec

-----------------------------------------------------------------------------
(***************************************************************************)
(* What turns call, wait for and were granted.                             *)
(***************************************************************************)

\* What a turn's record has in every well-typed state.
LEMMA TurnFields ==
    ASSUME TypeOK, NEW t \in Turns
    PROVE  /\ turns[t] \in TurnType
           /\ turns[t].mode \in AgentModes /\ turns[t].tool \in Tools \cup {NoTool}
           /\ turns[t].cost \in 0..MaxCost /\ turns[t].base \in Nat
           /\ turns[t].pc \in TurnPlaces
BY DEF TypeOK, TurnType

\* No mode lets a network tool through, and one that restricts tools to an allowlist
\* admits only tools that read.
LEMMA DecideForbids ==
    ASSUME TypeOK, GrantsInv, NEW t \in Turns, NEW tool \in Registered,
           Decide(t, tool) # "deny"
    PROVE  ~Forbids(turns[t].mode, tool, Risk[tool])
<1> DEFINE mode == turns[t].mode
<1>1. tool \in Tools /\ mode \in AgentModes /\ Risk[tool] \in RiskClasses
      /\ grants[tool] \in Grants
  BY ToolsAssumption, RiskAssumption, TurnFields DEF TypeOK
<1>2. CheckModePermission(mode, tool, Risk[tool], grants[tool]) # "deny"
  BY DEF Decide
<1> HIDE DEF mode
<1>3. ~OutsideAllowlist(mode, tool)
  BY <1>2 DEF CheckModePermission
<1>4. CASE mode \in AllowlistModes
  <2>1. tool \in Allowlist("plan")
    BY <1>3, <1>4 DEF OutsideAllowlist, Allowlist
  <2>2. Risk[tool] = "read"
    BY <2>1, AllowlistAssumption
  <2> QED
    BY <1>3, <2>2 DEF Forbids, RiskPermission, mode
<1>5. CASE mode \notin AllowlistModes
  <2>1. Risk[tool] # "network"
    BY <1>1, <1>2, <1>3, <1>5 DEF CheckModePermission, RiskPermission, GrantsInv, Grants
  <2> QED
    BY <1>1, <1>3, <1>5, <2>1 DEF Forbids, RiskPermission, RiskClasses, mode
<1> QED
  BY <1>4, <1>5

\* A turn that a step leaves alone, and gives no waiter, stays in order.
LEMMA OthersKeep ==
    ASSUME NEW u \in Turns, CallInv(u), turns'[u] = turns[u], u \in waiters' => u \in waiters
    PROVE  CallInv(u)'
BY DEF CallInv, Calling, Asking, Abandoned

\* The end of a round ends the call.
LEMMA RoundCalls ==
    ASSUME CallsInv, NEW t \in Turns, NextRound(t), waiters' = waiters,
           ~Asking(t), turns[t].pc # "done"
    PROVE  \A u \in Turns : CallInv(u)'
<1>1. turns' \in [Turns -> TurnType] /\ turns[t] \in TurnType
  BY RoundTyped, TurnFields DEF CallsInv
<1>2. \A u \in Turns \ {t} : turns'[u] = turns[u]
  BY <1>1 DEF NextRound, CallsInv, TypeOK
<1>3. turns'[t].pc \in {"model", "closing"} /\ turns'[t].tool = NoTool
  BY <1>1 DEF NextRound, CallsInv, TypeOK, TurnType
<1>4. CallInv(t)'
  BY <1>3 DEF CallInv, Calling, CallsInv, Abandoned
<1> QED
  BY <1>2, <1>4, OthersKeep DEF CallsInv

\* So does the end of the turn, and only an abandoned turn leaves a waiter.
LEMMA FinallyCalls ==
    ASSUME CallsInv, NEW t \in Turns, TurnFinally(t), t \in waiters => MayAbandon
    PROVE  \A u \in Turns : CallInv(u)'
<1>1. turns[t] \in TurnType
  BY TurnFields DEF CallsInv
<1>2. \A u \in Turns \ {t} : turns'[u] = turns[u]
  BY DEF TurnFinally, CallsInv, TypeOK
<1>3. turns'[t].pc = "done" /\ turns'[t].tool = NoTool /\ waiters' = waiters
  BY <1>1 DEF TurnFinally, CallsInv, TypeOK, TurnType
<1>4. CallInv(t)'
  BY <1>3 DEF CallInv, Calling, Abandoned
<1> QED
  BY <1>2, <1>3, <1>4, OthersKeep DEF CallsInv

\* An abort takes the waiter of the turn it aborts.
LEMMA AbortCalls ==
    ASSUME CallsInv, AbortController
    PROVE  \A u \in Turns : CallInv(u)'
<1>1. waiters' = waiters \ {controller} /\ controller \in Turns \cup {NoTurn}
  BY DEF AbortController, CallsInv, TypeOK
<1>2. \A u \in Turns : u # controller => turns'[u] = turns[u]
  BY <1>1 DEF AbortController, CallsInv, TypeOK
<1>3. ASSUME NEW u \in Turns, u = controller
      PROVE  CallInv(u)'
  <2>1. turns[u] \in TurnType /\ controller # NoTurn
    BY <1>3, TurnFields, TurnsAssumption DEF CallsInv
  <2>2. /\ turns'[u].pc = turns[u].pc /\ turns'[u].tool = turns[u].tool
        /\ turns'[u].decision = turns[u].decision /\ turns'[u].mode = turns[u].mode
    BY <1>3, <2>1 DEF AbortController, CallsInv, TypeOK, TurnType
  <2> QED
    BY <1>1, <1>3, <2>2 DEF CallInv, CallsInv, Calling
<1> QED
  BY <1>1, <1>2, <1>3, OthersKeep DEF CallsInv

\* What a turn calls, waits for and was granted stays in order at every step.
LEMMA CallsStep == CallsInv /\ [Next]_vars => CallsInv'
<1> SUFFICES ASSUME CallsInv, [Next]_vars
             PROVE  GrantsInv' /\ \A u \in Turns : CallInv(u)'
  BY TypeStep DEF CallsInv
<1> USE TurnsAssumption
<1>0. TypeOK /\ GrantsInv /\ \A u \in Turns : CallInv(u) /\ turns[u] \in TurnType
  BY TurnFields DEF CallsInv
<1>1. ASSUME NEW t \in Turns, SendMessage(t)
      PROVE  GrantsInv' /\ \A u \in Turns : CallInv(u)'
  <2>1. /\ turns[t].pc = "none" /\ turns'[t].pc = "started" /\ turns'[t].tool = turns[t].tool
        /\ \A u \in Turns \ {t} : turns'[u] = turns[u]
    BY <1>0, <1>1 DEF SendMessage, TypeOK, TurnType
  <2>2. CallInv(t)'
    BY <1>0, <1>1, <2>1 DEF CallInv, Calling, Asking, Abandoned, SendMessage
  <2> QED
    BY <1>0, <1>1, <2>1, <2>2, OthersKeep DEF SendMessage, GrantsInv
<1>2. ASSUME NEW t \in Turns, BeginModel(t)
      PROVE  GrantsInv' /\ \A u \in Turns : CallInv(u)'
  <2>1. /\ turns[t].pc = "started" /\ turns'[t].pc = "model" /\ turns'[t].tool = turns[t].tool
        /\ \A u \in Turns \ {t} : turns'[u] = turns[u]
    BY <1>0, <1>2 DEF BeginModel, TypeOK, TurnType
  <2>2. CallInv(t)'
    BY <1>0, <1>2, <2>1 DEF CallInv, Calling, Asking, Abandoned, BeginModel
  <2> QED
    BY <1>0, <1>2, <2>1, <2>2, OthersKeep DEF BeginModel, GrantsInv
<1>3. ASSUME NEW t \in Turns, ModelUsage(t)
      PROVE  GrantsInv' /\ \A u \in Turns : CallInv(u)'
  <2>1. /\ turns[t].pc = "model" /\ turns'[t].pc = "model" /\ turns'[t].tool = turns[t].tool
        /\ \A u \in Turns \ {t} : turns'[u] = turns[u]
    BY <1>0, <1>3 DEF ModelUsage, TypeOK, TurnType
  <2>2. CallInv(t)'
    BY <1>0, <1>3, <2>1 DEF CallInv, Calling, Asking, Abandoned, ModelUsage
  <2> QED
    BY <1>0, <1>3, <2>1, <2>2, OthersKeep DEF ModelUsage, GrantsInv
<1>4. ASSUME NEW t \in Turns, ModelEnds(t) \/ ModelFails(t)
      PROVE  GrantsInv' /\ \A u \in Turns : CallInv(u)'
  <2>1. /\ turns[t].pc = "model" /\ turns'[t].pc = "closing" /\ turns'[t].tool = turns[t].tool
        /\ \A u \in Turns \ {t} : turns'[u] = turns[u]
    BY <1>0, <1>4 DEF ModelEnds, ModelFails, TypeOK, TurnType
  <2>2. waiters' = waiters /\ grants' = grants
    BY <1>4 DEF ModelEnds, ModelFails
  <2>3. CallInv(t)'
    BY <1>0, <2>1, <2>2 DEF CallInv, Calling, Asking, Abandoned
  <2> QED
    BY <1>0, <2>1, <2>2, <2>3, OthersKeep DEF GrantsInv
<1>5. ASSUME NEW t \in Turns, NEW tool \in Tools, ModelCallsTool(t, tool)
      PROVE  GrantsInv' /\ \A u \in Turns : CallInv(u)'
  <2> DEFINE decision == Decide(t, tool)
  <2>1. PICK answer \in Answers :
           LET verdict == IF decision = "ask" THEN FirstVerdict(answer) ELSE "none"
           IN  /\ turns' = [turns EXCEPT ![t].pc = "requested", ![t].tool = tool,
                                ![t].decision = decision, ![t].verdict = verdict]
               /\ waiters' = IF decision = "ask" /\ verdict = "none"
                             THEN waiters \cup {t} ELSE waiters
    BY <1>5 DEF ModelCallsTool
  <2>2. tool \in Registered /\ turns[t].pc = "model" /\ ~turns[t].aborted /\ grants' = grants
    BY <1>5 DEF ModelCallsTool
  <2>3. decision # "deny" => ~Forbids(turns[t].mode, tool, Risk[tool])
    BY <1>0, <2>2, DecideForbids
  <2>4. t \notin waiters
    BY <1>0, <2>2 DEF CallInv, Asking, Abandoned
  <2> HIDE DEF decision
  <2>5. \A u \in Turns \ {t} : turns'[u] = turns[u]
    BY <1>0, <2>1 DEF TypeOK
  <2>6. /\ turns'[t].pc = "requested" /\ turns'[t].tool = tool
        /\ turns'[t].decision = decision /\ turns'[t].mode = turns[t].mode
        /\ turns'[t].aborted = turns[t].aborted
        /\ t \in waiters' => decision = "ask" /\ turns'[t].verdict = "none"
    BY <1>0, <2>1, <2>4 DEF TypeOK, TurnType
  <2>7. CallInv(t)'
    BY <2>2, <2>3, <2>6 DEF CallInv, Calling, Asking
  <2>8. \A u \in Turns \ {t} : u \in waiters' => u \in waiters
    BY <2>1
  <2> QED
    BY <1>0, <2>2, <2>5, <2>7, <2>8, OthersKeep DEF GrantsInv
<1>6. ASSUME NEW t \in Turns,
             \/ ToolRejected(t)
             \/ ToolFinishes(t)
             \/ \E tool \in Tools : ModelCallsUnknownTool(t, tool)
      PROVE  GrantsInv' /\ \A u \in Turns : CallInv(u)'
  <2>1. NextRound(t) /\ waiters' = waiters /\ grants' = grants /\ turns[t].pc # "done"
    BY <1>6 DEF ToolRejected, ToolFinishes, ModelCallsUnknownTool
  <2>2. ~Asking(t)
    BY <1>6 DEF ToolRejected, ToolFinishes, ModelCallsUnknownTool, Refused, Asking
  <2> QED
    BY <1>0, <2>1, <2>2, RoundCalls DEF GrantsInv
<1>7. ASSUME NEW t \in Turns, ToolStarts(t)
      PROVE  GrantsInv' /\ \A u \in Turns : CallInv(u)'
  <2>1. /\ turns[t].pc = "requested" /\ turns'[t].pc = "running"
        /\ turns'[t].tool = turns[t].tool /\ turns'[t].mode = turns[t].mode
        /\ \A u \in Turns \ {t} : turns'[u] = turns[u]
    BY <1>0, <1>7 DEF ToolStarts, TypeOK, TurnType
  <2>2. turns[t].decision # "deny" /\ ~Asking(t) /\ waiters' = waiters /\ grants' = grants
    BY <1>7 DEF ToolStarts, Admitted, Asking
  <2>3. CallInv(t)'
    BY <1>0, <2>1, <2>2 DEF CallInv, Calling, Abandoned
  <2> QED
    BY <1>0, <2>1, <2>2, <2>3, OthersKeep DEF GrantsInv
<1>8. ASSUME NEW t \in Turns, TurnEnds(t) \/ AbandonTurn(t)
      PROVE  GrantsInv' /\ \A u \in Turns : CallInv(u)'
  <2>1. TurnFinally(t) /\ grants' = grants
    BY <1>8 DEF TurnEnds, AbandonTurn, TurnFinally
  <2>2. t \in waiters => MayAbandon
    BY <1>0, <1>8 DEF TurnEnds, AbandonTurn, CallInv, Asking, Abandoned
  <2> QED
    BY <1>0, <2>1, <2>2, FinallyCalls DEF GrantsInv
<1>9. ASSUME NEW t \in Turns, AbandonStarted(t)
      PROVE  GrantsInv' /\ \A u \in Turns : CallInv(u)'
  <2>1. /\ turns[t].pc = "started" /\ turns'[t].pc = "done" /\ turns'[t].tool = turns[t].tool
        /\ \A u \in Turns \ {t} : turns'[u] = turns[u]
    BY <1>0, <1>9 DEF AbandonStarted, TypeOK, TurnType
  <2>2. CallInv(t)'
    BY <1>0, <1>9, <2>1 DEF CallInv, Calling, Asking, Abandoned, AbandonStarted
  <2> QED
    BY <1>0, <1>9, <2>1, <2>2, OthersKeep DEF AbandonStarted, GrantsInv
<1>10. ASSUME NEW t \in Turns, NEW approved \in BOOLEAN, NEW always \in BOOLEAN,
              ApproveTool(t, approved, always)
       PROVE  GrantsInv' /\ \A u \in Turns : CallInv(u)'
  <2>1. /\ turns'[t].pc = turns[t].pc /\ turns'[t].tool = turns[t].tool
        /\ turns'[t].decision = turns[t].decision /\ turns'[t].mode = turns[t].mode
        /\ \A u \in Turns \ {t} : turns'[u] = turns[u]
        /\ waiters' = waiters \ {t} /\ t \in waiters
    BY <1>0, <1>10 DEF ApproveTool, TypeOK, TurnType
  <2>2. CallInv(t)'
    BY <1>0, <2>1 DEF CallInv, Calling
  <2>3. \A tool \in Tools : grants'[tool] # grants[tool] =>
           /\ tool = turns[t].tool
           /\ grants'[tool] = IF approved THEN "allow" ELSE "deny"
    BY <1>0, <1>10 DEF ApproveTool, TypeOK
  <2>4. turns[t].tool \in Tools => Risk[turns[t].tool] # "network"
    <3>1. CASE Asking(t)
      <4>1. ~Forbids(turns[t].mode, turns[t].tool, Risk[turns[t].tool])
        BY <1>0, <3>1 DEF CallInv, Asking
      <4> QED
        BY <4>1 DEF Forbids, RiskPermission
    <3>2. CASE Abandoned(t)
      BY <1>0, <3>2, ToolsAssumption DEF CallInv, Calling, Abandoned
    <3> QED
      BY <1>0, <2>1, <3>1, <3>2 DEF CallInv
  <2>5. GrantsInv'
    BY <1>0, <2>3, <2>4 DEF GrantsInv
  <2> QED
    BY <1>0, <2>1, <2>2, <2>5, OthersKeep
<1>11. ASSUME NEW t \in Turns, ApprovalTimesOut(t)
       PROVE  GrantsInv' /\ \A u \in Turns : CallInv(u)'
  <2>1. /\ turns'[t].pc = turns[t].pc /\ turns'[t].tool = turns[t].tool
        /\ turns'[t].decision = turns[t].decision /\ turns'[t].mode = turns[t].mode
        /\ \A u \in Turns \ {t} : turns'[u] = turns[u]
        /\ waiters' = waiters \ {t} /\ grants' = grants
    BY <1>0, <1>11 DEF ApprovalTimesOut, TypeOK, TurnType
  <2>2. CallInv(t)'
    BY <1>0, <2>1 DEF CallInv, Calling
  <2> QED
    BY <1>0, <2>1, <2>2, OthersKeep DEF GrantsInv
<1>12. CASE CancelTurn \/ DisposeSession \/ CancelChildSession
  <2>1. AbortController /\ grants' = grants
    BY <1>12 DEF CancelTurn, DisposeSession, CancelChildSession
  <2> QED
    BY <1>0, <2>1, AbortCalls DEF GrantsInv
<1>13. CASE \/ CancelChildSessionResumes
            \/ ResumeSession
            \/ \E mode \in Modes : SetMode(mode)
            \/ UNCHANGED vars
  <2>1. turns' = turns /\ waiters' = waiters /\ grants' = grants
    BY <1>13 DEF CancelChildSessionResumes, ResumeSession, SetMode, vars
  <2> QED
    BY <1>0, <2>1, OthersKeep DEF GrantsInv
<1>14. CASE Restart
  <2>1. waiters' = {} /\ \A tool \in Tools : grants'[tool] = "none"
    BY <1>14 DEF Restart
  <2>2. ASSUME NEW u \in Turns
        PROVE  CallInv(u)'
    <3>1. CASE InFlight(u)
      <4>1. turns'[u].pc = "done" /\ turns'[u].tool = NoTool
        BY <1>0, <1>14, <3>1 DEF Restart, TypeOK, TurnType
      <4> QED
        BY <2>1, <4>1 DEF CallInv, Calling
    <3>2. CASE ~InFlight(u)
      BY <1>0, <1>14, <2>1, <3>2, OthersKeep DEF Restart
    <3> QED
      BY <3>1, <3>2
  <2> QED
    BY <2>1, <2>2 DEF GrantsInv
<1> QED
  BY <1>1, <1>2, <1>3, <1>4, <1>5, <1>6, <1>7, <1>8, <1>9, <1>10, <1>11, <1>12, <1>13, <1>14
     DEF Next, TurnStep

\* Nothing is called, granted or awaited at the start.
LEMMA CallsInit == Init => CallsInv
<1> SUFFICES ASSUME Init PROVE CallsInv
  OBVIOUS
<1>1. \A t \in Turns : turns[t].pc = "none" /\ turns[t].tool = NoTool /\ t \notin waiters
  BY DEF Init
<1>2. GrantsInv
  BY DEF Init, GrantsInv
<1> QED
  BY <1>1, <1>2, TypeInit DEF CallsInv, CallInv, Calling

\* The invariant of the calls.
THEOREM CallsCorrect == Spec => []CallsInv
BY CallsInit, CallsStep, PTL DEF Spec

\* executeToolCall: "always allow", given in a mode that asks, does not let a tool run in
\* a mode that forbids it, whoever answers and whenever the mode is switched.
THEOREM NothingForbiddenRuns == Spec => []ForbiddenNeverRuns
<1>1. CallsInv => ForbiddenNeverRuns
  BY DEF CallsInv, CallInv, ForbiddenNeverRuns
<1> QED
  BY <1>1, CallsCorrect, PTL

-----------------------------------------------------------------------------
(***************************************************************************)
(* What a turn leaves behind.                                              *)
(***************************************************************************)

\* Every step of a turn that ends it takes its controller, or was an abandonment.
LEMMA ControllerStep == TypeOK /\ ControllerInv /\ [Next]_vars => ControllerInv'
<1> SUFFICES ASSUME TypeOK, ControllerInv, [Next]_vars, controller' # NoTurn
             PROVE  (InFlight(controller) \/ Abandoned(controller))'
  BY DEF ControllerInv
<1>1. /\ turns \in [Turns -> TurnType]
      /\ controller = NoTurn \/ (controller \in Turns /\ turns[controller] \in TurnType)
  BY TurnFields DEF TypeOK
<1>2. ASSUME NEW t \in Turns, SendMessage(t)
      PROVE  (InFlight(controller) \/ Abandoned(controller))'
  BY <1>1, <1>2, TurnFields DEF SendMessage, InFlight, TurnType
<1>3. ASSUME NEW t \in Turns,
             \/ BeginModel(t) \/ ModelUsage(t) \/ ModelEnds(t) \/ ModelFails(t)
             \/ ToolStarts(t)
             \/ AbandonStarted(t)
      PROVE  (InFlight(controller) \/ Abandoned(controller))'
  <2>1. controller' = controller /\ turns[t] \in TurnType
    BY <1>3, TurnFields
       DEF BeginModel, ModelUsage, ModelEnds, ModelFails, ToolStarts, AbandonStarted
  <2>2. CASE controller # t
    BY <1>1, <1>3, <2>1, <2>2 DEF BeginModel, ModelUsage, ModelEnds, ModelFails, ToolStarts,
       AbandonStarted, InFlight, Abandoned, ControllerInv
  <2>3. CASE controller = t
    <3>1. \/ turns'[t].pc \in {"model", "closing", "running"}
          \/ turns'[t].pc = "done" /\ MayAbandon
      BY <1>1, <1>3, <2>1
         DEF BeginModel, ModelUsage, ModelEnds, ModelFails, ToolStarts, AbandonStarted, TurnType
    <3> QED
      BY <2>1, <2>3, <3>1 DEF InFlight, Abandoned
  <2> QED
    BY <2>2, <2>3
<1>4. ASSUME NEW t \in Turns, NEW tool \in Tools, ModelCallsTool(t, tool)
      PROVE  (InFlight(controller) \/ Abandoned(controller))'
  <2>1. controller' = controller /\ turns'[t].pc = "requested"
        /\ \A u \in Turns \ {t} : turns'[u] = turns[u]
    BY <1>1, <1>4, TurnFields DEF ModelCallsTool, TurnType
  <2> QED
    BY <1>1, <2>1 DEF InFlight, Abandoned, ControllerInv
<1>5. ASSUME NEW t \in Turns, NextRound(t), controller' = controller
      PROVE  (InFlight(controller) \/ Abandoned(controller))'
  <2>1. turns'[t].pc \in {"model", "closing"} /\ \A u \in Turns \ {t} : turns'[u] = turns[u]
    BY <1>1, <1>5, TurnFields DEF NextRound, TurnType
  <2> QED
    BY <1>1, <1>5, <2>1 DEF InFlight, Abandoned, ControllerInv
<1>6. ASSUME NEW t \in Turns,
             \/ \E approved, always \in BOOLEAN : ApproveTool(t, approved, always)
             \/ ApprovalTimesOut(t)
      PROVE  (InFlight(controller) \/ Abandoned(controller))'
  <2>1. controller' = controller /\ turns'[t].pc = turns[t].pc
        /\ \A u \in Turns \ {t} : turns'[u] = turns[u]
    BY <1>1, <1>6, TurnFields DEF ApproveTool, ApprovalTimesOut, TurnType
  <2> QED
    BY <1>1, <2>1 DEF InFlight, Abandoned, ControllerInv
<1>7. CASE UNCHANGED <<turns, controller>>
  BY <1>7 DEF InFlight, Abandoned, ControllerInv
<1> QED
  BY <1>2, <1>3, <1>4, <1>5, <1>6, <1>7
     DEF Next, TurnStep, TurnFinally, ModelCallsUnknownTool, ToolRejected, ToolFinishes,
         TurnEnds, AbandonTurn, AbortController, CancelTurn, DisposeSession,
         CancelChildSession, CancelChildSessionResumes, ResumeSession, SetMode, Restart, vars

\* The turn that ends takes its waiter and its controller with it, when consumers pull
\* until the end; cancellation, timeout, failure and restart all do.
THEOREM LeavesNothing ==
    ASSUME ~MayAbandon
    PROVE  Spec => []NothingLeftBehind
<1>1. Init => ControllerInv
  BY DEF Init, ControllerInv
<1>2. CallsInv /\ ControllerInv /\ [Next]_vars => ControllerInv'
  BY ControllerStep DEF CallsInv
<1>3. CallsInv /\ ControllerInv => NothingLeftBehind
  BY DEF CallsInv, CallInv, ControllerInv, NothingLeftBehind, WaitersAreAsking,
         ControllersInFlight, Asking, Abandoned, TypeOK
<1> QED
  BY <1>1, <1>2, <1>3, CallsCorrect, PTL DEF Spec

-----------------------------------------------------------------------------
(***************************************************************************)
(* Sums over a finite set. What the fold of SumFunction computes is        *)
(* defined by recursion on the subsets; a fact about every subset holds    *)
(* because the smallest one it fails for would be preceded by another.     *)
(***************************************************************************)

\* The element that the fold takes out of a set next.
Elem(T) == CHOOSE x \in T : TRUE

\* One step of the fold over a set T, given the sums g of its subsets.
SumStep(f, g, T) == IF T = {} THEN 0 ELSE f[Elem(T)] + g[T \ {Elem(T)}]

\* The function that SumFunction defines, from the subsets of S to their sums.
Sums(f, S) == CHOOSE g : g = [T \in SUBSET S |-> SumStep(f, g, T)]

LEMMA SumIsSums == ASSUME NEW f PROVE SumFunction(f) = Sums(f, DOMAIN f)[DOMAIN f]
BY DEF SumFunction, SumFunctionOnSet, FoldFunctionOnSet, MapThenFoldSet, Sums, SumStep, Elem

LEMMA Least ==
    ASSUME NEW S \in SUBSET Nat, S # {}
    PROVE  \E x \in S : \A y \in S : x <= y
<1>1. PICK x \in S : \A y \in S : ~ (<<y, x>> \in OpToRel(<, Nat))
  BY NatLessThanWellFounded, WFMin
<1>2. \A y \in S : ~(y < x)
  BY <1>1 DEF OpToRel
<1> QED
  BY <1>2

\* Without its next element a set is smaller.
LEMMA Smaller ==
    ASSUME NEW S, IsFiniteSet(S), NEW T \in SUBSET S, T # {}
    PROVE  /\ Elem(T) \in T
           /\ T \ {Elem(T)} \in SUBSET S
           /\ Cardinality(T) \in Nat \ {0}
           /\ Cardinality(T \ {Elem(T)}) = Cardinality(T) - 1
<1>1. Elem(T) \in T
  BY DEF Elem
<1>2. IsFiniteSet(T) /\ Cardinality(T) \in Nat
  BY FS_Subset, FS_CardinalityType
<1>3. Cardinality(T) # 0
  BY <1>2, FS_EmptySet
<1>4. Cardinality(T \ {Elem(T)}) = Cardinality(T) - 1
  BY <1>1, <1>2, FS_RemoveElement
<1> QED
  BY <1>1, <1>2, <1>3, <1>4

\* The recursive definition of the sums has a solution.
LEMMA SumsDefined ==
    ASSUME NEW S, IsFiniteSet(S), NEW f \in [S -> Nat]
    PROVE  /\ DOMAIN Sums(f, S) = SUBSET S
           /\ \A T \in SUBSET S : Sums(f, S)[T] = SumStep(f, Sums(f, S), T)
<1> DEFINE Upto(n) == {T \in SUBSET S : Cardinality(T) <= n}
           Solves(g, n) == \A T \in Upto(n) : g[T] = SumStep(f, g, T)
           Bad == {n \in Nat : ~ \E g \in [Upto(n) -> Nat] : Solves(g, n)}
<1>1. Bad = {}
  <2>1. SUFFICES ASSUME Bad # {}
                 PROVE  FALSE
    OBVIOUS
  <2>2. PICK m \in Bad : \A n \in Bad : m <= n
    BY <2>1, Least
  <2>3. m \in Nat
    OBVIOUS
  <2>4. m # 0 => m - 1 \in Nat /\ m - 1 \notin Bad
    <3> HIDE DEF Bad
    <3> QED
      BY <2>2, <2>3
  <2>5. CASE m = 0
    <3> DEFINE g == [T \in Upto(0) |-> 0]
    <3>1. ASSUME NEW T \in Upto(0)
          PROVE  T = {}
      <4>1. T \in SUBSET S /\ Cardinality(T) <= 0
        OBVIOUS
      <4>2. T # {} => Cardinality(T) \in Nat \ {0}
        BY <4>1, Smaller
      <4> HIDE DEF Upto
      <4> QED
        BY <4>1, <4>2
    <3>2. g \in [Upto(0) -> Nat] /\ Solves(g, 0)
      BY <3>1 DEF SumStep
    <3> HIDE DEF g
    <3> QED
      BY <2>2, <2>5, <3>2
  <2>6. CASE m # 0
    <3>1. PICK g \in [Upto(m - 1) -> Nat] : Solves(g, m - 1)
      BY <2>3, <2>4, <2>6
    <3> DEFINE h == [T \in Upto(m) |-> SumStep(f, g, T)]
    <3>2. ASSUME NEW T \in Upto(m), T # {}
          PROVE  /\ Elem(T) \in S
                 /\ T \ {Elem(T)} \in Upto(m - 1)
                 /\ T \ {Elem(T)} \in Upto(m)
      BY <2>3, <3>2, Smaller
    <3>3. \A T \in Upto(m) : h[T] \in Nat
      BY <3>1, <3>2 DEF SumStep
    <3>4. h \in [Upto(m) -> Nat]
      BY <3>3
    <3>5. \A U \in Upto(m - 1) : U \in Upto(m) => h[U] = g[U]
      BY <3>1
    <3>6. Solves(h, m)
      <4> SUFFICES ASSUME NEW T \in Upto(m)
                   PROVE  h[T] = SumStep(f, h, T)
        OBVIOUS
      <4>1. h[T] = SumStep(f, g, T)
        OBVIOUS
      <4>2. T # {} => h[T \ {Elem(T)}] = g[T \ {Elem(T)}]
        BY <3>2, <3>5
      <4> HIDE DEF h
      <4> QED
        BY <4>1, <4>2 DEF SumStep
    <3> HIDE DEF h
    <3> QED
      BY <2>2, <3>4, <3>6
  <2> QED
    BY <2>5, <2>6
<1>2. IsFiniteSet(S) /\ Cardinality(S) \in Nat
  BY FS_CardinalityType
<1>3. Upto(Cardinality(S)) = SUBSET S
  BY <1>2, FS_Subset
<1>4. \E g \in [SUBSET S -> Nat] : \A T \in SUBSET S : g[T] = SumStep(f, g, T)
  BY <1>1, <1>2, <1>3
<1>5. \E g : g = [T \in SUBSET S |-> SumStep(f, g, T)]
  BY <1>4
<1>6. Sums(f, S) = [T \in SUBSET S |-> SumStep(f, Sums(f, S), T)]
  BY <1>5 DEF Sums
<1> QED
  BY <1>6

\* A sum grows by what a summand that was nothing becomes.
LEMMA SumGrows ==
    ASSUME NEW S, IsFiniteSet(S), NEW f \in [S -> Nat], NEW t \in S, f[t] = 0, NEW c \in Nat
    PROVE  SumFunction([f EXCEPT ![t] = c]) = SumFunction(f) + c
<1> DEFINE h == [f EXCEPT ![t] = c]
           Grown(T) == IF t \in T THEN c ELSE 0
           OK(T) == /\ Sums(f, S)[T] \in Nat
                    /\ Sums(h, S)[T] = Sums(f, S)[T] + Grown(T)
           Bad == {n \in Nat : \E T \in SUBSET S : Cardinality(T) = n /\ ~OK(T)}
<1>1. h \in [S -> Nat] /\ h[t] = c /\ \A x \in S : x # t => h[x] = f[x]
  OBVIOUS
<1> HIDE DEF h
<1>2. /\ \A T \in SUBSET S : Sums(f, S)[T] = SumStep(f, Sums(f, S), T)
      /\ \A T \in SUBSET S : Sums(h, S)[T] = SumStep(h, Sums(h, S), T)
  BY <1>1, SumsDefined
<1>3. ASSUME NEW T \in SUBSET S, T # {} => OK(T \ {Elem(T)})
      PROVE  OK(T)
  <2>1. CASE T = {}
    <3>1. Sums(f, S)[T] = 0 /\ Sums(h, S)[T] = 0
      BY <1>2, <2>1 DEF SumStep
    <3>2. Grown(T) = 0
      BY <2>1
    <3> QED
      BY <3>1, <3>2
  <2>2. CASE T # {}
    <3>1. Elem(T) \in T /\ Elem(T) \in S
      BY <2>2, Smaller
    <3>2. /\ Sums(f, S)[T] = f[Elem(T)] + Sums(f, S)[T \ {Elem(T)}]
          /\ Sums(h, S)[T] = h[Elem(T)] + Sums(h, S)[T \ {Elem(T)}]
      BY <1>2, <2>2 DEF SumStep
    <3>3. CASE Elem(T) = t
      <4>1. Grown(T) = c /\ Grown(T \ {Elem(T)}) = 0
        BY <3>1, <3>3
      <4> HIDE DEF Grown
      <4> QED
        BY <1>1, <1>3, <2>2, <3>1, <3>2, <3>3, <4>1
    <3>4. CASE Elem(T) # t
      <4>1. Grown(T) = Grown(T \ {Elem(T)}) /\ Grown(T) \in Nat
        BY <3>1, <3>4
      <4>2. h[Elem(T)] = f[Elem(T)] /\ f[Elem(T)] \in Nat
        BY <1>1, <3>1, <3>4
      <4> HIDE DEF Grown
      <4> QED
        BY <1>3, <2>2, <3>2, <4>1, <4>2
    <3> QED
      BY <3>3, <3>4
  <2> QED
    BY <2>1, <2>2
<1> HIDE DEF OK
<1>4. Bad = {}
  <2>1. SUFFICES ASSUME Bad # {}
                 PROVE  FALSE
    OBVIOUS
  <2>2. PICK m \in Bad : \A n \in Bad : m <= n
    BY <2>1, Least
  <2>3. PICK T \in SUBSET S : Cardinality(T) = m /\ ~OK(T)
    BY <2>2
  <2>4. T # {} => OK(T \ {Elem(T)})
    BY <2>2, <2>3, Smaller
  <2> QED
    BY <1>3, <2>3, <2>4
<1>5. Cardinality(S) \in Nat
  BY FS_CardinalityType
<1>6. OK(S)
  BY <1>4, <1>5
<1>7. DOMAIN f = S /\ DOMAIN h = S
  BY <1>1
<1>8. SumFunction(f) = Sums(f, S)[S] /\ SumFunction(h) = Sums(h, S)[S]
  BY <1>7, SumIsSums
<1> QED
  BY <1>6, <1>8 DEF OK, h

\* The sum of nothing but zeros.
LEMMA SumOfZeros ==
    ASSUME NEW S, IsFiniteSet(S)
    PROVE  SumFunction([x \in S |-> 0]) = 0
<1> DEFINE f == [x \in S |-> 0]
           OK(T) == Sums(f, S)[T] = 0
           Bad == {n \in Nat : \E T \in SUBSET S : Cardinality(T) = n /\ ~OK(T)}
<1>1. f \in [S -> Nat] /\ DOMAIN f = S /\ \A x \in S : f[x] = 0
  OBVIOUS
<1> HIDE DEF f
<1>2. \A T \in SUBSET S : Sums(f, S)[T] = SumStep(f, Sums(f, S), T)
  BY <1>1, SumsDefined
<1>3. ASSUME NEW T \in SUBSET S, T # {} => OK(T \ {Elem(T)})
      PROVE  OK(T)
  <2>1. CASE T = {}
    BY <1>2, <2>1 DEF SumStep
  <2>2. CASE T # {}
    <3>1. Elem(T) \in S
      BY <2>2, Smaller
    <3>2. Sums(f, S)[T] = f[Elem(T)] + Sums(f, S)[T \ {Elem(T)}]
      BY <1>2, <2>2 DEF SumStep
    <3> QED
      BY <1>1, <1>3, <2>2, <3>1, <3>2
  <2> QED
    BY <2>1, <2>2
<1> HIDE DEF OK
<1>4. Bad = {}
  <2>1. SUFFICES ASSUME Bad # {}
                 PROVE  FALSE
    OBVIOUS
  <2>2. PICK m \in Bad : \A n \in Bad : m <= n
    BY <2>1, Least
  <2>3. PICK T \in SUBSET S : Cardinality(T) = m /\ ~OK(T)
    BY <2>2
  <2>4. T # {} => OK(T \ {Elem(T)})
    BY <2>2, <2>3, Smaller
  <2> QED
    BY <1>3, <2>3, <2>4
<1>5. OK(S)
  BY <1>4, FS_CardinalityType
<1> QED
  BY <1>1, <1>5, SumIsSums DEF OK, f

-----------------------------------------------------------------------------
(***************************************************************************)
(* The accounts.                                                           *)
(***************************************************************************)

\* A step that starts no turn, aborts none and writes no receipt.
Calm ==
    /\ \A u \in Turns : /\ InFlight(u)' => InFlight(u)
                        /\ Working(u)' => Working(u)
                        /\ turns'[u].pc = "none" => turns[u].pc = "none"
                        /\ turns'[u].base = turns[u].base
                        /\ turns'[u].aborted = turns[u].aborted
    /\ controller' = controller /\ receipts' = receipts
    /\ session'.total = session.total
    /\ session'.status \in {session.status, "active", "failed"}

\* Such a step keeps the accounts.
LEMMA CalmAccount == ASSUME AccountInv, Calm PROVE AccountInv'
<1>1. TotalsMatchReceipts'
  BY DEF AccountInv, Calm, TotalsMatchReceipts
<1>2. WorkingTurnIsCancellable' /\ QuietSessionIsQuiet'
  BY DEF AccountInv, Calm, WorkingTurnIsCancellable, QuietSessionIsQuiet
<1> QED
  BY <1>1, <1>2 DEF AccountInv, Calm

\* The turn that writes its receipt adds its cost to the sum of the others'.
LEMMA WriteAccount ==
    ASSUME TypeOK, AccountInv, NEW t \in Turns, Working(t), WriteTotals(t),
           turns'[t].pc = "closing", \A u \in Turns \ {t} : turns'[u] = turns[u],
           controller' = controller
    PROVE  AccountInv'
<1>1. /\ turns[t].cost \in Nat /\ turns[t].base = session.total /\ receipts[t] = 0
      /\ receipts \in [Turns -> Nat] /\ session.total \in Nat
      /\ session.total = SumFunction(receipts)
  BY CostAssumption, TurnFields DEF TypeOK, SessionType, AccountInv, TotalsMatchReceipts
<1>2. session'.total = SumFunction(receipts')
  <2>1. CASE turns[t].cost > 0
    <3>1. session'.total = session.total + turns[t].cost
      BY <1>1, <2>1 DEF WriteTotals, TypeOK, SessionType
    <3>2. receipts' = [receipts EXCEPT ![t] = turns[t].cost]
      BY <2>1 DEF WriteTotals
    <3>3. SumFunction(receipts') = SumFunction(receipts) + turns[t].cost
      <4>1. IsFiniteSet(Turns)
        BY TurnsAssumption
      <4>2. \A c \in Nat : SumFunction([receipts EXCEPT ![t] = c]) = SumFunction(receipts) + c
        <5> HIDE DEF SumFunction
        <5>1. receipts \in [Turns -> Nat] /\ receipts[t] = 0
          BY <1>1
        <5> QED
          BY <4>1, <5>1, SumGrows
      <4> QED
        BY <1>1, <3>2, <4>2
    <3> QED
      BY <1>1, <3>1, <3>3
  <2>2. CASE ~(turns[t].cost > 0)
    BY <1>1, <2>2 DEF WriteTotals
  <2> QED
    BY <2>1, <2>2
<1>3. /\ session'.status = session.status
      /\ \A u \in Turns \ {t} : receipts'[u] = receipts[u]
  BY <1>1 DEF WriteTotals, TypeOK, SessionType
<1>4. \A u \in Turns : Working(u) => InFlight(u)
  BY DEF Working, InFlight
<1>5. \A u \in Turns \ {t} : ~InFlight(u) /\ ~Working(u) /\ ~Working(u)' /\ ~InFlight(u)'
  BY <1>4 DEF AccountInv, InFlight, Working
<1>6. ~Working(t)'
  BY DEF Working
<1>7. WorkingTurnIsCancellable' /\ QuietSessionIsQuiet'
  BY <1>5, <1>6 DEF WorkingTurnIsCancellable, QuietSessionIsQuiet
<1>8. \A u \in Turns : turns'[u].pc = "none" => receipts'[u] = 0
  BY <1>3 DEF AccountInv
<1> QED
  BY <1>2, <1>5, <1>6, <1>7, <1>8 DEF AccountInv, TotalsMatchReceipts

\* The end of a round is calm, or ends the turn's work.
LEMMA RoundAccount ==
    ASSUME TypeOK, AccountInv, NEW t \in Turns, Working(t), NextRound(t),
           controller' = controller
    PROVE  AccountInv'
<1>1. /\ \A u \in Turns \ {t} : turns'[u] = turns[u]
      /\ turns'[t].pc = IF turns[t].round + 1 <= MaxToolRounds THEN "model" ELSE "closing"
      /\ turns'[t].base = turns[t].base /\ turns'[t].aborted = turns[t].aborted
  BY TurnFields DEF NextRound, TypeOK, TurnType
<1>2. CASE turns[t].round + 1 <= MaxToolRounds
  <2>1. session' = session /\ receipts' = receipts
    BY <1>2 DEF NextRound
  <2>2. InFlight(t)
    BY DEF Working, InFlight
  <2>3. Calm
    BY <1>1, <1>2, <2>1, <2>2 DEF Calm, InFlight, Working
  <2> QED
    BY <2>3, CalmAccount
<1>3. CASE ~(turns[t].round + 1 <= MaxToolRounds)
  <2>1. WriteTotals(t) /\ turns'[t].pc = "closing"
    BY <1>1, <1>3 DEF NextRound
  <2> QED
    BY <1>1, <2>1, WriteAccount
<1> QED
  BY <1>2, <1>3

\* A host that waits for its last turn starts the next one from the row's totals.
LEMMA SendAccount ==
    ASSUME HostWaitsFor = "turn", TypeOK, AccountInv, NEW t \in Turns, SendMessage(t)
    PROVE  AccountInv'
<1>1. \A u \in Turns : ~InFlight(u) /\ ~Working(u)
  BY DEF SendMessage, MaySend, InFlight, Working
<1>2. /\ \A u \in Turns \ {t} : turns'[u] = turns[u] /\ ~InFlight(u)' /\ ~Working(u)'
      /\ turns'[t].pc = "started" /\ turns'[t].base = session.total
  BY <1>1, TurnFields DEF SendMessage, TypeOK, TurnType, InFlight, Working
<1>3. /\ controller' = t /\ receipts' = receipts /\ receipts[t] = 0
      /\ session'.total = session.total /\ session'.status = "active"
  BY DEF SendMessage, TypeOK, SessionType, AccountInv
<1>4. WorkingTurnIsCancellable' /\ QuietSessionIsQuiet' /\ TotalsMatchReceipts'
  BY <1>2, <1>3 DEF WorkingTurnIsCancellable, QuietSessionIsQuiet, AccountInv,
     TotalsMatchReceipts
<1> QED
  BY <1>2, <1>3, <1>4 DEF AccountInv

\* The turn that ends was the only one.
LEMMA FinallyAccount ==
    ASSUME TypeOK, AccountInv, NEW t \in Turns, InFlight(t), TurnFinally(t)
    PROVE  AccountInv'
<1>1. \A u \in Turns \ {t} : turns'[u] = turns[u] /\ ~InFlight(u)
  BY DEF TurnFinally, TypeOK, AccountInv
<1>2. turns'[t].pc = "done"
  BY TurnFields DEF TurnFinally, TypeOK, TurnType
<1>3. \A u \in Turns : ~InFlight(u)' /\ ~Working(u)'
  BY <1>1, <1>2 DEF InFlight, Working
<1>4. receipts' = receipts /\ session'.total = session.total
  BY DEF TurnFinally, TypeOK, SessionType
<1>5. WorkingTurnIsCancellable' /\ QuietSessionIsQuiet' /\ TotalsMatchReceipts'
  BY <1>3, <1>4 DEF WorkingTurnIsCancellable, QuietSessionIsQuiet, AccountInv,
     TotalsMatchReceipts
<1>6. \A u \in Turns : turns'[u].pc = "none" => turns[u].pc = "none"
  BY <1>1, <1>2
<1> QED
  BY <1>3, <1>4, <1>5, <1>6 DEF AccountInv

\* Whatever works can be aborted, so after an abort what still works was aborted.
LEMMA AbortAccount ==
    ASSUME TypeOK, AccountInv, AbortController, receipts' = receipts,
           session'.total = session.total
    PROVE  AccountInv'
<1>1. ASSUME NEW u \in Turns
      PROVE  /\ turns'[u].pc = turns[u].pc /\ turns'[u].base = turns[u].base
             /\ turns'[u].aborted = (turns[u].aborted \/ u = controller)
  <2>1. turns[u] \in TurnType
    BY TurnFields
  <2>2. turns[u].aborted \in BOOLEAN
    BY <2>1 DEF TurnType
  <2>3. CASE u # controller
    BY <2>2, <2>3 DEF AbortController, TypeOK
  <2>4. CASE u = controller
    BY <2>1, <2>4, TurnsAssumption DEF AbortController, TypeOK, TurnType
  <2> QED
    BY <2>3, <2>4
<1>2. \A u \in Turns : (InFlight(u)' <=> InFlight(u)) /\ (Working(u)' <=> Working(u))
  BY <1>1 DEF InFlight, Working
<1>3. \A u \in Turns : Working(u)' => turns'[u].aborted
  BY <1>1, <1>2 DEF AccountInv, WorkingTurnIsCancellable
<1>4. WorkingTurnIsCancellable' /\ QuietSessionIsQuiet' /\ TotalsMatchReceipts'
  BY <1>3 DEF WorkingTurnIsCancellable, QuietSessionIsQuiet, AccountInv, TotalsMatchReceipts
<1> QED
  BY <1>1, <1>2, <1>4 DEF AccountInv

\* Every step keeps the accounts.
LEMMA AccountStep ==
    ASSUME HostWaitsFor = "turn", CallsInv, AccountInv, [Next]_vars
    PROVE  AccountInv'
<1>0. /\ TypeOK /\ turns \in [Turns -> TurnType] /\ session \in SessionType
      /\ \A t \in Turns : turns[t] \in TurnType
  BY TurnFields DEF CallsInv, TypeOK
<1>1. ASSUME NEW t \in Turns, SendMessage(t)
      PROVE  AccountInv'
  BY <1>0, <1>1, SendAccount
<1>2. ASSUME NEW t \in Turns,
             \/ BeginModel(t) \/ ModelUsage(t) \/ ModelFails(t)
             \/ ToolStarts(t)
             \/ AbandonStarted(t)
             \/ \E approved, always \in BOOLEAN : ApproveTool(t, approved, always)
             \/ ApprovalTimesOut(t)
      PROVE  AccountInv'
  <2>1. /\ controller' = controller /\ receipts' = receipts /\ session' = session
        /\ \A u \in Turns \ {t} : turns'[u] = turns[u]
    BY <1>0, <1>2 DEF BeginModel, ModelUsage, ModelFails, ToolStarts, AbandonStarted,
       ApproveTool, ApprovalTimesOut
  <2>2. /\ turns'[t].base = turns[t].base /\ turns'[t].aborted = turns[t].aborted
        /\ \/ turns'[t].pc = turns[t].pc
           \/ Working(t) /\ turns'[t].pc \in {"model", "closing", "running", "done"}
    BY <1>0, <1>2 DEF BeginModel, ModelUsage, ModelFails, ToolStarts, AbandonStarted,
       ApproveTool, ApprovalTimesOut, Working, TurnType
  <2>3. Calm
    BY <2>1, <2>2 DEF Calm, Working, InFlight
  <2> QED
    BY <2>3, CalmAccount
<1>3. ASSUME NEW t \in Turns, NEW tool \in Tools, ModelCallsTool(t, tool)
      PROVE  AccountInv'
  <2>1. /\ controller' = controller /\ receipts' = receipts /\ session' = session
        /\ \A u \in Turns \ {t} : turns'[u] = turns[u]
    BY <1>0, <1>3 DEF ModelCallsTool
  <2>2. /\ turns'[t].base = turns[t].base /\ turns'[t].aborted = turns[t].aborted
        /\ turns'[t].pc = "requested" /\ turns[t].pc = "model"
    BY <1>0, <1>3 DEF ModelCallsTool, TurnType
  <2>3. Calm
    BY <2>1, <2>2 DEF Calm, Working, InFlight
  <2> QED
    BY <2>3, CalmAccount
<1>4. ASSUME NEW t \in Turns,
             \/ ToolRejected(t)
             \/ ToolFinishes(t)
             \/ \E tool \in Tools : ModelCallsUnknownTool(t, tool)
      PROVE  AccountInv'
  <2>1. NextRound(t) /\ Working(t) /\ controller' = controller
    BY <1>4 DEF ToolRejected, ToolFinishes, ModelCallsUnknownTool, Working
  <2> QED
    BY <1>0, <2>1, RoundAccount
<1>5. ASSUME NEW t \in Turns, ModelEnds(t)
      PROVE  AccountInv'
  <2>1. WriteTotals(t) /\ Working(t) /\ controller' = controller
    BY <1>5 DEF ModelEnds, Working
  <2>2. turns'[t].pc = "closing" /\ \A u \in Turns \ {t} : turns'[u] = turns[u]
    BY <1>0, <1>5 DEF ModelEnds, TurnType
  <2> QED
    BY <1>0, <2>1, <2>2, WriteAccount
<1>6. ASSUME NEW t \in Turns, TurnEnds(t) \/ AbandonTurn(t)
      PROVE  AccountInv'
  <2>1. InFlight(t) /\ TurnFinally(t)
    BY <1>6 DEF TurnEnds, AbandonTurn, InFlight
  <2> QED
    BY <1>0, <2>1, FinallyAccount
<1>7. CASE CancelTurn \/ DisposeSession \/ CancelChildSession
  <2>1. AbortController /\ receipts' = receipts /\ session'.total = session.total
    BY <1>0, <1>7 DEF CancelTurn, DisposeSession, CancelChildSession, SessionType
  <2> QED
    BY <1>0, <2>1, AbortAccount
<1>8. CASE \/ CancelChildSessionResumes
           \/ ResumeSession
           \/ \E mode \in Modes : SetMode(mode)
           \/ UNCHANGED vars
  <2>1. /\ turns' = turns /\ controller' = controller /\ receipts' = receipts
        /\ session'.total = session.total
        /\ session'.status \in {session.status, "active", "failed"}
    BY <1>0, <1>8
       DEF CancelChildSessionResumes, ResumeSession, SetMode, SessionType, vars
  <2>2. Calm
    BY <2>1 DEF Calm, Working, InFlight
  <2> QED
    BY <2>2, CalmAccount
<1>9. CASE Restart
  <2>1. ASSUME NEW u \in Turns
        PROVE  /\ ~InFlight(u)' /\ ~Working(u)'
               /\ turns'[u].pc = "none" => turns[u].pc = "none"
    BY <1>0, <1>9 DEF Restart, InFlight, Working, TurnType
  <2>2. session' = session /\ receipts' = receipts
    BY <1>9 DEF Restart
  <2> QED
    BY <2>1, <2>2 DEF AccountInv, TotalsMatchReceipts, WorkingTurnIsCancellable,
       QuietSessionIsQuiet
<1> QED
  BY <1>1, <1>2, <1>3, <1>4, <1>5, <1>6, <1>7, <1>8, <1>9 DEF Next, TurnStep

\* They hold at the start.
LEMMA AccountInit == Init => AccountInv
<1> SUFFICES ASSUME Init PROVE AccountInv
  OBVIOUS
<1>1. \A t \in Turns : turns[t].pc = "none" /\ ~InFlight(t) /\ ~Working(t)
  BY DEF Init, InFlight, Working
<1>2. session.total = 0 /\ session.status = "active" /\ receipts = [t \in Turns |-> 0]
  BY DEF Init
<1>3. TotalsMatchReceipts
  BY <1>2, SumOfZeros, TurnsAssumption DEF TotalsMatchReceipts
<1> QED
  BY <1>1, <1>2, <1>3 DEF AccountInv, WorkingTurnIsCancellable, QuietSessionIsQuiet

\* The accounts of a host that sends a message after the answer to its last one.
LEMMA AccountsKept ==
    ASSUME HostWaitsFor = "turn"
    PROVE  Spec => []AccountInv
<1>1. CallsInv /\ AccountInv /\ [Next]_vars => AccountInv'
  BY AccountStep
<1> QED
  BY <1>1, AccountInit, CallsCorrect, PTL DEF Spec

\* sendMessage's totals: in whatever way its turns end, the session's total is the sum
\* of its receipts, although each turn adds to a copy of the row it took at its start.
THEOREM TotalsAreReceipts ==
    ASSUME HostWaitsFor = "turn"
    PROVE  Spec => []TotalsMatchReceipts
<1>1. AccountInv => TotalsMatchReceipts
  BY DEF AccountInv
<1> QED
  BY <1>1, AccountsKept, PTL

\* turnControllers: a turn that works and was not aborted is the one that cancelTurn
\* aborts, although every turn's end deletes the session's entry.
THEOREM WorkIsCancellable ==
    ASSUME HostWaitsFor = "turn"
    PROVE  Spec => []WorkingTurnIsCancellable
<1>1. AccountInv => WorkingTurnIsCancellable
  BY DEF AccountInv
<1> QED
  BY <1>1, AccountsKept, PTL

\* The status of a session that says idle or completed is true of its turns.
THEOREM QuietIsQuiet ==
    ASSUME HostWaitsFor = "turn"
    PROVE  Spec => []QuietSessionIsQuiet
<1>1. AccountInv => QuietSessionIsQuiet
  BY DEF AccountInv
<1> QED
  BY <1>1, AccountsKept, PTL
==============================================================================
