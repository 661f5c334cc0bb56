# Capix Code, in TLA+

This directory models the parts of Capix Code whose correctness depends on the
order in which things happen: the orchestration of delegated agents, the turns
and approvals of the agent runtime, the accounting of spend, the supervision of
the MCP server, the credentials, and the many small state machines of the
plugin and of the patched engine. TLC checks the models on small instances and
TLAPS proves the properties of the core for every instance. Everything is
translated from the source; line numbers are in `PROJECT.json` under `map`, the
hazards that the properties are about under `hazards`.

## The system

Capix Code is a coding agent. A Rust launcher starts a patched engine, which
loads `src/src/plugin.ts`; the plugin wires the pieces below together in one
Node process. Node runs callbacks one at a time, so a race is between the code
before an `await` and the code after it, between two callbacks, or between
processes that share files or the keyring.

| Component | State | Operations | What is hard |
|---|---|---|---|
| Orchestration engine (`agent-runtime/src/orchestration.ts`) | delegations, FIFO queue, abort controllers as slots, pipelines, a table of rows | createPipeline, startPipeline, retryStage, skipStage, cancelPipeline, delegate, cancelDelegation, finishDelegation, updateProgress, recordUsage, pump, rehydration | executors that settle after they were cancelled; `cancelPipeline` awaits once per stage; slots freed a microtask after the end; restart |
| Agent runtime (`runtime.ts`) | session row, controllers by session, approval waiters, grants, receipts | sendMessage (a generator), executeToolCall, approveTool, cancelTurn, resumeSession, disposeSession, setMode, cancelChildSession | consumers that stop pulling; cancel and send again while the old turn unwinds; approval, timeout and abort racing |
| Modes (`modes.ts`) | none | checkModePermission | order of allowlist, risk class and grant |
| Spend (`spend-cap.ts`, `capix-provider.ts`, `auto.ts`, the invoker of `plugin.ts`) | process ledger, turn totals, tracker, delegation cost | assert before a request, record at its end, deltas of running totals | check and payment are a stream apart; concurrent sessions; two ways to report a cost |
| MCP supervisor (`mcp-supervisor.ts`) | child, health, epoch, backoff timers | start, reconnect, stop, error, exit, data, timers | timers and listeners that outlive what they were for |
| Launcher (`launcher/src/main.rs`) | keyring, lock directory | access_token under RefreshLock | several processes; stale locks; crashes and lost answers around a rotation |
| Credential broker (`broker.ts`) and its clients | tokens, single flight, store | login, getAccessToken, refresh, logout, revoke; the clients' retry after a 401 | logout or a login during a refresh; rotation |
| Transport and sessions of the runtime (`transport.ts`, `runtime.ts`, `store.ts`) | sessions, plans, diffs | JSON-RPC handlers, which are not awaited | two calls between each other's awaits; lists read page by page |
| Timeline, profiler, diff, receipts of the runtime | folds over events; files; receipts and roots | record, rollback, create and apply patches, anchor, verify | rollback out of order; edits that interleave with it |
| Planner, deployments, sandpits, private models (`planner/`) | the current plan, designs, deployments, jobs | plan, execute, deploy, quote/commit/poll, destroy, train | awaits between quote, commit and poll; failures after money was spent |
| Editing, completion (`editing/`, `completion/`) | an edit plan, files; sequence numbers, cache | apply, rollback; request, stream, accept | torn writes, restores that fail; late answers |
| Codebase index, retrieval (`codebase-index/`) | index, cache file, watcher, push | indexAll, update, sync; rank and pack | changes during a re-index or a push |
| Intelligence (`intelligence/`) | layers of files shared by processes | exit reports, memos, consolidation, dream cycle, genesis, user model | load, change and save by several processes |
| Turn context (`plugin.ts`, `skills/`, `planner/compaction.ts`) | task, transcript, enabled skills | chat.message, system transform, compaction | sessions share them; an await inside compaction |
| Debugging (`debugging/`) | breakpoints, pause, timeline, cursor | run, resume, pause, replay | resume before the pause is waited for |
| Inference stream (`ai-sdk-provider.ts`, `capix-provider.ts`) | attempt, deadline, open parts | request, 401 refresh, stream, retry, backoff | retry after output; silence anywhere |
| Engine patches (`patches/engine`) | sessions, messages, jobs, the loop of a headless run | create, patch, fork, remove, page, compact, send, run | children made during a removal; patches that overlap; who answers permissions |
| The rest | see `PROJECT.json` | tables, single calls, rendering, string checks | little that a model would tell more of than a unit test |

They interact so: the plugin creates a runtime with the model invoker over
`capix-provider.ts`, which asks the broker for tokens, which the launcher has put
into the keyring; the orchestration engine runs each delegation as a child
session of the runtime through `createRuntimeExecutor`, and `runAutonomous` of
`auto.ts` drives one session itself; both consume the turn's events and account
for its cost. The orchestration panel listens to the engine. The supervisor is
started with the plugin and reconnected after a login. The planner calls the
gateway through `routing-client.ts`, and every change of the index is pushed to it.

## The modules

### The core

**Orchestration**: `pool` is the engine's delegations (statuses, the queue, the
controllers, and what each executor's promise chain is doing), `pipelines` the
pipelines, `owner` the pipeline of a delegation, `rows` the statuses in the
table, `cancelling` the stage at which a `cancelPipeline` is suspended. Every
method is an action, and so are the callbacks of an executor's promise:
`ExecutorSettles` (then/catch and `settle`) and, a microtask later,
`ExecutorFinally` (give the slot back, pump, persist). `pump` is a fixed point in
one step, as it is synchronous. Persisting is part of each action that
persists; with `WritesMayFail` a write may be lost, as the code swallows what the
store throws. `Restart` builds the engine anew from the newest `HistoryLimit`
rows. The id of a delegation is its number.

**DelegationLifecycle** is the abstract specification: a delegation is created,
waits, runs within a capacity, ends once and for all; starts are FIFO; a restart
cancels what was live, and may find an older status when writes are lossy.
Orchestration implements it by the mapping `state <- pool.status`.

**OrchestrationPanel** composes Orchestration with the store of the panel: the
engine emits in the middle of its operations, the store copies the engine at
each event, and every action of the engine is taken together with what its last
event lets the store see.

**ModePermissions** is `checkModePermission` with the five profiles, as an
operator; **AgentRuntime** uses it. AgentRuntime models one session and a set of
turns, each a generator: `turns[t].pc` is the yield or await where it stands,
`session` the row, `controller` the entry of `turnControllers`, `waiters` the
pending approvals. `BeginModel`, `ModelUsage`, `ModelCallsTool`, ... are the
stretches between two awaits; `TurnFinally` is the finally block, reached at the
end or when a consumer abandons the generator. `HostWaitsFor` says when a host
sends again: once its last turn is over (`"turn"`) or once the session says so
(`"status"`). `MayAbandon` lets a consumer stop pulling at a yield.

**SpendAccounting** follows a cost: `Request` asserts the cap, a stream reports (as
an event of its own, or in `capix.final` alone if `FinalOnly`), the turn adds it to
its total, and a driver (delta to its tracker) or an executor (`recordUsage`)
consumes the running total. An attempt that is retried is a request.

**McpSupervisor** has every child that was ever spawned, each with what it was
asked, which `once` listeners are on its stdout, and whether it was told to
stop; a dead child may still have answers to be read.

Modules named `...Proofs` hold the theorems about the module of that name;
`GatewayProofs` has more of those about ClientParts.

### Clients of the gateway and of the operator (ClientParts)

- **TokenRefresh**: launcher processes that take the lock directory (or find it stale),
  read the keyring (or migrate the token of the plaintext file), exchange a single-use
  refresh token, write and verify; a crash may come anywhere, the answer may be lost, and
  the keyring may refuse to read, write or delete, or do it after it was given up: its
  calls run in threads of their own (`keyring.late`). `history` keeps the locks that were
  removed as stale, of the dead and of the living, and the tokens that a failure
  left where another process may read them (`stranded`). The server, which is
  external, takes a second use of a token for a replay.
- **CredentialBroker**: the in-memory tokens, the one refresh in flight with its
  waiters, login, logout, revocation, the store, and three kinds of clients that
  renew once after a 401. Grant n has access and refresh token n. Every operation of
  the store may throw, which the code only logs; `store.left` has the used tokens that a
  read or delete so left in it.
- **PlanExecution**: `plan`, `execute`, `updateStep` and the subagents of the steps in
  their worktrees. A step is its id and its status.
- **Provisioning**: architect, covenant, deployer and its MVP and full-solution
  variants: design, approval, quote, commit, monitoring. **Sandpits**: create, jobs,
  destroy and the account. **PrivateModels**: training jobs followed by polls,
  deployment, catalog and resolution of a model.
- **SessionDebugger**: the `run()` generator with its pauses, `resume` and `pause` by
  the operator at any time, and the replay cursor.
- **AcpServer**: handlers that run up to their first await, awaited file and process
  calls, sessions, plans, diffs and paged lists. A patch reads the file, or nothing
  when it cannot be read; its write may fail before or after it has emptied the file.
- **ReceiptAnchor**: receipts, the root over them, and what verification and the
  epoch say of it. Any column of a row may be changed by other means, the cost and the
  leaf hash too. SHA-256 is taken to be injective.

### The workspace (WorkspaceParts)

- **UnifiedDiff**: `createUnifiedDiff` and `applyUnifiedDiff` loop by loop, over every
  pair of contents up to a length. **AtomicEdits**: decisions, the awaited writes of
  an edit plan, the restore after a failure (which may fail) and the rollback
  asked for. **InlineCompletion**: sessions over a debounced, cached engine.
- **TurnContext**: transcript, task, selected skill, compaction over an await.
  **ContextRetrieval**: scoring, ranking, the slice of a file that does not fit.
- **TurnRecords**: the folds of profiler and timeline over the events of a turn that
  writes files, rollback and hydration.
- **AgentMemory**: reports, memos, consolidation, dream cycle and spirit, by processes
  that share directories. **AgentBriefing**: the documents a briefing takes, and
  the user model that every process reads and writes whole.

### The engine (MCEngineParts)

- **SessionHistory**: messages, pages, fork, compaction and what the model is shown.
  **EngineSessions**: rows, the setters over `patch`, background jobs, removal with
  children. **ModelMessages**: what is sent of a conversation.
- **InferenceStream**: one model call over its attempts, with one deadline, the
  refresh after a 401, retries and backoff, and the folding of chunks into parts.
- **HeadlessRun**: `run` with its loop over events, permission requests and exit
  code. **CodebaseIndex**: the index, its cache, watcher and push.

The parts of a host module share no state with each other in the code either
(what they do share, the broker's tokens, is a fresh token to them). A host puts
its modules side by side: `part` is chosen initially, the part starts in any of its
initial states, and only it takes steps. So one run explores each module
separately, and no state is a product of two. The bounds of MCEngineParts stand in its
INSTANCE ... WITH; those of ClientParts and WorkspaceParts, about which there are proofs,
are constants that `ClientParts.cfg` and `WorkspaceParts.cfg`, with MCClientParts and
MCWorkspaceParts, give values. A property of a host is a conjunction of its modules'.

The plan of a module's operations is that of the code: one action per handler,
method or stretch between two awaits; definitions keep the source's names. The
type invariants of the component modules (`BrokerTypeOK`, `SandpitTypeOK`, ...) are
stated in them.

## The runs

| Run | Instance | What it shows |
|---|---|---|
| orch_queue | 3 delegations, 1 slot, 1 pipeline of 1 stage that may be cancelled, failures, 1 restart, history of 2, lossy writes | types; queue and statuses agree; the slot is bounded and never idle beside a queue; the lifecycle is implemented |
| orch_cancel | 1 pipeline of 2 stages with `cancelPipeline`, 3 delegations, 1 slot, 1 restart, an unknown role, failures, the panel | stages and delegations stay linked, cancelled pipelines are quiet, stages start in order, rows left by a crash are retired, the panel shows the work; cancellation and queue make progress |
| runtime_turns | 2 turns, 1 tool, cost 1, restart, abandoning consumers, a host that waits for its turn | session totals are the sum of the receipts; a working turn can be cancelled; a quiet session is quiet |
| runtime_permissions | 2 turns, 3 tools (one invented), modes ask and debug, all answers | no forbidden tool runs whatever was granted; a turn whose consumer pulls to the end leaves nothing behind; turns end |
| spend_cap | 1 driver and 1 delegation, cap 3, costs up to 2 | the overshoot of the ledger is less than a stream per session; the tracker counts once; at its cap the driver asks no more |
| mcp_restarts | 3 children, 1 restart, 2 host calls, throwing spawns, late answers | one live server at most that was not told to stop; restarts are bounded; each backoff ends |
| client_parts | the instances of ClientParts: 3 launchers and 4 tokens; 2 providers; 2 plans and 2 executions; 3 debugger events; 2 designs and 2 deploys; 1 sandpit; 2 model calls; 3 sessions and 4 calls; 3 receipts with 2 costs, 1 edit | launchers take turns at the token and replay only what a failure stranded; the broker repeats no other token, and a refused request goes out with another one; what is reported is what the gateway did; the operator sees the work; executions touch their own plan |
| workspace_parts | the instances of WorkspaceParts: contents of up to 5 lines; 2 files; 2 completions; 4 messages; 3 files; 2 agents and 2 consolidators; 4 documents; 2 turns | patches round-trip, plans are all or nothing and changes are undone whole; suggestions fit; contexts are the best within their budget; what a transcript loses is explained; records are kept; patterns are lost only to those who could not see them |
| engine_parts | those of MCEngineParts: 4 messages; 3 sessions; 3 attempts; 2 permission requests; 3 files | sessions are whole; one answer, told truly; nothing is changed aside; calls, runs and index updates end |
| orch_cancel_race | 1 pipeline of 2 stages with `cancelPipeline`, 4 delegations, 2 slots, failures | **violated**: finding 1 |
| spend_over_count | one delegation | **violated**: finding 2 |
| orch_failure_block | 1 pipeline of 3 stages, 3 delegations, 1 slot, failures | **violated**: finding 3 |

Each property of a passing run has a mutant of the code in `PROJECT.json` that
breaks it. A property of a host module has several parts and one mutant there; the
modules keep a mutant operator beside the definition it mutates for the other parts
too, and TLC finds each of them out under the same cfg when it is put in its place:

| Property | Part | Of | Mutant |
|---|---|---|---|
| LaunchersTakeTurns | TokenRefresh | Acquire | AcquireExisting |
| CredentialsAreCurrent | CredentialBroker | Load, Unauthorized | LoadUnchecked, UnauthorizedKeepingEnv |
| GatewayIsTold | ReceiptAnchor | NextLevel | LevelWithoutLast |
| | Provisioning, Sandpits, PrivateModels | MonitorFails, JobFinishes, CatalogEntry | MonitorForgets, JobFinishesStale, AnyEntry |
| OperatorSeesTheWork | AcpServer | PatchWrites, FirstPage | PatchWritesLines, FirstPageSkipping |
| | PlanExecution | SpawnThrown | ForgetThrown |
| | SessionDebugger | FindHit, Seek | FindHitAgain, SeekKeeping |
| OnlyItsPlan | PlanExecution | UpdateStep | UpdateAnyPlan |
| EditsAreWhole | AtomicEdits, TurnRecords | StartRestore, Rollback | StartRestoreShort, RollbackUnordered |
| CompletionsFit | InlineCompletion | CacheKey, Supersede | CacheKeyOfFile, SupersedeSilently |
| ContextIsTheBest | ContextRetrieval | Packed, BestSlice | PackedUntilUnreadable, WindowUnshrunk |
| | AgentBriefing | SearchMemory | SearchUnsorted |
| LossesAreExplained | TurnContext | Compacted | CompactedBehind |
| RecordsAreKept | TurnRecords, UnifiedDiff, AgentMemory | Closed, Hunk, MarkConsolidated | ClosedWithoutResponse, HunkCountingNew, MarkMoved |
| PatternsLostWereMissed | AgentBriefing | Saved | SavedOver |
| SessionsAreWhole | EngineSessions, ModelMessages, SessionHistory | JobsOf, ToolPart, LatestFinished | JobsOfChildren, ToolPartKeepingMedia, LastFinished |
| AnswersAreTold | InferenceStream, HeadlessRun | Fail, Finish | FailRetrying, FinishEarly |
| NothingIsChangedAside | EngineSessions, SessionHistory | Patched, Clone | PatchedClearing, CloneKeepingTail |
| CallsAndRunsEnd | InferenceStream, HeadlessRun | Deadline, Reply | DeadlineOfHandshake, ReplyApproving |
| IndexCatchesUp | CodebaseIndex | Changed | ChangedKeepingGone |

Bounds. Two stages, turns, patches or callers are enough for every pair of
actors to meet; three delegations for one to run, one to wait and one to be
created between, or for two stages and a retry.
One slot makes every delegation contend, also with a cancelled executor that runs
on. Three launchers let two find a lock stale while the third
holds it, and two failures are a slow refresh and what follows from it, or a crash and a
keyring that refuses. Three sessions are a parent, a child and a child made late. `Max...`
constants bound behaviours and are not in the code, except those that carry a
name of the code: `MaxParallel`, `HistoryLimit`, `MaxToolRounds`, `Cap`,
`MAX_RESTARTS`, `MaxAttempts`, `MaxFiles`, `CacheMaxEntries`, `PageSize`, `Threshold`,
made small. Behaviours end at these bounds, so deadlock is not checked.
Two pipelines share nothing but the slots, and more slots, stages or delegations
only multiply states: the safety properties of orch_queue and orch_cancel are proved
for all of them.

Fairness is weak, and on what the event loop, a timer or a process owes: the
continuation of an await that is ready, promise callbacks, timers. Executors are
assumed to settle, as each awaits a turn that ends (TurnsEnd shows that of the
runtime, given a model that answers; CallsAndRunsEnd that the provider's calls end,
given a token). In
engine_parts, for the inference stream: time passes, and the backoff and the deadline
fire; nothing is assumed of the gateway, nor of the token endpoint, whose requests have no
time limit (`broker.ts:304`), so a call ends or waits for its token for ever. For
a headless run: the engine, the loop over its events and the process go on. For
the index: the change of an index is handled, the debounce fires, and a push
under way comes to its end, which may be a failure. Nothing is assumed of
operators, hosts, file changes or MCP children.

## Findings

1. `orchestration.ts:450`: a stage that fails between two awaits of
   `cancelPipeline` sets the cancelled pipeline to blocked (orch_cancel_race).
2. `orchestration.ts:946`: running totals are fed to an accumulating `recordUsage`,
   so a delegation with several model calls reports too much (spend_over_count).
3. `orchestration.ts:374`: `skipStage` of another stage lifts the block that a failed
   stage had put on its pipeline, and the next stage starts beside the failed one,
   where `orchestration.ts:8-9` says that failures block the pipeline until the
   operator retries or skips the stage (orch_failure_block).

Observations made while modelling. Where a property is named it is in the
module, and TLC shows the behaviour when it is checked there; where a
hypothesis keeps it out of a run, that is said.

Orchestration and its panel

- Without an executor `pump` is not bounded by `maxParallel` (its controllers stay
  empty) and starts every delegation at once. Hence `HasExecutor =>` in
  SlotsBounded.
- An unknown role throws in the middle of advancing (`orchestration.ts:411`).
- The panel shows a stage that went back to pending as running until the next
  event (`PanelShowsStages`; `orchestration-panel.ts:15-16`).

Runtime

- `round <= maxToolRounds` makes one model call more than the option says
  (`runtime.ts:347`). A failed turn leaves no receipt and no totals (`:451`).
- A consumer that stops at `turn.started` leaves the controller registered and the
  session active (`:320`); hence the consumers of runtime_permissions pull on.
- Totals are computed from the row read when the turn began (`:439`), and the
  finally block deletes the session's controller, also that of a turn begun
  meanwhile (`:467`): with `HostWaitsFor = "status"` TotalsMatchReceipts is violated.
- The `failed` of `cancelChildSession` is written an await after the abort.
- Concurrent `diff.apply` calls lose updates, and any error of `readFile` counts as
  an empty file, which is then written over the real one (`:1053-1069`); the diffs no
  longer lead to the file from there on. A patch of zero context over an empty line can make
  `diff.ts:172` loop for ever (`PatchEnds`). Rollback deletes a file that was empty
  before (`timeline.ts:296`). The profiler loses the pending usage of an interrupted
  turn.
- `verifyReceipt` compares a row with the leaf hash stored in the same row and nothing
  with a root (`runtime.ts:859-860`): a row that was edited together with its hash is
  verified, which `receipts.ts:8-10` and `runtime.ts:857-858` deny. RootsTellReceipts is
  therefore about a verification under a root that was given while the hashes were those
  recorded. `getEpoch` ignores its argument, and the canonical form joins fields with
  an unescaped `|`.

Money and processes

- A cost that comes in `capix.final` never reaches the process ledger
  (`capix-provider.ts:572`; `LedgerIsBilled`). The ledger may overshoot by up to one
  stream per session, which `spend-cap.ts:8-9` denies.
- An MCP server that dies of a signal, or exits with 0, is neither restarted nor
  reported (`mcp-supervisor.ts:78`; `DeadServerNoticed` with
  `ExitKinds = {"signal"}`); late stdout after `stop()` lifts the health.
- A lock is taken from a living launcher (`NeverStolen`), which `main.rs:666-667` denies:
  when its refresh is slower than the stale time (the time limits of keyring and server add
  up to more), or when two others find the lock of a crashed one stale and the second
  removes the lock that the first has made since. Each such lock lets one more process
  at the token.
- A keyring that refuses the rotated token leaves the used one stored, to be replayed by
  the next launcher (`main.rs:956`); a keyring that is given up writes later, over what
  others wrote since (`:736`), and a delete that fails is not noticed (`:942`). `login`
  takes no lock (`:872`), and is not modelled.
- The broker waits for a token without a limit of time, and its provider and clients with
  it (`broker.ts:304`).
- The broker: a write of the store that fails makes the next refresh look like a
  replay and revokes the device; when the delete fails as well, the used token stays and
  is presented again (`broker.ts:589`); that a new process loads such a token is not
  modelled; a 401 of an old refresh clears the tokens a login
  has stored meanwhile; a refresh stores tokens after a logout (`broker.ts:330`).
  The routing client makes a new idempotency key for its retry after a 401
  (`routing-client.ts:584-590`), and its clients may retry with the same token
  (hence `OtherClients <- {}`).
- A commit whose monitoring fails leaves a deployment that runs and is billed
  (`ProvisionedOnce`); `sandpit.destroy` counts the container's spend twice.

Workspace

- The edit planner has no guard on its status, a torn write whose restore fails
  leaves a half-edited file (`NeverHalfEdited`), and writes of others are
  overwritten. The key of the completion cache leaves out recent edits.
- `planner.execute` ignores dependsOn, goes on after failures, mixes up steps with
  the same id and runs steps twice when called twice (`RunsInWorktree` for the
  worktrees); a cancelled subagent reports a timeout.
- Compaction drops what was said while it awaited; the task is shared by sessions
  and a pinned skill is replaced by an automatic one.
- A slice shows the head of a file that matched further down (`SliceShowsTheMatch`,
  `retriever.ts:578-580`). Files changed between `indexAll` and `startWatch` go
  unnoticed; a push that failed is not tried again (`ServerIsTold`); dependents of
  a changed file are not always known (`DependentsAreKnown`).
- Documents of the same day overwrite each other and reports may be consolidated
  twice (`ConsolidatedOnce`); the spirit and the user model lose updates, and a torn
  user model reads as an empty one. Stale documents are ranked before fresh ones
  (`StaleComesLast`), and the balanced mode of genesis is never used.

Engine and stream

- A response that is still arriving is cut at 120 seconds (`OnlyStallsAreCut`;
  `capix-provider.ts:488`). `capix.error` is never retried, a body that ends without
  `capix.final` drops its tool calls, a backoff ignores the abort.
- A second `resume` lets the next pause pass (`PauseBlocks`,
  `agent-debugger.ts:238-241`).
- `patch` loses updates (`session.ts:742-755`); the failure of one child makes the
  whole removal fail, and children made during it are orphaned. A fork may be
  torn by messages that arrive.
- A headless run waits for ever when a subagent asks for a permission; CallsAndRunsEnd says
  "unless nobody can answer". When its event stream ends by itself it exits with 0, whatever
  the turn did, once the prompt is answered (`run.ts:701`).

## What is proved

Each invariance proof is Init => IInv, IInv /\ [Next]_vars => IInv' with one case
per action, and IInv => the property, for every value of the constants.

`OrchestrationProofs`, for any number of delegations, slots, pipelines, stages and
restarts, any history limit, and writes that may fail: `TypeCorrect`
(`Spec => []TypeOK`) and `ParallelBound` (`Spec => []SlotsBounded`). SlotsBounded is
not inductive, as slots are given back by a callback that knows nothing of
statuses. IInv adds, for an engine with an executor: a running delegation holds
a controller, one whose executor has settled does not run (so the finally
callback frees no slot in use), and there are at most MaxParallel controllers.
There is a lemma for each operation on the engine (PumpOK, EnqueueOK, CancelOK,
SettleOK, ReleaseOK), one for the types of each operator on pipelines, and the
loop of `pump` is reasoned about as its least exit (PumpLengthIsLeast).

There too, about its queue: `QueueAgrees` (`Spec => []QueueMatchesStatus`) and
`NoSlotIdles` (`Spec => []NoIdleSlot`). QInv adds to IInv that the queue is in the
order of its ids, that it holds exactly the queued delegations, that the slots
are taken whenever it is not empty, and that ids the engine has not given out
are unknown to it and to the table. SpliceQueue and PumpQueue say what the two
removals leave of a queue.

In its second part, `EngineImplementsLifecycle`
(`Spec => ImplementsLifecycle`). Every step but a restart is a chain of calm changes
(nobody starts) that may end in a pump, and a pump starts the oldest; so it is a
Progress of the lifecycle, whose capacity is IInv's. For Reboot two facts on the
table are added: a row says what its delegation's status is, or what it was while
it was live if writes may fail (RowsFollow), and a restart brings back only
what the engine knew (HistoryKnown: the newest rows stay the newest).

In its third part, for any pipelines, stages, unknown roles and restarts:

- `CancelledPipelinesRest` (`Spec => []CancelledIsQuiet`) and `StagesTrack`
  (`Spec => []StageTracksDelegation`). Neither is inductive. PipesInv says of every
  pipeline what links its stages to its delegations: the id of a stage is a
  delegation of its pipeline and of no other stage, every live delegation is some
  stage's, a running stage has a live one, a pending stage has none, one that is
  over has no live one, and at most one runs (Links). Quiet follows
  `cancelPipeline` from await to await: the stages it has passed are at rest. Each
  operation on a pipeline has a lemma that says it keeps Links, Quiet and Tight
  (FinishedLinks, AdvanceLinks, RetryLinks, SkipLinks, SkipOpenLinks), and another
  one lifts it to all pipelines. Tight, that a live delegation's stage runs, is false
  once a cancelled pipeline was brought back (finding 1): `cancelPipeline` then skips
  a stage that works again. So StageTracksDelegation claims it of the pipelines that
  the host does not cancel, and `NothingSkippedWorks` proves it of all in the
  behaviours in which no cancellation is undone.
- `StagesInTheirOrder` (`Spec => StagesStartInOrder`): only `advancePipeline` starts a
  stage, the first pending one, and only when none runs.
- `OrphansAreRetired` (`Spec => []OrphansRetired`, if writes do not fail; a lost write
  does leave an orphan): RowsFollow and HistoryKnown give it.
- `PanelIsRight` (`PanelSpec => []PanelShowsWork`): each step that the panel is not told
  of leaves queue and statuses as they are; a pump that starts nothing shifts
  nothing (IdlePump).

`AgentRuntimeProofs`, for any turns, tools, risks, modes, rounds, costs and answers:

- `TypeCorrect`, and `NothingForbiddenRuns` (`Spec => []ForbiddenNeverRuns`). The
  invariant, CallsInv, carries a call from its request to its end: a call that is
  not denied is one that its turn's mode does not forbid, a waiter belongs to a
  call that asks, and "always allow" was never said of a network tool: every mode
  denies those by their risk, but looks the grant up before the risk. It assumes that a
  tool registered under a name of the planning modes' allowlist only reads
  (AllowlistAssumption; so does the runtime's own, `read_file`).
- `LeavesNothing` (`Spec => []NothingLeftBehind`), for consumers that pull to the end
  (`~MayAbandon`; one that stops at `turn.started` does leave its controller).
- `TotalsAreReceipts`, `WorkIsCancellable` and `QuietIsQuiet`, for a host that waits for
  its turn (`HostWaitsFor = "turn"`; with the other kind TLC shows the counterexample
  named above). AccountInv says that one turn at most is in flight, that the copy of
  the totals it took is still the session's, that the session's controller is its, and
  that the total is the sum of the receipts. The sum is a fold over a set of any
  size; the lemmas SumGrows and SumOfZeros say of it what the proof needs, by a least
  counterexample, as the induction theorems of the library cannot be applied.

`SpendAccountingProofs`, for any sessions, cap and costs: `OvershootIsBounded`,
`TrackedOnce` and `DriversStop`. The bound needs that what is spent, with the most
each stream under way may still cost, is below the cap plus a stream per
session; a request is admitted only below the cap, so it fits in. The driver's
part needs that its last total is its tracker, and that a tracker at its cap has
aborted the turn.

`McpSupervisorProofs`, for any number of children, restarts and calls, and any
exits: `OneServer` and `BoundedRestarts`. A respawn and a start create a child without
killing one. So IInv says that a backoff of the current epoch is that of the
supervised child, which is dead, that nothing lives while the health says
disconnected, that no timer is of a later epoch, and that a pending respawn was
counted.

`ClientPartsProofs`, for any number of processes, clients, grants, plans, events,
sessions and calls. The parts share no state, so a step of the host is a step of
one part and stutters for the others (PartSteps); PartsInv is the conjunction of
the invariants of the parts (`PartsStayRight`).

- `LaunchersKeepTurns` (`Spec => []LaunchersTakeTurns`). RefreshInv has three layers.
  LockInv counts: the processes between acquire and drop are at most one more than the
  locks taken from the living (Counted); while none was, each of them owns the
  lock, and until a lock of the dead was removed or one was held for 30 s by the
  living, a stale lock is one of the dead (StaleIsDead). Stranded follows a used token: while no
  lock was taken from the living it is sent, stored or written late only if a failure
  stranded it, or by the holder that is about to write its successor. Untroubled is what
  holds until the first failure: the newest token is stored, or in the hands of the one
  process that rotates it.
- `CredentialsStayCurrent` (`Spec => []CredentialsAreCurrent`). BrokerInv says of each
  place where a refresh token may lie (memory, both entries of the store, the refresh in
  flight) that one which was used there is one whose answer was lost, one that a failing
  store has kept, or the one that the broker knows it has rotated; and that no client
  holds the grant being stored. A request sent again carries another token only if the clients that keep using the
  token of the environment run without one (`EnvKey => OtherClients = {}`, as in the
  run); `ProvidersRetryFresh` is what holds of the providers without it.
- `OperatorsSeeTheWork` (`Spec => []OperatorSeesTheWork`). PlanInv: an execution of the
  current plan leaves no step pending behind it, and each step in progress is one at
  which an execution stands. DebuggerInv: a paused run that was answered before it
  waits finds the answer queued, and the timeline of the replay is the fold of the
  events before its cursor: folding on from one event to a later one is folding from
  the start (FoldOnIs, by the least counterexample). AcpInv: a session that no call
  touched since the first page, and that no page has shown, lies behind the offset
  (a touched one moves to the front and pushes back only those before it: TouchKeeps);
  and the diffs lead from the empty file to the file on disk, up to the one write
  that is not logged yet, as long as no two patches overlap; where one does not follow
  from the last, a call between them read nothing or tore the file (Reached, LostIn).
- `ExecutionsKeepToTheirPlan` (`Spec => OnlyItsPlan`): an execution reads the plan it
  began with, and only the subagents of its current step write to it.

`GatewayProofs`, over the same module, for any number of workloads, deployments, jobs,
checkpoints and receipts: `GatewaysAreTold` (`Spec => []GatewayIsTold`), from an
invariant for each of the four parts.

- Deployments. ResultsTellGateway speaks of deploys that have ended. ProvisionInv says
  it of every moment: a deployment of the gateway is lost, or in the results of its
  deploy under its workload, or the one that the deploy is following while the next
  result to come is that workload's (Told). A deploy has fewer results than its plan has
  workloads as long as it spends, and an approved plan keeps its workloads, stays
  approved or over, and is never made current again (Steady); so the plan a deploy spent
  is marked at its end, or replaced. A result that says running points to a deployment
  that came up, and the gateway does not take that back.
- Sandpits. The spend of a sandpit is the sum over its jobs, and over what was there
  when it was created, because a job that counts has ended, so its cost moves no more,
  and because no two calls follow the same job (JobsApart).
- Private models. The checkpoints told are 1, 2, ... without a gap, no more than the job
  has, and all of them once the call has seen the end of the job (CallRight); the poll
  tells those it has not told yet in ascending order (TellsTheRest). A model is handed
  out only if its instance is listed.
- Receipts. A level of the tree tells the level below (LevelTells), so of two trees with
  one root the lower leaves are found again in the higher tree; a leaf is no inner node,
  so the heights are the same and so are the leaves (RootsTell). Every root was made of the
  leaves it is kept with, and those are the hashes of the receipts as recorded when it
  says so (RootsAreOfLeaves); so a row under such a root has a recorded hash, its own by
  the id in it, and if it is verified it reads as recorded. A level of n hashes has
  half as many above it, so a single hash is reached (LevelsShrink, TopIs).

`WorkspaceProofs`, for any number of files and calls, editors, requests, sessions,
messages, skills, processes and patterns; again a step is a step of one part (PartSteps),
and PartsInv is the conjunction of their invariants (`PartsStayRight`).

- `PlansAreAllOrNothing` (`Spec => []EditsAreWhole`). AllOrNothing speaks of the moments
  at which nothing runs. EditsInv speaks of those between two writes too, as long as no
  write tears, no calls overlap and nobody else writes: one call runs at most; a file that
  was never written is as it was (UnwrittenIsOld); what `apply` has taken is written or
  still to be written, whatever is decided meanwhile (ApplyGoesOn); and what `rollback` has
  not failed to restore is restored or still to be (RestoreGoesOn). As the plan keeps
  all that was ever written in appliedPaths, a rollback after several applications with
  changing decisions reaches every file that is not as it was.
  RollbackRestores looks at the last change of a file, which the next rollback takes
  away; RecordsInv says of every change that it found what the changes before it that
  are not rolled back had left (ToldBefore), that a call about to record its diff knows
  what the timeline tells of the file, and that no change waits for its rollback while a
  later one of its file is active. Then a change at the end, or one marked rolled back,
  moves what is told of its own file only (ChangeAppended, ChangeUndone).
- `SuggestionsFit` (`Spec => []CompletionsFit`). CompletionInv ties three records that are
  changed at different times: a session awaits a request of its own, for what is around
  its cursor now; a request without an answer is the one pending in the engine, so a
  newer one has answered all before it; and a text is an answer for the snapshot of its
  request, also when it comes from the cache.
- `OnlyCompactionsLose` (`Spec => []LossesAreExplained`). While a compaction awaits, each
  message is among those it has read, was said since, or was lost to another one.
- `OnlyTheUnseenIsLost` (`Spec => PatternsLostWereMissed`, a property of steps): a pattern
  in the model that a process has not loaded is one that it is known to have missed.

Sums, levels and checkpoints are defined by recursion. What is said of them for all
sizes is proved with the least counterexample, of the numbers (LeastNumber) or of the
cardinalities of subsets: that there is a function which obeys the recursion, and what
it yields.

Assumptions are the named ASSUMEs on the constants, which TLC evaluates in the runs;
those of the clients are few (`nobody` is no process, a page is not empty:
`runtime.ts:251`, texts are sequences of characters, bounds are numbers).

Only model-checked: liveness under fairness and ENABLED, which are beyond the prover
(QueueDrains, CancelCompletes, TurnsEnd and the other progress properties); of the
workspace ContextIsTheBest and RecordsAreKept; and the host of the engine. Most of those are about what a loop over data computes (the diff by dynamic
programming, greedy packing, folds of usage and of chunks, sorted sequences), which would
need induction over that data.
The modules that theorems are about declare no RECURSIVE operator.

## What is not modelled

`PROJECT.json` lists every part with its reason. In short: tables of definitions
(tools, roles, contracts, built-in skills), rendering, single HTTP calls with no
state between them, path and command checks over strings, hashing, parsing of
source files, release scripts. In the modelled parts: texts, prices, prompts and
wording; progress fractions, the deploy handoff and listeners that call back into
the orchestration engine; runtime sessions beside the one; scales of costs; framing
of messages; PKCE.

## Plan

What would come next, in this order:

1. Proofs about the engine: removals leave no child behind that was there (EngineSessions).
2. A composition of Orchestration with AgentRuntime, in which executors are turns,
   so that "executors settle" is a result and not an assumption.
3. TokenRefresh together with CredentialBroker over one keyring.
