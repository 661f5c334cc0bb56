----------------------------- MODULE TurnRecords -----------------------------
(***************************************************************************)
(* What a session's stream of events is folded into: the profile of        *)
(* agent-runtime/src/profiler.ts and the timeline of timeline.ts, with its *)
(* rollback of file changes, over the events that executeToolCall of       *)
(* runtime.ts emits while it writes files.                                 *)
(*                                                                         *)
(* The two folds are done in the step that emits the event. Usage is one   *)
(* number (the code keeps three alike), a file content the number of the   *)
(* write that made it, 0 for a file that is absent or empty. Titles,       *)
(* durations and replay are left out. A session has one turn at a time.    *)
(***************************************************************************)
EXTENDS Integers, FiniteSets, SequencesExt, FiniteSetsExt

CONSTANTS
    Files,
    MaxTurns,     \* bound: turns
    MaxCalls,     \* bound: tool calls
    MaxUsage,     \* bound: usage of a turn
    MaxRollbacks  \* bound: rollbacks

VARIABLES
    turn,       \* the open turn: where it is, its cumulative usage and its tool call
    profile,    \* AgentProfiler
    timeline,   \* AgentTimeline: tool calls and file changes
    files,      \* the workspace
    rollbacks,  \* rollbacks whose write is awaited; how many began
    history     \* turns begun, contents written, and what has gone by

recordVars == <<turn, profile, timeline, files, rollbacks, history>>

NoCall == 0
NoTurn == [at |-> "none", usage |-> 0, call |-> NoCall, file |-> CHOOSE f \in Files : TRUE, before |-> 0]

RecordInit ==
    /\ turn = NoTurn
    /\ profile = [steps |-> <<>>, pending |-> 0, last |-> 0, totals |-> 0, open |-> {}, active |-> NoCall]
    /\ timeline = [calls |-> <<>>, changes |-> <<>>, active |-> NoCall]
    /\ files = [f \in Files |-> 0]
    /\ rollbacks = [active |-> {}, begun |-> 0]
    /\ history = [turns |-> 0, writes |-> 0, interrupted |-> FALSE, forgotten |-> FALSE,
                  raced |-> FALSE, unrecorded |-> {}]

-----------------------------------------------------------------------------
\* The profile.

\* completeTool, for the calls given: a call that is not open is left alone.
Completed(p, calls, isError) ==
    [p EXCEPT !.steps = [k \in DOMAIN @ |-> IF @[k].call \in calls \cap p.open
                                            THEN [@[k] EXCEPT !.isError = isError] ELSE @[k]],
              !.open = @ \ calls,
              !.active = IF @ \in calls \cap p.open THEN NoCall ELSE @]

Requested(p, call) ==
    [p EXCEPT !.steps = Append(@, [call |-> call, usage |-> p.pending, isError |-> FALSE]),
              !.pending = 0,
              !.open = @ \cup {call},
              !.active = call]

Used(p, cumulative) ==
    LET delta == Max({0, cumulative - p.last})
    IN  [p EXCEPT !.last = cumulative, !.totals = @ + delta, !.pending = @ + delta]

\* Mutant: the last model round is not flushed.
ClosedWithoutResponse(p) == Completed([p EXCEPT !.pending = 0], p.open, TRUE)

\* closeTurn: what is pending becomes the step of the response, open calls have failed.
Closed(p) ==
    LET response == IF p.pending = 0 THEN <<>>
                    ELSE <<[call |-> NoCall, usage |-> p.pending, isError |-> FALSE]>>
    IN  Completed([p EXCEPT !.steps = @ \o response, !.pending = 0], p.open, TRUE)

-----------------------------------------------------------------------------
\* The turn, event by event.

TurnStarted ==
    /\ turn.at = "none"
    /\ history.turns < MaxTurns
    /\ turn' = [NoTurn EXCEPT !.at = "model"]
    /\ profile' = [profile EXCEPT !.last = 0, !.pending = 0]
    /\ history' = [history EXCEPT !.turns = @ + 1]
    /\ UNCHANGED <<timeline, files, rollbacks>>

\* usage.updated carries the total of the turn.
UsageUpdated(usage) ==
    /\ turn.at = "model"
    /\ turn.usage < usage
    /\ turn' = [turn EXCEPT !.usage = usage]
    /\ profile' = Used(profile, usage)
    /\ UNCHANGED <<timeline, files, rollbacks, history>>

ToolRequested(file) ==
    LET call == Len(timeline.calls) + 1 IN
    /\ turn.at = "model"
    /\ call <= MaxCalls
    /\ turn' = [turn EXCEPT !.at = "asking", !.call = call, !.file = file]
    /\ profile' = Requested(profile, call)
    /\ timeline' = [timeline EXCEPT !.calls = Append(@, "requested"), !.active = call]
    /\ UNCHANGED <<files, rollbacks, history>>

\* Denied by the mode, or rejected by the operator.
ToolRejected ==
    /\ turn.at = "asking"
    /\ turn' = [turn EXCEPT !.at = "model", !.call = NoCall]
    /\ profile' = Completed(profile, {turn.call}, TRUE)
    /\ timeline' = [timeline EXCEPT !.calls[turn.call] = "rejected", !.active = NoCall]
    /\ UNCHANGED <<files, rollbacks, history>>

\* tool.approved, tool.started, and the content before the call.
ToolStarted ==
    /\ turn.at = "asking"
    /\ turn' = [turn EXCEPT !.at = "running", !.before = files[turn.file]]
    /\ timeline' = [timeline EXCEPT !.calls[turn.call] = "running"]
    /\ UNCHANGED <<profile, files, rollbacks, history>>

ToolWrites ==
    /\ turn.at = "running"
    /\ turn' = [turn EXCEPT !.at = "written"]
    /\ files' = [files EXCEPT ![turn.file] = history.writes + 1]
    /\ history' = [history EXCEPT !.writes = @ + 1, !.raced = @ \/ rollbacks.active # {}]
    /\ UNCHANGED <<profile, timeline, rollbacks>>

\* file.diff and tool.output: the content after the call is read again.
ToolSucceeds ==
    /\ turn.at = "written"
    /\ turn' = [turn EXCEPT !.at = "model", !.call = NoCall]
    /\ profile' = Completed(profile, {profile.active}, FALSE)
    /\ timeline' = [timeline EXCEPT !.calls[turn.call] = "completed", !.active = NoCall,
                        !.changes = IF files[turn.file] = turn.before THEN @
                                    ELSE Append(@, [file |-> turn.file, before |-> turn.before,
                                                    after |-> files[turn.file], call |-> timeline.active,
                                                    rolledBack |-> FALSE])]
    /\ UNCHANGED <<files, rollbacks, history>>

\* A call that failed has no diff, whether it wrote or not.
ToolFails ==
    /\ turn.at \in {"running", "written"}
    /\ turn' = [turn EXCEPT !.at = "model", !.call = NoCall]
    /\ profile' = Completed(profile, {profile.active}, TRUE)
    /\ timeline' = [timeline EXCEPT !.calls[turn.call] = "failed", !.active = NoCall]
    /\ history' = [history EXCEPT !.unrecorded = IF turn.at = "written" THEN @ \cup {turn.file} ELSE @]
    /\ UNCHANGED <<files, rollbacks>>

\* turn.completed or turn.failed.
TurnEnds ==
    /\ turn.at = "model"
    /\ turn' = NoTurn
    /\ profile' = Closed(profile)
    /\ UNCHANGED <<timeline, files, rollbacks, history>>

Interrupted == [history EXCEPT !.interrupted = TRUE,
                               !.unrecorded = IF turn.at = "written" THEN @ \cup {turn.file} ELSE @]

\* Nobody reads the events of the turn any more: it stops where it is.
TurnAbandoned ==
    /\ turn.at # "none"
    /\ turn' = NoTurn
    /\ history' = Interrupted
    /\ UNCHANGED <<profile, timeline, files, rollbacks>>

\* The process is restarted and hydrate folds the stored events; no event tells of a rollback.
Restart ==
    /\ turn.at # "none" \/ \E k \in DOMAIN timeline.changes : timeline.changes[k].rolledBack
    /\ turn' = NoTurn
    /\ timeline' = [timeline EXCEPT !.changes = [k \in DOMAIN @ |-> [@[k] EXCEPT !.rolledBack = FALSE]]]
    /\ rollbacks' = [rollbacks EXCEPT !.active = {}]
    /\ history' = [IF turn.at = "none" THEN history ELSE Interrupted EXCEPT !.forgotten = TRUE]
    /\ UNCHANGED <<profile, files>>

-----------------------------------------------------------------------------
\* rollbackStep.

LaterActive(k) ==
    {j \in DOMAIN timeline.changes : /\ j > k
                                     /\ ~timeline.changes[j].rolledBack
                                     /\ timeline.changes[j].file = timeline.changes[k].file}

StartRollback(k) ==
    /\ rollbacks.begun < MaxRollbacks
    /\ rollbacks' = [active |-> rollbacks.active \cup {k}, begun |-> rollbacks.begun + 1]
    /\ history' = [history EXCEPT !.raced = @ \/ turn.at \in {"running", "written"} \/ k \in rollbacks.active]
    /\ UNCHANGED <<turn, profile, timeline, files>>

\* Mutant: a later change to the file is not looked for.
RollbackUnordered(k) == ~timeline.changes[k].rolledBack /\ StartRollback(k)

\* A step that is rolled back is returned as it is; one with a later active change is
\* a conflict.
Rollback(k) ==
    /\ ~timeline.changes[k].rolledBack
    /\ LaterActive(k) = {}
    /\ StartRollback(k)

\* The content before is written, or the file removed when there was none.
RolledBack(k) ==
    /\ k \in rollbacks.active
    /\ files' = [files EXCEPT ![timeline.changes[k].file] = timeline.changes[k].before]
    /\ timeline' = [timeline EXCEPT !.changes[k].rolledBack = TRUE]
    /\ rollbacks' = [rollbacks EXCEPT !.active = @ \ {k}]
    /\ history' = [history EXCEPT !.raced = @ \/ turn.at \in {"running", "written"}]
    /\ UNCHANGED <<turn, profile>>

RecordNext ==
    \/ TurnStarted \/ ToolRejected \/ ToolStarted \/ ToolWrites \/ ToolSucceeds \/ ToolFails
    \/ TurnEnds \/ TurnAbandoned \/ Restart
    \/ \E usage \in 1..MaxUsage : UsageUpdated(usage)
    \/ \E file \in Files : ToolRequested(file)
    \/ \E k \in DOMAIN timeline.changes : Rollback(k) \/ RolledBack(k)

RecordSpec == RecordInit /\ [][RecordNext]_recordVars

-----------------------------------------------------------------------------
(***************************************************************************)
(* Properties.                                                             *)
(***************************************************************************)

\* Every unit of usage is attributed once: the steps and what is pending add up to the
\* totals, and between turns nothing is pending and no call is open, however calls were
\* rejected or failed; a turn that was abandoned may only lose, never count twice.
ProfileAddsUp ==
    LET attributed == FoldSeq(LAMBDA step, sum : step.usage + sum, profile.pending, profile.steps)
    IN  /\ attributed <= profile.totals
        /\ ~history.interrupted => attributed = profile.totals
        /\ turn.at = "none" /\ ~history.interrupted => profile.pending = 0 /\ profile.open = {}

\* Changes are undone newest first: a file is what its last change not rolled back made
\* of it, or what it was before the first one. Left out are files with a change no diff
\* tells of, timelines rebuilt by a restart, which forgets what was rolled back, and
\* a rollback during a call's write or during the rollback of the same change.
RollbackRestores ==
    \A f \in Files \ history.unrecorded :
        LET of == {k \in DOMAIN timeline.changes : timeline.changes[k].file = f}
            active == {k \in of : ~timeline.changes[k].rolledBack}
        IN  \/ history.raced \/ history.forgotten
            \/ turn.at = "written" /\ turn.file = f
            \/ files[f] = IF active # {} THEN timeline.changes[Max(active)].after
                          ELSE IF of # {} THEN timeline.changes[Min(of)].before ELSE 0
===============================================================================
