--------------------------- MODULE SessionDebugger ---------------------------
(***************************************************************************)
(* The debugger of an agent session (src/debugging/agent-debugger.ts) and  *)
(* the replay of what it has recorded (session-replay.ts).                 *)
(*                                                                         *)
(* run() is a generator: its consumer pulls an entry, the operator may     *)
(* call resume and pause at any time, and a pause that was yielded is only *)
(* waited for once the consumer pulls again.  An event is its kind, a step *)
(* of the timeline the event that opened it and its state.                 *)
(***************************************************************************)
EXTENDS Integers, FiniteSetsExt, SequencesExt

CONSTANTS
    MaxEvents,   \* bound: events of the stream
    MaxCommands, \* bound: calls of resume and pause
    MaxChanges   \* bound: changes of the breakpoints

VARIABLES
    tape,        \* the events recorded
    steps,       \* the timeline of the debugger
    log,         \* for every entry the breakpoint it tripped, 0 for none
    breakpoints, \* breakpoints: whether they are enabled, in order
    tripped,     \* breakpoint and step pairs that have tripped
    generator,   \* run(): where it is, the waiter, and what is queued for it
    operator,    \* calls and changes made, and whether this pause was answered
    replay       \* SessionReplay: cursor and timeline

debuggerVars == <<tape, steps, log, breakpoints, tripped, generator, operator, replay>>

EventKinds == {"turn", "tool", "output", "toolError", "turnFailed", "usage"}
Actions == {"continue", "step"}

\* Conditions of breakpoints: a kind of step, or any error.
Conditions == {"onTool", "onError"}

DebuggerStarts == [Conditions -> BOOLEAN]
DebuggerBegins(starts) ==
    /\ tape = <<>>
    /\ steps = <<>>
    /\ log = <<>>
    /\ breakpoints \in starts  \* set before the run
    /\ tripped = {}
    /\ generator = [at |-> "idle", status |-> "idle", queued |-> "none", action |-> "none",
                    stepping |-> FALSE, pausing |-> FALSE]
    /\ operator = [commands |-> 0, changes |-> 0, answered |-> FALSE]
    /\ replay = [cursor |-> 0, steps |-> <<>>]

DebuggerInit == DebuggerBegins(DebuggerStarts)

-----------------------------------------------------------------------------
\* AgentTimeline.record, for the events that are told apart here.

Open(kind, n) == [kind |-> kind, opened |-> n, state |-> "requested"]

\* The call that was requested last and has no output yet.
ActiveStep(timeline) ==
    LET open == {k \in DOMAIN timeline : timeline[k].kind = "tool"}
    IN  IF open # {} /\ timeline[Max(open)].state = "requested" THEN Max(open) ELSE 0

\* The step an event opens or updates, 0 for none.
Touched(timeline, kind) ==
    CASE kind \in {"turn", "tool", "turnFailed"} -> Len(timeline) + 1
      [] kind \in {"output", "toolError"}        -> ActiveStep(timeline)
      [] OTHER                                   -> 0

Recorded(timeline, kind, n) ==
    LET k == Touched(timeline, kind)
    IN  CASE k = 0               -> timeline
          [] k > Len(timeline)   -> Append(timeline, Open(kind, n))
          [] kind = "output"     -> [timeline EXCEPT ![k].state = "completed"]
          [] OTHER               -> [timeline EXCEPT ![k].state = "failed"]

\* The first n events folded into an empty timeline.
Folded(n) ==
    LET at[k \in 0..n] == IF k = 0 THEN <<>> ELSE Recorded(at[k - 1], tape[k], k)
    IN  at[n]

-----------------------------------------------------------------------------
\* record: log, timeline and breakpoints.

MatchesBreakpoint(step, condition) ==
    IF condition = "onTool" THEN step.kind = "tool"
    ELSE step.kind = "turnFailed" \/ step.state = "failed"

\* Mutant: updates of a step trip it again.
FindHitAgain(timeline, k) ==
    {c \in Conditions : breakpoints[c] /\ MatchesBreakpoint(timeline[k], c)}

\* A step trips a breakpoint once.
FindHit(timeline, k) ==
    {c \in Conditions : breakpoints[c] /\ MatchesBreakpoint(timeline[k], c) /\ <<c, k>> \notin tripped}

\* An event of the stream; run() yields it, and will wait when it has to pause.
Record(kind) ==
    LET n == Len(tape) + 1
        k == Touched(steps, kind)
        after == Recorded(steps, kind, n)
        hits == IF k = 0 THEN {} ELSE FindHit(after, k)
        hit == IF hits = {} THEN "none" ELSE CHOOSE c \in hits : TRUE
        pauses == hit # "none" \/ generator.pausing \/ (generator.stepping /\ k # 0)
    IN  /\ generator.at = "reading"
        /\ n <= MaxEvents
        /\ tape' = Append(tape, kind)
        /\ steps' = after
        /\ log' = Append(log, [hit |-> hit, step |-> k])
        /\ tripped' = IF hit = "none" THEN tripped ELSE tripped \cup {<<hit, k>>}
        /\ generator' = [generator EXCEPT !.at = "yielded",
                             !.status = IF pauses THEN "paused" ELSE @,
                             !.pausing = @ /\ ~pauses]
        /\ operator' = [operator EXCEPT !.answered = FALSE]
        /\ UNCHANGED <<breakpoints, replay>>

-----------------------------------------------------------------------------
\* run.

Run ==
    /\ generator.at = "idle"
    /\ Len(tape) < MaxEvents
    /\ replay.cursor = 0
    /\ generator' = [generator EXCEPT !.at = "reading", !.status = "running"]
    /\ UNCHANGED <<tape, steps, log, breakpoints, tripped, operator, replay>>

\* The consumer pulls: after a pause, waitForResume.
Pull ==
    /\ generator.at = "yielded"
    /\ generator' =
           IF generator.status # "paused" THEN [generator EXCEPT !.at = "reading"]
           ELSE IF generator.queued = "none" THEN [generator EXCEPT !.at = "parked"]
           ELSE [generator EXCEPT !.at = "resuming", !.action = generator.queued, !.queued = "none"]
    /\ UNCHANGED <<tape, steps, log, breakpoints, tripped, operator, replay>>

\* The action has arrived, and the stream is read on.
GoOn ==
    /\ generator.at = "resuming"
    /\ generator' = [generator EXCEPT !.at = "reading", !.status = "running",
                         !.stepping = generator.action = "step", !.action = "none"]
    /\ UNCHANGED <<tape, steps, log, breakpoints, tripped, operator, replay>>

\* The stream ends, or the consumer wants no more.
RunEndsNow ==
    /\ generator.at \in {"reading", "yielded"}
    /\ generator' = [generator EXCEPT !.at = "idle", !.status = "idle", !.stepping = FALSE, !.queued = "none"]
    /\ UNCHANGED <<tape, steps, log, breakpoints, tripped, operator, replay>>

-----------------------------------------------------------------------------
\* The operator.

Commands(update) ==
    /\ operator.commands < MaxCommands
    /\ operator' = [operator EXCEPT !.commands = @ + 1, !.answered = @ \/ update]

\* The waiter is called; without one, a paused run finds the action queued.
Resume(action) ==
    /\ Commands(generator.status = "paused")
    /\ generator' =
           IF generator.at = "parked" THEN [generator EXCEPT !.at = "resuming", !.action = action]
           ELSE IF generator.status = "paused" THEN [generator EXCEPT !.queued = action]
           ELSE generator
    /\ UNCHANGED <<tape, steps, log, breakpoints, tripped, replay>>

Pause ==
    /\ Commands(FALSE)
    /\ generator' = [generator EXCEPT !.pausing = TRUE]
    /\ UNCHANGED <<tape, steps, log, breakpoints, tripped, replay>>

\* addBreakpoint, removeBreakpoint and setBreakpointEnabled.
SetBreakpoint(c) ==
    /\ operator.changes < MaxChanges
    /\ operator' = [operator EXCEPT !.changes = @ + 1]
    /\ breakpoints' = [breakpoints EXCEPT ![c] = ~@]
    /\ UNCHANGED <<tape, steps, log, tripped, generator, replay>>

-----------------------------------------------------------------------------
\* The replay of a recording, made when the run has ended; its cursor is the number of events
\* behind it.

Moves(cursor, timeline) ==
    /\ generator.at = "idle"
    /\ replay' = [cursor |-> cursor, steps |-> timeline]
    /\ UNCHANGED <<tape, steps, log, breakpoints, tripped, generator, operator>>

ReplayNext ==
    /\ replay.cursor < Len(tape)
    /\ Moves(replay.cursor + 1, Recorded(replay.steps, tape[replay.cursor + 1], replay.cursor + 1))

\* The events from one number to another folded into a timeline.
FoldOn(timeline, from, to) ==
    LET at[k \in (from - 1)..to] == IF k < from THEN timeline ELSE Recorded(at[k - 1], tape[k], k)
    IN  at[to]

\* Mutant: a seek backwards folds on.
SeekKeeping(to) ==
    Moves(to, FoldOn(replay.steps, Min({replay.cursor, to}) + 1, to))

\* Backwards the timeline is folded from the start; prev() is a seek.
Seek(to) ==
    Moves(to, IF to < replay.cursor THEN FoldOn(<<>>, 1, to) ELSE FoldOn(replay.steps, replay.cursor + 1, to))

DebuggerNext ==
    \/ \E kind \in EventKinds : Record(kind)
    \/ Run \/ Pull \/ GoOn \/ RunEndsNow
    \/ \E action \in Actions : Resume(action)
    \/ Pause
    \/ \E c \in Conditions : SetBreakpoint(c)
    \/ ReplayNext
    \/ \E to \in 0..Len(tape) : Seek(to)

DebuggerSpec == DebuggerInit /\ [][DebuggerNext]_debuggerVars

-----------------------------------------------------------------------------
(***************************************************************************)
(* Properties.                                                             *)
(***************************************************************************)

\* A pause that was answered never waits, whenever the answer comes, and no breakpoint stops
\* the run twice at a step, however many events update it.
PausesAreAnswered ==
    /\ generator.at = "parked" => ~operator.answered
    /\ \A j, k \in DOMAIN log :
          j # k /\ log[j].hit # "none" /\ log[j].step = log[k].step => log[j].hit # log[k].hit

\* Wherever next, prev and seek have moved the cursor, the timeline of the replay is that of
\* the events behind it, which is how the snapshots at the cursor are computed.
ReplayFollowsCursor == replay.steps = Folded(replay.cursor)

\* "the generator blocks after yielding until the operator calls resume": no pause is passed
\* that nobody has answered.
PauseBlocks == [][generator.at = "resuming" /\ generator'.at = "reading" => operator.answered]_debuggerVars
===============================================================================
