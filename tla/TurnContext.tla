----------------------------- MODULE TurnContext -----------------------------
(***************************************************************************)
(* The context the plugin puts before every turn (plugin.ts): the task and *)
(* the transcript that the chat.message hook records, the skill that is    *)
(* selected for the task (skills/runtime.ts), and the compaction of the    *)
(* transcript once it is long (planner/compaction.ts).  The sessions of a  *)
(* process share them, and their turns are built side by side.             *)
(*                                                                         *)
(* Messages are numbered; an entry of the transcript is the set of         *)
(* messages its text tells of, and summaries are short.                    *)
(***************************************************************************)
EXTENDS Integers, FiniteSetsExt, SequencesExt

CONSTANTS
    Sessions,    \* sessions whose turns may be built at a time
    Skills,      \* skills, numbered in the order they were installed
    Triggers,    \* for every skill the kinds of tasks its trigger matches
    Kind,        \* the kind of every message as a task
    Threshold,   \* COMPACT_THRESHOLD_TOKENS, in messages
    MaxMessages, \* bound: messages recorded
    MaxTurns,    \* bound: turns built
    MaxSwitches  \* bound: calls of enable and disable

VARIABLES
    transcript,  \* transcript
    latestTask,  \* latestTask: a message, 0 before the first
    enabled,     \* the skills that are enabled
    building,    \* buildTurnSystemContext per session: its step, and what it has read
    counted,     \* messages, turns and switches made
    raced,       \* messages recorded while a compaction was under way
    shortened    \* messages recorded before a compaction fell back to the last request

turnVars == <<transcript, latestTask, enabled, building, counted, raced, shortened>>

Entry(role, about) == [role |-> role, about |-> about]
NotBuilding == [at |-> "idle", task |-> 0, skill |-> 0, reads |-> {}]

TurnInit ==
    /\ transcript = <<>>
    /\ latestTask = 0
    /\ enabled = Skills
    /\ building = [s \in Sessions |-> NotBuilding]
    /\ counted = [messages |-> 0, turns |-> 0, switches |-> 0]
    /\ raced = {}
    /\ shortened = {}

-----------------------------------------------------------------------------
\* chat.message and the skills.

Compacting == \E s \in Sessions : building[s].at = "compacting"

ChatMessage ==
    LET m == counted.messages + 1
    IN  /\ m <= MaxMessages
        /\ counted' = [counted EXCEPT !.messages = m]
        /\ latestTask' = m
        /\ transcript' = Append(transcript, Entry("user", {m}))
        /\ raced' = IF Compacting THEN raced \cup {m} ELSE raced
        /\ UNCHANGED <<enabled, building, shortened>>

Switch(skill) ==
    /\ counted.switches < MaxSwitches
    /\ counted' = [counted EXCEPT !.switches = @ + 1]
    /\ enabled' = IF skill \in enabled THEN enabled \ {skill} ELSE enabled \cup {skill}
    /\ UNCHANGED <<transcript, latestTask, building, raced, shortened>>

\* autoSelect: the first enabled skill whose trigger matches; 0 for none.
AutoSelect(task) ==
    LET matching == {k \in enabled : Kind[task] \in Triggers[k]}
    IN  IF task = 0 \/ matching = {} THEN 0 ELSE Min(matching)

-----------------------------------------------------------------------------
\* buildTurnSystemContext.

Goes(s, at) == building' = [building EXCEPT ![s].at = at]

BeginContext(s) ==
    /\ building[s].at = "idle"
    /\ counted.turns < MaxTurns
    /\ counted' = [counted EXCEPT !.turns = @ + 1]
    /\ Goes(s, "fetching")
    /\ UNCHANGED <<transcript, latestTask, enabled, raced, shortened>>

\* The intelligence has answered or failed, and the codebase is searched for the task.
RetrieveContext(s) ==
    /\ building[s].at = "fetching"
    /\ building' = [building EXCEPT ![s].at = "retrieving", ![s].task = latestTask]
    /\ UNCHANGED <<transcript, latestTask, enabled, counted, raced, shortened>>

About(entries) == UNION {e.about : e \in Range(entries)}
Requests == {k \in DOMAIN transcript : transcript[k].role = "user"}
IsLong == Cardinality(Requests) > Threshold

\* The skill is that of the task there is now; a long transcript is compacted first.
SelectSkill(s) ==
    /\ building[s].at = "retrieving"
    /\ building' = [building EXCEPT ![s].at = IF IsLong THEN "compacting" ELSE "built",
                                    ![s].skill = AutoSelect(latestTask),
                                    ![s].reads = IF IsLong THEN About(transcript) ELSE {}]
    /\ UNCHANGED <<transcript, latestTask, enabled, counted, raced, shortened>>

\* deriveFallbackSummary: the last request of the transcript as it is by now.
Fallback == IF Requests = {} THEN {} ELSE transcript[Max(Requests)].about

\* The summary takes the place of the transcript.
Replace(s, about) ==
    /\ transcript' = <<Entry("system", about)>>
    /\ Goes(s, "built")

\* Mutant: what was recorded last is left out of the summary.
CompactedBehind(s) ==
    /\ building[s].at = "compacting"
    /\ Replace(s, building[s].reads \ {latestTask})
    /\ UNCHANGED <<latestTask, enabled, counted, raced, shortened>>

\* The model has summarised the messages it was sent.
Compacted(s) ==
    /\ building[s].at = "compacting"
    /\ Replace(s, building[s].reads)
    /\ UNCHANGED <<latestTask, enabled, counted, raced, shortened>>

\* The model failed or gave no summary.
CompactedByRule(s) ==
    /\ building[s].at = "compacting"
    /\ Replace(s, Fallback)
    /\ shortened' = 1..counted.messages
    /\ UNCHANGED <<latestTask, enabled, counted, raced>>

EndContext(s) ==
    /\ building[s].at = "built"
    /\ building' = [building EXCEPT ![s] = NotBuilding]
    /\ UNCHANGED <<transcript, latestTask, enabled, counted, raced, shortened>>

TurnNext ==
    \/ ChatMessage
    \/ \E k \in Skills : Switch(k)
    \/ \E s \in Sessions :
          \/ BeginContext(s) \/ RetrieveContext(s) \/ SelectSkill(s)
          \/ Compacted(s) \/ CompactedByRule(s) \/ EndContext(s)

TurnSpec == TurnInit /\ [][TurnNext]_turnVars

-----------------------------------------------------------------------------
\* Property.

\* However the turns of the sessions overlap, a message is missing from the transcript and its
\* summaries only when it was recorded while a compaction was under way, which then replaced
\* it, or a compaction fell back to the last request of all.
LossesAreExplained == 1..counted.messages \subseteq About(transcript) \cup raced \cup shortened
===============================================================================
