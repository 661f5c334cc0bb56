---------------------------- MODULE WorkspaceParts ----------------------------
(***************************************************************************)
(* What the agent knows and does about the workspace, side by side:        *)
(* patches, edit plans, completions, the context of a turn, retrieval, the *)
(* records of turns and the agents' memory.  They share no state: a        *)
(* behaviour is one of a part.                                             *)
(***************************************************************************)
EXTENDS Naturals, Sequences

CONSTANTS
    TextLines, MaxLines, ContextLines, MaxOutput,             \* of UnifiedDiff
    NumFiles, MaxCalls,                                       \* of AtomicEdits
    Editors, Paths, Surroundings, CacheMaxEntries,            \* of InlineCompletion
    MaxRequests,
    Sessions, Skills, Triggers, Kind, Threshold, MaxMessages, \* of TurnContext
    MaxTurns, MaxSwitches,
    SourceFiles, Shapes, ImportGraphs, RequestTokens,         \* of ContextRetrieval
    CharsPerToken, ReadLimit, SeedLimit, Window, Around,
    MinSlice, Budgets,
    Agents, Consolidators, Interval, DocumentSize,            \* of AgentMemory
    MaxReports, MaxMemos, MaxCycles, MaxDays,
    Documents, DocumentKinds, Recorders, Patterns,            \* of AgentBriefing
    Recorded, MaxRecordedTurns, MaxToolCalls, MaxUsage,       \* of TurnRecords
    MaxRollbacks

ASSUME NumFilesAssumption == NumFiles \in Nat

VARIABLES
    part,  \* the part that runs
    edit, patch, cursor, output, phase,
    disk, plan, applying, restoring, upset,
    sessions, requests, engine, cache,
    transcript, latestTask, enabled, building, counted, raced, shortened,
    codebase, readable, activeFile, retrieved,
    handoff, inheritance, semantic, memos, cycle, calendar, ritual, overlapped,
    library, expected, briefing, userModel, recording,
    turn, profile, timeline, files, rollbacks, history

Diff == INSTANCE UnifiedDiff WITH Lines <- TextLines
Edits == INSTANCE AtomicEdits
Completion == INSTANCE InlineCompletion WITH Sessions <- Editors, Texts <- Surroundings
Context == INSTANCE TurnContext
Retrieval == INSTANCE ContextRetrieval WITH Files <- SourceFiles
Memory == INSTANCE AgentMemory
Briefing == INSTANCE AgentBriefing WITH Contents <- DocumentKinds
Records == INSTANCE TurnRecords WITH
    Files <- Recorded, MaxTurns <- MaxRecordedTurns, MaxCalls <- MaxToolCalls

diffVars == <<edit, patch, cursor, output, phase>>
editsVars == <<disk, plan, applying, restoring, upset>>
completionVars == <<sessions, requests, engine, cache>>
contextVars == <<transcript, latestTask, enabled, building, counted, raced, shortened>>
retrievalVars == <<codebase, readable, activeFile, retrieved>>
memoryVars == <<handoff, inheritance, semantic, memos, cycle, calendar, ritual, overlapped>>
briefingVars == <<library, expected, briefing, userModel, recording>>
recordsVars == <<turn, profile, timeline, files, rollbacks, history>>

Some(starts) == {CHOOSE s \in starts : TRUE}
Starts(p, starts) == IF part = p THEN starts ELSE Some(starts)

Parts ==
    {"diff", "edits", "completion", "context", "retrieval", "memory", "briefing", "records"}

\* A part begins in any of its initial states, the others stay in one of theirs.
Init ==
    /\ part \in Parts
    /\ Diff!DiffBegins(Starts("diff", Diff!DiffStarts))
    /\ Edits!EditBegins(Starts("edits", Edits!EditStarts))
    /\ Completion!CompletionInit
    /\ Context!TurnInit
    /\ Retrieval!RetrievalBegins(Starts("retrieval", Retrieval!RetrievalStarts))
    /\ Memory!MemoryInit
    /\ Briefing!BriefingBegins(Starts("briefing", Briefing!BriefingStarts))
    /\ Records!RecordInit

Rest(p) ==
    /\ UNCHANGED part
    /\ IF p = "diff" THEN TRUE ELSE UNCHANGED diffVars
    /\ IF p = "edits" THEN TRUE ELSE UNCHANGED editsVars
    /\ IF p = "completion" THEN TRUE ELSE UNCHANGED completionVars
    /\ IF p = "context" THEN TRUE ELSE UNCHANGED contextVars
    /\ IF p = "retrieval" THEN TRUE ELSE UNCHANGED retrievalVars
    /\ IF p = "memory" THEN TRUE ELSE UNCHANGED memoryVars
    /\ IF p = "briefing" THEN TRUE ELSE UNCHANGED briefingVars
    /\ IF p = "records" THEN TRUE ELSE UNCHANGED recordsVars

Next ==
    \/ part = "diff" /\ Diff!DiffNext /\ Rest("diff")
    \/ part = "edits" /\ Edits!EditNext /\ Rest("edits")
    \/ part = "completion" /\ Completion!CompletionNext /\ Rest("completion")
    \/ part = "context" /\ Context!TurnNext /\ Rest("context")
    \/ part = "retrieval" /\ Retrieval!RetrievalNext /\ Rest("retrieval")
    \/ part = "memory" /\ Memory!MemoryNext /\ Rest("memory")
    \/ part = "briefing" /\ Briefing!BriefingNext /\ Rest("briefing")
    \/ part = "records" /\ Records!RecordNext /\ Rest("records")

vars ==
    <<part, diffVars, editsVars, completionVars, contextVars, retrievalVars, memoryVars,
      briefingVars, recordsVars>>

Spec ==
    /\ Init /\ [][Next]_vars

-----------------------------------------------------------------------------
\* Of an edit plan all that was accepted is written or nothing is, however often it is applied
\* and rolled back, one call at a time; and of the changes of the turns each is undone whole:
\* the file is what the changes that are left made of it.
EditsAreWhole == Edits!AllOrNothing /\ Records!RollbackRestores

\* The suggestion a session shows was completed for what is around its cursor now, and only
\* the newest request waits for an answer.
CompletionsFit == Completion!ShownFitsSnapshot /\ Completion!NobodyHangs

\* A model is given the best there is: the files that rank first within the budget, and the
\* documents that match best in a briefing.
ContextIsTheBest == Retrieval!BestWithinBudget /\ Briefing!HitsAreTheBest

\* Of the transcript everything is kept but what was said during a compaction or dropped by
\* one that had no summary.
LossesAreExplained == Context!LossesAreExplained

\* What is recorded is kept: a patch leads from what it was made from to what it was made for,
\* of a report that is marked consolidated a document tells, and every unit of usage is
\* attributed once.
RecordsAreKept ==
    /\ Diff!PatchRoundTrips
    /\ Memory!MarkedWasUsed
    /\ Records!ProfileAddsUp

\* A pattern of the user's that was saved is lost only to a process that loaded the model
\* before, or while the file was empty.
PatternsLostWereMissed == Briefing!PatternsLostWereMissed
===============================================================================
