----------------------------- MODULE AgentMemory -----------------------------
(***************************************************************************)
(* The layered memory of the intelligence (src/intelligence): the exit     *)
(* reports agents leave in handoff/, the memos they write to each other,   *)
(* the consolidation that distils both into the semantic document of the   *)
(* day, the dream cycle, and the spirit that counts the cycles.            *)
(*                                                                         *)
(* The layers are directories that every process of the user shares; the   *)
(* functions are synchronous, so that processes interleave between their   *)
(* reads and writes of files.  Texts and scores are left out.              *)
(***************************************************************************)
EXTENDS Integers, FiniteSetsExt, SequencesExt

CONSTANTS
    Agents,         \* agents that write exit reports
    Consolidators,  \* processes that consolidate
    Interval,       \* CONSOLIDATION_INTERVAL
    DocumentSize,   \* reports a document tells of: the newest of them
    MaxReports,     \* bound: reports written
    MaxMemos,       \* bound: memos written
    MaxCycles,      \* bound: updates of the spirit
    MaxDays         \* bound: days

VARIABLES
    handoff,      \* the report of every agent in handoff/, 0 for none
    inheritance,  \* the report of every agent in inheritance/, marked consolidated
    semantic,     \* for every day the agents whose reports its document tells of
    memos,        \* memos: whether they are read, old, and were looked at
    cycle,        \* spirit.cycleCount
    calendar,     \* the day, and the reports written so far
    ritual,       \* consolidate() of every process: its step and what it gathered
    overlapped    \* whether two consolidations were ever under way together

memoryVars == <<handoff, inheritance, semantic, memos, cycle, calendar, ritual, overlapped>>

Resting == [at |-> "resting", reports |-> <<>>, memos |-> {}]

MemoryInit ==
    /\ handoff = [a \in Agents |-> 0]
    /\ inheritance = handoff
    /\ semantic = [d \in 1..MaxDays |-> {}]
    /\ memos = <<>>
    /\ cycle = 0
    /\ calendar = [day |-> 1, reports |-> 0]
    /\ ritual = [c \in Consolidators |-> Resting]
    /\ overlapped = FALSE

-----------------------------------------------------------------------------
\* Agents.

\* The file is named for the agent: a new report replaces the last one of it.
WriteExitReport(a) ==
    /\ calendar.reports < MaxReports
    /\ calendar' = [calendar EXCEPT !.reports = @ + 1]
    /\ handoff' = [handoff EXCEPT ![a] = calendar.reports + 1]
    /\ UNCHANGED <<inheritance, semantic, memos, cycle, ritual, overlapped>>

WriteMemo ==
    /\ Len(memos) < MaxMemos
    /\ memos' = Append(memos, [read |-> FALSE, old |-> FALSE, seen |-> FALSE])
    /\ UNCHANGED <<handoff, inheritance, semantic, cycle, calendar, ritual, overlapped>>

\* Another cycle of an agent.
UpdateSpirit ==
    /\ cycle < MaxCycles
    /\ cycle' = cycle + 1
    /\ UNCHANGED <<handoff, inheritance, semantic, memos, calendar, ritual, overlapped>>

\* Time: the next day, and memos that get old.
NextDay ==
    /\ calendar.day < MaxDays
    /\ calendar' = [calendar EXCEPT !.day = @ + 1]
    /\ memos' = [m \in DOMAIN memos |-> [memos[m] EXCEPT !.old = TRUE]]
    /\ UNCHANGED <<handoff, inheritance, semantic, cycle, ritual, overlapped>>

\* runDreamCycle: stale memos are marked read.
RunDreamCycle ==
    /\ \E m \in Range(memos) : m.old /\ ~m.read
    /\ memos' = [m \in DOMAIN memos |->
                    IF memos[m].old /\ ~memos[m].read THEN [memos[m] EXCEPT !.read = TRUE, !.seen = TRUE]
                    ELSE memos[m]]
    /\ UNCHANGED <<handoff, inheritance, semantic, cycle, calendar, ritual, overlapped>>

-----------------------------------------------------------------------------
\* consolidate.

Goes(c, step) == ritual' = [ritual EXCEPT ![c].at = step]
ShouldConsolidate == cycle > 0 /\ cycle % Interval = 0

\* getUnconsolidatedHandoff: every report of handoff/, newest first.
UnconsolidatedHandoff == SetToSortSeq(Range(handoff) \ {0}, LAMBDA x, y : x > y)
AgentOf(report) == CHOOSE a \in Agents : handoff[a] = report

\* The reports and the unread memos are read.
Gather(c) ==
    LET unread == {m \in DOMAIN memos : ~memos[m].read}
    IN  /\ ritual[c].at = "resting"
        /\ ShouldConsolidate
        /\ ritual' = [ritual EXCEPT ![c] =
               [at |-> "gathered",
                reports |-> [k \in DOMAIN UnconsolidatedHandoff |->
                                [of |-> AgentOf(UnconsolidatedHandoff[k]), report |-> UnconsolidatedHandoff[k]]],
                memos |-> unread]]
        /\ memos' = [m \in DOMAIN memos |-> IF m \in unread THEN [memos[m] EXCEPT !.seen = TRUE] ELSE memos[m]]
        /\ overlapped' = (overlapped \/ \E d \in Consolidators : ritual[d].at # "resting")
        /\ UNCHANGED <<handoff, inheritance, semantic, cycle, calendar>>

\* The document of the day is written over.
WriteSemanticMemory(c) ==
    LET told == SubSeq(ritual[c].reports, 1, Min({DocumentSize, Len(ritual[c].reports)}))
    IN  /\ ritual[c].at = "gathered"
        /\ semantic' = [semantic EXCEPT ![calendar.day] = {r.of : r \in Range(told)}]
        /\ Goes(c, "distilled")
        /\ UNCHANGED <<handoff, inheritance, memos, cycle, calendar, overlapped>>

\* Mutant: the files are moved out of handoff/.
MarkMoved(c) ==
    LET marked == {r.of : r \in Range(ritual[c].reports)}
    IN  /\ ritual[c].at = "distilled"
        /\ inheritance' = [a \in Agents |-> IF a \in marked THEN handoff[a] ELSE inheritance[a]]
        /\ handoff' = [a \in Agents |-> IF a \in marked THEN 0 ELSE handoff[a]]
        /\ Goes(c, "marked")
        /\ UNCHANGED <<semantic, memos, cycle, calendar, overlapped>>

\* markConsolidated: the file as it is by now is copied to inheritance/, and stays.
MarkConsolidated(c) ==
    LET marked == {r.of : r \in Range(ritual[c].reports)}
    IN  /\ ritual[c].at = "distilled"
        /\ inheritance' = [a \in Agents |-> IF a \in marked THEN handoff[a] ELSE inheritance[a]]
        /\ Goes(c, "marked")
        /\ UNCHANGED <<handoff, semantic, memos, cycle, calendar, overlapped>>

MarkMemosRead(c) ==
    /\ ritual[c].at = "marked"
    /\ memos' = [m \in DOMAIN memos |-> IF m \in ritual[c].memos THEN [memos[m] EXCEPT !.read = TRUE] ELSE memos[m]]
    /\ Goes(c, "reviewed")
    /\ UNCHANGED <<handoff, inheritance, semantic, cycle, calendar, overlapped>>

\* The spirit is updated, which counts a cycle.
EndRitual(c) ==
    /\ ritual[c].at = "reviewed"
    /\ cycle' = cycle + 1
    /\ ritual' = [ritual EXCEPT ![c] = Resting]
    /\ UNCHANGED <<handoff, inheritance, semantic, memos, calendar, overlapped>>

MemoryNext ==
    \/ WriteMemo \/ UpdateSpirit \/ NextDay \/ RunDreamCycle
    \/ \E a \in Agents : WriteExitReport(a)
    \/ \E c \in Consolidators :
          \/ cycle < MaxCycles /\ Gather(c)
          \/ WriteSemanticMemory(c) \/ MarkConsolidated(c) \/ MarkMemosRead(c) \/ EndRitual(c)

MemorySpec == MemoryInit /\ [][MemoryNext]_memoryVars

-----------------------------------------------------------------------------
(***************************************************************************)
(* Properties.                                                             *)
(***************************************************************************)

\* What is marked was used: a memo that is read was looked at, and of an agent whose report is
\* marked consolidated a document tells, although the document of a day is written over by the
\* next consolidation; as long as consolidations do not overlap and no more agents report than
\* a document has room for.
MarkedWasUsed ==
    /\ \A m \in Range(memos) : m.read => m.seen
    /\ ~overlapped /\ Cardinality({a \in Agents : handoff[a] # 0}) <= DocumentSize =>
           \A a \in Agents : inheritance[a] # 0 => a \in UNION Range(semantic)

\* "Read all unconsolidated exit reports": a report that was marked consolidated is not
\* gathered again.
ConsolidatedOnce ==
    [][\A c \in Consolidators :
          ritual[c].at = "resting" /\ ritual'[c].at = "gathered" =>
              \A r \in Range(ritual'[c].reports) : r.report # inheritance[r.of]]_memoryVars
===============================================================================
