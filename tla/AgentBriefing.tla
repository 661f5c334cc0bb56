---------------------------- MODULE AgentBriefing ----------------------------
(***************************************************************************)
(* What an agent is told before it begins (genesis of                      *)
(* src/intelligence/genesis.ts) out of the layers of the memory            *)
(* (src/intelligence/memory/store.ts): the documents that match its        *)
(* mandate best, and the model of the user, a file that every process      *)
(* reads, changes and writes whole.  The reports and the memos it is given *)
(* beside them are those AgentMemory tells of.                             *)
(*                                                                         *)
(* A document is the layer it lies in, how often it has the words of the   *)
(* mandate, its freshness score and whether it is older than thirty days.  *)
(***************************************************************************)
EXTENDS Integers, FiniteSetsExt, SequencesExt

CONSTANTS
    Documents,   \* documents, numbered in the order their directories list them
    Contents,    \* what a document may be: [layer, terms, base, stale]
    Recorders,   \* processes that record what they observe of the user
    Patterns     \* what they may observe

VARIABLES
    library,    \* every document
    expected,   \* tokensExpected of the agent
    briefing,   \* the hits of the last briefing
    userModel,  \* user-model.json: the patterns saved last, and whether it is being written
    recording   \* recordUserPattern of every process

briefingVars == <<library, expected, briefing, userModel, recording>>

NotRecording == [at |-> "idle"]
NoBriefing == [mode |-> "none", hits |-> <<>>]

BriefingStarts == [library : [Documents -> Contents], expected : {"low", "medium", "high"}]
BriefingBegins(starts) ==
    /\ \E s \in starts : library = s.library /\ expected = s.expected
    /\ briefing = NoBriefing
    /\ userModel = [patterns |-> {}, torn |-> FALSE]
    /\ recording = [r \in Recorders |-> NotRecording]

BriefingInit == BriefingBegins(BriefingStarts)

-----------------------------------------------------------------------------
\* searchMemory.

ModeLayers == [fast     |-> {"handoff"},
               balanced |-> {"handoff", "semantic"},
               deep     |-> {"handoff", "semantic", "inheritance", "parables", "memos"}]
ModeHits == [fast |-> 3, balanced |-> 5, deep |-> 10]

\* computeWeight, in halves: compiled documents and fresh reports weigh most, whatever their age.
Weight(d) ==
    CASE d.layer \in {"semantic", "parables"}    -> 4
      [] d.layer = "handoff" /\ d.base >= 5      -> 4
      [] d.layer = "handoff" /\ d.base < 3       -> 1
      [] d.stale                                 -> 1
      [] OTHER                                   -> 2

Score(d) == d.terms * Weight(d)

Found(mode) == {n \in Documents : library[n].layer \in ModeLayers[mode] /\ library[n].terms > 0}

\* sort keeps the order of the directories where scores are the same.
Before(m, n) ==
    \/ Score(library[m]) > Score(library[n])
    \/ Score(library[m]) = Score(library[n]) /\ m < n

\* Mutant: as many as there is room for are taken before they are sorted.
SearchUnsorted(mode) ==
    LET found == SetToSortSeq(Found(mode), LAMBDA m, n : m < n)
    IN  SetToSortSeq(Range(SubSeq(found, 1, Min({ModeHits[mode], Len(found)}))), Before)

SearchMemory(mode) ==
    LET ranked == SetToSortSeq(Found(mode), Before)
    IN  SubSeq(ranked, 1, Min({ModeHits[mode], Len(ranked)}))

-----------------------------------------------------------------------------
\* genesis: a full briefing where many tokens are expected, and a light one otherwise.
Tier == IF expected = "high" THEN "full" ELSE "light"
Mode == IF Tier = "full" THEN "deep" ELSE IF Tier = "light" THEN "fast" ELSE "balanced"

Genesis ==
    /\ briefing = NoBriefing
    /\ briefing' = [mode |-> Mode, hits |-> SearchMemory(Mode)]
    /\ UNCHANGED <<library, expected, userModel, recording>>

-----------------------------------------------------------------------------
\* recordUserPattern.  writeFileSync empties the file before it writes, and a process may end
\* between the two; loadUserModel takes a file it cannot parse for no model.

LoadUserModel(r, pattern) ==
    LET loaded == IF userModel.torn THEN {} ELSE userModel.patterns
    IN  /\ recording[r] = NotRecording
        /\ pattern \notin loaded
        /\ recording' = [recording EXCEPT ![r] =
               [at |-> "loaded", patterns |-> loaded \cup {pattern},
                missed |-> userModel.patterns \ loaded]]
        /\ UNCHANGED <<library, expected, briefing, userModel>>

TruncateUserModel(r) ==
    /\ recording[r].at = "loaded"
    /\ userModel' = [userModel EXCEPT !.torn = TRUE]
    /\ recording' = [recording EXCEPT ![r].at = "writing"]
    /\ UNCHANGED <<library, expected, briefing>>

\* Mutant: where the file has patterns already, the last one is written over.
SavedOver(r) == Patterns \cap {CHOOSE p \in recording[r].patterns : TRUE}

Saved(r) == recording[r].patterns

\* What is saved is not seen by the processes that loaded before.
SaveUserModel(r) ==
    /\ recording[r].at = "writing"
    /\ userModel' = [patterns |-> Saved(r), torn |-> FALSE]
    /\ recording' = [s \in Recorders |->
           IF s = r THEN NotRecording
           ELSE IF recording[s] = NotRecording THEN NotRecording
           ELSE [recording[s] EXCEPT !.missed = @ \cup (recording[r].patterns \ recording[s].patterns)]]
    /\ UNCHANGED <<library, expected, briefing>>

\* The process ends before it wrote.
Killed(r) ==
    /\ recording[r].at = "writing"
    /\ recording' = [recording EXCEPT ![r] = NotRecording]
    /\ UNCHANGED <<library, expected, briefing, userModel>>

BriefingNext ==
    \/ Genesis
    \/ \E r \in Recorders :
          \/ \E pattern \in Patterns : LoadUserModel(r, pattern)
          \/ TruncateUserModel(r) \/ SaveUserModel(r) \/ Killed(r)

BriefingSpec == BriefingInit /\ [][BriefingNext]_briefingVars

-----------------------------------------------------------------------------
(***************************************************************************)
(* Properties.                                                             *)
(***************************************************************************)

\* A briefing has the documents that match best, whatever the order of the directories, as many
\* as there is room for.
HitsAreTheBest ==
    LET hits == Range(briefing.hits)
    IN  briefing # NoBriefing =>
        /\ hits \subseteq Found(briefing.mode)
        /\ Found(briefing.mode) # hits => Cardinality(hits) = ModeHits[briefing.mode]
        /\ \A n \in Found(briefing.mode) \ hits, m \in hits : Score(library[m]) >= Score(library[n])

\* A pattern that was saved is lost only to a process that loaded the model before it was saved,
\* or while the file was empty.
PatternsLostWereMissed ==
    [][\A r \in Recorders :
           recording[r].at = "writing" /\ recording'[r] = NotRecording =>
               userModel.patterns \ userModel'.patterns \subseteq recording[r].missed]_briefingVars

\* "stale (0.5x): >30 days old": of two documents that match as well, a stale one does not come
\* before one that is not.
StaleComesLast ==
    \A j \in DOMAIN briefing.hits, i \in 1..Len(briefing.hits) :
        LET former == library[briefing.hits[i]]
            latter == library[briefing.hits[j]]
        IN  i < j /\ former.terms = latter.terms /\ former.stale => latter.stale
===============================================================================
