---------------------------- MODULE WorkspaceProofs ----------------------------
(***************************************************************************)
(* Proofs about WorkspaceParts, for every value of its constants: plans of *)
(* edits, completions, the context of a turn, the model of the user and    *)
(* the records of its changes.                                             *)
(*                                                                         *)
(* None of the properties is inductive.  For an edit plan the files that   *)
(* are neither as planned from nor as proposed are to be accounted for at  *)
(* every write, in both directions, while decisions change; for the        *)
(* completions the request that a session awaits is tied to its cursor,    *)
(* its state and the one pending request of the engine; for the context    *)
(* the messages that a compaction has read are those of the transcript up  *)
(* to what was said since; for the model of the user what a process has    *)
(* loaded is told from what was saved behind its back; for the records     *)
(* every change, not only the last one of a file, found what the changes   *)
(* before it that are not rolled back had left.                            *)
(***************************************************************************)
EXTENDS WorkspaceParts, FiniteSetTheorems, SequenceTheorems, WellFoundedInduction, TLAPS

-----------------------------------------------------------------------------
(***************************************************************************)
(* A behaviour of the parts is a behaviour of each.                        *)
(***************************************************************************)

\* The starts of a part that does not run are starts of it.
LEMMA StartsWithin ==
    ASSUME NEW p, NEW starts, starts # {}
    PROVE  Starts(p, starts) \subseteq starts
BY DEF Starts, Some

\* A step is one of a part's, or leaves the part alone.
LEMMA PartSteps ==
    ASSUME [Next]_vars
    PROVE  /\ [Edits!EditNext]_editsVars
           /\ [Completion!CompletionNext]_completionVars
           /\ [Context!TurnNext]_contextVars
           /\ [Briefing!BriefingNext]_briefingVars
           /\ [Records!RecordNext]_recordsVars
<1>1. CASE UNCHANGED vars
  BY <1>1 DEF vars
<1>2. CASE Next
  BY <1>2 DEF Next, Rest
<1> QED
  BY <1>1, <1>2

-----------------------------------------------------------------------------
(***************************************************************************)
(* Completions: what a session waits for is what is around its cursor.     *)
(***************************************************************************)

SnapshotType == Completion!Snapshots \cup {Completion!NoSnapshot}
SuggestionType == [for : SnapshotType, partly : BOOLEAN]
SessionType ==
    [snapshot : SnapshotType, awaited : Nat, state : {"idle", "pending", "showing"},
     current : SuggestionType, disposed : BOOLEAN]
RequestType ==
    [session : Editors, snapshot : SnapshotType, at : {"timer", "cleared", "model", "stream", "ended"},
     aborted : BOOLEAN, answer : {"none", "null", "text"}, result : SuggestionType,
     continued : BOOLEAN]

CompletionTyped ==
    /\ sessions \in [Editors -> SessionType]
    /\ requests \in Seq(RequestType)
    /\ engine \in [current : Nat, pending : Nat]

\* A request without an answer is the pending one; an answer that is a text is for the snapshot
\* of its request.
RequestOK(r) ==
    /\ requests[r].answer = "none" => r = engine.pending /\ ~requests[r].continued
    /\ requests[r].answer = "text" =>
           requests[r].at = "ended" /\ requests[r].result.for = requests[r].snapshot

\* The request a session awaits is its own and for what is around its cursor; while it has no
\* answer the session is pending, and of a disposed session it will not be shown.
AwaitedOK(s) ==
    LET r == sessions[s].awaited IN
    /\ r \in DOMAIN requests \cup {0}
    /\ r \in DOMAIN requests =>
           /\ requests[r].session = s /\ requests[r].snapshot = sessions[s].snapshot
           /\ requests[r].answer = "none" => sessions[s].state = "pending"
           /\ sessions[s].disposed => requests[r].answer = "null" \/ requests[r].continued
    /\ sessions[s].state = "pending" =>
           r \in DOMAIN requests /\ (requests[r].answer = "none" \/ ~requests[r].continued)

CompletionInv ==
    /\ CompletionTyped
    /\ engine.pending \in DOMAIN requests \cup {0}
    /\ \A r \in DOMAIN requests : RequestOK(r)
    /\ \A s \in Editors : AwaitedOK(s)
    /\ Completion!ShownFitsSnapshot

\* A request that is superseded has been answered, and nothing else of it that matters changes.
LEMMA Superseded ==
    ASSUME CompletionInv, NEW rs, rs = Completion!Supersede(requests)
    PROVE  /\ rs \in Seq(RequestType) /\ Len(rs) = Len(requests) /\ DOMAIN rs = DOMAIN requests
           /\ \A r \in DOMAIN requests :
                 /\ rs[r].session = requests[r].session /\ rs[r].snapshot = requests[r].snapshot
                 /\ rs[r].result = requests[r].result /\ rs[r].continued = requests[r].continued
                 /\ requests[r].at = "ended" => rs[r].at = "ended"
                 /\ rs[r].answer = IF requests[r].answer = "none" THEN "null" ELSE requests[r].answer
<1> DEFINE p == engine.pending
           g == [requests[p] EXCEPT !.aborted = TRUE,
                                    !.at = IF @ = "timer" THEN "cleared" ELSE @,
                                    !.answer = IF @ = "none" THEN "null" ELSE @]
<1>1. /\ requests \in Seq(RequestType) /\ p \in DOMAIN requests \cup {0}
      /\ \A r \in DOMAIN requests : requests[r].answer = "none" => r = p
  BY DEF CompletionInv, CompletionTyped, RequestOK
<1>2. Completion!NoRequest = 0 /\ 0 \notin DOMAIN requests
  BY <1>1 DEF Completion!NoRequest
<1>3. CASE p = 0
  BY <1>1, <1>2, <1>3 DEF Completion!Supersede
<1>4. CASE p # 0
  <2>1. p \in DOMAIN requests /\ requests[p] \in RequestType
    BY <1>1, <1>4, ElementOfSeq
  <2>2. rs = [requests EXCEPT ![p] = g]
    BY <1>1, <1>2, <1>4, <2>1 DEF Completion!Supersede, RequestType
  <2>3. g \in RequestType
    BY <2>1 DEF RequestType
  <2>4. /\ g.session = requests[p].session /\ g.snapshot = requests[p].snapshot
        /\ g.result = requests[p].result /\ g.continued = requests[p].continued
        /\ requests[p].at = "ended" => g.at = "ended"
        /\ g.answer = IF requests[p].answer = "none" THEN "null" ELSE requests[p].answer
    BY <2>1 DEF RequestType
  <2>5. /\ rs \in Seq(RequestType) /\ Len(rs) = Len(requests) /\ DOMAIN rs = DOMAIN requests
    BY <1>1, <2>1, <2>2, <2>3, ExceptSeq
  <2> HIDE DEF g
  <2>6. rs[p] = g /\ \A r \in DOMAIN requests \ {p} : rs[r] = requests[r]
    BY <1>1, <2>1, <2>2
  <2> QED
    BY <1>1, <2>4, <2>5, <2>6
<1> QED
  BY <1>3, <1>4

\* A request gets on, and is answered with a completion for its own snapshot or with none.
LEMMA RequestMoves ==
    ASSUME CompletionInv, NEW r \in DOMAIN requests, NEW g \in RequestType,
           requests[r].at # "ended",
           requests' = [requests EXCEPT ![r] = g], UNCHANGED <<sessions, engine>>,
           g.session = requests[r].session, g.snapshot = requests[r].snapshot,
           g.continued = requests[r].continued,
           requests[r].answer # "none" => g.answer = requests[r].answer,
           g.answer = "text" => g.at = "ended" /\ g.result.for = g.snapshot
    PROVE  CompletionInv'
<1>1. CompletionTyped' /\ DOMAIN requests' = DOMAIN requests
  BY ExceptSeq DEF CompletionInv, CompletionTyped
<1>2. requests'[r] = g /\ \A q \in DOMAIN requests \ {r} : requests'[q] = requests[q]
  BY DEF CompletionInv, CompletionTyped
<1>3. requests[r].answer # "text" /\ RequestOK(r)
  BY DEF CompletionInv, RequestOK
<1>4. \A q \in DOMAIN requests' : RequestOK(q)'
  BY <1>1, <1>2, <1>3 DEF CompletionInv, RequestOK
<1>5. g.answer \in {"none", "null", "text"} /\ requests[r].answer \in {"none", "null"}
  BY <1>3, ElementOfSeq DEF CompletionInv, CompletionTyped, RequestType
<1>6. ASSUME NEW s \in Editors
      PROVE  AwaitedOK(s)'
  <2>1. AwaitedOK(s) /\ sessions' = sessions
    BY DEF CompletionInv
  <2>2. CASE sessions[s].awaited = r
    BY <1>1, <1>2, <1>3, <1>5, <2>1, <2>2 DEF AwaitedOK, RequestOK
  <2>3. CASE sessions[s].awaited # r
    BY <1>1, <1>2, <2>1, <2>3 DEF AwaitedOK
  <2> QED
    BY <2>2, <2>3
<1>7. Completion!ShownFitsSnapshot'
  BY DEF CompletionInv, Completion!ShownFitsSnapshot
<1> QED
  BY <1>1, <1>4, <1>6, <1>7 DEF CompletionInv

\* A request is resolved with a completion for its snapshot, or with none.
LEMMA ResolveKeeps ==
    ASSUME CompletionInv, NEW r \in DOMAIN requests, NEW result \in SuggestionType,
           requests[r].at # "ended",
           result # Completion!NoSuggestion => result.for = requests[r].snapshot,
           Completion!Resolve(r, result), UNCHANGED <<sessions, engine>>
    PROVE  CompletionInv'
<1> DEFINE answer == IF requests[r].answer # "none" THEN requests[r].answer
                     ELSE IF result # Completion!NoSuggestion /\ r = engine.current THEN "text" ELSE "null"
           g == [requests[r] EXCEPT !.at = "ended", !.answer = answer, !.result = result]
<1>1. requests \in Seq(RequestType) /\ requests[r] \in RequestType
  BY ElementOfSeq DEF CompletionInv, CompletionTyped
<1>2. answer \in {"none", "null", "text"} /\ (requests[r].answer # "none" => answer = requests[r].answer)
  BY <1>1 DEF RequestType
<1>3. requests[r].answer # "text"
  BY DEF CompletionInv, RequestOK
<1>4. answer = "text" => result.for = requests[r].snapshot
  BY <1>3
<1>5. requests' = [requests EXCEPT ![r] = g]
  BY <1>1 DEF Completion!Resolve, RequestType
<1> HIDE DEF answer
<1>6. g \in RequestType /\ g.session = requests[r].session /\ g.snapshot = requests[r].snapshot
      /\ g.continued = requests[r].continued /\ g.at = "ended" /\ g.answer = answer
      /\ g.result = result
  BY <1>1, <1>2 DEF RequestType
<1> HIDE DEF g
<1> QED
  BY <1>2, <1>4, <1>5, <1>6, RequestMoves

LEMMA CompletionStartsRight == Completion!CompletionInit => CompletionInv
<1> SUFFICES ASSUME Completion!CompletionInit
             PROVE  CompletionInv
  OBVIOUS
<1>1. /\ Completion!NoSnapshot \in SnapshotType /\ Completion!NoSuggestion \in SuggestionType
      /\ Completion!NoRequest = 0
  BY DEF SnapshotType, SuggestionType, Completion!NoSuggestion, Completion!NoRequest
<1>2. CompletionTyped /\ requests = <<>> /\ DOMAIN requests = {}
  BY <1>1 DEF Completion!CompletionInit, CompletionTyped, SessionType
<1>3. \A s \in Editors : AwaitedOK(s)
  BY <1>1, <1>2 DEF Completion!CompletionInit, AwaitedOK
<1>4. Completion!ShownFitsSnapshot /\ engine.pending = 0
  BY <1>1 DEF Completion!CompletionInit, Completion!ShownFitsSnapshot
<1> QED
  BY <1>2, <1>3, <1>4 DEF CompletionInv, RequestOK

\* The events of a request.
LEMMA RequestEvents ==
    ASSUME CompletionInv, NEW r \in DOMAIN requests,
           \/ Completion!TimerFires(r) \/ Completion!ModelResolved(r)
           \/ Completion!StreamCompletes(r) \/ Completion!StreamFails(r)
    PROVE  CompletionInv'
<1>1. requests \in Seq(RequestType) /\ requests[r] \in RequestType
  BY ElementOfSeq DEF CompletionInv, CompletionTyped
<1>2. /\ Completion!Suggestion(requests[r].snapshot) \in SuggestionType
      /\ Completion!Suggestion(requests[r].snapshot).for = requests[r].snapshot
      /\ Completion!NoSuggestion \in SuggestionType
  BY <1>1 DEF RequestType, Completion!Suggestion, Completion!NoSuggestion, SuggestionType, SnapshotType
<1>3. ASSUME NEW at \in {"model", "stream"}, requests[r].at # "ended",
             requests' = [requests EXCEPT ![r].at = at], UNCHANGED <<sessions, engine>>
      PROVE  CompletionInv'
  <2> DEFINE g == [requests[r] EXCEPT !.at = at]
  <2>1. requests' = [requests EXCEPT ![r] = g]
    BY <1>1, <1>3
  <2>2. /\ g \in RequestType /\ g.session = requests[r].session /\ g.snapshot = requests[r].snapshot
        /\ g.continued = requests[r].continued /\ g.answer = requests[r].answer
    BY <1>1 DEF RequestType
  <2>3. requests[r].answer # "text"
    BY <1>3 DEF CompletionInv, RequestOK
  <2> HIDE DEF g
  <2> QED
    BY <1>3, <2>1, <2>2, <2>3, RequestMoves
<1>4. CASE Completion!TimerFires(r)
  <2>1. ASSUME NEW k \in Completion!CacheHit(requests[r].snapshot),
               Completion!Resolve(r, Completion!Suggestion(cache[k]))
        PROVE  CompletionInv'
    <3>1. cache[k] = requests[r].snapshot
      BY <2>1 DEF Completion!CacheHit, Completion!CacheKey
    <3> QED
      BY <1>2, <1>4, <2>1, <3>1, ResolveKeeps DEF Completion!TimerFires
  <2> QED
    BY <1>3, <1>4, <2>1 DEF Completion!TimerFires
<1>5. CASE Completion!ModelResolved(r)
  BY <1>3, <1>5 DEF Completion!ModelResolved
<1>6. CASE Completion!StreamCompletes(r)
  BY <1>2, <1>6, ResolveKeeps DEF Completion!StreamCompletes
<1>7. CASE Completion!StreamFails(r)
  BY <1>2, <1>7, ResolveKeeps DEF Completion!StreamFails
<1> QED
  BY <1>4, <1>5, <1>6, <1>7

\* What a session may show or wait for next.
LEMMA SetCurrentTypes ==
    ASSUME CompletionInv, NEW s \in Editors, NEW suggestion \in SuggestionType,
           NEW state \in {"idle", "pending", "showing"}
    PROVE  LET next == Completion!SetCurrent(s, suggestion, state) IN
           /\ next \in [Editors -> SessionType]
           /\ next[s].snapshot = sessions[s].snapshot /\ next[s].awaited = sessions[s].awaited
           /\ next[s].disposed = sessions[s].disposed
           /\ next[s].current = suggestion /\ next[s].state = state
           /\ \A t \in Editors \ {s} : next[t] = sessions[t]
<1>1. sessions \in [Editors -> SessionType]
  BY DEF CompletionInv, CompletionTyped
<1> QED
  BY <1>1 DEF Completion!SetCurrent, SessionType

LEMMA NoSuggestionTypes ==
    Completion!NoSuggestion \in SuggestionType /\ Completion!NoRequest = 0
BY DEF SnapshotType, SuggestionType, Completion!NoSuggestion, Completion!NoRequest

\* Between two events no answer waits to be looked at.
LEMMA Settled ==
    ASSUME CompletionInv, Completion!NextEvent, NEW s \in Editors
    PROVE  /\ \A r \in DOMAIN requests : requests[r].answer = "none" \/ requests[r].continued
           /\ sessions[s].state = "pending" <=>
                  sessions[s].awaited \in DOMAIN requests /\ requests[sessions[s].awaited].answer = "none"
BY DEF CompletionInv, AwaitedOK, Completion!NextEvent

\* update after its await: what is shown was completed for the snapshot there is.
LEMMA ContinueKeeps ==
    ASSUME CompletionInv, NEW r \in DOMAIN requests, Completion!Continue(r)
    PROVE  CompletionInv'
<1> DEFINE s == requests[r].session
           g == [requests[r] EXCEPT !.continued = TRUE]
<1>1. requests \in Seq(RequestType) /\ requests[r] \in RequestType /\ RequestOK(r)
  BY ElementOfSeq DEF CompletionInv, CompletionTyped
<1>2. s \in Editors /\ requests[r].result \in SuggestionType
  BY <1>1 DEF RequestType
<1>3. /\ requests' = [requests EXCEPT ![r] = g] /\ g \in RequestType
      /\ requests' \in Seq(RequestType) /\ DOMAIN requests' = DOMAIN requests
      /\ requests'[r] = g /\ \A q \in DOMAIN requests \ {r} : requests'[q] = requests[q]
  <2>1. requests' = [requests EXCEPT ![r] = g] /\ g \in RequestType
    BY <1>1 DEF Completion!Continue, RequestType
  <2> HIDE DEF g
  <2> QED
    BY <1>1, <2>1, ExceptSeq
<1>4. /\ g.session = s /\ g.snapshot = requests[r].snapshot /\ g.continued /\ g.at = requests[r].at
      /\ g.answer = requests[r].answer /\ g.result = requests[r].result
  BY <1>1 DEF RequestType
<1>5. /\ requests[r].answer # "none" /\ ~requests[r].continued /\ UNCHANGED engine
      /\ sessions' = IF sessions[s].awaited # r THEN sessions
                     ELSE IF requests[r].answer = "null"
                     THEN Completion!SetCurrent(s, Completion!NoSuggestion, "idle")
                     ELSE Completion!SetCurrent(s, requests[r].result, "showing")
  BY DEF Completion!Continue
<1> HIDE DEF g
<1>6. \A q \in DOMAIN requests' : RequestOK(q)'
  BY <1>1, <1>3, <1>4, <1>5 DEF CompletionInv, RequestOK
<1>7. CASE sessions[s].awaited # r
  <2>1. sessions' = sessions
    BY <1>5, <1>7
  <2>2. ASSUME NEW t \in Editors
        PROVE  AwaitedOK(t)'
    <3>1. AwaitedOK(t)
      BY DEF CompletionInv
    <3>2. sessions[t].awaited = r => t = s
      BY <3>1 DEF AwaitedOK
    <3> QED
      BY <1>3, <1>7, <2>1, <3>1, <3>2 DEF AwaitedOK
  <2> QED
    BY <1>3, <1>5, <1>6, <2>1, <2>2 DEF CompletionInv, CompletionTyped, Completion!ShownFitsSnapshot
<1>8. CASE sessions[s].awaited = r
  <2> DEFINE suggestion == IF requests[r].answer = "null" THEN Completion!NoSuggestion ELSE requests[r].result
             state == IF requests[r].answer = "null" THEN "idle" ELSE "showing"
  <2>1. sessions' = Completion!SetCurrent(s, suggestion, state)
    BY <1>5, <1>8
  <2>2. /\ sessions' \in [Editors -> SessionType]
        /\ sessions'[s].snapshot = sessions[s].snapshot /\ sessions'[s].awaited = r
        /\ sessions'[s].disposed = sessions[s].disposed
        /\ sessions'[s].current = suggestion /\ sessions'[s].state = state
        /\ \A t \in Editors \ {s} : sessions'[t] = sessions[t]
    BY <1>2, <1>8, <2>1, NoSuggestionTypes, SetCurrentTypes
  <2>3. AwaitedOK(s)
    BY <1>2 DEF CompletionInv
  <2>4. ASSUME NEW t \in Editors
        PROVE  AwaitedOK(t)'
    <3>1. AwaitedOK(t)
      BY DEF CompletionInv
    <3>2. CASE t = s
      <4>1. sessions'[s].awaited = r /\ r \in DOMAIN requests' /\ requests'[r] = g
        BY <1>3, <2>2
      <4>2. g.session = s /\ g.snapshot = sessions'[s].snapshot /\ g.answer # "none" /\ g.continued
        BY <1>4, <1>5, <1>8, <2>2, <2>3 DEF AwaitedOK
      <4>3. sessions'[s].state # "pending"
        BY <2>2
      <4> HIDE DEF s
      <4> QED
        BY <3>2, <4>1, <4>2, <4>3 DEF AwaitedOK
    <3>3. CASE t # s
      <4>1. sessions[t].awaited # r
        BY <3>1, <3>3 DEF AwaitedOK
      <4> QED
        BY <1>3, <2>2, <3>1, <3>3, <4>1 DEF AwaitedOK
    <3> QED
      BY <3>2, <3>3
  <2>5. Completion!ShownFitsSnapshot'
    <3>1. requests[r].answer # "null" => requests[r].answer = "text"
      BY <1>1, <1>5 DEF RequestType
    <3>2. suggestion # Completion!NoSuggestion =>
              state = "showing" /\ ~sessions[s].disposed /\ suggestion.for = sessions[s].snapshot
      BY <1>1, <1>5, <1>8, <2>3, <3>1 DEF RequestOK, AwaitedOK
    <3> QED
      BY <2>2, <3>2 DEF CompletionInv, Completion!ShownFitsSnapshot
  <2> QED
    BY <1>3, <1>5, <1>6, <2>2, <2>4, <2>5 DEF CompletionInv, CompletionTyped
<1> QED
  BY <1>7, <1>8

\* accept, acceptLine, acceptWord: a suggestion that shows is taken, or part of it.
LEMMA AcceptKeeps ==
    ASSUME CompletionInv, NEW s \in Editors, Completion!Accept(s) \/ Completion!AcceptPart(s)
    PROVE  CompletionInv'
<1>1. /\ sessions \in [Editors -> SessionType] /\ UNCHANGED <<requests, engine>>
      /\ sessions[s].current # Completion!NoSuggestion /\ Completion!NextEvent
  BY DEF CompletionInv, CompletionTyped, Completion!Accept, Completion!AcceptPart
<1>2. sessions[s].state = "showing" /\ ~sessions[s].disposed /\ sessions[s].current.for = sessions[s].snapshot
  BY <1>1 DEF CompletionInv, Completion!ShownFitsSnapshot
<1> DEFINE part_ == [sessions[s].current EXCEPT !.partly = TRUE]
<1>3. part_ \in SuggestionType /\ part_.for = sessions[s].snapshot
  BY <1>1, <1>2 DEF SessionType, SuggestionType
<1>4. PICK suggestion \in SuggestionType, state \in {"idle", "showing"} :
          /\ sessions' = Completion!SetCurrent(s, suggestion, state)
          /\ suggestion # Completion!NoSuggestion =>
                 state = "showing" /\ suggestion.for = sessions[s].snapshot
  BY <1>3, NoSuggestionTypes DEF Completion!Accept, Completion!AcceptPart
<1>5. /\ sessions' \in [Editors -> SessionType]
      /\ sessions'[s].snapshot = sessions[s].snapshot /\ sessions'[s].awaited = sessions[s].awaited
      /\ sessions'[s].disposed = sessions[s].disposed
      /\ sessions'[s].current = suggestion /\ sessions'[s].state = state
      /\ \A t \in Editors \ {s} : sessions'[t] = sessions[t]
  BY <1>4, SetCurrentTypes
<1>6. ASSUME NEW t \in Editors
      PROVE  AwaitedOK(t)'
  <2>1. AwaitedOK(t)
    BY DEF CompletionInv
  <2>2. sessions'[t].awaited = sessions[t].awaited /\ sessions'[t].snapshot = sessions[t].snapshot
        /\ sessions'[t].disposed = sessions[t].disposed
    BY <1>5
  <2>3. sessions'[t].state = "pending" <=> sessions[t].state = "pending"
    BY <1>2, <1>5
  <2> QED
    BY <1>1, <2>1, <2>2, <2>3 DEF AwaitedOK
<1>7. Completion!ShownFitsSnapshot'
  BY <1>2, <1>4, <1>5 DEF CompletionInv, Completion!ShownFitsSnapshot
<1> QED
  BY <1>1, <1>5, <1>6, <1>7 DEF CompletionInv, CompletionTyped, RequestOK

\* Superseding takes nothing from the sessions that are left alone.
LEMMA OthersKeepWaiting ==
    ASSUME CompletionInv, NEW rs, rs = Completion!Supersede(requests),
           NEW t \in Editors, sessions'[t] = sessions[t],
           requests' \in Seq(RequestType), Len(requests') >= Len(requests),
           \A r \in DOMAIN requests : requests'[r] = rs[r]
    PROVE  AwaitedOK(t)'
<1>1. AwaitedOK(t) /\ requests \in Seq(RequestType)
  BY DEF CompletionInv, CompletionTyped
<1>2. DOMAIN requests \subseteq DOMAIN requests' /\ 0 \notin DOMAIN requests'
  BY <1>1
<1> DEFINE a == sessions[t].awaited
<1>3. a \in DOMAIN requests =>
          /\ requests'[a].session = requests[a].session /\ requests'[a].snapshot = requests[a].snapshot
          /\ requests'[a].continued = requests[a].continued
          /\ requests'[a].answer = IF requests[a].answer = "none" THEN "null" ELSE requests[a].answer
  BY Superseded
<1>4. a \in DOMAIN requests \cup {0}
  BY <1>1 DEF AwaitedOK
<1>5. a \in DOMAIN requests => RequestOK(a)
  BY DEF CompletionInv
<1> QED
  BY <1>1, <1>2, <1>3, <1>4, <1>5 DEF AwaitedOK, RequestOK

\* update: nothing shows, and the session waits for a request that nobody has answered.
LEMMA UpdateKeeps ==
    ASSUME CompletionInv, NEW s \in Editors, NEW snapshot \in Completion!Snapshots,
           Completion!Update(s, snapshot)
    PROVE  CompletionInv'
<1> DEFINE rs == Completion!Supersede(requests)
           n == Len(requests) + 1
           g == [session |-> s, snapshot |-> snapshot, at |-> "timer", aborted |-> FALSE,
                 answer |-> "none", result |-> Completion!NoSuggestion, continued |-> FALSE]
           cleared == Completion!SetCurrent(s, Completion!NoSuggestion, "pending")
<1>1. requests \in Seq(RequestType) /\ n \in Nat \ {0} /\ ~sessions[s].disposed
  BY DEF CompletionInv, CompletionTyped, Completion!Update
<1>2. /\ rs \in Seq(RequestType) /\ Len(rs) = Len(requests)
      /\ \A r \in DOMAIN requests :
            /\ rs[r].answer # "none" /\ rs[r].snapshot = requests[r].snapshot
            /\ rs[r].result = requests[r].result
            /\ requests[r].at = "ended" => rs[r].at = "ended"
            /\ rs[r].answer = "text" => requests[r].answer = "text"
  BY Superseded
<1>3. g \in RequestType /\ snapshot \in SnapshotType
  BY NoSuggestionTypes DEF RequestType, SnapshotType
<1>4. /\ sessions' = [cleared EXCEPT ![s].snapshot = snapshot, ![s].awaited = n]
      /\ requests' = Append(rs, g) /\ engine' = [current |-> n, pending |-> n]
  BY DEF Completion!Update
<1>5. /\ cleared \in [Editors -> SessionType] /\ cleared[s].disposed = sessions[s].disposed
      /\ cleared[s].current = Completion!NoSuggestion /\ cleared[s].state = "pending"
      /\ \A t \in Editors \ {s} : cleared[t] = sessions[t]
  BY NoSuggestionTypes, SetCurrentTypes
<1> HIDE DEF cleared, rs, g
<1>6. /\ sessions' \in [Editors -> SessionType]
      /\ sessions'[s].snapshot = snapshot /\ sessions'[s].awaited = n
      /\ sessions'[s].disposed = sessions[s].disposed
      /\ sessions'[s].current = Completion!NoSuggestion /\ sessions'[s].state = "pending"
      /\ \A t \in Editors \ {s} : sessions'[t] = sessions[t]
  BY <1>1, <1>3, <1>4, <1>5 DEF SessionType
<1>7. /\ requests' \in Seq(RequestType) /\ Len(requests') = n /\ DOMAIN requests' = DOMAIN requests \cup {n}
      /\ requests'[n] = g /\ \A r \in DOMAIN requests : requests'[r] = rs[r]
  BY <1>1, <1>2, <1>3, <1>4, AppendProperties
<1>8. g.session = s /\ g.snapshot = snapshot /\ g.answer = "none" /\ ~g.continued
  BY DEF g
<1>9. \A r \in DOMAIN requests' : RequestOK(r)'
  <2>1. \A r \in DOMAIN requests : RequestOK(r)
    BY DEF CompletionInv
  <2> QED
    BY <1>2, <1>4, <1>7, <1>8, <2>1 DEF RequestOK
<1>10. ASSUME NEW t \in Editors
       PROVE  AwaitedOK(t)'
  <2>1. CASE t = s
    BY <1>1, <1>6, <1>7, <1>8, <2>1 DEF AwaitedOK
  <2>2. CASE t # s
    BY <1>1, <1>6, <1>7, <2>2, OthersKeepWaiting DEF rs
  <2> QED
    BY <2>1, <2>2
<1>11. Completion!ShownFitsSnapshot'
  BY <1>6 DEF CompletionInv, Completion!ShownFitsSnapshot
<1> QED
  BY <1>1, <1>4, <1>6, <1>7, <1>9, <1>10, <1>11 DEF CompletionInv, CompletionTyped

\* reject, dispose: what is pending is cancelled, and nothing shows.
LEMMA CancelKeeps ==
    ASSUME CompletionInv, NEW s \in Editors, Completion!NextEvent, Completion!CancelPending,
           sessions' \in [Editors -> SessionType],
           \A t \in Editors \ {s} : sessions'[t] = sessions[t],
           sessions'[s].state = "idle", sessions'[s].current = Completion!NoSuggestion,
           sessions'[s].snapshot = sessions[s].snapshot,
           sessions'[s].awaited \in {0, sessions[s].awaited}
    PROVE  CompletionInv'
<1>1. /\ requests' \in Seq(RequestType) /\ Len(requests') = Len(requests)
      /\ DOMAIN requests' = DOMAIN requests
      /\ \A r \in DOMAIN requests :
            /\ requests'[r].session = requests[r].session
            /\ requests'[r].snapshot = requests[r].snapshot
            /\ requests'[r].result = requests[r].result
            /\ requests'[r].continued = requests[r].continued
            /\ requests[r].at = "ended" => requests'[r].at = "ended"
            /\ requests'[r].answer = IF requests[r].answer = "none" THEN "null" ELSE requests[r].answer
  BY Superseded DEF Completion!CancelPending
<1>2. engine' = [current |-> 0, pending |-> 0] /\ requests' = Completion!Supersede(requests)
  BY NoSuggestionTypes DEF Completion!CancelPending
<1>3. requests \in Seq(RequestType) /\ 0 \notin DOMAIN requests
  BY DEF CompletionInv, CompletionTyped
<1>4. \A r \in DOMAIN requests' : RequestOK(r)'
  BY <1>1 DEF CompletionInv, RequestOK
<1>5. ASSUME NEW t \in Editors
      PROVE  AwaitedOK(t)'
  <2>1. CASE t = s
    <3>1. AwaitedOK(s) /\ \A r \in DOMAIN requests : requests[r].answer = "none" \/ requests[r].continued
      BY Settled DEF CompletionInv
    <3> QED
      BY <1>1, <1>3, <2>1, <3>1 DEF AwaitedOK
  <2>2. CASE t # s
    BY <1>1, <1>2, <1>3, <2>2, OthersKeepWaiting
  <2> QED
    BY <2>1, <2>2
<1>6. Completion!ShownFitsSnapshot'
  BY DEF CompletionInv, Completion!ShownFitsSnapshot
<1> QED
  BY <1>1, <1>2, <1>4, <1>5, <1>6 DEF CompletionInv, CompletionTyped

LEMMA RejectKeeps ==
    ASSUME CompletionInv, NEW s \in Editors, Completion!Reject(s)
    PROVE  CompletionInv'
<1>1. sessions \in [Editors -> SessionType] /\ Completion!NextEvent
  BY DEF CompletionInv, CompletionTyped, Completion!Reject
<1>2. CASE sessions[s].state = "idle"
  <2>1. UNCHANGED <<requests, engine>> /\ sessions' = [sessions EXCEPT ![s].awaited = 0]
    BY <1>2, NoSuggestionTypes DEF Completion!Reject
  <2>2. /\ sessions' \in [Editors -> SessionType]
        /\ \A t \in Editors \ {s} : sessions'[t] = sessions[t]
        /\ sessions'[s].awaited = 0 /\ sessions'[s].state = "idle"
        /\ sessions'[s].current = sessions[s].current
        /\ sessions'[s].snapshot = sessions[s].snapshot /\ sessions'[s].disposed = sessions[s].disposed
    BY <1>1, <1>2, <2>1 DEF SessionType
  <2>3. 0 \notin DOMAIN requests
    BY DEF CompletionInv, CompletionTyped
  <2>4. \A t \in Editors : AwaitedOK(t)'
    BY <2>1, <2>2, <2>3 DEF CompletionInv, AwaitedOK
  <2>5. Completion!ShownFitsSnapshot'
    BY <1>2, <2>2 DEF CompletionInv, Completion!ShownFitsSnapshot
  <2> QED
    BY <2>1, <2>2, <2>4, <2>5 DEF CompletionInv, CompletionTyped, RequestOK
<1>3. CASE sessions[s].state # "idle"
  <2> DEFINE cleared == Completion!SetCurrent(s, Completion!NoSuggestion, "idle")
  <2>1. sessions' = [cleared EXCEPT ![s].awaited = 0] /\ Completion!CancelPending
    BY <1>3, NoSuggestionTypes DEF Completion!Reject
  <2>2. /\ cleared \in [Editors -> SessionType]
        /\ \A t \in Editors \ {s} : cleared[t] = sessions[t]
        /\ cleared[s].state = "idle" /\ cleared[s].current = Completion!NoSuggestion
        /\ cleared[s].snapshot = sessions[s].snapshot
    BY NoSuggestionTypes, SetCurrentTypes
  <2> HIDE DEF cleared
  <2>3. /\ sessions' \in [Editors -> SessionType]
        /\ \A t \in Editors \ {s} : sessions'[t] = sessions[t]
        /\ sessions'[s].state = "idle" /\ sessions'[s].current = Completion!NoSuggestion
        /\ sessions'[s].snapshot = sessions[s].snapshot /\ sessions'[s].awaited = 0
    BY <2>1, <2>2 DEF SessionType
  <2> QED
    BY <1>1, <2>1, <2>3, CancelKeeps
<1> QED
  BY <1>2, <1>3

LEMMA DisposeKeeps ==
    ASSUME CompletionInv, NEW s \in Editors, Completion!Dispose(s)
    PROVE  CompletionInv'
<1> DEFINE cleared == Completion!SetCurrent(s, Completion!NoSuggestion, "idle")
<1>1. /\ sessions' = [cleared EXCEPT ![s].disposed = TRUE] /\ Completion!CancelPending
      /\ Completion!NextEvent
  BY DEF Completion!Dispose
<1>2. /\ cleared \in [Editors -> SessionType]
      /\ \A t \in Editors \ {s} : cleared[t] = sessions[t]
      /\ cleared[s].state = "idle" /\ cleared[s].current = Completion!NoSuggestion
      /\ cleared[s].snapshot = sessions[s].snapshot /\ cleared[s].awaited = sessions[s].awaited
  BY NoSuggestionTypes, SetCurrentTypes
<1> HIDE DEF cleared
<1>3. /\ sessions' \in [Editors -> SessionType]
      /\ \A t \in Editors \ {s} : sessions'[t] = sessions[t]
      /\ sessions'[s].state = "idle" /\ sessions'[s].current = Completion!NoSuggestion
      /\ sessions'[s].snapshot = sessions[s].snapshot /\ sessions'[s].awaited = sessions[s].awaited
  BY <1>1, <1>2 DEF SessionType
<1> QED
  BY <1>1, <1>3, CancelKeeps

LEMMA CompletionStep ==
    ASSUME CompletionInv, [Completion!CompletionNext]_completionVars
    PROVE  CompletionInv'
<1>1. CASE UNCHANGED completionVars \/ Completion!CacheExpires
  BY <1>1 DEF CompletionInv, CompletionTyped, RequestOK, AwaitedOK, Completion!ShownFitsSnapshot,
              completionVars, Completion!CacheExpires
<1>2. CASE Completion!CompletionNext
  BY <1>1, <1>2, UpdateKeeps, AcceptKeeps, RejectKeeps, DisposeKeeps, RequestEvents, ContinueKeeps
     DEF Completion!CompletionNext
<1> QED
  BY <1>1, <1>2

\* What the run checks follows.
LEMMA CompletionInvImplies == CompletionInv => CompletionsFit
<1> SUFFICES ASSUME CompletionInv
             PROVE  Completion!NobodyHangs
  BY DEF CompletionInv, CompletionsFit
<1>1. \A r \in DOMAIN requests : requests[r].answer = "none" => r = engine.pending
  BY DEF CompletionInv, RequestOK
<1> QED
  BY <1>1, Settled DEF Completion!NobodyHangs

-----------------------------------------------------------------------------
(***************************************************************************)
(* The context of a turn: a summary tells of all that was said before it   *)
(* was asked for.                                                          *)
(***************************************************************************)

\* The shapes of the transcript and of what the sessions are at, whatever the values.
ContextShaped ==
    /\ \E T : transcript \in Seq(T) /\ building \in [Sessions -> [at : T, task : T, skill : T, reads : T]]
    /\ counted \in [messages : Nat, turns : Nat, switches : Nat]

\* What the messages so far are in, those aside that a compaction could not know of.
Covered(about) == 1..counted.messages \subseteq about \cup raced \cup shortened

ContextInv ==
    /\ ContextShaped
    /\ Covered(Context!About(transcript))
    /\ \A s \in Sessions : building[s].at = "compacting" => Covered(building[s].reads)

\* What a transcript tells of.
LEMMA AboutAppend ==
    ASSUME NEW T, NEW q \in Seq(T), NEW e
    PROVE  Context!About(Append(q, e)) = Context!About(q) \cup e.about
<1>1. q \in Seq(T \cup {e})
  BY SeqMonotonic
<1>2. /\ Len(Append(q, e)) = Len(q) + 1 /\ Append(q, e)[Len(q) + 1] = e
      /\ \A i \in 1..Len(q) : Append(q, e)[i] = q[i]
      /\ DOMAIN Append(q, e) = 1..(Len(q) + 1) /\ DOMAIN q = 1..Len(q)
  BY <1>1, AppendProperties
<1>3. Context!Range(Append(q, e)) = Context!Range(q) \cup {e}
  <2>1. Len(q) \in Nat
    BY <1>1
  <2> HIDE DEF Context!Range
  <2>2. ASSUME NEW x \in Context!Range(q)
        PROVE  x \in Context!Range(Append(q, e))
    BY <1>2, <2>1 DEF Context!Range
  <2>3. e \in Context!Range(Append(q, e))
    BY <1>2, <2>1 DEF Context!Range
  <2>4. ASSUME NEW x \in Context!Range(Append(q, e))
        PROVE  x \in Context!Range(q) \cup {e}
    BY <1>2, <2>1 DEF Context!Range
  <2> QED
    BY <2>2, <2>3, <2>4
<1> QED
  BY <1>3 DEF Context!About

LEMMA AboutOne ==
    ASSUME NEW role, NEW about
    PROVE  Context!About(<<Context!Entry(role, about)>>) = about
<1> DEFINE e == Context!Entry(role, about)
<1>1. <<e>> = Append(<<>>, e) /\ <<>> \in Seq({e}) /\ e.about = about
  BY DEF Context!Entry
<1>2. Context!About(<<>>) = {}
  BY DEF Context!About, Context!Range
<1> HIDE DEF e
<1>3. Context!About(<<e>>) = Context!About(<<>>) \cup e.about
  BY <1>1, AboutAppend
<1> QED
  BY <1>1, <1>2, <1>3 DEF e

\* A session goes on with what it knows, or with the next of it.
Selects(s, at, skill, reads) ==
    building' = [building EXCEPT ![s].at = at, ![s].skill = skill, ![s].reads = reads]
Moves(s, at, task, skill, reads) ==
    \/ building' = [building EXCEPT ![s].at = at]
    \/ building' = [building EXCEPT ![s].at = at, ![s].task = task]
    \/ Selects(s, at, skill, reads)
    \/ building' = [building EXCEPT ![s] = [at |-> at, task |-> task, skill |-> skill, reads |-> reads]]

LEMMA BuildingGoes ==
    ASSUME ContextShaped, NEW s \in Sessions, NEW at, NEW task, NEW skill, NEW reads,
           Moves(s, at, task, skill, reads),
           \/ transcript' = transcript
           \/ \E e : transcript' = <<e>>,
           counted' \in [messages : Nat, turns : Nat, switches : Nat]
    PROVE  /\ ContextShaped'
           /\ building'[s].at = at
           /\ Selects(s, at, skill, reads) => building'[s].reads = reads
           /\ \A t \in Sessions \ {s} : building'[t] = building[t]
<1> DEFINE Shape(T) == [at : T, task : T, skill : T, reads : T]
<1>1. PICK T : transcript \in Seq(T) /\ building \in [Sessions -> Shape(T)]
  BY DEF ContextShaped
<1>2. PICK e : transcript' = transcript \/ transcript' = <<e>>
  OBVIOUS
<1> DEFINE U == T \cup {at, task, skill, reads, e}
<1>3. transcript' \in Seq(U)
  <2>1. transcript \in Seq(U)
    BY <1>1, SeqMonotonic
  <2>2. <<e>> \in Seq(U)
    OBVIOUS
  <2> QED
    BY <1>2, <2>1, <2>2
<1>4. building \in [Sessions -> Shape(U)]
  BY <1>1
<1>5. at \in U /\ task \in U /\ skill \in U /\ reads \in U
  OBVIOUS
<1> HIDE DEF U
<1>6. building' \in [Sessions -> Shape(U)]
  BY <1>4, <1>5 DEF Moves, Selects
<1>7. ContextShaped'
  BY <1>3, <1>6 DEF ContextShaped
<1>8. building'[s].at = at /\ \A t \in Sessions \ {s} : building'[t] = building[t]
  BY <1>4 DEF Moves, Selects
<1>9. Selects(s, at, skill, reads) => building'[s].reads = reads
  BY <1>4 DEF Selects
<1> QED
  BY <1>7, <1>8, <1>9

LEMMA ContextStartsRight == Context!TurnInit => ContextInv
<1> SUFFICES ASSUME Context!TurnInit
             PROVE  ContextInv
  OBVIOUS
<1> DEFINE T == {"idle", 0, {}}
<1>1. Context!NotBuilding \in [at : T, task : T, skill : T, reads : T] /\ Context!NotBuilding.at = "idle"
  BY DEF Context!NotBuilding
<1> HIDE DEF T
<1>2. transcript \in Seq(T) /\ building \in [Sessions -> [at : T, task : T, skill : T, reads : T]]
  BY <1>1 DEF Context!TurnInit
<1>3. ContextShaped
  BY <1>2 DEF ContextShaped, Context!TurnInit
<1>4. Covered(Context!About(transcript)) /\ \A s \in Sessions : building[s].at # "compacting"
  BY <1>1 DEF Covered, Context!TurnInit
<1> QED
  BY <1>3, <1>4 DEF ContextInv

LEMMA ContextStep ==
    ASSUME ContextInv, [Context!TurnNext]_contextVars
    PROVE  ContextInv'
<1> DEFINE CountedType == [messages : Nat, turns : Nat, switches : Nat]
<1>1. /\ ContextShaped /\ counted \in CountedType /\ Covered(Context!About(transcript))
      /\ \A s \in Sessions : building[s].at = "compacting" => Covered(building[s].reads)
  BY DEF ContextInv, ContextShaped
<1>2. CASE UNCHANGED contextVars
  BY <1>2 DEF ContextInv, ContextShaped, Covered, contextVars, Context!About, Context!Range
<1>3. CASE Context!ChatMessage
  <2> DEFINE m == counted.messages + 1
  <2>1. /\ counted' \in CountedType /\ counted'.messages = m
        /\ transcript' = Append(transcript, Context!Entry("user", {m}))
        /\ raced' = IF Context!Compacting THEN raced \cup {m} ELSE raced
        /\ UNCHANGED <<building, shortened>>
    BY <1>1, <1>3 DEF Context!ChatMessage
  <2>2. PICK T : transcript \in Seq(T) /\ building \in [Sessions -> [at : T, task : T, skill : T, reads : T]]
    BY <1>1 DEF ContextShaped
  <2>3. Context!About(transcript') = Context!About(transcript) \cup {m}
    BY <2>1, <2>2, AboutAppend DEF Context!Entry
  <2>4. ContextShaped'
    <3> DEFINE U == T \cup {Context!Entry("user", {m})}
    <3>1. transcript \in Seq(U) /\ Context!Entry("user", {m}) \in U
      BY <2>2, SeqMonotonic
    <3>2. building \in [Sessions -> [at : U, task : U, skill : U, reads : U]]
      BY <2>2
    <3> HIDE DEF U
    <3>3. transcript' \in Seq(U)
      BY <2>1, <3>1, AppendProperties
    <3> QED
      BY <2>1, <3>2, <3>3 DEF ContextShaped
  <2>5. m \in Nat /\ counted.messages \in Nat /\ 1..m = 1..counted.messages \cup {m}
    BY <1>1
  <2>6. Covered(Context!About(transcript))'
    BY <1>1, <2>1, <2>3, <2>5 DEF Covered
  <2>7. ASSUME NEW s \in Sessions, building'[s].at = "compacting"
        PROVE  Covered(building[s].reads)'
    BY <1>1, <2>1, <2>5, <2>7 DEF Covered, Context!Compacting
  <2> QED
    BY <2>4, <2>6, <2>7 DEF ContextInv
<1>4. ASSUME NEW k \in Skills, Context!Switch(k)
      PROVE  ContextInv'
  <2>1. /\ counted' \in CountedType /\ counted'.messages = counted.messages
        /\ UNCHANGED <<transcript, building, raced, shortened>>
    BY <1>1, <1>4 DEF Context!Switch
  <2> QED
    BY <1>1, <2>1 DEF ContextInv, ContextShaped, Covered
<1>5. ASSUME NEW s \in Sessions, counted' \in CountedType, counted'.messages = counted.messages,
             UNCHANGED <<transcript, raced, shortened>>, NEW at, NEW task, NEW skill, NEW reads,
             Moves(s, at, task, skill, reads),
             at = "compacting" =>
                 Selects(s, at, skill, reads) /\ reads = Context!About(transcript)
      PROVE  ContextInv'
  <2>1. /\ ContextShaped' /\ building'[s].at = at
        /\ Selects(s, at, skill, reads) => building'[s].reads = reads
        /\ \A t \in Sessions \ {s} : building'[t] = building[t]
    BY <1>1, <1>5, BuildingGoes
  <2>2. Covered(Context!About(transcript))'
    BY <1>1, <1>5 DEF Covered
  <2>3. ASSUME NEW t \in Sessions, building'[t].at = "compacting"
        PROVE  Covered(building[t].reads)'
    <3>1. CASE t = s
      <4>1. building'[t].reads = Context!About(transcript)
        BY <1>5, <2>1, <2>3, <3>1
      <4> QED
        BY <1>1, <1>5, <4>1 DEF Covered
    <3>2. CASE t # s
      BY <1>1, <1>5, <2>1, <2>3, <3>2 DEF Covered
    <3> QED
      BY <3>1, <3>2
  <2> QED
    BY <2>1, <2>2, <2>3 DEF ContextInv
<1>6. ASSUME NEW s \in Sessions, Context!BeginContext(s)
      PROVE  ContextInv'
  <2>1. counted' \in CountedType /\ counted'.messages = counted.messages
    BY <1>1, <1>6 DEF Context!BeginContext
  <2>2. Moves(s, "fetching", 0, 0, {}) /\ UNCHANGED <<transcript, raced, shortened>>
    BY <1>6 DEF Context!BeginContext, Context!Goes, Moves
  <2> QED
    BY <1>5, <2>1, <2>2
<1>7. ASSUME NEW s \in Sessions, Context!RetrieveContext(s)
      PROVE  ContextInv'
  <2>1. Moves(s, "retrieving", latestTask, 0, {}) /\ UNCHANGED <<transcript, counted, raced, shortened>>
    BY <1>7 DEF Context!RetrieveContext, Moves
  <2> QED
    BY <1>1, <1>5, <2>1
<1>8. ASSUME NEW s \in Sessions, Context!SelectSkill(s)
      PROVE  ContextInv'
  <2> DEFINE at == IF Context!IsLong THEN "compacting" ELSE "built"
             skill == Context!AutoSelect(latestTask)
             reads == IF Context!IsLong THEN Context!About(transcript) ELSE {}
  <2>1. Selects(s, at, skill, reads) /\ UNCHANGED <<transcript, counted, raced, shortened>>
    BY <1>8 DEF Context!SelectSkill, Selects
  <2>2. at = "compacting" => reads = Context!About(transcript)
    OBVIOUS
  <2> HIDE DEF at, skill, reads
  <2>3. Moves(s, at, 0, skill, reads)
    BY <2>1 DEF Moves
  <2> QED
    BY <1>1, <1>5, <2>1, <2>2, <2>3
<1>9. ASSUME NEW s \in Sessions, Context!EndContext(s)
      PROVE  ContextInv'
  <2>1. Moves(s, "idle", 0, 0, {}) /\ UNCHANGED <<transcript, counted, raced, shortened>>
    BY <1>9 DEF Context!EndContext, Context!NotBuilding, Moves
  <2> QED
    BY <1>1, <1>5, <2>1
<1>10. ASSUME NEW s \in Sessions, NEW about, Context!Replace(s, about), UNCHANGED <<counted, raced>>,
              shortened' = 1..counted.messages \/ (shortened' = shortened /\ Covered(about))
       PROVE  ContextInv'
  <2>1. transcript' = <<Context!Entry("system", about)>> /\ Moves(s, "built", 0, 0, {})
    BY <1>10 DEF Context!Replace, Context!Goes, Moves
  <2>2. /\ ContextShaped' /\ building'[s].at = "built"
        /\ \A t \in Sessions \ {s} : building'[t] = building[t]
    BY <1>1, <1>10, <2>1, BuildingGoes
  <2>3. Context!About(transcript') = about
    BY <2>1, AboutOne
  <2>4. Covered(Context!About(transcript))'
    BY <1>10, <2>3 DEF Covered
  <2>5. ASSUME NEW t \in Sessions, building'[t].at = "compacting"
        PROVE  Covered(building[t].reads)'
    <3>1. building'[t] = building[t]
      BY <2>2, <2>5
    <3> QED
      BY <1>1, <1>10, <2>5, <3>1 DEF Covered
  <2> QED
    BY <2>2, <2>4, <2>5 DEF ContextInv
<1>11. ASSUME NEW s \in Sessions, Context!Compacted(s)
       PROVE  ContextInv'
  BY <1>1, <1>10, <1>11 DEF Context!Compacted
<1>12. ASSUME NEW s \in Sessions, Context!CompactedByRule(s)
       PROVE  ContextInv'
  BY <1>10, <1>12 DEF Context!CompactedByRule
<1> QED
  BY <1>2, <1>3, <1>4, <1>6, <1>7, <1>8, <1>9, <1>11, <1>12 DEF Context!TurnNext

-----------------------------------------------------------------------------
(***************************************************************************)
(* The model of the user: what a process would write over without having   *)
(* seen it is what it missed.                                              *)
(***************************************************************************)

RecordingType == [at : {"loaded", "writing"}, patterns : SUBSET Patterns, missed : SUBSET Patterns]

PatternsInv ==
    /\ userModel \in [patterns : SUBSET Patterns, torn : BOOLEAN]
    /\ recording \in [Recorders -> RecordingType \cup {Briefing!NotRecording}]
    /\ \A r \in Recorders :
          recording[r] # Briefing!NotRecording =>
              userModel.patterns \ recording[r].patterns \subseteq recording[r].missed

\* One step of the action property.
PatternsMove ==
    \A r \in Recorders :
        recording[r].at = "writing" /\ recording'[r] = Briefing!NotRecording =>
            userModel.patterns \ userModel'.patterns \subseteq recording[r].missed

LEMMA PatternsStartRight ==
    ASSUME NEW starts, Briefing!BriefingBegins(starts)
    PROVE  PatternsInv
BY DEF PatternsInv, Briefing!BriefingBegins

LEMMA PatternsStep ==
    ASSUME PatternsInv, [Briefing!BriefingNext]_briefingVars
    PROVE  PatternsInv' /\ PatternsMove
<1>1. /\ userModel \in [patterns : SUBSET Patterns, torn : BOOLEAN]
      /\ recording \in [Recorders -> RecordingType \cup {Briefing!NotRecording}]
      /\ \A r \in Recorders :
            recording[r] # Briefing!NotRecording =>
                /\ recording[r] \in RecordingType
                /\ userModel.patterns \ recording[r].patterns \subseteq recording[r].missed
  BY DEF PatternsInv
<1>2. \A x \in RecordingType : x # Briefing!NotRecording
  BY DEF RecordingType, Briefing!NotRecording
<1>3. Briefing!NotRecording.at = "idle"
  BY DEF Briefing!NotRecording
<1>4. CASE UNCHANGED briefingVars \/ Briefing!Genesis
  BY <1>1, <1>3, <1>4 DEF PatternsInv, PatternsMove, briefingVars, Briefing!Genesis
<1>5. ASSUME NEW r \in Recorders, NEW pattern \in Patterns, Briefing!LoadUserModel(r, pattern)
      PROVE  PatternsInv' /\ PatternsMove
  <2> DEFINE loaded == IF userModel.torn THEN {} ELSE userModel.patterns
             g == [at |-> "loaded", patterns |-> loaded \cup {pattern}, missed |-> userModel.patterns \ loaded]
  <2>1. recording' = [recording EXCEPT ![r] = g] /\ UNCHANGED userModel
    BY <1>5 DEF Briefing!LoadUserModel
  <2>2. g \in RecordingType /\ userModel.patterns \ g.patterns \subseteq g.missed
    BY <1>1 DEF RecordingType
  <2> HIDE DEF g
  <2> QED
    BY <1>1, <1>2, <2>1, <2>2 DEF PatternsInv, PatternsMove
<1>6. ASSUME NEW r \in Recorders, Briefing!TruncateUserModel(r)
      PROVE  PatternsInv' /\ PatternsMove
  <2> DEFINE g == [recording[r] EXCEPT !.at = "writing"]
  <2>1. /\ recording' = [recording EXCEPT ![r] = g]
        /\ userModel' \in [patterns : SUBSET Patterns, torn : BOOLEAN]
        /\ userModel'.patterns = userModel.patterns
    BY <1>1, <1>6 DEF Briefing!TruncateUserModel
  <2>2. recording[r] # Briefing!NotRecording
    BY <1>3, <1>6 DEF Briefing!TruncateUserModel
  <2>3. /\ g \in RecordingType /\ g.patterns = recording[r].patterns /\ g.missed = recording[r].missed
    BY <1>1, <2>2 DEF RecordingType
  <2> HIDE DEF g
  <2> QED
    BY <1>1, <1>2, <2>1, <2>2, <2>3 DEF PatternsInv, PatternsMove
<1>7. ASSUME NEW r \in Recorders, Briefing!SaveUserModel(r)
      PROVE  PatternsInv' /\ PatternsMove
  <2> DEFINE g(s) == [recording[s] EXCEPT !.missed = @ \cup (recording[r].patterns \ recording[s].patterns)]
  <2>1. recording[r].at = "writing" /\ recording[r] \in RecordingType
    BY <1>1, <1>3, <1>7 DEF Briefing!SaveUserModel
  <2>2. userModel' = [patterns |-> recording[r].patterns, torn |-> FALSE]
    BY <1>7 DEF Briefing!SaveUserModel, Briefing!Saved
  <2>3. recording' = [s \in Recorders |->
            IF s = r THEN Briefing!NotRecording
            ELSE IF recording[s] = Briefing!NotRecording THEN Briefing!NotRecording ELSE g(s)]
    BY <1>7 DEF Briefing!SaveUserModel
  <2>4. ASSUME NEW s \in Recorders, recording[s] # Briefing!NotRecording
        PROVE  /\ g(s) \in RecordingType /\ g(s).patterns = recording[s].patterns
               /\ recording[r].patterns \ g(s).patterns \subseteq g(s).missed
    BY <1>1, <2>1, <2>4 DEF RecordingType
  <2>5. userModel' \in [patterns : SUBSET Patterns, torn : BOOLEAN]
        /\ userModel'.patterns = recording[r].patterns
    BY <2>1, <2>2 DEF RecordingType
  <2> HIDE DEF g
  <2>6. recording' \in [Recorders -> RecordingType \cup {Briefing!NotRecording}]
    BY <2>3, <2>4
  <2>7. ASSUME NEW s \in Recorders, recording'[s] # Briefing!NotRecording
        PROVE  userModel'.patterns \ recording'[s].patterns \subseteq recording'[s].missed
    BY <2>3, <2>4, <2>5, <2>7
  <2>8. PatternsMove
    <3> SUFFICES ASSUME NEW s \in Recorders, recording[s].at = "writing",
                        recording'[s] = Briefing!NotRecording
                 PROVE  userModel.patterns \ userModel'.patterns \subseteq recording[s].missed
      BY DEF PatternsMove
    <3>1. s = r
      BY <1>2, <1>3, <2>3, <2>4
    <3> QED
      BY <1>1, <1>2, <2>1, <2>5, <3>1
  <2> QED
    BY <2>5, <2>6, <2>7, <2>8 DEF PatternsInv
<1>8. ASSUME NEW r \in Recorders, Briefing!Killed(r)
      PROVE  PatternsInv' /\ PatternsMove
  BY <1>1, <1>2, <1>8 DEF PatternsInv, PatternsMove, Briefing!Killed
<1> QED
  BY <1>4, <1>5, <1>6, <1>7, <1>8 DEF Briefing!BriefingNext

-----------------------------------------------------------------------------
(***************************************************************************)
(* Edit plans: what is not written yet is to be written, what is not       *)
(* restored yet is to be restored.                                         *)
(***************************************************************************)

FileContents == [Edits!Files -> Edits!Contents]
PlanType ==
    [original : FileContents, proposed : FileContents,
     status : {"awaiting-review", "applied", "rolled-back", "rejected", "failed"},
     decision : [Edits!Files -> Edits!Decisions],
     taken : Seq(Edits!Files), applied : Seq(Edits!Files)]
ApplyingType == [on : BOOLEAN, todo : Seq(Edits!Files)]
RestoringType == [on : BOOLEAN, todo : Seq(Edits!Files), failed : BOOLEAN]
UpsetType == [torn : BOOLEAN, foreign : BOOLEAN, overlap : BOOLEAN, calls : Nat]

EditsTyped ==
    /\ disk \in FileContents
    /\ plan \in PlanType
    /\ applying \in ApplyingType
    /\ restoring \in [Edits!Callers -> RestoringType]
    /\ upset \in UpsetType
    /\ applying.on => applying.todo # <<>>
    /\ \A c \in Edits!Callers : restoring[c].on => restoring[c].todo # <<>>

Calm == ~upset.torn /\ ~upset.overlap /\ ~upset.foreign

OneRuns ==
    \A c \in Edits!Callers :
        restoring[c].on => ~applying.on /\ \A d \in Edits!Callers : restoring[d].on => d = c

\* What was never written is as it was.
UnwrittenIsOld == \A f \in Edits!Files : f \in Edits!ToSet(plan.applied) \/ disk[f] = plan.original[f]

\* What apply has taken is written or still to be written.
ApplyGoesOn ==
    applying.on =>
        \A f \in Edits!ToSet(plan.taken) :
            f \in Edits!ToSet(applying.todo) \/ disk[f] = plan.proposed[f]

\* What a rollback has not failed to restore is restored or still to be.
RestoreGoesOn ==
    \A c \in Edits!Callers :
        restoring[c].on =>
            \/ restoring[c].failed
            \/ \A f \in Edits!Files : f \in Edits!ToSet(restoring[c].todo) \/ disk[f] = plan.original[f]

EditsRight ==
    OneRuns /\ UnwrittenIsOld /\ ApplyGoesOn /\ RestoreGoesOn /\ (Edits!Running \/ Edits!Whole)

EditsInv == EditsTyped /\ (Calm => EditsRight)

\* The elements of sequences.
LEMMA EditSequences ==
    ASSUME NEW S, NEW q \in Seq(S)
    PROVE  /\ Edits!ToSet(q) \subseteq S
           /\ Edits!Reverse(q) \in Seq(S) /\ Edits!ToSet(Edits!Reverse(q)) = Edits!ToSet(q)
           /\ Edits!Reverse(q) = <<>> <=> q = <<>>
           /\ q = <<>> => Edits!ToSet(q) = {}
           /\ q # <<>> =>
                 /\ Head(q) \in S /\ Tail(q) \in Seq(S)
                 /\ Edits!ToSet(q) = {Head(q)} \cup Edits!ToSet(Tail(q))
                 /\ Len(q) = 1 <=> Tail(q) = <<>>
<1> DEFINE n == Len(q)
<1>1. n \in Nat /\ DOMAIN q = 1..n /\ \A i \in 1..n : q[i] \in S
  BY LenProperties, ElementOfSeq
<1>2. Edits!ToSet(q) \subseteq S
  BY <1>1 DEF Edits!ToSet
<1>3. Edits!Reverse(q) \in Seq(S) /\ Len(Edits!Reverse(q)) = n
  <2>1. \A i \in 1..n : q[(n - i) + 1] \in S
    BY <1>1
  <2>2. [i \in 1..n |-> q[(n - i) + 1]] \in Seq(S)
    BY <1>1, <2>1, IsASeq
  <2> QED
    BY <1>1, <2>2 DEF Edits!Reverse
<1>4. Edits!ToSet(Edits!Reverse(q)) = Edits!ToSet(q)
  <2>1. DOMAIN Edits!Reverse(q) = 1..n /\ \A i \in 1..n : Edits!Reverse(q)[i] = q[(n - i) + 1]
    BY DEF Edits!Reverse
  <2>2. \A i \in 1..n : (n - i) + 1 \in 1..n /\ (n - ((n - i) + 1)) + 1 = i
    BY <1>1
  <2>3. ASSUME NEW x \in Edits!ToSet(q)
        PROVE  x \in Edits!ToSet(Edits!Reverse(q))
    <3>1. PICK i \in 1..n : x = q[i]
      BY <1>1 DEF Edits!ToSet
    <3>2. Edits!Reverse(q)[(n - i) + 1] = x
      BY <2>1, <2>2, <3>1
    <3> QED
      BY <2>1, <2>2, <3>2 DEF Edits!ToSet
  <2>4. ASSUME NEW x \in Edits!ToSet(Edits!Reverse(q))
        PROVE  x \in Edits!ToSet(q)
    BY <1>1, <2>1, <2>2 DEF Edits!ToSet
  <2> QED
    BY <2>3, <2>4
<1>5. Edits!Reverse(q) = <<>> <=> q = <<>>
  BY <1>1, <1>3, EmptySeq
<1>6. q = <<>> => Edits!ToSet(q) = {}
  BY DEF Edits!ToSet
<1>7. ASSUME q # <<>>
      PROVE  /\ Head(q) \in S /\ Tail(q) \in Seq(S)
             /\ Edits!ToSet(q) = {Head(q)} \cup Edits!ToSet(Tail(q))
             /\ Len(q) = 1 <=> Tail(q) = <<>>
  <2>1. /\ Head(q) \in S /\ Tail(q) \in Seq(S) /\ Len(Tail(q)) = n - 1 /\ Head(q) = q[1]
        /\ \A i \in 1..Len(Tail(q)) : Tail(q)[i] = q[i + 1]
    BY <1>7, HeadTailProperties
  <2>2. n >= 1 /\ DOMAIN Tail(q) = 1..(n - 1)
    BY <1>1, <1>7, <2>1, EmptySeq, LenProperties
  <2>3. Len(q) = 1 <=> Tail(q) = <<>>
    <3>1. Tail(q) = <<>> <=> Len(Tail(q)) = 0
      BY <2>1, EmptySeq
    <3> QED
      BY <1>1, <2>1, <3>1
  <2>4. ASSUME NEW x \in Edits!ToSet(q)
        PROVE  x \in {Head(q)} \cup Edits!ToSet(Tail(q))
    <3>1. PICK i \in 1..n : x = q[i]
      BY <1>1 DEF Edits!ToSet
    <3>2. CASE i = 1
      BY <2>1, <3>1, <3>2
    <3>3. CASE i # 1
      <4>1. i - 1 \in 1..(n - 1) /\ Tail(q)[i - 1] = x
        BY <1>1, <2>1, <2>2, <3>1, <3>3
      <4> QED
        BY <2>2, <4>1 DEF Edits!ToSet
    <3> QED
      BY <3>2, <3>3
  <2>5. Edits!ToSet(Tail(q)) \subseteq Edits!ToSet(q) /\ Head(q) \in Edits!ToSet(q)
    BY <1>1, <2>1, <2>2 DEF Edits!ToSet
  <2> QED
    BY <2>1, <2>3, <2>4, <2>5
<1> QED
  BY <1>2, <1>3, <1>4, <1>5, <1>6, <1>7

LEMMA EditAppends ==
    ASSUME NEW S, NEW q \in Seq(S), NEW e \in S
    PROVE  Append(q, e) \in Seq(S) /\ Edits!ToSet(Append(q, e)) = Edits!ToSet(q) \cup {e}
<1> DEFINE n == Len(q)
<1>1. n \in Nat /\ DOMAIN q = 1..n
  BY LenProperties
<1>2. /\ Append(q, e) \in Seq(S) /\ DOMAIN Append(q, e) = 1..(n + 1) /\ Append(q, e)[n + 1] = e
      /\ \A i \in 1..n : Append(q, e)[i] = q[i]
  BY AppendProperties, LenProperties
<1> QED
  BY <1>1, <1>2 DEF Edits!ToSet

\* The files of apply, in their order.
LEMMA AcceptedIsSeq ==
    ASSUME plan \in PlanType, Edits!Accepted # {},
           NEW q \in [1..Edits!Cardinality(Edits!Accepted) -> Edits!Accepted]
    PROVE  q \in Seq(Edits!Files) /\ q # <<>>
<1>1. IsFiniteSet(Edits!Accepted) /\ Edits!Accepted \subseteq Edits!Files
  <2>1. IsFiniteSet(1..NumFiles)
    BY NumFilesAssumption, FS_Interval
  <2> QED
    BY <2>1, FS_Subset DEF Edits!Accepted, Edits!Files
<1>2. Edits!Cardinality(Edits!Accepted) \in Nat /\ Edits!Cardinality(Edits!Accepted) # 0
  <2>1. Edits!Cardinality(Edits!Accepted) = Cardinality(Edits!Accepted)
    BY DEF Edits!Cardinality, Cardinality
  <2> QED
    BY <1>1, <2>1, FS_CardinalityType, FS_EmptySet
<1> DEFINE n == Edits!Cardinality(Edits!Accepted)
<1> HIDE DEF n
<1>3. n \in Nat /\ n # 0 /\ q \in [1..n -> Edits!Files]
  BY <1>1, <1>2 DEF n
<1>4. q \in Seq(Edits!Files) /\ Len(q) = n
  BY <1>3, LenProperties
<1> QED
  BY <1>3, <1>4, EmptySeq

LEMMA EditsStartRight ==
    ASSUME NEW starts, starts \subseteq Edits!EditStarts, Edits!EditBegins(starts)
    PROVE  EditsInv
<1>1. PICK s \in starts :
          /\ disk = s.original
          /\ plan = [original |-> s.original, proposed |-> s.proposed, status |-> "awaiting-review",
                     decision |-> [f \in Edits!Files |-> "pending"], taken |-> <<>>, applied |-> <<>>]
  BY DEF Edits!EditBegins
<1>2. /\ applying = [on |-> FALSE, todo |-> <<>>]
      /\ restoring = [c \in Edits!Callers |-> Edits!NotRunning]
      /\ upset = [torn |-> FALSE, foreign |-> FALSE, overlap |-> FALSE, calls |-> 0]
  BY DEF Edits!EditBegins
<1>3. s.original \in FileContents /\ s.proposed \in FileContents
  BY DEF Edits!EditStarts, FileContents, Edits!Contents
<1>4. [f \in Edits!Files |-> "pending"] \in [Edits!Files -> Edits!Decisions]
  BY DEF Edits!Decisions
<1>5. plan \in PlanType
  BY <1>1, <1>3, <1>4 DEF PlanType
<1>6. EditsTyped
  BY <1>1, <1>2, <1>3, <1>5 DEF EditsTyped, ApplyingType, RestoringType, UpsetType, Edits!NotRunning
<1>7. EditsRight
  BY <1>1, <1>2 DEF EditsRight, OneRuns, UnwrittenIsOld, ApplyGoesOn, RestoreGoesOn, Edits!Running,
                    Edits!Whole, Edits!NotRunning
<1> QED
  BY <1>6, <1>7 DEF EditsInv

\* A decision touches no file.
LEMMA DecideKeeps ==
    ASSUME EditsInv, NEW decision \in [Edits!Files -> Edits!Decisions],
           plan' = [plan EXCEPT !.decision = decision],
           UNCHANGED <<disk, applying, restoring, upset>>
    PROVE  EditsInv'
<1>1. plan \in PlanType /\ EditsTyped
  BY DEF EditsInv, EditsTyped
<1>2. /\ plan' \in PlanType
      /\ plan'.original = plan.original /\ plan'.proposed = plan.proposed /\ plan'.status = plan.status
      /\ plan'.taken = plan.taken /\ plan'.applied = plan.applied
  BY <1>1 DEF PlanType
<1>3. EditsTyped' /\ (Calm' <=> Calm)
  BY <1>1, <1>2 DEF EditsTyped, Calm
<1>4. EditsRight => EditsRight'
  BY <1>2 DEF EditsRight, OneRuns, UnwrittenIsOld, ApplyGoesOn, RestoreGoesOn, Edits!Running, Edits!Whole
<1> QED
  BY <1>3, <1>4 DEF EditsInv

LEMMA UpsetCalls ==
    ASSUME upset \in UpsetType, NEW busy \in BOOLEAN,
           upset' = [upset EXCEPT !.calls = upset.calls + 1, !.overlap = busy]
    PROVE  /\ upset' \in UpsetType /\ upset'.torn = upset.torn /\ upset'.foreign = upset.foreign
           /\ upset'.overlap = busy
<1>1. upset.calls + 1 \in Nat
  BY DEF UpsetType
<1>2. upset' \in UpsetType
  BY <1>1, Zenon DEF UpsetType
<1>3. upset'.torn = upset.torn /\ upset'.foreign = upset.foreign
  BY DEF UpsetType
<1>4. upset'.overlap = busy
  BY Zenon DEF UpsetType
<1> QED
  BY <1>2, <1>3, <1>4

\* A call that is not during another one begins with nothing running.
LEMMA CallIsAlone ==
    ASSUME EditsInv, Edits!Called
    PROVE  /\ upset' \in UpsetType
           /\ Calm' => /\ ~applying.on /\ \A c \in Edits!Callers : ~restoring[c].on
                       /\ UnwrittenIsOld /\ Edits!Whole
<1>1. upset \in UpsetType
  BY DEF EditsInv, EditsTyped
<1>2. /\ upset' \in UpsetType /\ upset'.torn = upset.torn /\ upset'.foreign = upset.foreign
      /\ upset'.overlap = (upset.overlap \/ Edits!Running)
  <2> DEFINE busy == upset.overlap \/ Edits!Running
  <2>1. busy \in BOOLEAN
    OBVIOUS
  <2>2. upset' = [upset EXCEPT !.calls = upset.calls + 1, !.overlap = busy]
    BY DEF Edits!Called
  <2>3. busy = (upset.overlap \/ Edits!Running)
    OBVIOUS
  <2> HIDE DEF busy
  <2>4. /\ upset' \in UpsetType /\ upset'.torn = upset.torn /\ upset'.foreign = upset.foreign
        /\ upset'.overlap = busy
    BY <1>1, <2>1, <2>2, UpsetCalls
  <2> QED
    BY <2>3, <2>4
<1>3. Calm' => Calm /\ ~Edits!Running
  BY <1>2 DEF Calm
<1> QED
  BY <1>2, <1>3 DEF EditsInv, EditsRight, Edits!Running

LEMMA ApplyKeeps ==
    ASSUME EditsInv, Edits!Apply
    PROVE  EditsInv'
<1>1. /\ plan \in PlanType /\ EditsTyped /\ Edits!Called /\ UNCHANGED <<disk, restoring>>
      /\ ~applying.on
  BY DEF EditsInv, EditsTyped, Edits!Apply
<1>2. CASE Edits!Accepted = {}
  <2>1. plan' = [plan EXCEPT !.status = "rejected"] /\ UNCHANGED applying
    BY <1>2 DEF Edits!Apply
  <2>2. /\ plan' \in PlanType /\ plan'.status = "rejected"
        /\ plan'.original = plan.original /\ plan'.applied = plan.applied
    BY <1>1, <2>1 DEF PlanType
  <2>3. EditsTyped'
    BY <1>1, <2>1, <2>2, CallIsAlone DEF EditsTyped
  <2>4. Calm' => EditsRight'
    BY <1>1, <2>1, <2>2, CallIsAlone
       DEF EditsRight, OneRuns, UnwrittenIsOld, ApplyGoesOn, RestoreGoesOn, Edits!Whole
  <2> QED
    BY <2>3, <2>4 DEF EditsInv
<1>3. CASE Edits!Accepted # {}
  <2>1. PICK q \in [1..Edits!Cardinality(Edits!Accepted) -> Edits!Accepted] :
            applying' = [on |-> TRUE, todo |-> q] /\ plan' = [plan EXCEPT !.taken = q]
    BY <1>3 DEF Edits!Apply
  <2>2. q \in Seq(Edits!Files) /\ q # <<>>
    BY <1>1, <1>3, AcceptedIsSeq
  <2>3. /\ plan' \in PlanType /\ plan'.taken = q
        /\ plan'.original = plan.original /\ plan'.applied = plan.applied
    BY <1>1, <2>1, <2>2 DEF PlanType
  <2>4. EditsTyped'
    BY <1>1, <2>1, <2>2, <2>3, CallIsAlone DEF EditsTyped, ApplyingType
  <2>5. Calm' => EditsRight'
    BY <1>1, <2>1, <2>3, CallIsAlone
       DEF EditsRight, OneRuns, UnwrittenIsOld, ApplyGoesOn, RestoreGoesOn, Edits!Running
  <2> QED
    BY <2>4, <2>5 DEF EditsInv
<1> QED
  BY <1>2, <1>3

LEMMA ApplyWritesKeeps ==
    ASSUME EditsInv, Edits!ApplyWrites
    PROVE  EditsInv'
<1> DEFINE f == Head(applying.todo)
           rest == Tail(applying.todo)
           last == Len(applying.todo) = 1
           status == IF last THEN "applied" ELSE plan.status
<1>1. /\ EditsTyped /\ plan \in PlanType /\ applying.on /\ UNCHANGED <<restoring, upset>>
      /\ disk \in FileContents /\ disk' = [disk EXCEPT ![f] = plan.proposed[f]]
      /\ plan' = [plan EXCEPT !.applied = Append(@, f), !.status = IF last THEN "applied" ELSE @]
      /\ applying' = [on |-> ~last, todo |-> rest]
  BY DEF EditsInv, EditsTyped, Edits!ApplyWrites
<1>2. applying.todo \in Seq(Edits!Files) /\ applying.todo # <<>> /\ plan.applied \in Seq(Edits!Files)
  BY <1>1 DEF EditsTyped, ApplyingType, PlanType
<1>3. /\ f \in Edits!Files /\ rest \in Seq(Edits!Files) /\ (last <=> rest = <<>>)
      /\ Edits!ToSet(applying.todo) = {f} \cup Edits!ToSet(rest)
      /\ (rest = <<>> => Edits!ToSet(rest) = {})
  BY <1>2, EditSequences
<1> HIDE DEF f, rest, last
<1>4. /\ Append(plan.applied, f) \in Seq(Edits!Files)
      /\ Edits!ToSet(Append(plan.applied, f)) = Edits!ToSet(plan.applied) \cup {f}
  BY <1>2, <1>3, EditAppends
<1>5. /\ plan' \in PlanType /\ plan'.status = status
      /\ plan'.original = plan.original /\ plan'.proposed = plan.proposed
      /\ plan'.taken = plan.taken /\ plan'.applied = Append(plan.applied, f)
  BY <1>1, <1>4 DEF PlanType
<1>6. /\ disk' \in FileContents /\ disk'[f] = plan.proposed[f]
      /\ \A g \in Edits!Files \ {f} : disk'[g] = disk[g]
  BY <1>1, <1>3 DEF FileContents, PlanType
<1>7. applying' \in ApplyingType /\ applying'.on = ~last /\ applying'.todo = rest
  BY <1>1, <1>3 DEF ApplyingType, last
<1>8. EditsTyped'
  BY <1>1, <1>3, <1>5, <1>6, <1>7 DEF EditsTyped
<1>9. ASSUME Calm'
      PROVE  EditsRight'
  <2>1. /\ \A c \in Edits!Callers : ~restoring[c].on
        /\ UnwrittenIsOld /\ ApplyGoesOn
    BY <1>1, <1>9 DEF EditsInv, EditsRight, OneRuns, Calm
  <2>2. OneRuns' /\ RestoreGoesOn'
    BY <1>1, <2>1 DEF OneRuns, RestoreGoesOn
  <2>3. UnwrittenIsOld'
    BY <1>4, <1>5, <1>6, <2>1 DEF UnwrittenIsOld
  <2>4. Edits!ToSet(plan.taken) \subseteq Edits!Files
    BY <1>1, EditSequences DEF PlanType
  <2>5. \A g \in Edits!ToSet(plan.taken) : g \in Edits!ToSet(rest) \/ disk'[g] = plan.proposed[g]
    BY <1>1, <1>3, <1>6, <2>1, <2>4 DEF ApplyGoesOn
  <2>6. ApplyGoesOn'
    BY <1>5, <1>7, <2>5 DEF ApplyGoesOn
  <2>7. Edits!Running' \/ Edits!Whole'
    <3>1. CASE last
      BY <1>3, <1>5, <2>5, <3>1 DEF Edits!Whole
    <3>2. CASE ~last
      BY <1>7, <3>2 DEF Edits!Running
    <3> QED
      BY <3>1, <3>2
  <2> QED
    BY <2>2, <2>3, <2>6, <2>7 DEF EditsRight
<1> QED
  BY <1>8, <1>9 DEF EditsInv

\* A rollback begins: everything that was written is to be restored.
LEMMA StartRestoreKeeps ==
    ASSUME EditsTyped, NEW caller \in Edits!Callers, Edits!StartRestore(caller),
           disk' \in FileContents, upset' \in UpsetType, applying' \in ApplyingType, ~applying'.on,
           Calm' => /\ disk' = disk /\ UnwrittenIsOld
                    /\ \A c \in Edits!Callers : ~restoring[c].on
    PROVE  EditsInv'
<1> DEFINE todo == Edits!Reverse(plan.applied)
           g == [on |-> todo # <<>>, todo |-> todo, failed |-> FALSE]
           status == IF todo = <<>> THEN "rolled-back" ELSE plan.status
<1>1. /\ plan \in PlanType /\ plan.applied \in Seq(Edits!Files)
      /\ restoring \in [Edits!Callers -> RestoringType]
      /\ \A c \in Edits!Callers : restoring[c].on => restoring[c].todo # <<>>
  BY DEF EditsTyped, PlanType
<1>2. todo \in Seq(Edits!Files) /\ Edits!ToSet(todo) = Edits!ToSet(plan.applied)
      /\ (todo = <<>> => Edits!ToSet(todo) = {})
  BY <1>1, EditSequences
<1>3. restoring' = [restoring EXCEPT ![caller] = g]
      /\ plan' = IF todo = <<>> THEN [plan EXCEPT !.status = "rolled-back"] ELSE plan
  BY DEF Edits!StartRestore, Edits!Ended
<1> HIDE DEF todo
<1>4. g \in RestoringType
  BY <1>2 DEF RestoringType
<1>10. (g.on <=> todo # <<>>) /\ g.todo = todo
  OBVIOUS
<1> HIDE DEF g
<1>5. /\ restoring' \in [Edits!Callers -> RestoringType] /\ restoring'[caller] = g
      /\ \A c \in Edits!Callers \ {caller} : restoring'[c] = restoring[c]
  BY <1>1, <1>3, <1>4
<1>6. /\ plan' \in PlanType /\ plan'.status = status
      /\ plan'.original = plan.original /\ plan'.applied = plan.applied
  BY <1>1, <1>3 DEF PlanType
<1>7. EditsTyped'
  <2>1. \A c \in Edits!Callers : restoring'[c].on => restoring'[c].todo # <<>>
    BY <1>1, <1>5, <1>10
  <2> QED
    BY <1>5, <1>6, <2>1 DEF EditsTyped
<1>8. ASSUME Calm'
      PROVE  EditsRight'
  <2>1. \A f \in Edits!Files : f \in Edits!ToSet(todo) \/ disk'[f] = plan'.original[f]
    BY <1>2, <1>6, <1>8 DEF UnwrittenIsOld
  <2>2. OneRuns' /\ ApplyGoesOn' /\ UnwrittenIsOld'
    BY <1>2, <1>5, <1>6, <1>8, <2>1 DEF OneRuns, ApplyGoesOn, UnwrittenIsOld
  <2>3. RestoreGoesOn'
    BY <1>5, <1>8, <1>10, <2>1 DEF RestoreGoesOn
  <2>4. Edits!Running' \/ Edits!Whole'
    <3>1. CASE todo = <<>>
      BY <1>2, <1>6, <2>1, <3>1 DEF Edits!Whole
    <3>2. CASE todo # <<>>
      BY <1>5, <1>10, <3>2 DEF Edits!Running
    <3> QED
      BY <3>1, <3>2
  <2> QED
    BY <2>2, <2>3, <2>4 DEF EditsRight
<1> QED
  BY <1>7, <1>8 DEF EditsInv

LEMMA ApplyFailsKeeps ==
    ASSUME EditsInv, NEW torn \in BOOLEAN, Edits!ApplyFails(torn)
    PROVE  EditsInv'
<1> DEFINE f == Head(applying.todo)
<1>1. /\ EditsTyped /\ applying.on /\ disk \in FileContents /\ upset \in UpsetType
      /\ disk' = IF torn THEN [disk EXCEPT ![f] = "torn"] ELSE disk
      /\ upset' = [upset EXCEPT !.torn = @ \/ torn]
      /\ applying' = [on |-> FALSE, todo |-> <<>>] /\ Edits!StartRestore("apply")
  BY DEF EditsInv, EditsTyped, Edits!ApplyFails
<1>2. f \in Edits!Files
  BY <1>1, EditSequences DEF EditsTyped, ApplyingType
<1>3. disk' \in FileContents
  BY <1>1, <1>2 DEF FileContents, Edits!Contents
<1>4. /\ upset' \in UpsetType /\ upset'.torn = (upset.torn \/ torn)
      /\ upset'.overlap = upset.overlap /\ upset'.foreign = upset.foreign
  BY <1>1 DEF UpsetType
<1>5. applying' \in ApplyingType /\ ~applying'.on
  BY <1>1 DEF ApplyingType
<1>6. ASSUME Calm'
      PROVE  disk' = disk /\ UnwrittenIsOld /\ \A c \in Edits!Callers : ~restoring[c].on
  <2>1. Calm /\ ~torn
    BY <1>4, <1>6 DEF Calm
  <2> QED
    BY <1>1, <2>1 DEF EditsInv, EditsRight, OneRuns
<1>7. "apply" \in Edits!Callers
  BY DEF Edits!Callers
<1> QED
  BY <1>1, <1>3, <1>4, <1>5, <1>6, <1>7, StartRestoreKeeps

LEMMA RollbackKeeps ==
    ASSUME EditsInv, Edits!Rollback
    PROVE  EditsInv'
<1>1. /\ EditsTyped /\ Edits!Called /\ Edits!StartRestore("reviewer") /\ UNCHANGED <<disk, applying>>
      /\ "reviewer" \in Edits!Callers
  BY DEF EditsInv, Edits!Rollback, Edits!Callers
<1>2. CASE ~applying.on
  BY <1>1, <1>2, CallIsAlone, StartRestoreKeeps DEF EditsTyped
\* While apply writes, the call overlaps it.
<1>3. CASE applying.on
  <2>1. ~Calm'
    BY <1>3, CallIsAlone, <1>1
  <2>2. EditsTyped'
    <3> DEFINE todo == Edits!Reverse(plan.applied)
    <3>1. todo \in Seq(Edits!Files) /\ plan \in PlanType
      BY <1>1, EditSequences DEF EditsTyped, PlanType
    <3>2. plan' \in PlanType
      BY <1>1, <3>1 DEF Edits!StartRestore, Edits!Ended, PlanType
    <3>3. restoring' = [restoring EXCEPT !["reviewer"] =
                            [on |-> todo # <<>>, todo |-> todo, failed |-> FALSE]]
      BY <1>1 DEF Edits!StartRestore
    <3> HIDE DEF todo
    <3>4. restoring' \in [Edits!Callers -> RestoringType]
          /\ \A c \in Edits!Callers : restoring'[c].on => restoring'[c].todo # <<>>
      BY <1>1, <3>1, <3>3 DEF EditsTyped, RestoringType
    <3> QED
      BY <1>1, <3>2, <3>4, CallIsAlone DEF EditsTyped
  <2> QED
    BY <2>1, <2>2 DEF EditsInv
<1> QED
  BY <1>2, <1>3

LEMMA RestoreKeeps ==
    ASSUME EditsInv, NEW caller \in Edits!Callers, NEW ok \in BOOLEAN, Edits!Restore(caller, ok)
    PROVE  EditsInv'
<1> DEFINE f == Head(restoring[caller].todo)
           rest == Tail(restoring[caller].todo)
           last == Len(restoring[caller].todo) = 1
           failed == restoring[caller].failed \/ ~ok
           g == IF last THEN Edits!NotRunning ELSE [on |-> TRUE, todo |-> rest, failed |-> failed]
           status == IF last THEN IF failed THEN "failed" ELSE "rolled-back" ELSE plan.status
<1>1. /\ EditsTyped /\ plan \in PlanType /\ restoring[caller].on /\ UNCHANGED <<applying, upset>>
      /\ disk \in FileContents /\ disk' = IF ok THEN [disk EXCEPT ![f] = plan.original[f]] ELSE disk
      /\ restoring \in [Edits!Callers -> RestoringType]
      /\ restoring' = [restoring EXCEPT ![caller] = g]
      /\ plan' = IF last THEN [plan EXCEPT !.status = IF failed THEN "failed" ELSE "rolled-back"] ELSE plan
  BY DEF EditsInv, EditsTyped, Edits!Restore, Edits!Ended
<1>2. /\ restoring[caller] \in RestoringType
      /\ restoring[caller].todo \in Seq(Edits!Files) /\ restoring[caller].todo # <<>>
  BY <1>1 DEF EditsTyped, RestoringType
<1>3. /\ f \in Edits!Files /\ rest \in Seq(Edits!Files) /\ (last <=> rest = <<>>)
      /\ Edits!ToSet(restoring[caller].todo) = {f} \cup Edits!ToSet(rest)
      /\ (rest = <<>> => Edits!ToSet(rest) = {})
  <2>1. \A q \in Seq(Edits!Files) : q # <<>> =>
            /\ Head(q) \in Edits!Files /\ Tail(q) \in Seq(Edits!Files)
            /\ (Len(q) = 1 <=> Tail(q) = <<>>)
            /\ Edits!ToSet(q) = {Head(q)} \cup Edits!ToSet(Tail(q))
    BY EditSequences
  <2>2. rest \in Seq(Edits!Files)
    BY <1>2, <2>1
  <2>3. rest = <<>> => Edits!ToSet(rest) = {}
    BY DEF Edits!ToSet
  <2> QED
    BY <1>2, <2>1, <2>2, <2>3
<1>4. failed \in BOOLEAN /\ (failed <=> restoring[caller].failed \/ ~ok)
  OBVIOUS
<1> HIDE DEF f, rest, last, failed
<1>5. /\ plan' \in PlanType /\ plan'.status = status
      /\ plan'.original = plan.original /\ plan'.proposed = plan.proposed
      /\ plan'.taken = plan.taken /\ plan'.applied = plan.applied
  BY <1>1 DEF PlanType
<1>6. /\ disk' \in FileContents /\ (ok => disk'[f] = plan.original[f])
      /\ \A h \in Edits!Files \ {f} : disk'[h] = disk[h]
      /\ disk'[f] \in {disk[f], plan.original[f]}
  BY <1>1, <1>3 DEF FileContents, PlanType
<1>7. g \in RestoringType
  BY <1>3, <1>4 DEF RestoringType, Edits!NotRunning
<1>8. (g.on <=> ~last) /\ (~last => g.todo = rest /\ g.failed = failed)
  BY DEF Edits!NotRunning
<1> HIDE DEF g
<1>9. /\ restoring' \in [Edits!Callers -> RestoringType] /\ restoring'[caller] = g
      /\ \A c \in Edits!Callers \ {caller} : restoring'[c] = restoring[c]
  BY <1>1, <1>7
<1>10. EditsTyped'
  <2>1. \A c \in Edits!Callers : restoring'[c].on => restoring'[c].todo # <<>>
    BY <1>1, <1>3, <1>8, <1>9 DEF EditsTyped
  <2> QED
    BY <1>1, <1>5, <1>6, <1>9, <2>1 DEF EditsTyped
<1>11. ASSUME Calm'
       PROVE  EditsRight'
  <2>1. /\ OneRuns /\ UnwrittenIsOld /\ RestoreGoesOn
        /\ ~applying.on /\ \A c \in Edits!Callers \ {caller} : ~restoring[c].on
    BY <1>1, <1>11 DEF EditsInv, EditsRight, OneRuns, Calm
  <2>2. OneRuns' /\ ApplyGoesOn'
    BY <1>1, <1>9, <2>1 DEF OneRuns, ApplyGoesOn
  <2>3. UnwrittenIsOld'
    BY <1>5, <1>6, <2>1 DEF UnwrittenIsOld
  <2>4. failed \/ \A h \in Edits!Files : h \in Edits!ToSet(rest) \/ disk'[h] = plan.original[h]
    BY <1>1, <1>3, <1>4, <1>6, <2>1 DEF RestoreGoesOn
  <2>5. RestoreGoesOn'
    BY <1>5, <1>8, <1>9, <2>1, <2>4 DEF RestoreGoesOn
  <2>6. Edits!Running' \/ Edits!Whole'
    <3>1. CASE last
      BY <1>3, <1>5, <2>4, <3>1 DEF Edits!Whole
    <3>2. CASE ~last
      BY <1>8, <1>9, <3>2 DEF Edits!Running
    <3> QED
      BY <3>1, <3>2
  <2> QED
    BY <2>2, <2>3, <2>5, <2>6 DEF EditsRight
<1> QED
  BY <1>10, <1>11 DEF EditsInv

LEMMA ForeignWriteKeeps ==
    ASSUME EditsInv, NEW f \in Edits!Files, Edits!ForeignWrite(f)
    PROVE  EditsInv'
<1>1. /\ EditsTyped /\ disk \in FileContents /\ disk' = [disk EXCEPT ![f] = "foreign"]
      /\ upset \in UpsetType /\ upset' = [upset EXCEPT !.foreign = TRUE]
      /\ UNCHANGED <<plan, applying, restoring>>
  BY DEF EditsInv, EditsTyped, Edits!ForeignWrite
<1>2. disk' \in FileContents /\ upset' \in UpsetType /\ ~Calm'
  BY <1>1 DEF FileContents, Edits!Contents, UpsetType, Calm
<1> QED
  BY <1>1, <1>2 DEF EditsInv, EditsTyped

LEMMA EditsStep ==
    ASSUME EditsInv, [Edits!EditNext]_editsVars
    PROVE  EditsInv'
<1>1. plan \in PlanType /\ plan.decision \in [Edits!Files -> Edits!Decisions]
  BY DEF EditsInv, EditsTyped, PlanType
<1>2. CASE UNCHANGED editsVars
  BY <1>2 DEF EditsInv, EditsTyped, Calm, EditsRight, OneRuns, UnwrittenIsOld, ApplyGoesOn, RestoreGoesOn,
              Edits!Running, Edits!Whole, editsVars
<1>3. ASSUME NEW decision \in {"accepted", "rejected"}, Edits!DecideAll(decision)
      PROVE  EditsInv'
  <2>1. [f \in Edits!Files |-> decision] \in [Edits!Files -> Edits!Decisions]
    BY DEF Edits!Decisions
  <2> QED
    BY <1>3, <2>1, DecideKeeps DEF Edits!DecideAll
<1>4. ASSUME NEW decision \in {"accepted", "rejected"}, NEW f \in Edits!Files, Edits!Decide(f, decision)
      PROVE  EditsInv'
  <2> DEFINE decisions == [plan.decision EXCEPT ![f] = decision]
  <2>1. decisions \in [Edits!Files -> Edits!Decisions]
    BY <1>1 DEF Edits!Decisions
  <2>2. plan' = [plan EXCEPT !.decision = decisions] /\ UNCHANGED <<disk, applying, restoring, upset>>
    BY <1>1, <1>4 DEF Edits!Decide, PlanType
  <2> HIDE DEF decisions
  <2> QED
    BY <2>1, <2>2, DecideKeeps
<1> QED
  BY <1>2, <1>3, <1>4, ApplyKeeps, ApplyWritesKeeps, RollbackKeeps, ApplyFailsKeeps, RestoreKeeps,
     ForeignWriteKeeps
     DEF Edits!EditNext

-----------------------------------------------------------------------------
(***************************************************************************)
(* The timeline: a change found what the changes before it, as far as they *)
(* were not rolled back, had left.                                         *)
(***************************************************************************)

ChangeType == [file : Recorded, before : Nat, after : Nat, call : Nat, rolledBack : BOOLEAN]
FileOrNone == Recorded \cup {Records!NoTurn.file}
CallStates == {"requested", "rejected", "running", "completed", "failed"}
TurnType ==
    [at : {"none", "model", "asking", "running", "written"}, usage : Int, call : Nat,
     file : FileOrNone, before : Nat]
TimelineType ==
    [calls : Seq(CallStates),
     changes : Seq(ChangeType), active : Nat]
HistoryType ==
    [turns : Nat, writes : Nat, interrupted : BOOLEAN, forgotten : BOOLEAN, raced : BOOLEAN,
     unrecorded : SUBSET Recorded]

RecordsTyped ==
    /\ turn \in TurnType /\ timeline \in TimelineType /\ history \in HistoryType
    /\ files \in [Recorded -> Nat]
    /\ rollbacks \in [active : SUBSET Nat, begun : Nat]
    /\ turn.at \in {"asking", "running", "written"} =>
           turn.call \in 1..Len(timeline.calls) /\ turn.file \in Recorded

\* Of the changes ch to file f: all of them, those not rolled back, and what they tell it holds.
ChangesOf(ch, f) == {k \in DOMAIN ch : ch[k].file = f}
ActiveOf(ch, f) == {k \in ChangesOf(ch, f) : ~ch[k].rolledBack}
Told(ch, f) ==
    IF ActiveOf(ch, f) # {} THEN ch[Records!Max(ActiveOf(ch, f))].after
    ELSE IF ChangesOf(ch, f) # {} THEN ch[Records!Min(ChangesOf(ch, f))].before ELSE 0

\* What those before k told.
Earlier(ch, k) == {j \in ActiveOf(ch, ch[k].file) : j < k}
ToldBefore(ch, k) ==
    IF Earlier(ch, k) # {} THEN ch[Records!Max(Earlier(ch, k))].after
    ELSE ch[Records!Min(ChangesOf(ch, ch[k].file))].before

Undisturbed == ~history.raced /\ ~history.forgotten

RecordsRight ==
    /\ \A k \in DOMAIN timeline.changes :
          timeline.changes[k].file \notin history.unrecorded /\ ~timeline.changes[k].rolledBack =>
              timeline.changes[k].before = ToldBefore(timeline.changes, k)
    /\ \A f \in Recorded \ history.unrecorded :
          \/ turn.at = "written" /\ turn.file = f
          \/ files[f] = Told(timeline.changes, f)
    /\ turn.at = "running" => turn.before = files[turn.file]
    /\ turn.at = "written" /\ turn.file \notin history.unrecorded =>
           turn.before = Told(timeline.changes, turn.file)
    /\ turn.at = "written" => rollbacks.active = {}
    /\ \A k \in rollbacks.active :
          /\ k \in DOMAIN timeline.changes /\ ~timeline.changes[k].rolledBack
          /\ Records!LaterActive(k) = {}

RecordsInv == RecordsTyped /\ (Undisturbed => RecordsRight)

\* A set of places in a sequence has a first one and a last one.
LEMMA LeastNumber ==
    ASSUME NEW S \in SUBSET Nat, S # {}
    PROVE  \E x \in S : \A y \in S : x <= y
<1>1. PICK x \in S : \A y \in S : ~ (<<y, x>> \in OpToRel(<, Nat))
  BY NatLessThanWellFounded, WFMin
<1>2. \A y \in S : ~(y < x)
  BY <1>1 DEF OpToRel
<1> QED
  BY <1>2

LEMMA FirstAndLast ==
    ASSUME NEW n \in Nat, NEW S \in SUBSET (1..n), S # {}
    PROVE  /\ Records!Min(S) \in S /\ \A y \in S : Records!Min(S) <= y
           /\ Records!Max(S) \in S /\ \A y \in S : Records!Max(S) >= y
<1>1. \E x \in S : \A y \in S : x <= y
  BY LeastNumber
<1>2. \E x \in S : \A y \in S : x >= y
  <2> DEFINE T == {n - x : x \in S}
  <2>1. T \in SUBSET Nat /\ T # {}
    <3>1. \A x \in 1..n : n - x \in Nat
      OBVIOUS
    <3>2. \A x \in S : n - x \in Nat
      BY <3>1
    <3> QED
      BY <3>2
  <2> HIDE DEF T
  <2>2. PICK m \in T : \A y \in T : m <= y
    BY <2>1, LeastNumber
  <2>3. PICK x \in S : m = n - x
    BY <2>2 DEF T
  <2>4. \A y \in S : n - y \in T
    BY DEF T
  <2>5. \A y \in S : n - x <= n - y
    BY <2>2, <2>3, <2>4
  <2>6. \A y \in S : x >= y
    <3>1. \A a, b \in 1..n : n - a <= n - b => a >= b
      OBVIOUS
    <3> QED
      BY <2>5, <3>1
  <2> QED
    BY <2>6
<1> QED
  BY <1>1, <1>2 DEF Records!Min, Records!Max

\* The last of a set, and the first, are the ones that are.
LEMMA LastIs ==
    ASSUME NEW S \in SUBSET Nat, NEW m \in S, \A y \in S : y <= m
    PROVE  Records!Max(S) = m
<1>1. \A y \in S : m >= y
  <2>1. \A a, b \in Nat : a <= b => b >= a
    OBVIOUS
  <2> QED
    BY <2>1
<1>2. Records!Max(S) \in S /\ \A y \in S : Records!Max(S) >= y
  BY <1>1 DEF Records!Max
<1>3. \A a, b \in Nat : a <= b /\ a >= b => a = b
  OBVIOUS
<1> QED
  BY <1>2, <1>3

LEMMA FirstIs ==
    ASSUME NEW S \in SUBSET Nat, NEW m \in S, \A y \in S : m <= y
    PROVE  Records!Min(S) = m
<1>1. Records!Min(S) \in S /\ \A y \in S : Records!Min(S) <= y
  BY DEF Records!Min
<1>2. \A a, b \in Nat : a <= b /\ b <= a => a = b
  OBVIOUS
<1> QED
  BY <1>1, <1>2

\* What next tells beyond ch, with the change c at its end.
TellsAlso(next, ch, c) ==
    /\ next \in Seq(ChangeType) /\ DOMAIN next = DOMAIN ch \cup {Len(ch) + 1}
    /\ next[Len(ch) + 1] = c /\ \A k \in DOMAIN ch : next[k] = ch[k]
    /\ \A f \in Recorded : Told(next, f) = IF f = c.file THEN c.after ELSE Told(ch, f)
    /\ \A k \in DOMAIN ch : ToldBefore(next, k) = ToldBefore(ch, k)
    /\ c.before = Told(ch, c.file) => c.before = ToldBefore(next, Len(ch) + 1)

\* A new change is the last one, and tells what it made of its file.
LEMMA ChangeAppended ==
    ASSUME NEW ch \in Seq(ChangeType), NEW c \in ChangeType, ~c.rolledBack
    PROVE  TellsAlso(Append(ch, c), ch, c)
<1> DEFINE n == Len(ch)
           next == Append(ch, c)
<1>1. /\ n \in Nat /\ DOMAIN ch = 1..n /\ next \in Seq(ChangeType)
      /\ DOMAIN next = 1..(n + 1) /\ 1..(n + 1) = 1..n \cup {n + 1}
      /\ next[n + 1] = c /\ \A k \in 1..n : next[k] = ch[k]
  BY AppendProperties, LenProperties
<1> HIDE DEF n, next
<1>2. \A f \in Recorded :
         /\ ChangesOf(next, f) = IF f = c.file THEN ChangesOf(ch, f) \cup {n + 1} ELSE ChangesOf(ch, f)
         /\ ActiveOf(next, f) = IF f = c.file THEN ActiveOf(ch, f) \cup {n + 1} ELSE ActiveOf(ch, f)
  BY <1>1 DEF ChangesOf, ActiveOf
<1>3. \A f \in Recorded : ActiveOf(ch, f) \subseteq ChangesOf(ch, f) /\ ChangesOf(ch, f) \subseteq 1..n
  BY <1>1 DEF ChangesOf, ActiveOf
<1>4. \A f \in Recorded : ChangesOf(ch, f) # {} =>
          /\ Records!Min(ChangesOf(ch, f)) \in 1..n
          /\ Records!Min(ChangesOf(next, f)) = Records!Min(ChangesOf(ch, f))
  <2> SUFFICES ASSUME NEW f \in Recorded, ChangesOf(ch, f) # {}
               PROVE  /\ Records!Min(ChangesOf(ch, f)) \in 1..n
                      /\ Records!Min(ChangesOf(next, f)) = Records!Min(ChangesOf(ch, f))
    OBVIOUS
  <2> DEFINE m == Records!Min(ChangesOf(ch, f))
  <2>1. m \in ChangesOf(ch, f) /\ \A y \in ChangesOf(ch, f) : m <= y
    BY <1>1, <1>3, FirstAndLast
  <2>2. m \in 1..n /\ m \in ChangesOf(next, f) /\ ChangesOf(next, f) \in SUBSET (1..(n + 1))
    BY <1>1, <1>2, <1>3, <2>1
  <2>3. \A y \in ChangesOf(next, f) : m <= y
    BY <1>1, <1>2, <2>1, <2>2
  <2> HIDE DEF m
  <2>4. Records!Min(ChangesOf(next, f)) = m
    BY <1>1, <2>2, <2>3, FirstIs
  <2> QED
    BY <2>2, <2>4 DEF m
<1>5. ASSUME NEW f \in Recorded
      PROVE  Told(next, f) = IF f = c.file THEN c.after ELSE Told(ch, f)
  <2>1. CASE f = c.file
    <3>1. n + 1 \in ActiveOf(next, f) /\ ActiveOf(next, f) \in SUBSET (1..(n + 1))
      BY <1>1, <1>2, <1>3, <2>1
    <3>2. Records!Max(ActiveOf(next, f)) = n + 1
      BY <1>1, <3>1, LastIs
    <3> QED
      BY <1>1, <2>1, <3>1, <3>2 DEF Told
  <2>2. CASE f # c.file
    <3>1. ActiveOf(ch, f) # {} => Records!Max(ActiveOf(ch, f)) \in 1..n
      BY <1>1, <1>3, FirstAndLast
    <3> QED
      BY <1>1, <1>2, <1>4, <2>2, <3>1 DEF Told
  <2> QED
    BY <2>1, <2>2
<1>6. ASSUME NEW k \in DOMAIN ch
      PROVE  ToldBefore(next, k) = ToldBefore(ch, k)
  <2>1. ch[k].file \in Recorded /\ next[k].file = ch[k].file /\ k \in 1..n
    <3>1. k \in 1..Len(ch)
      BY <1>1 DEF n
    <3>2. ch[k] \in ChangeType
      BY <3>1, ElementOfSeq
    <3> QED
      BY <1>1, <3>2 DEF ChangeType
  <2>2. Earlier(next, k) = Earlier(ch, k) /\ Earlier(ch, k) \subseteq 1..n
    BY <1>1, <1>2, <1>3, <2>1 DEF Earlier
  <2>3. Earlier(ch, k) # {} => Records!Max(Earlier(ch, k)) \in 1..n
    BY <1>1, <2>2, FirstAndLast
  <2>4. ChangesOf(ch, ch[k].file) # {}
    BY <1>1, <2>1 DEF ChangesOf
  <2> QED
    BY <1>1, <1>4, <2>1, <2>2, <2>3, <2>4 DEF ToldBefore
<1>7. ASSUME c.before = Told(ch, c.file)
      PROVE  c.before = ToldBefore(next, n + 1)
  <2>1. c.file \in Recorded
    BY DEF ChangeType
  <2>2. Earlier(next, n + 1) = ActiveOf(ch, c.file)
    BY <1>1, <1>2, <1>3, <2>1 DEF Earlier
  <2>3. ActiveOf(ch, c.file) # {} => Records!Max(ActiveOf(ch, c.file)) \in 1..n
    <3>1. ActiveOf(ch, c.file) \in SUBSET (1..n)
      BY <1>3, <2>1
    <3> QED
      BY <1>1, <3>1, FirstAndLast
  <2>4. CASE ActiveOf(ch, c.file) # {} \/ ChangesOf(ch, c.file) # {}
    BY <1>1, <1>4, <1>7, <2>1, <2>2, <2>3, <2>4 DEF Told, ToldBefore
  <2>5. CASE ActiveOf(ch, c.file) = {} /\ ChangesOf(ch, c.file) = {}
    <3>1. ChangesOf(next, c.file) = {n + 1}
      BY <1>2, <2>1, <2>5
    <3>2. Records!Min(ChangesOf(next, c.file)) = n + 1
      BY <1>1, <3>1, FirstIs
    <3> QED
      BY <1>1, <2>2, <2>5, <3>2 DEF ToldBefore
  <2> QED
    BY <2>4, <2>5
<1> QED
  BY <1>1, <1>5, <1>6, <1>7 DEF n, next, TellsAlso

\* What next tells when, of ch, the change k is marked rolled back.
TellsNoMore(next, ch, k) ==
    /\ next \in Seq(ChangeType) /\ DOMAIN next = DOMAIN ch /\ Len(next) = Len(ch)
    /\ next[k].rolledBack /\ next[k].file = ch[k].file
    /\ \A j \in DOMAIN ch \ {k} : next[j] = ch[j]
    /\ \A j \in DOMAIN ch : next[j].before = ch[j].before /\ next[j].file = ch[j].file
    /\ \A f \in Recorded : Told(next, f) = IF f = ch[k].file THEN ToldBefore(ch, k) ELSE Told(ch, f)
    /\ \A j \in DOMAIN ch : ~next[j].rolledBack => ToldBefore(next, j) = ToldBefore(ch, j)

\* The last active change of its file is rolled back: the file is told to be what that found.
LEMMA ChangeUndone ==
    ASSUME NEW ch \in Seq(ChangeType), NEW k \in DOMAIN ch, ~ch[k].rolledBack,
           \A j \in ActiveOf(ch, ch[k].file) : j <= k
    PROVE  TellsNoMore([ch EXCEPT ![k].rolledBack = TRUE], ch, k)
<1> DEFINE n == Len(ch)
           next == [ch EXCEPT ![k].rolledBack = TRUE]
           g == [ch[k] EXCEPT !.rolledBack = TRUE]
<1>1. n \in Nat /\ DOMAIN ch = 1..n /\ ch[k] \in ChangeType /\ \A j \in 1..n : ch[j].file \in Recorded
  <2>1. n \in Nat /\ DOMAIN ch = 1..n
    BY LenProperties
  <2>2. \A j \in 1..n : ch[j] \in ChangeType
    BY ElementOfSeq
  <2> QED
    BY <2>1, <2>2 DEF ChangeType
<1>2. /\ g \in ChangeType /\ g.rolledBack /\ g.file = ch[k].file /\ g.before = ch[k].before
      /\ g.after = ch[k].after
  BY <1>1 DEF ChangeType
<1>3. next = [ch EXCEPT ![k] = g]
  BY <1>1
<1> HIDE DEF g, next
<1>4. /\ next \in Seq(ChangeType) /\ DOMAIN next = DOMAIN ch /\ Len(next) = n
      /\ next[k] = g /\ \A j \in DOMAIN ch \ {k} : next[j] = ch[j]
  <2>1. k \in 1..Len(ch)
    BY <1>1
  <2>2. /\ [ch EXCEPT ![k] = g] \in Seq(ChangeType) /\ Len([ch EXCEPT ![k] = g]) = Len(ch)
        /\ \A j \in 1..Len(ch) : [ch EXCEPT ![k] = g][j] = IF j = k THEN g ELSE ch[j]
    BY <1>2, <2>1, ExceptSeq
  <2>3. /\ next \in Seq(ChangeType) /\ Len(next) = Len(ch)
        /\ \A j \in 1..Len(ch) : next[j] = IF j = k THEN g ELSE ch[j]
    BY <1>3, <2>2
  <2>4. DOMAIN next = DOMAIN ch
    BY <2>3, LenProperties
  <2> QED
    BY <1>1, <2>1, <2>3, <2>4
<1> HIDE DEF n
<1>5. \A j \in DOMAIN ch : next[j].before = ch[j].before /\ next[j].file = ch[j].file
                           /\ next[j].after = ch[j].after
  BY <1>2, <1>4
<1>6. \A f \in Recorded :
         /\ ChangesOf(next, f) = ChangesOf(ch, f) /\ ChangesOf(ch, f) \subseteq 1..n
         /\ ActiveOf(next, f) = IF f = ch[k].file THEN ActiveOf(ch, f) \ {k} ELSE ActiveOf(ch, f)
         /\ ActiveOf(ch, f) \subseteq ChangesOf(ch, f)
  BY <1>1, <1>2, <1>4, <1>5 DEF ChangesOf, ActiveOf
<1>7. \A f \in Recorded : ChangesOf(ch, f) # {} => Records!Min(ChangesOf(ch, f)) \in 1..n
  BY <1>1, <1>6, FirstAndLast
<1>8. ASSUME NEW f \in Recorded
      PROVE  Told(next, f) = IF f = ch[k].file THEN ToldBefore(ch, k) ELSE Told(ch, f)
  <2>1. CASE f = ch[k].file
    <3>1. Earlier(ch, k) = ActiveOf(next, f) /\ Earlier(ch, k) \subseteq 1..n
      <4>1. \A j \in ActiveOf(ch, f) : j \in 1..n /\ j <= k
        BY <1>6, <2>1
      <4>2. \A j \in ActiveOf(ch, f) : j < k <=> j # k
        BY <1>1, <4>1
      <4> QED
        BY <1>6, <2>1, <4>1, <4>2 DEF Earlier
    <3>2. Earlier(ch, k) # {} => Records!Max(Earlier(ch, k)) \in 1..n
      BY <1>1, <3>1, FirstAndLast
    <3>3. k \in ChangesOf(ch, f)
      BY <2>1 DEF ChangesOf
    <3> QED
      BY <1>1, <1>5, <1>6, <1>7, <2>1, <3>1, <3>2, <3>3 DEF Told, ToldBefore
  <2>2. CASE f # ch[k].file
    <3>1. ActiveOf(ch, f) # {} => Records!Max(ActiveOf(ch, f)) \in 1..n
      BY <1>1, <1>6, FirstAndLast
    <3> QED
      BY <1>1, <1>5, <1>6, <1>7, <2>2, <3>1 DEF Told
  <2> QED
    BY <2>1, <2>2
<1>9. ASSUME NEW j \in DOMAIN ch, ~next[j].rolledBack
      PROVE  ToldBefore(next, j) = ToldBefore(ch, j)
  <2>1. j # k /\ next[j] = ch[j] /\ j \in 1..n
    BY <1>1, <1>2, <1>4, <1>9
  <2>2. Earlier(next, j) = Earlier(ch, j)
    <3>1. CASE ch[j].file = ch[k].file
      <4>1. j \in ActiveOf(ch, ch[k].file)
        BY <1>9, <2>1, <3>1 DEF ActiveOf, ChangesOf
      <4>2. j < k
        BY <1>1, <2>1, <4>1
      <4>3. ActiveOf(next, ch[j].file) = ActiveOf(ch, ch[j].file) \ {k} /\ ~(k < j)
        <5>1. ch[j].file \in Recorded /\ k \in 1..n
          BY <1>1, <2>1
        <5>2. ActiveOf(next, ch[j].file) = ActiveOf(ch, ch[j].file) \ {k}
          BY <1>6, <3>1, <5>1
        <5>3. ~(k < j)
          BY <1>1, <2>1, <4>2, <5>1
        <5> QED
          BY <5>2, <5>3
      <4>4. \A i \in ActiveOf(ch, ch[j].file) : i < j => i # k
        BY <4>3
      <4> QED
        BY <2>1, <4>3, <4>4 DEF Earlier
    <3>2. CASE ch[j].file # ch[k].file
      BY <1>1, <1>6, <2>1, <3>2 DEF Earlier
    <3> QED
      BY <3>1, <3>2
  <2>3. Earlier(ch, j) # {} => Records!Max(Earlier(ch, j)) \in 1..n
    <3>1. Earlier(ch, j) \subseteq 1..n
      BY <1>1, <1>6, <2>1 DEF Earlier
    <3> QED
      BY <1>1, <3>1, FirstAndLast
  <2>4. ChangesOf(ch, ch[j].file) # {}
    BY DEF ChangesOf
  <2> QED
    BY <1>1, <1>5, <1>6, <1>7, <2>1, <2>2, <2>3, <2>4 DEF ToldBefore
<1> QED
  BY <1>2, <1>4, <1>5, <1>8, <1>9 DEF n, next, TellsNoMore

\* A change that is marked is a change.
LEMMA ChangeMarked ==
    ASSUME NEW ch \in Seq(ChangeType), NEW k \in DOMAIN ch
    PROVE  [ch EXCEPT ![k].rolledBack = TRUE] \in Seq(ChangeType)
<1> DEFINE g == [ch[k] EXCEPT !.rolledBack = TRUE]
<1>1. k \in 1..Len(ch)
  BY LenProperties
<1>2. ch[k] \in ChangeType
  BY <1>1, ElementOfSeq
<1>3. g \in ChangeType
  BY <1>2 DEF ChangeType
<1>4. [ch EXCEPT ![k] = g] \in Seq(ChangeType)
  BY <1>1, <1>3, ExceptSeq
<1> QED
  BY <1>4

\* The records have their types.
LEMMA RecordsStartTyped ==
    ASSUME Records!RecordInit
    PROVE  RecordsTyped
BY DEF Records!RecordInit, RecordsTyped, TurnType, FileOrNone, TimelineType, HistoryType,
       Records!NoTurn, Records!NoCall

\* Every event and every rollback leaves them their types.
LEMMA RecordsStayTyped ==
    ASSUME RecordsTyped, [Records!RecordNext]_recordsVars
    PROVE  RecordsTyped'
<1> USE DEF TurnType, TimelineType, HistoryType
<1>0. Records!NoTurn \in TurnType /\ Records!NoTurn.at = "none"
  BY DEF Records!NoTurn, Records!NoCall, FileOrNone
<1>b. /\ turn \in TurnType /\ timeline \in TimelineType /\ history \in HistoryType
      /\ files \in [Recorded -> Nat]
      /\ rollbacks \in [active : SUBSET Nat, begun : Nat]
  BY DEF RecordsTyped
<1>c. turn.at \in {"asking", "running", "written"} =>
          turn.call \in 1..Len(timeline.calls) /\ turn.file \in Recorded
  BY DEF RecordsTyped
<1>a. Recorded \subseteq FileOrNone
  BY DEF FileOrNone
<1>1. Len(timeline.calls) \in Nat /\ Len(timeline.calls) + 1 \in Nat
  <2>1. Len(timeline.calls) \in Nat
    BY <1>b, LenProperties
  <2> QED
    BY <2>1
<1>d. history.turns + 1 \in Nat /\ history.writes + 1 \in Nat /\ rollbacks.begun + 1 \in Nat
  <2>1. history.turns \in Nat /\ history.writes \in Nat /\ rollbacks.begun \in Nat
    BY <1>b
  <2> QED
    BY <2>1
<1>2. ASSUME NEW state \in CallStates,
             turn.at \in {"asking", "running", "written"},
             NEW calls, calls = [timeline.calls EXCEPT ![turn.call] = state]
      PROVE  /\ calls \in Seq(CallStates)
             /\ Len(calls) = Len(timeline.calls)
  BY <1>b, <1>c, <1>2, ExceptSeq
<1>3. CASE UNCHANGED recordsVars
  BY <1>b, <1>c, <1>3 DEF RecordsTyped, recordsVars
<1>4. CASE Records!TurnStarted
  <2>1. /\ turn' = [Records!NoTurn EXCEPT !.at = "model"]
        /\ history' = [history EXCEPT !.turns = @ + 1]
        /\ UNCHANGED <<timeline, files, rollbacks>>
    BY <1>b, <1>c, <1>4 DEF Records!TurnStarted
  <2>2. turn' \in TurnType /\ turn'.at = "model"
    BY <1>b, <1>c, <1>0, <2>1
  <2>3. history' \in HistoryType
    BY <1>b, <1>d, <2>1
  <2> QED
    BY <1>b, <1>c, <2>1, <2>2, <2>3 DEF RecordsTyped
<1>5. ASSUME NEW usage \in 1..MaxUsage, Records!UsageUpdated(usage)
      PROVE  RecordsTyped'
  <2>1. turn.at = "model" /\ turn' = [turn EXCEPT !.usage = usage] /\ usage \in Int
    BY <1>b, <1>c, <1>5 DEF Records!UsageUpdated
  <2>2. turn' \in TurnType /\ turn'.at = "model"
    BY <1>b, <1>c, <2>1
  <2> QED
    BY <1>b, <1>c, <1>5, <2>2 DEF RecordsTyped, Records!UsageUpdated
<1>6. ASSUME NEW file \in Recorded, Records!ToolRequested(file)
      PROVE  RecordsTyped'
  <2> DEFINE calls == Append(timeline.calls, "requested")
  <2>1. /\ calls \in Seq(CallStates)
        /\ Len(calls) = Len(timeline.calls) + 1
    BY <1>b, <1>c, AppendProperties DEF CallStates
  <2>2. /\ timeline' = [timeline EXCEPT !.calls = calls, !.active = Len(timeline.calls) + 1]
        /\ turn' = [turn EXCEPT !.at = "asking", !.call = Len(timeline.calls) + 1, !.file = file]
        /\ UNCHANGED <<files, rollbacks, history>>
    BY <1>b, <1>c, <1>6 DEF Records!ToolRequested
  <2> HIDE DEF calls
  <2>3. timeline' \in TimelineType /\ timeline'.calls = calls
    BY <1>b, <1>c, <1>1, <2>1, <2>2
  <2>4. /\ turn' \in TurnType /\ turn'.call = Len(timeline.calls) + 1 /\ turn'.file = file
    BY <1>b, <1>c, <1>1, <1>a, <2>2
  <2>5. Len(timeline.calls) + 1 \in 1..(Len(timeline.calls) + 1)
    BY <1>1
  <2>6. turn'.call \in 1..Len(timeline'.calls) /\ turn'.file \in Recorded
    BY <2>1, <2>3, <2>4, <2>5
  <2>7. /\ files' \in [Recorded -> Nat] /\ history' \in HistoryType
        /\ rollbacks' \in [active : SUBSET Nat, begun : Nat]
    BY <1>b, <2>2
  <2> QED
    BY <2>3, <2>4, <2>6, <2>7 DEF RecordsTyped
<1>7. CASE Records!ToolRejected
  BY <1>b, <1>c, <1>2, <1>7 DEF RecordsTyped, CallStates, Records!ToolRejected, Records!NoCall
<1>8. CASE Records!ToolStarted
  <2>1. files[turn.file] \in Nat
    BY <1>b, <1>c, <1>8 DEF Records!ToolStarted
  <2> QED
    BY <1>b, <1>c, <1>2, <1>8, <2>1 DEF RecordsTyped, CallStates, Records!ToolStarted
<1>9. CASE Records!ToolWrites
  <2>1. /\ turn.at = "running" /\ turn' = [turn EXCEPT !.at = "written"]
        /\ files' = [files EXCEPT ![turn.file] = history.writes + 1]
        /\ history' = [history EXCEPT !.writes = @ + 1, !.raced = @ \/ rollbacks.active # {}]
        /\ UNCHANGED <<profile, timeline, rollbacks>>
    BY <1>b, <1>c, <1>9 DEF Records!ToolWrites
  <2>2. /\ turn' \in TurnType /\ turn'.call = turn.call /\ turn'.file = turn.file
    BY <1>b, <1>c, <2>1
  <2>3. history' \in HistoryType /\ files' \in [Recorded -> Nat]
    BY <1>b, <1>c, <1>d, <2>1
  <2> QED
    BY <1>b, <1>c, <2>1, <2>2, <2>3 DEF RecordsTyped
<1>10. CASE Records!ToolSucceeds
  <2> DEFINE c == [file |-> turn.file, before |-> turn.before, after |-> files[turn.file],
                   call |-> timeline.active, rolledBack |-> FALSE]
             changes == IF files[turn.file] = turn.before THEN timeline.changes
                        ELSE Append(timeline.changes, c)
             calls == [timeline.calls EXCEPT ![turn.call] = "completed"]
  <2>1. /\ turn.at = "written"
        /\ turn' = [turn EXCEPT !.at = "model", !.call = 0]
        /\ timeline' = [timeline EXCEPT !.calls = calls, !.active = 0, !.changes = changes]
        /\ UNCHANGED <<files, rollbacks, history>>
    BY <1>b, <1>c, <1>10 DEF Records!ToolSucceeds, Records!NoCall
  <2>2. c \in ChangeType
    BY <1>b, <1>c, <2>1 DEF ChangeType
  <2>3. changes \in Seq(ChangeType)
    BY <1>b, <1>c, <2>2, AppendProperties
  <2>4. calls \in Seq(CallStates)
    BY <1>b, <1>c, <1>2, <2>1 DEF CallStates
  <2> HIDE DEF changes, calls
  <2> QED
    BY <1>b, <1>c, <2>1, <2>3, <2>4 DEF RecordsTyped
<1>11. CASE Records!ToolFails
  BY <1>b, <1>c, <1>2, <1>11 DEF RecordsTyped, CallStates, Records!ToolFails, Records!NoCall
<1>12. CASE Records!TurnEnds
  BY <1>b, <1>c, <1>0, <1>12 DEF RecordsTyped, Records!TurnEnds
<1>13. CASE Records!TurnAbandoned
  <2>1. history' \in HistoryType
    BY <1>b, <1>c, <1>13 DEF Records!TurnAbandoned, Records!Interrupted
  <2> QED
    BY <1>b, <1>c, <1>0, <1>13, <2>1 DEF RecordsTyped, Records!TurnAbandoned
<1>14. CASE Records!Restart
  <2> DEFINE changes == [k \in DOMAIN timeline.changes |-> [timeline.changes[k] EXCEPT !.rolledBack = FALSE]]
  <2>1. /\ turn' = Records!NoTurn
        /\ timeline' = [timeline EXCEPT !.changes = changes]
        /\ rollbacks' = [rollbacks EXCEPT !.active = {}]
        /\ history' = [IF turn.at = "none" THEN history ELSE Records!Interrupted EXCEPT !.forgotten = TRUE]
        /\ files' = files
    BY <1>b, <1>c, <1>14 DEF Records!Restart
  <2>2. DOMAIN timeline.changes = 1..Len(timeline.changes) /\ Len(timeline.changes) \in Nat
    BY <1>b, <1>c, LenProperties
  <2>3. \A k \in DOMAIN timeline.changes : timeline.changes[k] \in ChangeType
    BY <1>b, <1>c, <2>2, ElementOfSeq
  <2>4. \A k \in DOMAIN timeline.changes : [timeline.changes[k] EXCEPT !.rolledBack = FALSE] \in ChangeType
    BY <1>b, <1>c, <2>3 DEF ChangeType
  <2>5. changes \in Seq(ChangeType)
    BY <1>b, <1>c, <2>2, <2>4, IsASeq
  <2> HIDE DEF changes
  <2>6. history' \in HistoryType
    BY <1>b, <1>c, <2>1 DEF Records!Interrupted
  <2> QED
    BY <1>b, <1>c, <1>0, <2>1, <2>5, <2>6 DEF RecordsTyped
<1>15. ASSUME NEW k \in DOMAIN timeline.changes, Records!Rollback(k)
       PROVE  RecordsTyped'
  <2>1. k \in Nat
    BY <1>b, <1>c, LenProperties
  <2> QED
    <3>1. /\ rollbacks' = [active |-> rollbacks.active \cup {k}, begun |-> rollbacks.begun + 1]
          /\ history' = [history EXCEPT !.raced = @ \/ turn.at \in {"running", "written"} \/ k \in rollbacks.active]
          /\ UNCHANGED <<turn, profile, timeline, files>>
      BY <1>b, <1>c, <1>15 DEF Records!Rollback, Records!StartRollback
    <3>2. rollbacks' \in [active : SUBSET Nat, begun : Nat] /\ history' \in HistoryType
      BY <1>b, <1>d, <2>1, <3>1
    <3> QED
      BY <1>b, <1>c, <3>1, <3>2 DEF RecordsTyped
<1>16. ASSUME NEW k \in DOMAIN timeline.changes, Records!RolledBack(k)
       PROVE  RecordsTyped'
  <2>1. /\ [timeline.changes EXCEPT ![k].rolledBack = TRUE] \in Seq(ChangeType)
        /\ k \in 1..Len(timeline.changes)
    BY <1>b, <1>c, ChangeMarked, LenProperties
  <2>2. timeline.changes[k] \in ChangeType
    BY <1>b, <1>c, <2>1, ElementOfSeq
  <2>3. timeline.changes[k].before \in Nat
    BY <1>b, <1>c, <2>2 DEF ChangeType
  <2>4. timeline' = [timeline EXCEPT !.changes = [timeline.changes EXCEPT ![k].rolledBack = TRUE]]
    BY <1>b, <1>c, <1>16 DEF Records!RolledBack
  <2>5. /\ files' = [files EXCEPT ![timeline.changes[k].file] = timeline.changes[k].before]
        /\ rollbacks' = [rollbacks EXCEPT !.active = @ \ {k}]
        /\ history' = [history EXCEPT !.raced = @ \/ turn.at \in {"running", "written"}]
        /\ turn' = turn
    BY <1>b, <1>c, <1>16 DEF Records!RolledBack
  <2> QED
    BY <1>b, <1>c, <2>1, <2>3, <2>4, <2>5 DEF RecordsTyped
<1> QED
  BY <1>b, <1>c, <1>3, <1>4, <1>5, <1>6, <1>7, <1>8, <1>9, <1>10, <1>11, <1>12, <1>13, <1>14, <1>15, <1>16
     DEF Records!RecordNext

\* A step that changes neither files nor changes, and leaves no write unrecorded, keeps them right.
LEMMA QuietStepsKeep ==
    ASSUME RecordsRight, timeline'.changes = timeline.changes, UNCHANGED <<files, rollbacks>>,
           history.unrecorded \subseteq history'.unrecorded,
           turn.at = "written" => turn.file \in history'.unrecorded,
           turn'.at # "written",
           turn'.at = "running" => turn'.before = files[turn'.file]
    PROVE  RecordsRight'
<1>1. \A k : Records!LaterActive(k)' = Records!LaterActive(k)
  BY DEF Records!LaterActive
<1>2. \A f \in Recorded \ history'.unrecorded : files'[f] = Told(timeline'.changes, f)
  BY DEF RecordsRight
<1>3. \A k \in DOMAIN timeline'.changes :
          timeline'.changes[k].file \notin history'.unrecorded /\ ~timeline'.changes[k].rolledBack =>
              timeline'.changes[k].before = ToldBefore(timeline'.changes, k)
  BY DEF RecordsRight
<1>4. \A k \in rollbacks'.active :
          /\ k \in DOMAIN timeline'.changes /\ ~timeline'.changes[k].rolledBack
          /\ Records!LaterActive(k)' = {}
  BY <1>1 DEF RecordsRight
<1> QED
  BY <1>2, <1>3, <1>4 DEF RecordsRight

\* The write of a call and the record of it.
LEMMA WriteKeeps ==
    ASSUME RecordsTyped, Undisturbed', Undisturbed => RecordsRight, Records!ToolWrites
    PROVE  RecordsRight'
<1>1. /\ turn.at = "running" /\ turn' = [turn EXCEPT !.at = "written"]
      /\ files' = [files EXCEPT ![turn.file] = history.writes + 1]
      /\ history' = [history EXCEPT !.writes = @ + 1, !.raced = @ \/ rollbacks.active # {}]
      /\ UNCHANGED <<timeline, rollbacks>>
  BY DEF Records!ToolWrites
<1>2. /\ turn'.at = "written" /\ turn'.file = turn.file /\ turn'.before = turn.before
      /\ history'.unrecorded = history.unrecorded
      /\ history'.raced = (history.raced \/ rollbacks.active # {})
      /\ history'.forgotten = history.forgotten
      /\ turn.file \in Recorded
  BY <1>1 DEF RecordsTyped, TurnType, HistoryType
<1>3. RecordsRight /\ rollbacks.active = {}
  BY <1>2 DEF Undisturbed
<1>4. \A f \in Recorded \ {turn.file} : files'[f] = files[f]
  BY <1>1 DEF RecordsTyped
<1> QED
  BY <1>1, <1>2, <1>3, <1>4 DEF RecordsRight

\* The diff of a call that changed its file is recorded.
LEMMA RecordKeeps ==
    ASSUME RecordsTyped, Undisturbed', Undisturbed => RecordsRight, Records!ToolSucceeds
    PROVE  RecordsRight'
<1> DEFINE ch == timeline.changes
           c == [file |-> turn.file, before |-> turn.before, after |-> files[turn.file],
                 call |-> timeline.active, rolledBack |-> FALSE]
           next == IF files[turn.file] = turn.before THEN ch ELSE Append(ch, c)
<1>1. /\ turn.at = "written" /\ turn' = [turn EXCEPT !.at = "model", !.call = 0]
      /\ timeline' = [timeline EXCEPT !.calls[turn.call] = "completed", !.active = 0, !.changes = next]
      /\ UNCHANGED <<files, rollbacks, history>>
  BY DEF Records!ToolSucceeds, Records!NoCall
<1>2. /\ turn'.at = "model" /\ timeline'.changes = next /\ turn.file \in Recorded
      /\ ch \in Seq(ChangeType) /\ c \in ChangeType /\ c.file = turn.file /\ c.before = turn.before
      /\ c.after = files[turn.file] /\ ~c.rolledBack
  BY <1>1 DEF RecordsTyped, TurnType, TimelineType, ChangeType
<1>3. RecordsRight /\ rollbacks.active = {}
  BY <1>1 DEF Undisturbed, RecordsRight
<1>4. /\ \A f \in Recorded \ history.unrecorded : f # turn.file => files[f] = Told(ch, f)
      /\ turn.file \notin history.unrecorded => turn.before = Told(ch, turn.file)
      /\ \A k \in DOMAIN ch : ch[k].file \notin history.unrecorded /\ ~ch[k].rolledBack =>
             ch[k].before = ToldBefore(ch, k)
  BY <1>1, <1>3 DEF RecordsRight
<1> HIDE DEF ch, c
<1>5. CASE files[turn.file] = turn.before
  BY <1>1, <1>2, <1>3, <1>4, <1>5 DEF RecordsRight
<1>6. CASE files[turn.file] # turn.before
  <2>1. next = Append(ch, c)
    BY <1>6
  <2>t. TellsAlso(Append(ch, c), ch, c)
    BY <1>2, ChangeAppended
  <2> HIDE DEF next
  <2>2. /\ next \in Seq(ChangeType) /\ DOMAIN next = DOMAIN ch \cup {Len(ch) + 1}
        /\ next[Len(ch) + 1] = c /\ \A k \in DOMAIN ch : next[k] = ch[k]
        /\ \A f \in Recorded : Told(next, f) = IF f = c.file THEN c.after ELSE Told(ch, f)
        /\ \A k \in DOMAIN ch : ToldBefore(next, k) = ToldBefore(ch, k)
        /\ c.before = Told(ch, c.file) => c.before = ToldBefore(next, Len(ch) + 1)
    BY <2>1, <2>t DEF TellsAlso
  <2>3. \A f \in Recorded \ history.unrecorded : files[f] = Told(next, f)
    BY <1>2, <1>4, <2>2
  <2>4. \A k \in DOMAIN next : next[k].file \notin history.unrecorded /\ ~next[k].rolledBack =>
            next[k].before = ToldBefore(next, k)
    BY <1>2, <1>4, <2>2
  <2> QED
    BY <1>1, <1>2, <1>3, <2>3, <2>4 DEF RecordsRight
<1> QED
  BY <1>5, <1>6

\* A rollback begins on a change that is the last active one of its file.
LEMMA RollbackBeginsRight ==
    ASSUME RecordsTyped, Undisturbed', Undisturbed => RecordsRight,
           NEW k \in DOMAIN timeline.changes, Records!Rollback(k)
    PROVE  RecordsRight'
<1>1. /\ rollbacks' = [active |-> rollbacks.active \cup {k}, begun |-> rollbacks.begun + 1]
      /\ history' = [history EXCEPT !.raced = @ \/ turn.at \in {"running", "written"} \/ k \in rollbacks.active]
      /\ UNCHANGED <<turn, timeline, files>>
      /\ ~timeline.changes[k].rolledBack /\ Records!LaterActive(k) = {}
  BY DEF Records!Rollback, Records!StartRollback
<1>2. /\ history'.unrecorded = history.unrecorded /\ history'.forgotten = history.forgotten
      /\ history'.raced = (history.raced \/ turn.at \in {"running", "written"} \/ k \in rollbacks.active)
      /\ rollbacks'.active = rollbacks.active \cup {k}
  BY <1>1 DEF RecordsTyped, HistoryType
<1>3. RecordsRight /\ turn.at \notin {"running", "written"}
  BY <1>2 DEF Undisturbed
<1>4. \A j : Records!LaterActive(j)' = Records!LaterActive(j)
  BY <1>1 DEF Records!LaterActive
<1>5. \A j \in rollbacks'.active :
          /\ j \in DOMAIN timeline'.changes /\ ~timeline'.changes[j].rolledBack
          /\ Records!LaterActive(j)' = {}
  BY <1>1, <1>2, <1>3, <1>4 DEF RecordsRight
<1> QED
  BY <1>1, <1>2, <1>3, <1>5 DEF RecordsRight

\* It ends with the file as the change found it.
LEMMA RollbackEndsRight ==
    ASSUME RecordsTyped, Undisturbed', Undisturbed => RecordsRight,
           NEW k \in DOMAIN timeline.changes, Records!RolledBack(k)
    PROVE  RecordsRight'
<1> DEFINE ch == timeline.changes
           next == [ch EXCEPT ![k].rolledBack = TRUE]
<1>1. /\ k \in rollbacks.active
      /\ files' = [files EXCEPT ![ch[k].file] = ch[k].before]
      /\ timeline' = [timeline EXCEPT !.changes = next]
      /\ rollbacks' = [rollbacks EXCEPT !.active = @ \ {k}]
      /\ history' = [history EXCEPT !.raced = @ \/ turn.at \in {"running", "written"}]
      /\ turn' = turn
  BY DEF Records!RolledBack
<1>2. /\ history'.unrecorded = history.unrecorded /\ history'.forgotten = history.forgotten
      /\ history'.raced = (history.raced \/ turn.at \in {"running", "written"})
      /\ rollbacks'.active = rollbacks.active \ {k} /\ timeline'.changes = next
      /\ ch \in Seq(ChangeType) /\ DOMAIN ch = 1..Len(ch) /\ Len(ch) \in Nat
      /\ DOMAIN files = Recorded
  <2>1. ch \in Seq(ChangeType)
    BY DEF RecordsTyped, TimelineType
  <2>2. DOMAIN ch = 1..Len(ch) /\ Len(ch) \in Nat
    BY <2>1, LenProperties
  <2> QED
    BY <1>1, <2>1, <2>2 DEF RecordsTyped, HistoryType, TimelineType
<1>3. RecordsRight /\ turn.at \notin {"running", "written"}
  BY <1>2 DEF Undisturbed
<1>4. /\ \A f \in Recorded \ history.unrecorded : files[f] = Told(ch, f)
      /\ \A j \in DOMAIN ch : ch[j].file \notin history.unrecorded /\ ~ch[j].rolledBack =>
             ch[j].before = ToldBefore(ch, j)
      /\ \A j \in rollbacks.active :
             j \in DOMAIN ch /\ ~ch[j].rolledBack /\ Records!LaterActive(j) = {}
  BY <1>3 DEF RecordsRight
<1>5. \A j \in ActiveOf(ch, ch[k].file) : j <= k
  <2>1. \A j \in ActiveOf(ch, ch[k].file) : ~(j > k)
    BY <1>1, <1>4 DEF ActiveOf, ChangesOf, Records!LaterActive
  <2>2. \A j \in ActiveOf(ch, ch[k].file) : j \in 1..Len(ch)
    BY <1>2 DEF ActiveOf, ChangesOf
  <2>3. \A i, j \in 1..Len(ch) : ~(j > i) => j <= i
    BY <1>2
  <2> QED
    BY <1>2, <2>1, <2>2, <2>3
<1>7. \A j : Records!LaterActive(j)' =
          {i \in DOMAIN next : i > j /\ ~next[i].rolledBack /\ next[i].file = next[j].file}
  BY <1>2 DEF Records!LaterActive
<1>8. \A j : Records!LaterActive(j) =
          {i \in DOMAIN ch : i > j /\ ~ch[i].rolledBack /\ ch[i].file = ch[j].file}
  BY DEF Records!LaterActive
<1>r. k \in DOMAIN ch /\ ~ch[k].rolledBack /\ next = [ch EXCEPT ![k].rolledBack = TRUE]
  BY <1>1, <1>4
<1>s. TellsNoMore([ch EXCEPT ![k].rolledBack = TRUE], ch, k)
  BY <1>2, <1>4, <1>1, <1>5, ChangeUndone
<1> HIDE DEF next, ch
<1>6. /\ next \in Seq(ChangeType) /\ DOMAIN next = DOMAIN ch /\ Len(next) = Len(ch)
      /\ next[k].rolledBack /\ next[k].file = ch[k].file
      /\ \A j \in DOMAIN ch \ {k} : next[j] = ch[j]
      /\ \A j \in DOMAIN ch : next[j].before = ch[j].before /\ next[j].file = ch[j].file
      /\ \A f \in Recorded : Told(next, f) = IF f = ch[k].file THEN ToldBefore(ch, k) ELSE Told(ch, f)
      /\ \A j \in DOMAIN ch : ~next[j].rolledBack => ToldBefore(next, j) = ToldBefore(ch, j)
  BY <1>r, <1>s DEF TellsNoMore
<1>9. \A f \in Recorded \ history'.unrecorded : files'[f] = Told(next, f)
  BY <1>1, <1>2, <1>4, <1>6
<1>10. \A j \in DOMAIN next : next[j].file \notin history'.unrecorded /\ ~next[j].rolledBack =>
           next[j].before = ToldBefore(next, j)
  BY <1>2, <1>4, <1>6
<1>11. \A j \in rollbacks'.active :
           j \in DOMAIN next /\ ~next[j].rolledBack /\ Records!LaterActive(j)' = {}
  BY <1>2, <1>4, <1>6, <1>7, <1>8
<1> QED
  BY <1>1, <1>2, <1>3, <1>9, <1>10, <1>11 DEF RecordsRight

\* No changes yet, and no files.
LEMMA RecordsStartRight == Records!RecordInit => RecordsInv
<1> SUFFICES ASSUME Records!RecordInit PROVE RecordsInv
  OBVIOUS
<1>1. timeline.changes = <<>> /\ turn.at = "none" /\ rollbacks.active = {} /\ \A f \in Recorded : files[f] = 0
  BY DEF Records!RecordInit, Records!NoTurn
<1>2. \A f \in Recorded : Told(timeline.changes, f) = 0
  BY <1>1 DEF Told, ActiveOf, ChangesOf
<1>3. RecordsRight
  BY <1>1, <1>2 DEF RecordsRight
<1> QED
  BY <1>3, RecordsStartTyped DEF RecordsInv

\* Every event and every rollback keeps the records right.
LEMMA RecordsStep ==
    ASSUME RecordsInv, [Records!RecordNext]_recordsVars
    PROVE  RecordsInv'
<1>t. RecordsTyped /\ RecordsTyped' /\ (Undisturbed => RecordsRight)
  BY RecordsStayTyped DEF RecordsInv
<1> SUFFICES ASSUME Undisturbed' PROVE RecordsRight'
  BY <1>t DEF RecordsInv
<1>h. turn \in TurnType /\ timeline \in TimelineType /\ history \in HistoryType
  BY <1>t DEF RecordsTyped
<1>q. ASSUME Undisturbed, timeline'.changes = timeline.changes, UNCHANGED <<files, rollbacks>>,
             history.unrecorded \subseteq history'.unrecorded,
             turn.at = "written" => turn.file \in history'.unrecorded,
             turn'.at # "written",
             turn'.at = "running" => turn'.before = files[turn'.file]
      PROVE  RecordsRight'
  BY <1>t, <1>q, QuietStepsKeep
<1>1. CASE UNCHANGED recordsVars
  BY <1>t, <1>1 DEF recordsVars, Undisturbed, RecordsRight, Records!LaterActive
<1>2. CASE Records!TurnStarted
  BY <1>h, <1>q, <1>2 DEF Records!TurnStarted, Records!NoTurn, HistoryType, Undisturbed
<1>3. ASSUME NEW usage \in 1..MaxUsage, Records!UsageUpdated(usage)
      PROVE  RecordsRight'
  BY <1>h, <1>q, <1>3 DEF Records!UsageUpdated, TurnType, Undisturbed
<1>4. ASSUME NEW file \in Recorded, Records!ToolRequested(file)
      PROVE  RecordsRight'
  BY <1>h, <1>q, <1>4 DEF Records!ToolRequested, TurnType, TimelineType, Undisturbed
<1>5. CASE Records!ToolRejected
  BY <1>h, <1>q, <1>5 DEF Records!ToolRejected, TurnType, TimelineType, Undisturbed
<1>6. CASE Records!ToolStarted
  BY <1>h, <1>q, <1>6 DEF Records!ToolStarted, TurnType, TimelineType, Undisturbed
<1>7. CASE Records!ToolWrites
  BY <1>t, <1>7, WriteKeeps
<1>8. CASE Records!ToolSucceeds
  BY <1>t, <1>8, RecordKeeps
<1>9. CASE Records!ToolFails
  BY <1>h, <1>q, <1>9 DEF Records!ToolFails, TurnType, TimelineType, HistoryType, Undisturbed
<1>10. CASE Records!TurnEnds
  BY <1>h, <1>q, <1>10 DEF Records!TurnEnds, Records!NoTurn, Undisturbed
<1>11. CASE Records!TurnAbandoned
  BY <1>h, <1>q, <1>11 DEF Records!TurnAbandoned, Records!Interrupted, Records!NoTurn, HistoryType, Undisturbed
<1>12. CASE Records!Restart
  <2>1. history'.forgotten
    BY <1>h, <1>12 DEF Records!Restart, Records!Interrupted, HistoryType
  <2> QED
    BY <2>1 DEF Undisturbed
<1>13. ASSUME NEW k \in DOMAIN timeline.changes, Records!Rollback(k)
       PROVE  RecordsRight'
  BY <1>t, <1>13, RollbackBeginsRight
<1>14. ASSUME NEW k \in DOMAIN timeline.changes, Records!RolledBack(k)
       PROVE  RecordsRight'
  BY <1>t, <1>14, RollbackEndsRight
<1> QED
  BY <1>1, <1>2, <1>3, <1>4, <1>5, <1>6, <1>7, <1>8, <1>9, <1>10, <1>11, <1>12, <1>13, <1>14
     DEF Records!RecordNext

\* What the timeline tells of a file is what a rollback is to bring back.
LEMMA RecordsInvImplies == RecordsInv => Records!RollbackRestores
BY DEF RecordsInv, Undisturbed, RecordsRight, Told, ActiveOf, ChangesOf, Records!RollbackRestores

-----------------------------------------------------------------------------
(***************************************************************************)
(* The theorems.                                                           *)
(***************************************************************************)

PartsInv == EditsInv /\ CompletionInv /\ ContextInv /\ PatternsInv /\ RecordsInv

\* The parts of the workspace keep their invariants, whichever of them runs.
THEOREM PartsStayRight == Spec => []PartsInv
<1>1. Init => PartsInv
  <2> SUFFICES ASSUME Init
               PROVE  PartsInv
    OBVIOUS
  <2>1. Starts("edits", Edits!EditStarts) \subseteq Edits!EditStarts
    <3>1. Edits!EditStarts # {}
      <4>1. [original |-> [f \in Edits!Files |-> "old"], proposed |-> [f \in Edits!Files |-> "new"]]
                \in Edits!EditStarts
        BY DEF Edits!EditStarts
      <4> QED
        BY <4>1
    <3> QED
      BY <3>1, StartsWithin
  <2> QED
    BY <2>1, EditsStartRight, CompletionStartsRight, ContextStartsRight, PatternsStartRight,
       RecordsStartRight
       DEF Init, PartsInv
<1>2. PartsInv /\ [Next]_vars => PartsInv'
  BY PartSteps, EditsStep, CompletionStep, ContextStep, PatternsStep, RecordsStep DEF PartsInv
<1> QED
  BY <1>1, <1>2, PTL DEF Spec

\* Of an edit plan everything that was accepted is written, or nothing is, over any sequence of
\* decisions, applications, failed writes and rollbacks, as long as no write tears a file, calls
\* do not overlap and nobody else writes; and a file is what its last change that is not rolled
\* back made of it, over any sequence of turns, calls and rollbacks.
THEOREM PlansAreAllOrNothing == Spec => []EditsAreWhole
<1>1. PartsInv => Edits!AllOrNothing
  BY DEF PartsInv, EditsInv, Calm, EditsRight, Edits!AllOrNothing
<1>2. PartsInv => Records!RollbackRestores
  BY RecordsInvImplies DEF PartsInv
<1>3. PartsInv => EditsAreWhole
  BY <1>1, <1>2 DEF EditsAreWhole
<1> QED
  BY <1>3, PartsStayRight, PTL

\* What a session of ghost text shows was completed for what is around its cursor, and nobody but
\* the caller of the pending request waits, for any number of sessions over one engine.
THEOREM SuggestionsFit == Spec => []CompletionsFit
<1>1. PartsInv => CompletionsFit
  BY CompletionInvImplies DEF PartsInv
<1> QED
  BY <1>1, PartsStayRight, PTL

\* However many sessions build their turns side by side, a message that is not in the transcript
\* was said during a compaction or before one that had no summary.
THEOREM OnlyCompactionsLose == Spec => []LossesAreExplained
<1>1. PartsInv => LossesAreExplained
  BY DEF PartsInv, ContextInv, Covered, LossesAreExplained, Context!LossesAreExplained
<1> QED
  BY <1>1, PartsStayRight, PTL

\* A process that writes the model of the user over loses only patterns it could not have seen.
THEOREM OnlyTheUnseenIsLost == Spec => PatternsLostWereMissed
<1>1. PartsInv /\ [Next]_vars => [PatternsMove]_briefingVars
  BY PartSteps, PatternsStep DEF PartsInv
<1>2. Spec => [][PatternsMove]_briefingVars
  BY <1>1, PartsStayRight, PTL DEF Spec
<1> QED
  BY <1>2 DEF PatternsLostWereMissed, Briefing!PatternsLostWereMissed, PatternsMove,
              Briefing!briefingVars, briefingVars, Briefing!NotRecording
===============================================================================
