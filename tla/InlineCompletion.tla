--------------------------- MODULE InlineCompletion ---------------------------
(***************************************************************************)
(* Ghost text: the sessions of src/src/completion/inline-completion.ts     *)
(* over one debounced, cached CompletionEngine (completion-engine.ts),     *)
(* which they may share.                                                   *)
(*                                                                         *)
(* A step is one event of the event loop: a key, a timer, an answer of the *)
(* gateway. What a resolved promise starts runs before the next event. A   *)
(* sequence number is the number of the request that still counts, 0 when  *)
(* none does. A snapshot is a file and a text around the cursor;           *)
(* prompts, cleaning, model choice and metadata are left out.              *)
(***************************************************************************)
EXTENDS Integers, SequencesExt

CONSTANTS
    Sessions,
    Paths,           \* files
    Texts,           \* texts around the cursor
    CacheMaxEntries, \* the cache's limit
    MaxRequests      \* bound: calls of schedule

VARIABLES
    sessions,  \* each session: snapshot, awaited request, state and suggestion
    requests,  \* each call of schedule: how far it is, and what its promise is resolved with
    engine,    \* the current request (requestSeq), and the one pendingResolve belongs to
    cache      \* the snapshots in the cache, least recently used first

completionVars == <<sessions, requests, engine, cache>>

Snapshots == [path : Paths, text : Texts]
NoRequest == 0
NoSnapshot == [path |-> "none", text |-> "none"]
NoSuggestion == [for |-> NoSnapshot, partly |-> FALSE]
Suggestion(snapshot) == [for |-> snapshot, partly |-> FALSE]

CompletionInit ==
    /\ sessions = [s \in Sessions |-> [snapshot |-> NoSnapshot, awaited |-> NoRequest, state |-> "idle",
                                       current |-> NoSuggestion, disposed |-> FALSE]]
    /\ requests = <<>>
    /\ engine = [current |-> NoRequest, pending |-> NoRequest]
    /\ cache = <<>>

\* No promise is resolved whose continuation has not run.
NextEvent == \A r \in DOMAIN requests : requests[r].answer = "none" \/ requests[r].continued

SetCurrent(s, suggestion, state) ==
    [sessions EXCEPT ![s].current = suggestion, ![s].state = state]

\* Mutant: the caller of the superseded request is forgotten.
SupersedeSilently(rs) ==
    IF engine.pending = NoRequest THEN rs
    ELSE [rs EXCEPT ![engine.pending].aborted = TRUE,
                    ![engine.pending].at = IF @ = "timer" THEN "cleared" ELSE @]

\* The pending request is aborted, its timer cleared and its caller answered with null.
Supersede(rs) ==
    IF engine.pending = NoRequest THEN rs
    ELSE [rs EXCEPT ![engine.pending].aborted = TRUE,
                    ![engine.pending].at = IF @ = "timer" THEN "cleared" ELSE @,
                    ![engine.pending].answer = IF @ = "none" THEN "null" ELSE @]

\* update: a keystroke; schedule supersedes whatever is pending, of any session.
Update(s, snapshot) ==
    LET r == Len(requests) + 1 IN
    /\ NextEvent
    /\ ~sessions[s].disposed
    /\ r <= MaxRequests
    /\ sessions' = [SetCurrent(s, NoSuggestion, "pending") EXCEPT ![s].snapshot = snapshot, ![s].awaited = r]
    /\ requests' = Append(Supersede(requests),
                          [session |-> s, snapshot |-> snapshot, at |-> "timer", aborted |-> FALSE,
                           answer |-> "none", result |-> NoSuggestion, continued |-> FALSE])
    /\ engine' = [current |-> r, pending |-> r]
    /\ UNCHANGED cache

\* resolve: the first answer is the one that counts, and a request that is not the
\* current one gets null.
Resolve(r, result) ==
    requests' = [requests EXCEPT
        ![r].at = "ended",
        ![r].answer = IF @ # "none" THEN @
                      ELSE IF result # NoSuggestion /\ r = engine.current THEN "text" ELSE "null",
        ![r].result = result]

\* Mutant: the key is the file alone.
CacheKeyOfFile(snapshot) == snapshot.path

\* The key is the hash of the file and the text around the cursor.
CacheKey(snapshot) == snapshot

CacheHit(snapshot) == {k \in DOMAIN cache : CacheKey(cache[k]) = CacheKey(snapshot)}

\* The debounce is over; a cached completion answers at once, and is the latest used.
TimerFires(r) ==
    /\ NextEvent
    /\ requests[r].at = "timer"
    /\ \/ \E k \in CacheHit(requests[r].snapshot) :
              /\ Resolve(r, Suggestion(cache[k]))
              /\ cache' = Append(RemoveAt(cache, k), cache[k])
       \/ /\ CacheHit(requests[r].snapshot) = {}
          /\ requests' = [requests EXCEPT ![r].at = "model"]
          /\ UNCHANGED cache
    /\ UNCHANGED <<sessions, engine>>

\* The catalog has answered or failed; the fallback is capix/auto.
ModelResolved(r) ==
    /\ NextEvent
    /\ requests[r].at = "model"
    /\ requests' = [requests EXCEPT ![r].at = "stream"]
    /\ UNCHANGED <<sessions, engine, cache>>

\* The entry goes to the end unless the key is there; then the oldest ones go.
CacheSet(snapshot) ==
    LET entries == IF CacheHit(snapshot) # {} THEN cache ELSE Append(cache, snapshot)
    IN  cache' = IF Len(entries) > CacheMaxEntries THEN Tail(entries) ELSE entries

\* The stream is read to its end; an abort that comes after the last chunk changes nothing.
StreamCompletes(r) ==
    /\ NextEvent
    /\ requests[r].at = "stream"
    /\ Resolve(r, Suggestion(requests[r].snapshot))
    /\ CacheSet(requests[r].snapshot)
    /\ UNCHANGED <<sessions, engine>>

\* An error, an abort, or nothing left of the text after cleaning.
StreamFails(r) ==
    /\ NextEvent
    /\ requests[r].at = "stream"
    /\ Resolve(r, NoSuggestion)
    /\ UNCHANGED <<sessions, engine, cache>>

\* update after its await.
Continue(r) ==
    LET s == requests[r].session IN
    /\ requests[r].answer # "none"
    /\ ~requests[r].continued
    /\ requests' = [requests EXCEPT ![r].continued = TRUE]
    /\ sessions' = IF sessions[s].awaited # r THEN sessions
                   ELSE IF requests[r].answer = "null" THEN SetCurrent(s, NoSuggestion, "idle")
                   ELSE SetCurrent(s, requests[r].result, "showing")
    /\ UNCHANGED <<engine, cache>>

\* accept: the text goes to the caller.
Accept(s) ==
    /\ NextEvent
    /\ sessions[s].current # NoSuggestion
    /\ sessions' = SetCurrent(s, NoSuggestion, "idle")
    /\ UNCHANGED <<requests, engine, cache>>

\* acceptLine, acceptWord: there is more of the suggestion.
AcceptPart(s) ==
    /\ NextEvent
    /\ sessions[s].current # NoSuggestion
    /\ sessions' = SetCurrent(s, [sessions[s].current EXCEPT !.partly = TRUE], "showing")
    /\ UNCHANGED <<requests, engine, cache>>

CancelPending ==
    /\ requests' = Supersede(requests)
    /\ engine' = [current |-> NoRequest, pending |-> NoRequest]

\* Escape: it counts even when nothing shows, and then cancels nothing.
Reject(s) ==
    /\ NextEvent
    /\ ~sessions[s].disposed
    /\ IF sessions[s].state = "idle"
       THEN /\ sessions' = [sessions EXCEPT ![s].awaited = NoRequest]
            /\ UNCHANGED <<requests, engine>>
       ELSE /\ sessions' = [SetCurrent(s, NoSuggestion, "idle") EXCEPT ![s].awaited = NoRequest]
            /\ CancelPending
    /\ UNCHANGED cache

Dispose(s) ==
    /\ NextEvent
    /\ ~sessions[s].disposed
    /\ sessions' = [SetCurrent(s, NoSuggestion, "idle") EXCEPT ![s].disposed = TRUE]
    /\ CancelPending
    /\ UNCHANGED cache

\* An entry's minute is over.
CacheExpires ==
    /\ NextEvent
    /\ cache # <<>>
    /\ \E k \in DOMAIN cache : cache' = RemoveAt(cache, k)
    /\ UNCHANGED <<sessions, requests, engine>>

CompletionNext ==
    \/ CacheExpires
    \/ \E s \in Sessions :
           \/ \E snapshot \in Snapshots : Update(s, snapshot)
           \/ Accept(s) \/ AcceptPart(s) \/ Reject(s) \/ Dispose(s)
    \/ \E r \in DOMAIN requests :
           TimerFires(r) \/ ModelResolved(r) \/ StreamCompletes(r) \/ StreamFails(r) \/ Continue(r)

CompletionSpec == CompletionInit /\ [][CompletionNext]_completionVars

-----------------------------------------------------------------------------
(***************************************************************************)
(* Properties.                                                             *)
(***************************************************************************)

\* What a session shows was completed for the text that is around its cursor now, also
\* when it comes from the cache, from a request of another session of the same engine,
\* or late; nothing shows after dispose.
ShownFitsSnapshot ==
    \A s \in Sessions :
        sessions[s].current # NoSuggestion =>
            /\ sessions[s].state = "showing"
            /\ ~sessions[s].disposed
            /\ sessions[s].current.for = sessions[s].snapshot

\* "Superseded callers must not hang": only the pending request of the engine has no
\* answer, and a session is pending exactly while the request it made last has none.
NobodyHangs ==
    /\ \A r \in DOMAIN requests : requests[r].answer = "none" => r = engine.pending
    /\ NextEvent => \A s \in Sessions :
           sessions[s].state = "pending" <=>
               \E r \in DOMAIN requests : r = sessions[s].awaited /\ requests[r].answer = "none"
===============================================================================
