--------------------------- MODULE InferenceStream ---------------------------
(***************************************************************************)
(* One model call of the engine: CapixLanguageModel of ai-sdk-provider.ts, *)
(* which retries an attempt and turns its chunks into the parts of the AI  *)
(* SDK, over stream() of capix-provider.ts, which makes the request, reads *)
(* its events and is the one place where time runs out.                    *)
(*                                                                         *)
(* A request has one deadline (AbortSignal.timeout) for itself and its     *)
(* body, made anew after a 401; the broker's requests for a token have     *)
(* none.  The two stall timers of stream() have the same length and start  *)
(* later: they are never the first to fire, and are left out.  So is what  *)
(* the spend cap does (SpendAccounting).  Texts are counted.               *)
(***************************************************************************)
EXTENDS Integers, FiniteSetsExt, SequencesExt

CONSTANTS
    CallIds,      \* ids of tool calls
    MaxAttempts,  \* MAX_ATTEMPTS
    Limit,        \* the deadline, in ticks
    MaxChunks     \* bound: chunks of all attempts

VARIABLES
    request,  \* the attempt: where it is, its number, whether it has refreshed or had output, and
              \* what it failed with
    clock,    \* ticks since the request, and since the last event
    parts,    \* what the engine has been given
    folding,  \* doStream: what is open, the input of every tool call, the chunks so far
    aborted   \* options.abortSignal.aborted

inferenceVars == <<request, clock, parts, folding, aborted>>

NoInput == [id \in CallIds |-> 0]
Part(kind, id, amount) == [kind |-> kind, id |-> id, amount |-> amount, attempt |-> request.attempt]

InferenceInit ==
    /\ request = [at |-> "token", attempt |-> 1, refreshed |-> FALSE, emitted |-> FALSE,
                  failure |-> "none"]
    /\ clock = [age |-> 0, silence |-> 0]
    /\ parts = <<[kind |-> "stream-start", id |-> "none", amount |-> 0, attempt |-> 0]>>
    /\ folding = [open |-> {}, input |-> NoInput, chunks |-> 0]
    /\ aborted = FALSE

-----------------------------------------------------------------------------
\* The ways an attempt ends.

\* doStream: the parts after which the stream is closed.
CloseStream(failure, last) ==
    /\ request' = [request EXCEPT !.at = "ended", !.failure = failure]
    /\ parts' = parts \o last
    /\ UNCHANGED <<clock, folding, aborted>>

BackOff(kind) ==
    /\ request' = [request EXCEPT !.at = "backoff", !.failure = kind]
    /\ UNCHANGED <<clock, parts, folding, aborted>>

\* isTransientProviderError of what classifyHttpError, the broker and fetch throw.
Failures == {"transient", "terminal"}
IsTransient(kind) == kind \in {"transient", "timeout"}

\* Mutant: an attempt is retried whatever it has emitted.
FailRetrying(kind) ==
    IF IsTransient(kind) /\ request.attempt < MaxAttempts /\ ~aborted
    THEN BackOff(kind)
    ELSE CloseStream(kind, <<Part("error", "none", 0)>>)

\* chunks: what is thrown is retried before any content, and propagates after it.
Fail(kind) ==
    IF IsTransient(kind) /\ ~request.emitted /\ request.attempt < MaxAttempts /\ ~aborted
    THEN BackOff(kind)
    ELSE CloseStream(kind, <<Part("error", "none", 0)>>)

-----------------------------------------------------------------------------
\* The request.

Goes(step) == request' = [request EXCEPT !.at = step] /\ UNCHANGED <<parts, folding, aborted>>
Restarts == clock' = [age |-> 0, silence |-> 0]

\* getAccessToken, or the fresh token after a 401; doRequest starts the deadline.
TokenAnswers ==
    /\ request.at \in {"token", "refreshing"}
    /\ Goes("requesting")
    /\ Restarts

TokenFails(kind) ==
    /\ request.at \in {"token", "refreshing"}
    /\ Fail(kind)

ResponseOk ==
    /\ request.at = "requesting"
    /\ Goes("reading")
    /\ clock' = [clock EXCEPT !.silence = 0]

\* A token that is refused is refreshed once per attempt.
Unauthorized ==
    /\ request.at = "requesting"
    /\ ~request.refreshed
    /\ request' = [request EXCEPT !.at = "refreshing", !.refreshed = TRUE]
    /\ UNCHANGED <<clock, parts, folding, aborted>>

\* Any other answer, a second 401, or no connection.
RequestFails(kind) ==
    /\ request.at = "requesting"
    /\ Fail(kind)

\* The connection breaks, or an event is of no known type.
ReadFails ==
    /\ request.at = "reading"
    /\ Fail("terminal")

BackoffEnds ==
    /\ request.at = "backoff"
    /\ request' = [at |-> "token", attempt |-> request.attempt + 1, refreshed |-> FALSE, emitted |-> FALSE,
                   failure |-> "none"]
    /\ UNCHANGED <<clock, parts, folding, aborted>>

Abort ==
    /\ request.at # "ended"
    /\ ~aborted
    /\ aborted' = TRUE
    /\ UNCHANGED <<request, clock, parts, folding>>

\* fetch or the read rejects.
AbortNoticed ==
    /\ aborted
    /\ request.at \in {"requesting", "reading"}
    /\ Fail("terminal")

-----------------------------------------------------------------------------
\* Time.

Fetching == request.at \in {"requesting", "reading"}

Tick ==
    /\ Fetching
    /\ clock.age < Limit
    /\ clock' = [age |-> clock.age + 1, silence |-> clock.silence + 1]
    /\ UNCHANGED <<request, parts, folding, aborted>>

\* Mutant: the deadline is over once the headers are there.
DeadlineOfHandshake ==
    /\ request.at = "requesting"
    /\ clock.age = Limit
    /\ Fail("timeout")

\* AbortSignal.timeout: the fetch, or the read of its body, rejects.
Deadline ==
    /\ Fetching
    /\ clock.age = Limit
    /\ Fail("timeout")

-----------------------------------------------------------------------------
\* The events of the response, in doStream.

Content == {"text", "reasoning", "tool"}

\* The name of what is open: one text, one reasoning, and the tool calls.
Name(kind, id) == IF kind = "tool" THEN id ELSE kind

\* text, reasoning and tool: what is new is opened, and a delta is passed on.
Delta(kind, id) ==
    LET name == Name(kind, id)
        start == IF name \in folding.open THEN <<>> ELSE <<Part("start", name, 0)>>
    IN  /\ request.at = "reading"
        /\ folding.chunks < MaxChunks
        /\ parts' = parts \o start \o <<Part("delta", name, 1)>>
        /\ folding' = [folding EXCEPT !.chunks = @ + 1,
                          !.open = @ \cup {name},
                          !.input = IF kind = "tool" THEN [@ EXCEPT ![id] = @ + 1] ELSE @]
        /\ request' = [request EXCEPT !.emitted = TRUE]
        /\ clock' = [clock EXCEPT !.silence = 0]
        /\ UNCHANGED aborted

\* capix.route and capix.usage are not content.
Metadata ==
    /\ request.at = "reading"
    /\ folding.chunks < MaxChunks
    /\ folding' = [folding EXCEPT !.chunks = @ + 1]
    /\ parts' = Append(parts, Part("response-metadata", "none", 0))
    /\ clock' = [clock EXCEPT !.silence = 0]
    /\ UNCHANGED <<request, aborted>>

\* Reasoning and text are closed, and every tool call made with the input it has.
Closing(names) ==
    SetToSeq({Part("end", name, 0) : name \in names})
CallsMade ==
    SetToSeq({Part("tool-call", id, folding.input[id]) : id \in folding.open \cap CallIds})

\* capix.final
FinishArrives ==
    /\ request.at = "reading"
    /\ CloseStream("none", Closing(folding.open) \o CallsMade \o <<Part("finish", "none", 0)>>)

\* capix.error is a chunk: nothing is thrown, and nothing retried.
ErrorArrives ==
    /\ request.at = "reading"
    /\ CloseStream("terminal", <<Part("error", "none", 0)>>)

\* [DONE] or the end of the body without capix.final: the tool calls are not made.
BodyEnds ==
    /\ request.at = "reading"
    /\ CloseStream("none", Closing(folding.open \ CallIds))

InferenceNext ==
    \/ TokenAnswers \/ ResponseOk \/ Unauthorized \/ ReadFails \/ BackoffEnds \/ Abort \/ AbortNoticed
    \/ \E kind \in Failures : TokenFails(kind) \/ RequestFails(kind)
    \/ Tick \/ Deadline
    \/ \E kind \in {"text", "reasoning"} : Delta(kind, kind)
    \/ \E id \in CallIds : Delta("tool", id)
    \/ Metadata \/ FinishArrives \/ ErrorArrives \/ BodyEnds

\* Time passes and timers fire.  The gateway owes nothing, and nor does the token endpoint.
InferenceFairness ==
    /\ WF_inferenceVars(BackoffEnds)
    /\ WF_inferenceVars(Tick)
    /\ WF_inferenceVars(Deadline)

InferenceSpec == InferenceInit /\ [][InferenceNext]_inferenceVars /\ InferenceFairness

-----------------------------------------------------------------------------
(***************************************************************************)
(* Properties.                                                             *)
(***************************************************************************)

Indices(kind, id) == {i \in DOMAIN parts : parts[i].kind = kind /\ parts[i].id = id}

\* Whatever fails and is retried, the engine is given one answer: all deltas are of the same
\* attempt, each comes after the one start of what it belongs to, nothing comes after the
\* finish or the error, and with a finish everything is closed once and every tool call that
\* was begun is made once, with all of its input.
OneAnswer ==
    LET deltas == {i \in DOMAIN parts : parts[i].kind = "delta"}
        Ends == {i \in DOMAIN parts : parts[i].kind \in {"finish", "error"}}
    IN  /\ \A i, j \in deltas : parts[i].attempt = parts[j].attempt
        /\ Ends \subseteq {Len(parts)}
        /\ \A i \in deltas : Cardinality(Indices("start", parts[i].id)) = 1
                             /\ Min(Indices("start", parts[i].id)) < i
        /\ Last(parts).kind = "finish" =>
               \A i \in deltas :
                   LET name == parts[i].id IN
                   /\ Cardinality(Indices("end", name)) = 1
                   /\ name \in CallIds =>
                          {parts[k].amount : k \in Indices("tool-call", name)}
                              = {Cardinality(Indices("delta", name))}

\* A gateway that never answers, or stops in the middle, does not hang the engine: every call
\* ends, or waits for a token that the broker never gets: its requests have no time limit.
CallEnds == <>(request.at = "ended") \/ <>[](request.at \in {"token", "refreshing"})

\* "handshake + first byte get a hard 120s timeout", and what is cut later is "a lane dripping
\* nothing for 120s during an open stream": a response that has begun to arrive times out only
\* when it has been silent for that long.
OnlyStallsAreCut ==
    [][request.at = "reading" /\ request'.at \in {"backoff", "ended"} /\ request'.failure = "timeout"
       => clock.silence >= Limit]_inferenceVars
===============================================================================
