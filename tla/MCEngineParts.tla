----------------------------- MODULE MCEngineParts -----------------------------
(***************************************************************************)
(* The patched engine and the services it waits for, side by side:         *)
(* sessions and their history, the messages sent to a model, the stream it *)
(* answers with, a headless run and the index.  They share no state: a     *)
(* behaviour is one of a part, and the fairness is that of the part.       *)
(***************************************************************************)
EXTENDS Naturals, Sequences

VARIABLES
    part,  \* the part that runs
    histories, forks, lastId,
    made, rows, jobs, patching, patches, removing,
    conversation, asked,
    request, clock, parts, folding, aborted,
    run, turn, stream, answered,
    project, index, cached, watch, sync, saves, client

MCLanguage == [f \in 1..3 |-> IF f = 3 THEN "rust" ELSE "typescript"]

History == INSTANCE SessionHistory WITH
    PageSize <- 2, MaxMessages <- 4, MaxForks <- 1
Sessions == INSTANCE EngineSessions WITH
    Callers <- {"p1", "p2"}, Removers <- {"r1", "r2"}, Values <- {"v"}, MaxSessions <- 3,
    MaxWork <- 3
Messages == INSTANCE ModelMessages WITH
    MaxTurns <- 1, MaxKinds <- 3
Inference == INSTANCE InferenceStream WITH
    CallIds <- {"c1", "c2"}, MaxAttempts <- 3, Limit <- 2, MaxChunks <- 3
Headless == INSTANCE HeadlessRun WITH
    MaxParts <- 2, MaxAsks <- 2
Indexer == INSTANCE CodebaseIndex WITH
    Language <- MCLanguage, MaxFiles <- 2, CacheFits <- TRUE, PushesMayFail <- TRUE,
    MaxSaves <- 2, MaxStarts <- 1

historyVars == <<histories, forks, lastId>>
sessionsVars == <<made, rows, jobs, patching, patches, removing>>
messagesVars == <<conversation, asked>>
inferenceVars == <<request, clock, parts, folding, aborted>>
headlessVars == <<run, turn, stream, answered>>
indexVars == <<project, index, cached, watch, sync, saves, client>>

Some(starts) == {CHOOSE s \in starts : TRUE}
Starts(p, starts) == IF part = p THEN starts ELSE Some(starts)

Parts ==
    {"history", "sessions", "messages", "inference", "headless", "index"}

\* A part begins in any of its initial states, the others stay in one of theirs.
Init ==
    /\ part \in Parts
    /\ History!HistoryInit
    /\ Sessions!SessionsInit
    /\ Messages!MessageBegins(Starts("messages", Messages!MessageStarts))
    /\ Inference!InferenceInit
    /\ Headless!HeadlessBegins(Starts("headless", Headless!HeadlessStarts))
    /\ Indexer!IndexBegins(Starts("index", Indexer!IndexStarts))

Rest(p) ==
    /\ UNCHANGED part
    /\ IF p = "history" THEN TRUE ELSE UNCHANGED historyVars
    /\ IF p = "sessions" THEN TRUE ELSE UNCHANGED sessionsVars
    /\ IF p = "messages" THEN TRUE ELSE UNCHANGED messagesVars
    /\ IF p = "inference" THEN TRUE ELSE UNCHANGED inferenceVars
    /\ IF p = "headless" THEN TRUE ELSE UNCHANGED headlessVars
    /\ IF p = "index" THEN TRUE ELSE UNCHANGED indexVars

Next ==
    \/ part = "history" /\ History!HistoryNext /\ Rest("history")
    \/ part = "sessions" /\ Sessions!SessionsNext /\ Rest("sessions")
    \/ part = "messages" /\ Messages!MessageNext /\ Rest("messages")
    \/ part = "inference" /\ Inference!InferenceNext /\ Rest("inference")
    \/ part = "headless" /\ Headless!HeadlessNext /\ Rest("headless")
    \/ part = "index" /\ Indexer!IndexNext /\ Rest("index")

vars ==
    <<part, historyVars, sessionsVars, messagesVars, inferenceVars, headlessVars, indexVars>>

Spec ==
    /\ Init /\ [][Next]_vars
    /\ WF_vars(part = "inference" /\ Inference!BackoffEnds /\ Rest("inference"))
    /\ WF_vars(part = "inference" /\ Inference!Tick /\ Rest("inference"))
    /\ WF_vars(part = "inference" /\ Inference!Deadline /\ Rest("inference"))
    /\ WF_vars(part = "headless" /\ Headless!Engine /\ Rest("headless"))
    /\ WF_vars(part = "headless" /\ Headless!Loop /\ Rest("headless"))
    /\ WF_vars(part = "headless" /\ Headless!Process /\ Rest("headless"))
    /\ WF_vars(part = "index" /\ Indexer!IndexChanged /\ Rest("index"))
    /\ WF_vars(part = "index" /\ Indexer!SyncTimerFires /\ Rest("index"))
    /\ WF_vars(part = "index" /\ Indexer!PushEnds(TRUE) /\ Rest("index"))

-----------------------------------------------------------------------------
\* A session is whole: what comes next is read off as from the whole history, what is sent
\* stands for all of a message, and only sessions made during the removal of their parent
\* outlive it.
SessionsAreWhole ==
    History!NextIsUnprocessed /\ Messages!SentStandsForAll /\ Sessions!OrphansAreLate

\* Whatever fails and is retried the engine is given one answer, and the exit code and the
\* output of a headless run tell what its turn did.
AnswersAreTold == Inference!OneAnswer /\ Headless!ExitTellsTheTurn

\* A fork shows the model the conversation its source showed, and a patch of a session changes
\* what it does not set only where another patch was published since it read.
NothingIsChangedAside == History!ForkShowsTheSame /\ Sessions!PatchesKeepTheRest

\* A gateway that never answers, or stops in the middle, does not hang the engine, as long as
\* there is a token; and a headless run ends, whoever is asked for permission, unless nobody
\* can answer.
CallsAndRunsEnd ==
    /\ part = "inference" => Inference!CallEnds
    /\ part = "headless" => Headless!RunEnds

\* The index is that of the project in the end, whatever is saved meanwhile.
IndexCatchesUp == part = "index" => Indexer!IndexCatchesUp
=============================================================================
