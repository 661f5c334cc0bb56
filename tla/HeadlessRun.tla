----------------------------- MODULE HeadlessRun -----------------------------
(***************************************************************************)
(* `capix-code run` of the patched engine (cli/cmd/run.ts): the session it *)
(* picks, the prompt or command it sends, the loop that prints the events  *)
(* of the session and answers its permission requests, and the exit code.  *)
(*                                                                         *)
(* The engine's side is what it publishes: completed parts by number,      *)
(* requests of the session or of a subagent's session, an error, idle.     *)
(***************************************************************************)
EXTENDS Integers, FiniteSetsExt, SequencesExt

CONSTANTS
    MaxParts,  \* bound: parts a turn completes
    MaxAsks    \* bound: permission requests of a turn

VARIABLES
    run,      \* the process: options, where it is, printed parts, errors, exit code, and
              \* whether the event stream ended by itself
    turn,     \* the session's turn in the engine: parts published, what it waits for
    stream,   \* events published and not yet taken by the loop
    answered  \* the prompt or command request: "sent", its answer, "none" before

headlessVars == <<run, turn, stream, answered>>

HeadlessStarts == [auto : BOOLEAN, wanted : {"new", "session", "continue"}, fork : BOOLEAN,
                   at : {"starting"}, loop : {"off"}, session : {"none"}, printed : {<<>>}, errors : {0},
                   code : {0}, cut : {FALSE}]
HeadlessBegins(starts) ==
    /\ run \in starts
    /\ turn = [at |-> "off", parts |-> 0, asks |-> 0]
    /\ stream = <<>>
    /\ answered = "none"

HeadlessInit == HeadlessBegins(HeadlessStarts)

Exited == run.at = "exited"

\* exit: both outputs are flushed first.
ExitWith(code) == [run EXCEPT !.at = "exited", !.code = Max({@, code}), !.loop = "off"]

-----------------------------------------------------------------------------
\* The session.

\* A session that was named or that is continued, a fork of it, or a new one.
PickSession(found) ==
    /\ run.at = "starting"
    /\ run' = CASE run.fork /\ run.wanted = "new"       -> ExitWith(1)
                [] run.wanted = "session" /\ ~found     -> ExitWith(1)
                [] run.wanted = "new" \/ ~found         -> [run EXCEPT !.at = "picked", !.session = "created"]
                [] run.fork                             -> [run EXCEPT !.at = "picked", !.session = "forked"]
                [] OTHER                                -> [run EXCEPT !.at = "picked", !.session = "found"]
    /\ UNCHANGED <<turn, stream, answered>>

PickFails ==
    /\ run.at = "starting"
    /\ run' = ExitWith(1)
    /\ UNCHANGED <<turn, stream, answered>>

\* The loop subscribes before the prompt is sent.
Send ==
    /\ run.at = "picked"
    /\ run' = [run EXCEPT !.at = "waiting", !.loop = "on"]
    /\ answered' = "sent"
    /\ UNCHANGED <<turn, stream>>

-----------------------------------------------------------------------------
\* The engine.

Event(kind, n) == [kind |-> kind, part |-> n]
Publish(events) == stream' = stream \o events

Reject ==
    /\ answered = "sent"
    /\ turn.at = "off"
    /\ answered' = "error"
    /\ UNCHANGED <<run, turn, stream>>

BeginTurn ==
    /\ answered = "sent"
    /\ turn.at = "off"
    /\ turn' = [turn EXCEPT !.at = "running"]
    /\ UNCHANGED <<run, stream, answered>>

CompletePart ==
    /\ turn.at = "running"
    /\ turn.parts < MaxParts
    /\ turn' = [turn EXCEPT !.parts = @ + 1]
    /\ Publish(<<Event("part", turn.parts + 1)>>)
    /\ UNCHANGED <<run, answered>>

\* The turn waits until the request is answered.
Ask(who) ==
    /\ turn.at = "running"
    /\ turn.asks < MaxAsks
    /\ turn' = [turn EXCEPT !.at = who, !.asks = @ + 1]
    /\ Publish(<<Event(who, 0)>>)
    /\ UNCHANGED <<run, answered>>

\* An error is published before the session is idle.
EndTurn(failed) ==
    /\ turn.at = "running"
    /\ turn' = [turn EXCEPT !.at = IF failed THEN "failed" ELSE "done"]
    /\ Publish((IF failed THEN <<Event("error", 0)>> ELSE <<>>) \o <<Event("idle", 0)>>)
    /\ UNCHANGED <<run, answered>>

AnswerPrompt ==
    /\ answered = "sent"
    /\ turn.at \in {"failed", "done"}
    /\ answered' = "ok"
    /\ UNCHANGED <<run, turn, stream>>

-----------------------------------------------------------------------------
\* The loop.

Taking(kind) == run.loop = "on" /\ stream # <<>> /\ Head(stream).kind = kind

PrintPart ==
    /\ Taking("part")
    /\ run' = [run EXCEPT !.printed = Append(@, Head(stream).part)]
    /\ stream' = Tail(stream)
    /\ UNCHANGED <<turn, answered>>

\* An error ends the loop.
TakeError ==
    /\ Taking("error")
    /\ run' = [run EXCEPT !.errors = @ + 1, !.loop = "off"]
    /\ stream' = Tail(stream)
    /\ UNCHANGED <<turn, answered>>

TakeIdle ==
    /\ Taking("idle")
    /\ run' = [run EXCEPT !.loop = "off"]
    /\ stream' = Tail(stream)
    /\ UNCHANGED <<turn, answered>>

\* Mutant: a request is answered only when the run approves.
ReplyApproving ==
    /\ Taking("asking")
    /\ turn' = IF run.auto THEN [turn EXCEPT !.at = "running"] ELSE turn
    /\ stream' = Tail(stream)
    /\ UNCHANGED <<run, answered>>

\* A rejected request lets the turn go on, or ends it.
Reply ==
    /\ Taking("asking")
    /\ \/ turn' = [turn EXCEPT !.at = "running"]
       \/ ~run.auto /\ turn' = [turn EXCEPT !.at = "done"]
    /\ stream' = Tail(stream) \o (IF turn'.at = "done" THEN <<Event("idle", 0)>> ELSE <<>>)
    /\ UNCHANGED <<run, answered>>

\* A request of another session, a subagent's too, is passed over.
PassOver ==
    /\ Taking("childAsking")
    /\ stream' = Tail(stream)
    /\ UNCHANGED <<run, turn, answered>>

\* A reply that cannot be sent ends the loop, and the exit code tells.
ReplyFails ==
    /\ Taking("asking")
    /\ run' = [run EXCEPT !.loop = "off", !.code = 1]
    /\ stream' = Tail(stream)
    /\ UNCHANGED <<turn, answered>>

\* The event stream ends by itself, and so does the loop, with what it has seen.
StreamEnds ==
    /\ run.loop = "on"
    /\ run' = [run EXCEPT !.loop = "off", !.cut = TRUE]
    /\ UNCHANGED <<turn, stream, answered>>

-----------------------------------------------------------------------------
\* The end.

\* Mutant: the end of the loop is not waited for.
FinishEarly ==
    /\ run.at = "waiting"
    /\ answered = "ok"
    /\ run' = ExitWith(IF run.errors > 0 THEN 1 ELSE 0)
    /\ UNCHANGED <<turn, stream, answered>>

Finish ==
    /\ run.at = "waiting"
    /\ answered = "ok"
    /\ run.loop = "off"
    /\ run' = ExitWith(IF run.errors > 0 THEN 1 ELSE 0)
    /\ UNCHANGED <<turn, stream, answered>>

FinishRejected ==
    /\ run.at = "waiting"
    /\ answered = "error"
    /\ run' = ExitWith(1)
    /\ UNCHANGED <<turn, stream, answered>>

Engine == Reject \/ BeginTurn \/ CompletePart \/ AnswerPrompt \/ (\E f \in BOOLEAN : EndTurn(f))
Loop == TakeError \/ TakeIdle \/ Reply \/ PassOver \/ ReplyFails \/ PrintPart
Process == (\E found \in BOOLEAN : PickSession(found)) \/ PickFails \/ Send \/ Finish \/ FinishRejected

HeadlessNext == Engine \/ Loop \/ StreamEnds \/ Process \/ \E who \in {"asking", "childAsking"} : Ask(who)

HeadlessFairness ==
    WF_headlessVars(Engine) /\ WF_headlessVars(Loop) /\ WF_headlessVars(Process)

HeadlessSpec == HeadlessInit /\ [][HeadlessNext]_headlessVars /\ HeadlessFairness

-----------------------------------------------------------------------------
(***************************************************************************)
(* Properties.                                                             *)
(***************************************************************************)

\* The exit code and the output of a run that got its answer tell the turn: every completed
\* part was printed, in order, and the code is 0 only when nothing failed. A run whose event
\* stream ended by itself has printed the first parts and tells nothing else.
ExitTellsTheTurn ==
    /\ run.printed = [k \in 1..Len(run.printed) |-> k]
    /\ Exited /\ answered = "ok" /\ ~run.cut =>
           /\ run.code = 0 => Len(run.printed) = turn.parts
           /\ turn.at = "failed" => run.code = 1

\* "A headless run must terminate once the result is printed", and it does, whoever is asked
\* for permission: unless a subagent is, whose requests nobody answers, or the answer to a
\* request cannot be sent, or the event stream that brings the request ended by itself.
RunEnds == <>(Exited \/ turn.at = "childAsking" \/ run.code = 1 \/ (run.cut /\ turn.at = "asking"))
===============================================================================
