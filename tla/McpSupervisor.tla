---------------------------- MODULE McpSupervisor ----------------------------
(***************************************************************************)
(* The MCP process supervisor of src/mcp-supervisor.ts: one child process, *)
(* its handshake over stdio, bounded restarts after a backoff, and the     *)
(* health that the status line shows. src/plugin.ts starts it when it is   *)
(* disconnected and reconnects it after a login.                           *)
(*                                                                         *)
(* An action is one callback or one call of the host. A child's lines are  *)
(* its answers or something else; error texts and times are left out.      *)
(***************************************************************************)
EXTENDS Integers, FiniteSets, SequencesExt

CONSTANTS
    MaxSpawns,     \* bound: children in a behaviour
    MaxRestarts,   \* MAX_RESTARTS
    MaxCalls,      \* bound: calls of reconnect and stop
    ExitKinds,     \* how children exit: "failure" (a code), "clean" (0), "signal" (null)
    SpawnMayThrow  \* may spawn() throw?

ASSUME MaxSpawnsAssumption == MaxSpawns \in Nat
ASSUME MaxRestartsAssumption == MaxRestarts \in Nat
ASSUME MaxCallsAssumption == MaxCalls \in Nat
ASSUME ExitKindsAssumption == ExitKinds \subseteq {"failure", "clean", "signal"}
ASSUME SpawnMayThrowAssumption == SpawnMayThrow \in BOOLEAN

VARIABLES
    children,   \* the processes: what the system and their streams hold
    current,    \* this.process
    health,     \* this.health: state and restartCount
    epoch,      \* this.epoch
    timers,     \* the epoch of the respawn each child's exit has scheduled
    checking,   \* the health check interval is on
    spawns      \* how many children there were since the last start or reconnect

vars == <<children, current, health, epoch, timers, checking, spawns>>

Ids == 1..MaxSpawns
NoChild == 0
NoTimer == -1

\* asked: requests written to stdin and not yet answered. initListener and
\* listListener: a once('data') listener of sendInitialize, of sendToolsList, is
\* on the child's stdout (all of them fire on the same chunk).
ChildType == [state : {"none", "alive", "dead"}, killed : BOOLEAN,
              asked : Seq({"initialize", "tools/list"}),
              initListener : BOOLEAN, listListener : BOOLEAN]

HealthStates == {"starting", "authenticating", "connected", "degraded", "disconnected"}

HealthType == [state : HealthStates, restartCount : 0..MaxRestarts]

Unborn == [state |-> "none", killed |-> FALSE, asked |-> <<>>,
           initListener |-> FALSE, listListener |-> FALSE]

\* A child after spawn and sendInitialize.
Newborn == [state |-> "alive", killed |-> FALSE, asked |-> <<"initialize">>,
            initListener |-> TRUE, listListener |-> FALSE]

Used == {c \in Ids : children[c].state # "none"}

NextId == Cardinality(Used) + 1

Init ==
    /\ children = [c \in Ids |-> Unborn]
    /\ current = NoChild
    /\ health = [state |-> "disconnected", restartCount |-> 0]
    /\ epoch = 0
    /\ timers = [c \in Ids |-> NoTimer]
    /\ checking = FALSE
    /\ spawns = 0

\* Mutant: the old child is left alone.
KillNothing(cs) == cs

\* process.kill('SIGTERM'), when there is a process.
Kill(cs) ==
    IF current = NoChild THEN cs ELSE [cs EXCEPT ![current].killed = TRUE]

\* spawnProcess, cs being the children and restarts the restartCount: the child is
\* there and asked to initialize; or spawn throws and this.process stays.
SpawnProcess(cs, restarts) ==
    \/ /\ NextId \in Ids
       /\ children' = [cs EXCEPT ![NextId] = Newborn]
       /\ current' = NextId
       /\ health' = [state |-> "starting", restartCount |-> restarts]
    \/ /\ SpawnMayThrow
       /\ children' = cs
       /\ health' = [state |-> "disconnected", restartCount |-> restarts]
       /\ UNCHANGED current

\* startMcpSupervision calls start in the disconnected state only.
Start ==
    /\ health.state = "disconnected"
    /\ SpawnProcess(children, 0)
    /\ checking' = TRUE
    /\ spawns' = 1
    /\ UNCHANGED <<epoch, timers>>

Reconnect ==
    /\ epoch < MaxCalls
    /\ epoch' = epoch + 1
    /\ SpawnProcess(Kill(children), 0)
    /\ spawns' = 1
    /\ UNCHANGED <<timers, checking>>

Stop ==
    /\ epoch < MaxCalls
    /\ epoch' = epoch + 1
    /\ children' = Kill(children)
    /\ current' = NoChild
    /\ health' = [health EXCEPT !.state = "disconnected"]
    /\ checking' = FALSE
    /\ UNCHANGED <<timers, spawns>>

\* The child's 'error' event: it could not be started.
ChildError(c) ==
    /\ children[c].state = "alive"
    /\ children[c].asked = <<"initialize">>
    /\ children' = [children EXCEPT ![c].state = "dead", ![c].asked = <<>>]
    /\ IF current = c
       THEN /\ current' = NoChild
            /\ health' = [health EXCEPT !.state = "disconnected"]
       ELSE UNCHANGED <<current, health>>
    /\ UNCHANGED <<epoch, timers, checking, spawns>>

Schedule(c) ==
    /\ health' = [state |-> "degraded", restartCount |-> health.restartCount + 1]
    /\ timers' = [timers EXCEPT ![c] = epoch]

\* The supervised child exited with a code that is not 0: a respawn after the
\* backoff, or none is left.
Failed(c) ==
    \/ /\ health.restartCount < MaxRestarts
       /\ Schedule(c)
    \/ /\ health.restartCount >= MaxRestarts
       /\ health' = [health EXCEPT !.state = "disconnected"]
       /\ UNCHANGED timers

\* The 'exit' event. What the child had written may be read after it.
ChildExits(c, kind) ==
    /\ children[c].state = "alive"
    /\ children' = [children EXCEPT ![c].state = "dead"]
    /\ IF current = c /\ kind = "failure"
       THEN Failed(c)
       ELSE UNCHANGED <<health, timers>>
    /\ UNCHANGED <<current, epoch, checking, spawns>>

\* Mutant: the epoch is not compared.
RespawnAnyEpoch(c) ==
    /\ timers[c] # NoTimer
    /\ timers' = [timers EXCEPT ![c] = NoTimer]
    /\ SpawnProcess(children, health.restartCount)
    /\ spawns' = spawns + 1
    /\ UNCHANGED <<epoch, checking>>

\* Mutant: the comparison is the wrong way round.
RespawnStaleOnly(c) ==
    /\ timers[c] # NoTimer
    /\ timers' = [timers EXCEPT ![c] = NoTimer]
    /\ IF timers[c] < epoch
       THEN /\ SpawnProcess(children, health.restartCount)
            /\ spawns' = spawns + 1
       ELSE UNCHANGED <<children, current, health, spawns>>
    /\ UNCHANGED <<epoch, checking>>

\* The backoff is over: a stop or a reconnect since then cancels the respawn.
RespawnTimer(c) ==
    /\ timers[c] # NoTimer
    /\ timers' = [timers EXCEPT ![c] = NoTimer]
    /\ IF timers[c] = epoch
       THEN /\ SpawnProcess(children, health.restartCount)
            /\ spawns' = spawns + 1
       ELSE UNCHANGED <<children, current, health, spawns>>
    /\ UNCHANGED <<epoch, checking>>

\* The once listeners of c have fired and are gone.
Fired(cs, c) == [cs EXCEPT ![c].initListener = FALSE, ![c].listListener = FALSE]

\* A child is asked for its tools; a dead one does not read it.
AskTools(child) ==
    [child EXCEPT !.asked = IF child.state = "alive" THEN Append(@, "tools/list") ELSE @,
                  !.listListener = TRUE]

\* sendToolsList, to this.process whichever child's answer it follows.
SendToolsList(cs) ==
    IF current = NoChild THEN cs ELSE [cs EXCEPT ![current] = AskTools(@)]

\* A chunk with the answer to c's oldest request, of a child that lives or left
\* it behind. Any result satisfies the initialize listener; the other one looks
\* for tools, and they are enough or not.
ChildAnswers(c, enough) ==
    LET request == Head(children[c].asked)
        answered == Fired([children EXCEPT ![c].asked = Tail(@)], c)
        state1 == IF children[c].initListener THEN "authenticating" ELSE health.state
        state2 == IF children[c].listListener /\ request = "tools/list"
                  THEN IF enough THEN "connected" ELSE "degraded"
                  ELSE state1
    IN  /\ children[c].asked # <<>>
        /\ children' = IF children[c].initListener THEN SendToolsList(answered)
                       ELSE answered
        /\ health' = [health EXCEPT !.state = state2]
        /\ UNCHANGED <<current, epoch, timers, checking, spawns>>

\* A chunk that is no answer: the listeners are used up.
ChildSaysElse(c) ==
    /\ children[c].state = "alive"
    /\ children' = Fired(children, c)
    /\ UNCHANGED <<current, health, epoch, timers, checking, spawns>>

\* The interval finds no process, or one that was told to stop; one that died by
\* itself is a process to it.
HealthCheck ==
    /\ checking
    /\ current # NoChild => children[current].killed
    /\ health.state # "disconnected"
    /\ health.restartCount < MaxRestarts
    /\ health' = [health EXCEPT !.state = "degraded"]
    /\ UNCHANGED <<children, current, epoch, timers, checking, spawns>>

Next ==
    \/ Start
    \/ Reconnect
    \/ Stop
    \/ HealthCheck
    \/ \E c \in Ids :
           \/ ChildError(c)
           \/ \E kind \in ExitKinds : ChildExits(c, kind)
           \/ RespawnTimer(c)
           \/ \E enough \in BOOLEAN : ChildAnswers(c, enough)
           \/ ChildSaysElse(c)

Spec == Init /\ [][Next]_vars

\* Timers fire; children and hosts owe nothing.
FairSpec == Spec /\ \A c \in Ids : WF_vars(RespawnTimer(c))

-----------------------------------------------------------------------------
(***************************************************************************)
(* Properties.                                                             *)
(***************************************************************************)

TypeOK ==
    /\ children \in [Ids -> ChildType]
    /\ current \in Ids \cup {NoChild}
    /\ health \in HealthType
    /\ epoch \in 0..MaxCalls
    /\ timers \in [Ids -> 0..MaxCalls \cup {NoTimer}]
    /\ checking \in BOOLEAN
    /\ spawns \in Nat

\* "must not spawn duplicate MCP servers": the only child that lives and was not
\* told to stop is the supervised one, whatever backoff timers are still out when
\* the supervisor is stopped, reconnected or started again.
NoDuplicateServer ==
    \A c \in Ids : children[c].state = "alive" /\ ~children[c].killed => c = current

\* "bounded restart": since the last start or reconnect there were at most
\* MaxRestarts respawns, timers of earlier epochs included.
RestartsBounded == spawns <= MaxRestarts + 1

\* "exponential backoff": a failed child whose respawn is scheduled is eventually
\* replaced, or the health says disconnected, whatever the host calls meanwhile.
BackoffEnds ==
    \A c \in Ids : timers[c] # NoTimer /\ timers[c] = epoch ~>
                       current # c \/ health.state = "disconnected"

\* "restarts on failure": a supervised process that is dead is eventually replaced,
\* or the health says disconnected.
DeadServerNoticed ==
    \A c \in Ids : current = c /\ children[c].state = "dead" ~>
                       current # c \/ health.state = "disconnected"
==============================================================================
