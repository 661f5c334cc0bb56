------------------------- MODULE McpSupervisorProofs -------------------------
(***************************************************************************)
(* Proofs about McpSupervisor, for any number of children, restarts and    *)
(* calls and any way of exiting: the types, one live server at most        *)
(* (NoDuplicateServer), and the bound on restarts (RestartsBounded).       *)
(*                                                                         *)
(* Neither is inductive. A respawn starts a child without killing one, so  *)
(* it must be shown that a timer of the current epoch belongs to the       *)
(* supervised child, which is dead, and to no other; a start does so too,  *)
(* so that nothing lives while the health says disconnected; and a respawn *)
(* that is scheduled was counted already.                                  *)
(***************************************************************************)
EXTENDS McpSupervisor, SequenceTheorems, TLAPS

\* The child's exit has scheduled a respawn that no stop or reconnect has cancelled.
Pending(c) == timers[c] = epoch

\* No child lives that was not told to stop.
Quiet(cs) == \A c \in Ids : cs[c].state = "alive" => cs[c].killed

\* A start, which only a disconnected supervisor gets, finds nothing alive.
DisconnectedIsQuiet == health.state = "disconnected" => Quiet(children)

\* Only the supervised child has a respawn pending, and it is dead.
PendingIsDead ==
    \A c \in Ids : Pending(c) =>
        current = c /\ children[c].state = "dead" /\ health.state # "disconnected"

\* No timer is of an epoch to come.
TimersArePast == \A c \in Ids : timers[c] <= epoch

\* Each respawn is counted when it is scheduled.
SpawnsCounted ==
    /\ spawns <= health.restartCount + 1
    /\ (\E c \in Ids : Pending(c)) => spawns <= health.restartCount

\* The inductive invariant.
IInv ==
    /\ TypeOK
    /\ NoDuplicateServer
    /\ DisconnectedIsQuiet
    /\ PendingIsDead
    /\ TimersArePast
    /\ SpawnsCounted

-----------------------------------------------------------------------------
(***************************************************************************)
(* The operators on children.                                              *)
(***************************************************************************)

\* A child that is killed keeps its type and its state.
LEMMA KillOK ==
    ASSUME NEW cs \in [Ids -> ChildType], current \in Ids \cup {NoChild}
    PROVE  /\ Kill(cs) \in [Ids -> ChildType]
           /\ \A c \in Ids : /\ Kill(cs)[c].state = cs[c].state
                             /\ c # current => Kill(cs)[c] = cs[c]
                             /\ c = current => Kill(cs)[c].killed
<1>1. CASE current = NoChild
  BY <1>1 DEF Kill, Ids, NoChild
<1>2. CASE current \in Ids
  <2>1. Kill(cs) = [cs EXCEPT ![current] = [cs[current] EXCEPT !.killed = TRUE]]
    BY <1>2 DEF Kill, Ids, NoChild
  <2>2. /\ [cs[current] EXCEPT !.killed = TRUE] \in ChildType
        /\ [cs[current] EXCEPT !.killed = TRUE].state = cs[current].state
        /\ [cs[current] EXCEPT !.killed = TRUE].killed
    BY <1>2 DEF ChildType
  <2> QED
    BY <1>2, <2>1, <2>2
<1> QED
  BY <1>1, <1>2

\* Listeners that fired leave the rest of the child.
LEMMA FiredOK ==
    ASSUME NEW cs \in [Ids -> ChildType], NEW c \in Ids
    PROVE  /\ Fired(cs, c) \in [Ids -> ChildType]
           /\ \A x \in Ids : /\ Fired(cs, c)[x].state = cs[x].state
                             /\ Fired(cs, c)[x].killed = cs[x].killed
<1>1. Fired(cs, c) = [cs EXCEPT ![c] = [cs[c] EXCEPT !.initListener = FALSE,
                                                     !.listListener = FALSE]]
  BY DEF Fired
<1>2. cs[c] \in ChildType
  OBVIOUS
<1>3. /\ [cs[c] EXCEPT !.initListener = FALSE, !.listListener = FALSE] \in ChildType
      /\ [cs[c] EXCEPT !.initListener = FALSE, !.listListener = FALSE].state = cs[c].state
      /\ [cs[c] EXCEPT !.initListener = FALSE, !.listListener = FALSE].killed = cs[c].killed
  BY <1>2 DEF ChildType
<1> QED
  BY <1>1, <1>3

\* So do the request for the tools and its listener.
LEMMA SendToolsListOK ==
    ASSUME NEW cs \in [Ids -> ChildType], current \in Ids \cup {NoChild}
    PROVE  /\ SendToolsList(cs) \in [Ids -> ChildType]
           /\ \A x \in Ids : /\ SendToolsList(cs)[x].state = cs[x].state
                             /\ SendToolsList(cs)[x].killed = cs[x].killed
<1>1. CASE current = NoChild
  BY <1>1 DEF SendToolsList
<1>2. CASE current \in Ids
  <2> DEFINE k == cs[current]
             asked == IF k.state = "alive" THEN Append(k.asked, "tools/list") ELSE k.asked
             u == [k EXCEPT !.asked = asked]
             child == AskTools(k)
  <2>1. k \in ChildType
    BY <1>2
  <2>2. k.asked \in Seq({"initialize", "tools/list"})
    BY <2>1 DEF ChildType
  <2>3. asked \in Seq({"initialize", "tools/list"})
    BY <2>2, AppendProperties
  <2>4. SendToolsList(cs) = [cs EXCEPT ![current] = child]
    BY <1>2 DEF SendToolsList, Ids, NoChild
  <2>5. /\ child \in ChildType /\ child.state = cs[current].state
        /\ child.killed = cs[current].killed
    <3>1. child = [u EXCEPT !.listListener = TRUE]
      BY DEF AskTools
    <3> HIDE DEF asked, child
    <3>2. u = [state |-> k.state, killed |-> k.killed, asked |-> asked,
               initListener |-> k.initListener, listListener |-> k.listListener]
      BY <2>1, <2>3 DEF ChildType
    <3>3. /\ k.state \in {"none", "alive", "dead"} /\ k.killed \in BOOLEAN
          /\ k.initListener \in BOOLEAN
      BY <2>1 DEF ChildType
    <3> HIDE DEF u, k
    <3>4. child = [state |-> k.state, killed |-> k.killed, asked |-> asked,
                   initListener |-> k.initListener, listListener |-> TRUE]
      BY <3>1, <3>2
    <3>5. child \in ChildType /\ child.state = k.state /\ child.killed = k.killed
      BY <2>3, <3>3, <3>4 DEF ChildType
    <3> QED
      BY <3>5 DEF k
  <2> HIDE DEF child
  <2> QED
    BY <1>2, <2>4, <2>5
<1> QED
  BY <1>1, <1>2

\* A spawn over children of whom none lives on leaves one live server at most.
LEMMA SpawnOK ==
    ASSUME NEW cs \in [Ids -> ChildType], Quiet(cs), current \in Ids \cup {NoChild},
           NEW restarts \in 0..MaxRestarts, SpawnProcess(cs, restarts)
    PROVE  /\ children' \in [Ids -> ChildType]
           /\ current' \in Ids \cup {NoChild}
           /\ health' \in HealthType
           /\ health'.restartCount = restarts
           /\ NoDuplicateServer' /\ DisconnectedIsQuiet'
<1>1. CASE /\ NextId \in Ids
           /\ children' = [cs EXCEPT ![NextId] = Newborn]
           /\ current' = NextId
           /\ health' = [state |-> "starting", restartCount |-> restarts]
  <2>1. <<"initialize">> \in Seq({"initialize", "tools/list"})
    OBVIOUS
  <2>2. Newborn \in ChildType
    BY <2>1 DEF Newborn, ChildType
  <2>3. NoDuplicateServer'
    BY <1>1 DEF Quiet, NoDuplicateServer
  <2> QED
    BY <1>1, <2>2, <2>3 DEF HealthType, HealthStates, DisconnectedIsQuiet
<1>2. CASE /\ children' = cs /\ current' = current
           /\ health' = [state |-> "disconnected", restartCount |-> restarts]
  BY <1>2 DEF HealthType, HealthStates, NoDuplicateServer, DisconnectedIsQuiet, Quiet
<1> QED
  BY <1>1, <1>2 DEF SpawnProcess

\* A step that ends or keeps children, and supervises no other one, leaves the
\* rest of the invariant as it is.
LEMMA SameServers ==
    ASSUME IInv, children' \in [Ids -> ChildType],
           \A c \in Ids : /\ children'[c].killed = children[c].killed
                          /\ \/ children'[c].state = children[c].state
                             \/ children'[c].state = "dead",
           UNCHANGED <<current, epoch, timers, spawns>>,
           health' \in HealthType, health'.restartCount = health.restartCount,
           health'.state = "disconnected" => health.state = "disconnected",
           UNCHANGED checking
    PROVE  IInv'
<1>1. TypeOK'
  BY DEF IInv, TypeOK
<1>2. NoDuplicateServer' /\ DisconnectedIsQuiet'
  BY DEF IInv, NoDuplicateServer, DisconnectedIsQuiet, Quiet
<1>3. PendingIsDead' /\ TimersArePast' /\ SpawnsCounted'
  BY DEF IInv, PendingIsDead, TimersArePast, SpawnsCounted, Pending
<1> QED
  BY <1>1, <1>2, <1>3 DEF IInv

-----------------------------------------------------------------------------
(***************************************************************************)
(* The inductive invariant.                                                *)
(***************************************************************************)

\* The invariant holds before any child.
LEMMA InitIInv == Init => IInv
<1> SUFFICES ASSUME Init PROVE IInv
  OBVIOUS
<1>1. <<>> \in Seq({"initialize", "tools/list"})
  OBVIOUS
<1>2. Unborn \in ChildType
  BY <1>1 DEF Unborn, ChildType
<1>3. TypeOK
  <2>1. children \in [Ids -> ChildType]
    BY <1>2 DEF Init
  <2>2. timers \in [Ids -> 0..MaxCalls \cup {NoTimer}]
    BY DEF Init
  <2>3. health \in HealthType
    BY MaxRestartsAssumption DEF Init, HealthType, HealthStates
  <2>4. epoch \in 0..MaxCalls /\ spawns \in Nat
    BY MaxCallsAssumption DEF Init
  <2>5. checking \in BOOLEAN /\ current \in Ids \cup {NoChild}
    BY DEF Init
  <2> QED
    BY <2>1, <2>2, <2>3, <2>4, <2>5 DEF TypeOK
<1>4. \A c \in Ids : ~Pending(c)
  BY DEF Init, Pending, NoTimer
<1>5. Quiet(children)
  BY DEF Init, Quiet, Unborn
<1>6. NoDuplicateServer
  BY DEF Init, NoDuplicateServer, Unborn
<1>7. DisconnectedIsQuiet /\ PendingIsDead
  BY <1>4, <1>5 DEF DisconnectedIsQuiet, PendingIsDead
<1>8. TimersArePast /\ SpawnsCounted
  BY <1>4 DEF Init, TimersArePast, SpawnsCounted, NoTimer
<1> QED
  BY <1>3, <1>6, <1>7, <1>8 DEF IInv

\* The types of the numbers.
LEMMA Numbers ==
    ASSUME IInv
    PROVE  /\ epoch \in Nat /\ spawns \in Nat /\ health.restartCount \in Nat
           /\ \A c \in Ids : timers[c] \in Int
BY MaxCallsAssumption, MaxRestartsAssumption DEF IInv, TypeOK, HealthType, NoTimer

\* A start finds nothing alive, and no backoff pending.
LEMMA StartStep == ASSUME IInv, Start PROVE IInv'
<1>1. /\ children \in [Ids -> ChildType] /\ Quiet(children)
      /\ current \in Ids \cup {NoChild} /\ 0 \in 0..MaxRestarts
      /\ SpawnProcess(children, 0) /\ checking' = TRUE /\ spawns' = 1
      /\ UNCHANGED <<epoch, timers>>
  BY MaxRestartsAssumption DEF IInv, TypeOK, DisconnectedIsQuiet, Start
<1>2. /\ children' \in [Ids -> ChildType] /\ current' \in Ids \cup {NoChild}
      /\ health' \in HealthType /\ health'.restartCount = 0
      /\ NoDuplicateServer' /\ DisconnectedIsQuiet'
  BY <1>1, SpawnOK
<1>3. \A c \in Ids : ~Pending(c)
  BY DEF IInv, PendingIsDead, Start
<1>4. TypeOK'
  BY <1>1, <1>2 DEF IInv, TypeOK
<1>5. PendingIsDead' /\ TimersArePast' /\ SpawnsCounted'
  BY <1>1, <1>2, <1>3 DEF IInv, PendingIsDead, TimersArePast, SpawnsCounted, Pending
<1> QED
  BY <1>2, <1>4, <1>5 DEF IInv

\* A reconnect kills the supervised child, and its epoch leaves every timer behind.
LEMMA ReconnectStep == ASSUME IInv, Reconnect PROVE IInv'
<1>1. /\ epoch' = epoch + 1 /\ epoch < MaxCalls /\ SpawnProcess(Kill(children), 0)
      /\ spawns' = 1 /\ UNCHANGED <<timers, checking>>
      /\ children \in [Ids -> ChildType] /\ current \in Ids \cup {NoChild}
      /\ 0 \in 0..MaxRestarts
  BY MaxRestartsAssumption DEF IInv, TypeOK, Reconnect
<1>2. /\ Kill(children) \in [Ids -> ChildType]
      /\ \A c \in Ids : /\ Kill(children)[c].state = children[c].state
                        /\ c # current => Kill(children)[c] = children[c]
                        /\ c = current => Kill(children)[c].killed
  BY <1>1, KillOK
<1>3. Quiet(Kill(children))
  BY <1>2 DEF IInv, NoDuplicateServer, Quiet
<1>4. /\ children' \in [Ids -> ChildType] /\ current' \in Ids \cup {NoChild}
      /\ health' \in HealthType /\ health'.restartCount = 0
      /\ NoDuplicateServer' /\ DisconnectedIsQuiet'
  BY <1>1, <1>2, <1>3, SpawnOK
<1>5. epoch' \in 0..MaxCalls
  BY <1>1, Numbers, MaxCallsAssumption
<1>6. TypeOK'
  BY <1>1, <1>4, <1>5 DEF IInv, TypeOK
<1>7. \A c \in Ids : timers'[c] < epoch' /\ timers'[c] \in Int
  BY <1>1, Numbers DEF IInv, TimersArePast
<1>8. PendingIsDead' /\ TimersArePast' /\ SpawnsCounted'
  BY <1>1, <1>4, <1>5, <1>7, MaxCallsAssumption
  DEF PendingIsDead, TimersArePast, SpawnsCounted, Pending
<1> QED
  BY <1>4, <1>6, <1>8 DEF IInv

\* So does a stop, which spawns nothing.
LEMMA StopStep == ASSUME IInv, Stop PROVE IInv'
<1>1. /\ epoch' = epoch + 1 /\ epoch < MaxCalls /\ children' = Kill(children)
      /\ current' = NoChild /\ health' = [health EXCEPT !.state = "disconnected"]
      /\ checking' = FALSE /\ UNCHANGED <<timers, spawns>>
      /\ children \in [Ids -> ChildType] /\ current \in Ids \cup {NoChild}
      /\ health \in HealthType
  BY DEF IInv, TypeOK, Stop
<1>2. /\ Kill(children) \in [Ids -> ChildType]
      /\ \A c \in Ids : /\ Kill(children)[c].state = children[c].state
                        /\ c # current => Kill(children)[c] = children[c]
                        /\ c = current => Kill(children)[c].killed
  BY <1>1, KillOK
<1>3. Quiet(children')
  BY <1>1, <1>2 DEF IInv, NoDuplicateServer, Quiet
<1>4. health' \in HealthType /\ health'.restartCount = health.restartCount
  BY <1>1 DEF HealthType, HealthStates
<1>5. epoch' \in 0..MaxCalls
  BY <1>1, Numbers, MaxCallsAssumption
<1>6. TypeOK'
  BY <1>1, <1>2, <1>4, <1>5 DEF IInv, TypeOK
<1>7. NoDuplicateServer' /\ DisconnectedIsQuiet'
  BY <1>3 DEF NoDuplicateServer, DisconnectedIsQuiet, Quiet
<1>8. \A c \in Ids : timers'[c] < epoch' /\ timers'[c] \in Int
  BY <1>1, Numbers DEF IInv, TimersArePast
<1>9. PendingIsDead' /\ TimersArePast' /\ SpawnsCounted'
  BY <1>1, <1>4, <1>5, <1>8, MaxCallsAssumption
  DEF IInv, PendingIsDead, TimersArePast, SpawnsCounted, Pending
<1> QED
  BY <1>6, <1>7, <1>9 DEF IInv

\* The supervised child could not be started: nothing is supervised.
LEMMA ChildErrorStep == ASSUME IInv, NEW c \in Ids, ChildError(c) PROVE IInv'
<1> DEFINE dead == [children[c] EXCEPT !.state = "dead", !.asked = <<>>]
<1>1. /\ children \in [Ids -> ChildType] /\ children[c] \in ChildType
      /\ children[c].state = "alive" /\ children' = [children EXCEPT ![c] = dead]
      /\ UNCHANGED <<epoch, timers, checking, spawns>> /\ health \in HealthType
  BY DEF IInv, TypeOK, ChildError
<1>2. dead \in ChildType /\ dead.state = "dead" /\ dead.killed = children[c].killed
  <2>1. dead = [state |-> "dead", killed |-> children[c].killed, asked |-> <<>>,
                initListener |-> children[c].initListener,
                listListener |-> children[c].listListener]
    <3> DEFINE u == [children[c] EXCEPT !.state = "dead"]
    <3>1. u = [state |-> "dead", killed |-> children[c].killed, asked |-> children[c].asked,
               initListener |-> children[c].initListener,
               listListener |-> children[c].listListener]
      BY <1>1 DEF ChildType
    <3>2. dead = [u EXCEPT !.asked = <<>>]
      OBVIOUS
    <3> HIDE DEF u, dead
    <3> QED
      BY <3>1, <3>2
  <2>2. <<>> \in Seq({"initialize", "tools/list"})
    OBVIOUS
  <2> HIDE DEF dead
  <2> QED
    BY <1>1, <2>1, <2>2 DEF ChildType
<1> HIDE DEF dead
<1>3. children' \in [Ids -> ChildType]
      /\ \A x \in Ids : children'[x] = IF x = c THEN dead ELSE children[x]
  BY <1>1, <1>2
<1>4. CASE current # c
  BY <1>1, <1>2, <1>3, <1>4, SameServers DEF ChildError
<1>5. CASE current = c
  <2>1. current' = NoChild /\ health' = [health EXCEPT !.state = "disconnected"]
    BY <1>5 DEF ChildError
  <2>2. health' \in HealthType /\ health'.restartCount = health.restartCount
    BY <1>1, <2>1 DEF HealthType, HealthStates
  <2>3. \A x \in Ids : ~Pending(x)
    BY <1>1, <1>5 DEF IInv, PendingIsDead
  <2>4. TypeOK'
    BY <1>1, <1>3, <2>1, <2>2 DEF IInv, TypeOK
  <2>5. NoDuplicateServer' /\ DisconnectedIsQuiet'
    BY <1>2, <1>3, <1>5 DEF IInv, NoDuplicateServer, DisconnectedIsQuiet, Quiet
  <2>6. PendingIsDead' /\ TimersArePast' /\ SpawnsCounted'
    BY <1>1, <2>2, <2>3 DEF IInv, PendingIsDead, TimersArePast, SpawnsCounted, Pending
  <2> QED
    BY <2>4, <2>5, <2>6 DEF IInv
<1> QED
  BY <1>4, <1>5

\* The supervised child failed: a respawn is counted and scheduled, or refused.
LEMMA ChildExitsStep ==
    ASSUME IInv, NEW c \in Ids, NEW kind \in ExitKinds, ChildExits(c, kind)
    PROVE  IInv'
<1> DEFINE dead == [children[c] EXCEPT !.state = "dead"]
<1>1. /\ children \in [Ids -> ChildType] /\ children[c] \in ChildType
      /\ children[c].state = "alive" /\ children' = [children EXCEPT ![c] = dead]
      /\ UNCHANGED <<current, epoch, checking, spawns>> /\ health \in HealthType
      /\ timers \in [Ids -> 0..MaxCalls \cup {NoTimer}] /\ epoch \in 0..MaxCalls
  BY DEF IInv, TypeOK, ChildExits
<1>2. dead \in ChildType /\ dead.state = "dead" /\ dead.killed = children[c].killed
  BY <1>1 DEF ChildType
<1> HIDE DEF dead
<1>3. children' \in [Ids -> ChildType]
      /\ \A x \in Ids : children'[x] = IF x = c THEN dead ELSE children[x]
  BY <1>1, <1>2
<1>4. NoDuplicateServer'
  BY <1>1, <1>2, <1>3 DEF IInv, NoDuplicateServer
<1>5. CASE ~(current = c /\ kind = "failure")
  BY <1>1, <1>2, <1>3, <1>5, SameServers DEF ChildExits
<1>6. CASE current = c /\ kind = "failure"
  <2>1. Failed(c) /\ \A x \in Ids : ~Pending(x)
    BY <1>1, <1>6 DEF ChildExits, IInv, PendingIsDead
  <2>2. Quiet(children')
    BY <1>2, <1>3, <1>6 DEF IInv, NoDuplicateServer, Quiet
  <2>3. CASE health.restartCount < MaxRestarts /\ Schedule(c)
    <3>1. /\ health' = [state |-> "degraded", restartCount |-> health.restartCount + 1]
          /\ timers' = [timers EXCEPT ![c] = epoch]
      BY <2>3 DEF Schedule
    <3>2. health' \in HealthType /\ health'.restartCount = health.restartCount + 1
      BY <1>1, <2>3, <3>1, MaxRestartsAssumption DEF HealthType, HealthStates
    <3>3. timers' \in [Ids -> 0..MaxCalls \cup {NoTimer}]
          /\ \A x \in Ids : timers'[x] = IF x = c THEN epoch ELSE timers[x]
      BY <1>1, <3>1
    <3>4. TypeOK'
      BY <1>1, <1>3, <3>2, <3>3 DEF IInv, TypeOK
    <3>5. DisconnectedIsQuiet' /\ PendingIsDead'
      BY <1>1, <1>2, <1>3, <1>6, <2>1, <2>2, <3>1, <3>3
      DEF DisconnectedIsQuiet, PendingIsDead, Pending
    <3>6. TimersArePast' /\ SpawnsCounted'
      BY <1>1, <2>1, <3>2, <3>3, Numbers DEF IInv, TimersArePast, SpawnsCounted
    <3> QED
      BY <1>4, <3>4, <3>5, <3>6 DEF IInv
  <2>4. CASE health' = [health EXCEPT !.state = "disconnected"] /\ UNCHANGED timers
    <3>1. health' \in HealthType /\ health'.restartCount = health.restartCount
      BY <1>1, <2>4 DEF HealthType, HealthStates
    <3>2. TypeOK'
      BY <1>1, <1>3, <2>4, <3>1 DEF IInv, TypeOK
    <3>3. DisconnectedIsQuiet' /\ PendingIsDead' /\ TimersArePast' /\ SpawnsCounted'
      BY <1>1, <2>1, <2>2, <2>4, <3>1
      DEF IInv, DisconnectedIsQuiet, PendingIsDead, TimersArePast, SpawnsCounted, Pending
    <3> QED
      BY <1>4, <3>2, <3>3 DEF IInv
  <2> QED
    BY <2>1, <2>3, <2>4 DEF Failed
<1> QED
  BY <1>5, <1>6

\* A backoff that is still of this epoch is the supervised child's, which is dead.
LEMMA RespawnStep == ASSUME IInv, NEW c \in Ids, RespawnTimer(c) PROVE IInv'
<1>1. /\ timers' = [timers EXCEPT ![c] = NoTimer] /\ UNCHANGED <<epoch, checking>>
      /\ timers \in [Ids -> 0..MaxCalls \cup {NoTimer}] /\ epoch \in 0..MaxCalls
      /\ children \in [Ids -> ChildType] /\ current \in Ids \cup {NoChild}
      /\ health \in HealthType
  BY DEF IInv, TypeOK, RespawnTimer
<1>2. timers' \in [Ids -> 0..MaxCalls \cup {NoTimer}]
      /\ \A x \in Ids : timers'[x] = IF x = c THEN NoTimer ELSE timers[x]
  BY <1>1
<1>3. epoch # NoTimer /\ NoTimer <= epoch
  BY <1>1, MaxCallsAssumption DEF NoTimer
<1>4. TimersArePast'
  BY <1>1, <1>2, <1>3 DEF IInv, TimersArePast
<1>5. CASE timers[c] # epoch
  <2>1. UNCHANGED <<children, current, health, spawns>>
    BY <1>5 DEF RespawnTimer
  <2>2. TypeOK'
    BY <1>1, <1>2, <2>1 DEF IInv, TypeOK
  <2>3. NoDuplicateServer' /\ DisconnectedIsQuiet'
    BY <2>1 DEF IInv, NoDuplicateServer, DisconnectedIsQuiet, Quiet
  <2>4. PendingIsDead' /\ SpawnsCounted'
    BY <1>1, <1>2, <1>3, <2>1 DEF IInv, PendingIsDead, SpawnsCounted, Pending
  <2> QED
    BY <1>4, <2>2, <2>3, <2>4 DEF IInv
<1>6. CASE timers[c] = epoch
  <2>1. SpawnProcess(children, health.restartCount) /\ spawns' = spawns + 1
    BY <1>6 DEF RespawnTimer
  <2>2. /\ current = c /\ children[c].state = "dead"
        /\ \A x \in Ids : Pending(x) => x = c
        /\ spawns <= health.restartCount
    BY <1>6 DEF IInv, PendingIsDead, SpawnsCounted, Pending
  <2>3. Quiet(children)
    BY <2>2 DEF IInv, NoDuplicateServer, Quiet
  <2>4. health.restartCount \in 0..MaxRestarts
    BY <1>1 DEF HealthType
  <2>5. /\ children' \in [Ids -> ChildType] /\ current' \in Ids \cup {NoChild}
        /\ health' \in HealthType /\ health'.restartCount = health.restartCount
        /\ NoDuplicateServer' /\ DisconnectedIsQuiet'
    BY <1>1, <2>1, <2>3, <2>4, SpawnOK
  <2>6. \A x \in Ids : ~Pending(x)'
    BY <1>1, <1>2, <1>3, <2>2 DEF Pending
  <2>7. spawns \in Nat /\ spawns' \in Nat
    BY <2>1 DEF IInv, TypeOK
  <2>8. TypeOK'
    BY <1>1, <1>2, <2>5, <2>7 DEF IInv, TypeOK
  <2>9. PendingIsDead' /\ SpawnsCounted'
    BY <2>1, <2>2, <2>4, <2>5, <2>6, <2>7, MaxRestartsAssumption
    DEF PendingIsDead, SpawnsCounted
  <2> QED
    BY <1>4, <2>5, <2>8, <2>9 DEF IInv
<1> QED
  BY <1>5, <1>6

\* An answer moves the health and the children's requests and listeners only.
LEMMA ChildAnswersStep ==
    ASSUME IInv, NEW c \in Ids, NEW enough \in BOOLEAN, ChildAnswers(c, enough)
    PROVE  IInv'
<1> DEFINE taken == [children EXCEPT ![c].asked = Tail(@)]
           answered == Fired(taken, c)
<1>1. /\ children \in [Ids -> ChildType] /\ children[c] \in ChildType
      /\ children[c].asked # <<>> /\ health \in HealthType
      /\ current \in Ids \cup {NoChild}
      /\ UNCHANGED <<current, epoch, timers, checking, spawns>>
      /\ children' = SendToolsList(answered) \/ children' = answered
  BY DEF IInv, TypeOK, ChildAnswers
<1>2. taken \in [Ids -> ChildType]
      /\ \A x \in Ids : taken[x].state = children[x].state
                        /\ taken[x].killed = children[x].killed
  <2> DEFINE child == [children[c] EXCEPT !.asked = Tail(children[c].asked)]
  <2>1. Tail(children[c].asked) \in Seq({"initialize", "tools/list"})
    BY <1>1 DEF ChildType
  <2>2. child \in ChildType /\ child.state = children[c].state
        /\ child.killed = children[c].killed
    BY <1>1, <2>1 DEF ChildType
  <2>3. taken = [children EXCEPT ![c] = child]
    BY <1>1
  <2> HIDE DEF child, taken
  <2> QED
    BY <1>1, <2>2, <2>3
<1> HIDE DEF taken
<1>3. answered \in [Ids -> ChildType]
      /\ \A x \in Ids : answered[x].state = children[x].state
                        /\ answered[x].killed = children[x].killed
  BY <1>2, FiredOK
<1> HIDE DEF answered
<1>4. children' \in [Ids -> ChildType]
      /\ \A x \in Ids : children'[x].state = children[x].state
                        /\ children'[x].killed = children[x].killed
  BY <1>1, <1>3, SendToolsListOK
<1>5. PICK state \in {"authenticating", "connected", "degraded", health.state} :
          health' = [health EXCEPT !.state = state]
  BY DEF ChildAnswers
<1>6. /\ health' \in HealthType /\ health'.restartCount = health.restartCount
      /\ health'.state = "disconnected" => health.state = "disconnected"
  BY <1>1, <1>5 DEF HealthType, HealthStates
<1> QED
  BY <1>1, <1>4, <1>6, SameServers

\* Every step keeps the invariant: one case per action.
LEMMA NextIInv == IInv /\ [Next]_vars => IInv'
<1> SUFFICES ASSUME IInv, [Next]_vars PROVE IInv'
  OBVIOUS
<1>1. CASE UNCHANGED vars
  BY <1>1 DEF vars, IInv, TypeOK, NoDuplicateServer, DisconnectedIsQuiet, Quiet,
     PendingIsDead, TimersArePast, SpawnsCounted, Pending
<1>2. CASE Start
  BY <1>2, StartStep
<1>3. CASE Reconnect
  BY <1>3, ReconnectStep
<1>4. CASE Stop
  BY <1>4, StopStep
<1>5. CASE HealthCheck
  <2>1. health' \in HealthType /\ health'.restartCount = health.restartCount
        /\ health'.state = "degraded"
    BY <1>5 DEF HealthCheck, IInv, TypeOK, HealthType, HealthStates
  <2>2. children' \in [Ids -> ChildType] /\ UNCHANGED <<children, current, epoch, timers, spawns, checking>>
    BY <1>5 DEF HealthCheck, IInv, TypeOK
  <2> QED
    BY <2>1, <2>2, SameServers
<1>6. ASSUME NEW c \in Ids, ChildError(c) PROVE IInv'
  BY <1>6, ChildErrorStep
<1>7. ASSUME NEW c \in Ids, NEW kind \in ExitKinds, ChildExits(c, kind) PROVE IInv'
  BY <1>7, ChildExitsStep
<1>8. ASSUME NEW c \in Ids, RespawnTimer(c) PROVE IInv'
  BY <1>8, RespawnStep
<1>9. ASSUME NEW c \in Ids, NEW enough \in BOOLEAN, ChildAnswers(c, enough) PROVE IInv'
  BY <1>9, ChildAnswersStep
<1>10. ASSUME NEW c \in Ids, ChildSaysElse(c) PROVE IInv'
  <2>1. children \in [Ids -> ChildType] /\ health \in HealthType
    BY DEF IInv, TypeOK
  <2>2. /\ children' \in [Ids -> ChildType]
        /\ \A x \in Ids : children'[x].state = children[x].state
                          /\ children'[x].killed = children[x].killed
    BY <1>10, <2>1, FiredOK DEF ChildSaysElse
  <2>3. UNCHANGED <<health, current, epoch, timers, checking, spawns>>
    BY <1>10 DEF ChildSaysElse
  <2> QED
    BY <2>1, <2>2, <2>3, SameServers
<1> QED
  BY <1>1, <1>2, <1>3, <1>4, <1>5, <1>6, <1>7, <1>8, <1>9, <1>10 DEF Next

-----------------------------------------------------------------------------
(***************************************************************************)
(* Theorems.                                                               *)
(***************************************************************************)

\* In every reachable state of the supervisor the types hold, a pending backoff
\* is that of the dead supervised child, and respawns are counted before they
\* happen.
THEOREM IInvHolds == Spec => []IInv
<1>1. Init => IInv
  BY InitIInv
<1>2. IInv /\ [Next]_vars => IInv'
  BY NextIInv
<1> QED
  BY <1>1, <1>2, PTL DEF Spec

\* Whatever timers and answers of old children are still to come, the only server
\* that lives and was not told to stop is the supervised one.
THEOREM OneServer == Spec => []NoDuplicateServer
<1>1. IInv => NoDuplicateServer
  BY DEF IInv
<1> QED
  BY <1>1, IInvHolds, PTL

\* Since the last start or reconnect no more than MAX_RESTARTS children were
\* respawned.
THEOREM BoundedRestarts == Spec => []RestartsBounded
<1>1. IInv => RestartsBounded
  BY MaxRestartsAssumption DEF IInv, TypeOK, HealthType, SpawnsCounted, RestartsBounded
<1> QED
  BY <1>1, IInvHolds, PTL
==============================================================================
