------------------------------- MODULE Sandpits -------------------------------
(***************************************************************************)
(* Sandpit of planner/sandpit.ts: sessions in a container of the gateway,  *)
(* the jobs run in them, and their tear-down with its account.             *)
(*                                                                         *)
(* The three kinds of job are one. A quote with its commit is one step,    *)
(* and so is a poll; one that fails, or finds the deployment on its way,   *)
(* changes nothing. Money is a number of units of one currency.            *)
(***************************************************************************)
EXTENDS Integers, FiniteSetsExt, SequencesExt

CONSTANTS
    MaxSandpits,      \* bound: calls of create
    MaxSandpitCalls,  \* bound: calls of create, of a job and of destroy
    MaxMetered        \* bound: what a deployment may cost

VARIABLES
    sandpits,     \* every session made: its container, spendToDate, its jobs, whether it is known
    sandpitCalls, \* every call: what it does, for which session, where it is, its deployment
    metered       \* the deployments at the gateway: their state and their spend

sandpitVars == <<sandpits, sandpitCalls, metered>>

SandpitInit ==
    /\ sandpits = <<>>
    /\ sandpitCalls = <<>>
    /\ metered = <<>>

SandpitCall(kind, s) ==
    /\ Len(sandpitCalls) < MaxSandpitCalls
    /\ sandpitCalls' = Append(sandpitCalls, [kind |-> kind, session |-> s, at |-> "covenant", id |-> 0,
                                             before |-> IF s = 0 THEN 0 ELSE sandpits[s].spend,
                                             total |-> 0])
    /\ UNCHANGED <<sandpits, metered>>

Goes(c, at) == [sandpitCalls EXCEPT ![c].at = at]

\* The source is readable; an unreadable one makes no call.
CreateSandpit ==
    /\ Cardinality({c \in DOMAIN sandpitCalls : sandpitCalls[c].kind = "create"}) < MaxSandpits
    /\ SandpitCall("create", 0)

StartJob(s) == sandpits[s].known /\ SandpitCall("job", s)

DestroySandpit(s) == sandpits[s].known /\ SandpitCall("destroy", s)

\* The covenant does not deny it, or it does, or cannot be asked.
SandpitAllowed(c) ==
    /\ sandpitCalls[c].at = "covenant"
    /\ sandpitCalls' = Goes(c, IF sandpitCalls[c].kind = "destroy" THEN "destroying" ELSE "placing")
    /\ UNCHANGED <<sandpits, metered>>

SandpitDenied(c) ==
    /\ sandpitCalls[c].at = "covenant"
    /\ sandpitCalls' = Goes(c, "failed")
    /\ UNCHANGED <<sandpits, metered>>

\* quoteCommitMonitor: there is no quote, no candidate or no placement, or its answer is lost.
PlaceFails(c, placed) ==
    /\ sandpitCalls[c].at = "placing"
    /\ sandpitCalls' = Goes(c, "failed")
    /\ metered' = IF placed THEN Append(metered, [state |-> "provisioning", spend |-> 0]) ELSE metered
    /\ UNCHANGED sandpits

Place(c) ==
    /\ sandpitCalls[c].at = "placing"
    /\ metered' = Append(metered, [state |-> "provisioning", spend |-> 0])
    /\ sandpitCalls' = [sandpitCalls EXCEPT ![c].at = "monitoring", ![c].id = Len(metered) + 1]
    /\ UNCHANGED sandpits

\* monitor: the state that is waited for is running, stopped or destroyed.
Monitored(c, state) ==
    /\ sandpitCalls[c].at = "monitoring"
    /\ metered[sandpitCalls[c].id].state = state

\* The deployment went elsewhere, the time is up, or the caller aborts.
SandpitMonitorFails(c) ==
    /\ sandpitCalls[c].at = "monitoring"
    /\ sandpitCalls' = Goes(c, "failed")
    /\ UNCHANGED <<sandpits, metered>>

SandpitReady(c) ==
    LET spend == metered[sandpitCalls[c].id].spend IN
    /\ sandpitCalls[c].kind = "create"
    /\ Monitored(c, "running")
    /\ sandpits' = Append(sandpits, [container |-> sandpitCalls[c].id, created |-> spend, spend |-> spend,
                                     jobs |-> {}, known |-> TRUE])
    /\ sandpitCalls' = Goes(c, "done")
    /\ UNCHANGED metered

\* Mutant: the job's cost is added to what the session had spent when the job was asked for.
JobFinishesStale(c) ==
    LET id == sandpitCalls[c].id
        s == sandpitCalls[c].session
    IN  /\ sandpitCalls[c].kind = "job"
        /\ Monitored(c, "stopped")
        /\ sandpits' = [sandpits EXCEPT ![s].jobs = @ \cup {id},
                                        ![s].spend = sandpitCalls[c].before + metered[id].spend]
        /\ sandpitCalls' = Goes(c, "done")
        /\ UNCHANGED metered

\* The session is the one the job was asked for, known or not by now.
JobFinishes(c) ==
    LET id == sandpitCalls[c].id
        s == sandpitCalls[c].session
    IN  /\ sandpitCalls[c].kind = "job"
        /\ Monitored(c, "stopped")
        /\ sandpits' = [sandpits EXCEPT ![s].jobs = @ \cup {id}, ![s].spend = @ + metered[id].spend]
        /\ sandpitCalls' = Goes(c, "done")
        /\ UNCHANGED metered

\* The gateway takes the container down; without an answer the call fails, and the session
\* stays as it was.
Destroyed(c, answered) ==
    LET id == sandpits[sandpitCalls[c].session].container IN
    /\ sandpitCalls[c].at = "destroying"
    /\ metered' = [metered EXCEPT ![id].state = "destroyed"]
    /\ sandpitCalls' = [sandpitCalls EXCEPT ![c].at = IF answered THEN "monitoring" ELSE "failed",
                                            ![c].id = id]
    /\ UNCHANGED sandpits

DestroyFails(c) ==
    /\ sandpitCalls[c].at = "destroying"
    /\ sandpitCalls' = Goes(c, "failed")
    /\ UNCHANGED <<sandpits, metered>>

\* What the session spent and what the container did, and the session is forgotten.
SandpitDestroyed(c) ==
    LET s == sandpitCalls[c].session IN
    /\ sandpitCalls[c].kind = "destroy"
    /\ Monitored(c, "destroyed")
    /\ sandpitCalls' = [sandpitCalls EXCEPT ![c].at = "done",
                            ![c].total = sandpits[s].spend + metered[sandpitCalls[c].id].spend]
    /\ sandpits' = [sandpits EXCEPT ![s].known = FALSE]
    /\ UNCHANGED metered

\* The gateway: a deployment comes up, stops or fails, having cost something; one that runs
\* costs more.
MeteredMoves(id, state, spend) ==
    /\ metered[id].state = "provisioning"
    /\ metered' = [metered EXCEPT ![id] = [state |-> state, spend |-> spend]]
    /\ UNCHANGED <<sandpits, sandpitCalls>>

Meter(id) ==
    /\ metered[id].state = "running"
    /\ metered[id].spend < MaxMetered
    /\ metered' = [metered EXCEPT ![id].spend = @ + 1]
    /\ UNCHANGED <<sandpits, sandpitCalls>>

SandpitNext ==
    \/ CreateSandpit
    \/ \E s \in DOMAIN sandpits : StartJob(s) \/ DestroySandpit(s)
    \/ \E c \in DOMAIN sandpitCalls :
          \/ SandpitAllowed(c) \/ SandpitDenied(c) \/ Place(c) \/ SandpitMonitorFails(c)
          \/ SandpitReady(c) \/ JobFinishes(c) \/ DestroyFails(c) \/ SandpitDestroyed(c)
          \/ \E yes \in BOOLEAN : PlaceFails(c, yes) \/ Destroyed(c, yes)
    \/ \E id \in DOMAIN metered :
          \/ Meter(id)
          \/ \E state \in {"running", "stopped", "failed"}, spend \in 0..MaxMetered : MeteredMoves(id, state, spend)

SandpitSpec == SandpitInit /\ [][SandpitNext]_sandpitVars

-----------------------------------------------------------------------------
(***************************************************************************)
(* Properties.                                                             *)
(***************************************************************************)

\* What a session has spent is what its container had when it came up and the cost of every
\* job that ended well, each once, however jobs, and the destruction of the session, overlap.
JobsCountOnce ==
    \A s \in DOMAIN sandpits :
        sandpits[s].spend = MapThenSumSet(LAMBDA id : metered[id].spend, sandpits[s].jobs) + sandpits[s].created
===============================================================================
