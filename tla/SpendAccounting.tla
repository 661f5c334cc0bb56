--------------------------- MODULE SpendAccounting ---------------------------
(***************************************************************************)
(* The way of a cost through one process: the inference stream of          *)
(* src/capix-provider.ts and the ledger of src/spend-cap.ts, the retrying  *)
(* invoker of src/plugin.ts, the turn totals of agent-runtime's            *)
(* runtime.ts, and the two consumers of a turn's events, the driver of     *)
(* auto.ts and the delegation executor of orchestration.ts.                *)
(*                                                                         *)
(* Each session runs one turn, a sequence of requests. A cost is an        *)
(* integer at scale 6; the gateway reports at most one cost per stream.    *)
(* Tool calls, texts and the receipts' other fields are left out.          *)
(***************************************************************************)
EXTENDS Integers, FiniteSets

CONSTANTS
    Sessions,       \* the sessions whose turns share the process
    Drivers,        \* the ones driven by runAutonomous, the others by an executor
    Cap,            \* CAPIX_SPEND_CAP_USD_MINOR
    MaxCost,        \* bound: what one stream may cost
    MaxRequests,    \* bound: requests of one turn, attempts included
    FinalOnly       \* may a stream report its cost in capix.final alone?

ASSUME SessionsAssumption == IsFiniteSet(Sessions) /\ Drivers \subseteq Sessions
ASSUME CapAssumption == Cap \in Nat \ {0}
ASSUME CostAssumption == MaxCost \in Nat
ASSUME RequestsAssumption == MaxRequests \in Nat
ASSUME FinalOnlyAssumption == FinalOnly \in BOOLEAN

VARIABLES
    ledger,   \* spentMinor and warnedAt90 of spend-cap.ts
    billed,   \* what the streams reported, the sum that a ledger should hold
    turns,    \* the turn of each session, from its stream to its totals
    books     \* what the consumer of each turn's events has written down

vars == <<ledger, billed, turns, books>>

\* Where a turn is: between requests, reading a stream that may yet report its
\* cost, reading one that has, with a cost between provider and runtime, with a
\* usage.updated event on its way to the consumer, or over.
Places == {"between", "unreported", "reported", "chunk", "event", "over"}

TurnType == [pc : Places, cost : 0..MaxCost, final : BOOLEAN, total : Nat,
             requests : 0..MaxRequests, aborted : BOOLEAN]

\* costMinor is the tracker's spent, or the delegation's costMinor; stopped is
\* cancelledForCap, or the delegation's abort signal.
BookType == [costMinor : Nat, last : Nat, stopped : BOOLEAN]

Init ==
    /\ ledger = [spent |-> 0, warned |-> FALSE]
    /\ billed = 0
    /\ turns = [s \in Sessions |-> [pc |-> "between", cost |-> 0, final |-> FALSE,
                                    total |-> 0, requests |-> 0, aborted |-> FALSE]]
    /\ books = [s \in Sessions |-> [costMinor |-> 0, last |-> 0, stopped |-> FALSE]]

Exceeded(spent) == spent >= Cap

\* 10 * spent >= 9 * cap, in integers.
At90(spent) == 10 * spent >= 9 * Cap

\* recordSpendCapCost.
Recorded(l, cost) ==
    LET spent == l.spent + cost
    IN  [spent |-> spent, warned |-> l.warned \/ (~Exceeded(spent) /\ At90(spent))]

Move(s, place) == turns' = [turns EXCEPT ![s].pc = place]

\* Mutant: the cap is not asserted.
RequestUnchecked(s) ==
    /\ turns[s].pc = "between"
    /\ ~turns[s].aborted
    /\ turns[s].requests < MaxRequests
    /\ turns' = [turns EXCEPT ![s].pc = "unreported", ![s].requests = @ + 1]
    /\ UNCHANGED <<ledger, billed, books>>

\* doRequest: assertSpendCapNotExceeded, then the fetch is issued.
Request(s) ==
    /\ turns[s].pc = "between"
    /\ ~turns[s].aborted
    /\ turns[s].requests < MaxRequests
    /\ ~Exceeded(ledger.spent)
    /\ turns' = [turns EXCEPT ![s].pc = "unreported", ![s].requests = @ + 1]
    /\ UNCHANGED <<ledger, billed, books>>

\* doRequest throws SpendCapReachedError, which no attempt retries.
RequestRefused(s) ==
    /\ turns[s].pc = "between"
    /\ ~turns[s].aborted
    /\ Exceeded(ledger.spent)
    /\ Move(s, "over")
    /\ UNCHANGED <<ledger, billed, books>>

\* A standalone capix.usage event: the ledger is fed, the chunk goes up.
StreamReportsUsage(s) ==
    /\ turns[s].pc = "unreported"
    /\ \E cost \in 1..MaxCost :
           /\ ledger' = Recorded(ledger, cost)
           /\ billed' = billed + cost
           /\ turns' = [turns EXCEPT ![s].pc = "chunk", ![s].cost = cost,
                                     ![s].final = FALSE]
    /\ UNCHANGED books

\* capix.final with finalUsage and no usage event before it: the chunk goes up.
StreamReportsFinal(s) ==
    /\ FinalOnly
    /\ turns[s].pc = "unreported"
    /\ \E cost \in 1..MaxCost :
           /\ billed' = billed + cost
           /\ turns' = [turns EXCEPT ![s].pc = "chunk", ![s].cost = cost,
                                     ![s].final = TRUE]
    /\ UNCHANGED <<ledger, books>>

\* sendMessage takes the chunk: an aborted turn leaves its loop, another one adds
\* the cost to its total and yields usage.updated with the total.
TurnCountsUsage(s) ==
    /\ turns[s].pc = "chunk"
    /\ turns' = [turns EXCEPT ![s].pc = IF turns[s].aborted THEN "over" ELSE "event",
                              ![s].total = IF turns[s].aborted THEN @
                                           ELSE @ + turns[s].cost]
    /\ UNCHANGED <<ledger, billed, books>>

\* The stream goes on after its cost, unless the cost came with the end.
AfterEvent(t) == IF t.final THEN "between" ELSE "reported"

\* Mutant: the tracker is fed the cumulative cost.
DriverConsumesTotal(s) ==
    LET spent == books[s].costMinor + turns[s].total
    IN  /\ s \in Drivers
        /\ turns[s].pc = "event"
        /\ books' = [books EXCEPT ![s].costMinor = spent, ![s].last = turns[s].total,
                                  ![s].stopped = @ \/ Exceeded(spent)]
        /\ turns' = [turns EXCEPT ![s].pc = AfterEvent(turns[s]),
                                  ![s].aborted = @ \/ Exceeded(spent)]
        /\ UNCHANGED <<ledger, billed>>

\* Mutant: reaching the cap is only written to the transcript.
DriverWarnsOnly(s) ==
    LET spent == books[s].costMinor + turns[s].total - books[s].last
    IN  /\ s \in Drivers
        /\ turns[s].pc = "event"
        /\ books' = [books EXCEPT ![s].costMinor = spent, ![s].last = turns[s].total]
        /\ Move(s, AfterEvent(turns[s]))
        /\ UNCHANGED <<ledger, billed>>

\* runAutonomous: the delta to the last cumulative cost goes to the tracker; the
\* one that reaches the cap cancels the turn before it is pulled again.
DriverConsumes(s) ==
    LET delta == turns[s].total - books[s].last
        spent == books[s].costMinor + delta
        stop == delta > 0 /\ Exceeded(spent)
    IN  /\ s \in Drivers
        /\ turns[s].pc = "event"
        /\ books' = [books EXCEPT ![s] = [costMinor |-> spent, last |-> turns[s].total,
                                          stopped |-> @.stopped \/ stop]]
        /\ turns' = [turns EXCEPT ![s].pc = AfterEvent(turns[s]),
                                  ![s].aborted = @ \/ (stop /\ ~books[s].stopped)]
        /\ UNCHANGED <<ledger, billed>>

\* createRuntimeExecutor: the event's cost goes to recordUsage, which adds it to
\* the delegation's; an aborted delegation leaves the loop.
ExecutorConsumes(s) ==
    /\ s \notin Drivers
    /\ turns[s].pc = "event"
    /\ IF books[s].stopped
       THEN Move(s, "over") /\ UNCHANGED books
       ELSE /\ Move(s, AfterEvent(turns[s]))
            /\ books' = [books EXCEPT ![s].costMinor = @ + turns[s].total]
    /\ UNCHANGED <<ledger, billed>>

\* cancelDelegation aborts the executor's signal.
DelegationCancelled(s) ==
    /\ s \notin Drivers
    /\ ~books[s].stopped
    /\ turns[s].pc # "over"
    /\ books' = [books EXCEPT ![s].stopped = TRUE]
    /\ UNCHANGED <<ledger, billed, turns>>

\* The stream ends; or it fails with a transient error and nothing emitted yet,
\* and the invoker will ask again. An aborted one is not asked again.
StreamEnds(s) ==
    /\ turns[s].pc \in {"unreported", "reported"}
    /\ Move(s, IF turns[s].aborted THEN "over" ELSE "between")
    /\ UNCHANGED <<ledger, billed, books>>

\* The turn completes, fails, or notices that it was aborted.
TurnEnds(s) ==
    /\ turns[s].pc \in {"between", "unreported", "reported"}
    /\ Move(s, "over")
    /\ UNCHANGED <<ledger, billed, books>>

Next ==
    \E s \in Sessions :
        \/ Request(s)
        \/ RequestRefused(s)
        \/ StreamReportsUsage(s)
        \/ StreamReportsFinal(s)
        \/ TurnCountsUsage(s)
        \/ DriverConsumes(s)
        \/ ExecutorConsumes(s)
        \/ DelegationCancelled(s)
        \/ StreamEnds(s)
        \/ TurnEnds(s)

Spec == Init /\ [][Next]_vars

-----------------------------------------------------------------------------
(***************************************************************************)
(* Properties.                                                             *)
(***************************************************************************)

TypeOK ==
    /\ ledger \in [spent : Nat, warned : BOOLEAN]
    /\ billed \in Nat
    /\ turns \in [Sessions -> TurnType]
    /\ books \in [Sessions -> BookType]

\* What is admitted below the cap is paid after it: the ledger overshoots the cap
\* by less than one stream's cost per session that shares the process, however
\* their checks and costs interleave.
OvershootBounded == ledger.spent < Cap + Cardinality(Sessions) * MaxCost

\* "the delta since the previous event so spend is counted once": the driver's
\* tracker holds what its turn has counted, but for an event under way.
TrackerCountsOnce ==
    \A s \in Drivers :
        books[s].costMinor =
            turns[s].total - (IF turns[s].pc = "event" THEN turns[s].cost ELSE 0)

\* A driver whose tracker reached the cap issues no request any more, even where
\* the process ledger missed costs and would still admit one.
DriverStopsAtCap ==
    [][\A s \in Drivers : Exceeded(books[s].costMinor) =>
           turns'[s].requests = turns[s].requests]_vars

\* "Every inference stream feeds its real receipt cost into this ledger."
LedgerIsBilled == ledger.spent = billed

\* The cost tracked for a delegation is never more than its turn's.
DelegationCostIsTurnCost ==
    \A s \in Sessions \ Drivers : books[s].costMinor <= turns[s].total
==============================================================================
