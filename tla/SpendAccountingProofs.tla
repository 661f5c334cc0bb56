------------------------ MODULE SpendAccountingProofs ------------------------
(***************************************************************************)
(* Proofs about SpendAccounting, for any sessions, drivers, cap, costs and *)
(* numbers of requests: the types, the bound on the ledger's overshoot,    *)
(* and what the driver's tracker holds and stops.                          *)
(*                                                                         *)
(* The bound on the overshoot is not inductive. What is: the ledger, with  *)
(* the most that each stream still unreported may cost on top, stays below *)
(* the cap plus one stream per session. A request is admitted only below   *)
(* the cap, so all the streams together keep within that.                  *)
(***************************************************************************)
EXTENDS SpendAccounting, FiniteSetTheorems, TLAPS

\* The sessions whose stream may yet report its cost.
Unreported == {s \in Sessions : turns[s].pc = "unreported"}

\* The cap and one stream per session.
Budget == Cap + MaxCost * Cardinality(Sessions)

\* What is spent and what may yet be reported is within the budget.
BudgetInv == ledger.spent + MaxCost * Cardinality(Unreported) < Budget

\* What a driver has written down was counted before, and at the cap its turn is
\* aborted.
DriverInv ==
    \A s \in Drivers :
        /\ books[s].last = books[s].costMinor
        /\ books[s].stopped => turns[s].aborted
        /\ Exceeded(books[s].costMinor) => turns[s].aborted

\* The inductive invariant.
IInv == TypeOK /\ BudgetInv /\ TrackerCountsOnce /\ DriverInv

-----------------------------------------------------------------------------
(***************************************************************************)
(* Arithmetic and cardinalities.                                           *)
(***************************************************************************)

\* Multiplication by a natural is monotonic.
LEMMA TimesMonotonic ==
    ASSUME NEW m \in Nat, NEW a \in Nat, NEW b \in Nat, a <= b
    PROVE  m * a \in Nat /\ m * a <= m * b
<1> DEFINE k == b - a
<1>1. k \in Nat /\ b = a + k
  OBVIOUS
<1>2. m * b = m * a + m * k
  BY <1>1
<1>3. m * a \in Nat /\ m * k \in Nat
  BY <1>1
<1> QED
  BY <1>2, <1>3

\* Sets of sessions are finite, and no larger than all of them.
LEMMA SessionSets ==
    ASSUME NEW S \in SUBSET Sessions
    PROVE  /\ IsFiniteSet(S) /\ Cardinality(S) \in Nat
           /\ Cardinality(Sessions) \in Nat
           /\ Cardinality(S) <= Cardinality(Sessions)
BY FS_Subset, FS_CardinalityType, SessionsAssumption

\* Without a new stream and without a new cost the budget holds on.
LEMMA BudgetKept ==
    ASSUME TypeOK, TypeOK', BudgetInv,
           ledger'.spent = ledger.spent, Unreported' \subseteq Unreported
    PROVE  BudgetInv'
<1>1. Unreported \in SUBSET Sessions /\ Unreported' \in SUBSET Sessions
  BY DEF Unreported
<1>2. /\ Cardinality(Unreported) \in Nat /\ Cardinality(Unreported') \in Nat
      /\ Cardinality(Unreported') <= Cardinality(Unreported)
      /\ Cardinality(Sessions) \in Nat
  BY <1>1, SessionSets, FS_Subset
<1>3. MaxCost * Cardinality(Unreported') <= MaxCost * Cardinality(Unreported)
  BY <1>2, TimesMonotonic, CostAssumption
<1>4. /\ MaxCost * Cardinality(Unreported') \in Nat
      /\ MaxCost * Cardinality(Unreported) \in Nat
      /\ MaxCost * Cardinality(Sessions) \in Nat
  BY <1>2, TimesMonotonic, CostAssumption
<1>5. ledger.spent \in Nat
  BY DEF TypeOK
<1> HIDE DEF Unreported
<1> QED
  BY <1>3, <1>4, <1>5, CapAssumption DEF BudgetInv, Budget

\* A stream that is admitted below the cap fits into the budget.
LEMMA BudgetOfRequest ==
    ASSUME TypeOK, TypeOK', ~Exceeded(ledger.spent),
           ledger'.spent = ledger.spent
    PROVE  BudgetInv'
<1>1. Unreported' \in SUBSET Sessions
  BY DEF Unreported
<1>2. /\ Cardinality(Unreported') \in Nat /\ Cardinality(Sessions) \in Nat
      /\ Cardinality(Unreported') <= Cardinality(Sessions)
  BY <1>1, SessionSets
<1>3. /\ MaxCost * Cardinality(Unreported') <= MaxCost * Cardinality(Sessions)
      /\ MaxCost * Cardinality(Unreported') \in Nat
      /\ MaxCost * Cardinality(Sessions) \in Nat
  BY <1>2, TimesMonotonic, CostAssumption
<1>4. ledger.spent \in Nat
  BY DEF TypeOK
<1> QED
  BY <1>3, <1>4, CapAssumption DEF BudgetInv, Budget, Exceeded

\* A cost takes the place of the most that its stream might have cost.
LEMMA BudgetOfCost ==
    ASSUME TypeOK, BudgetInv, NEW s \in Unreported, NEW cost \in 1..MaxCost,
           ledger'.spent = ledger.spent + cost, Unreported' = Unreported \ {s}
    PROVE  BudgetInv'
<1> DEFINE n == Cardinality(Unreported)
           m == Cardinality(Unreported')
<1>1. Unreported \in SUBSET Sessions
  BY DEF Unreported
<1>2. n \in Nat /\ IsFiniteSet(Unreported) /\ Cardinality(Sessions) \in Nat
  BY <1>1, SessionSets
<1>3. m = n - 1 /\ m \in Nat
  BY <1>2, FS_RemoveElement, FS_CardinalityType
<1>4. MaxCost * n = MaxCost * m + MaxCost
  <2> HIDE DEF n, m
  <2> QED
    BY <1>2, <1>3, CostAssumption
<1>5. /\ MaxCost * n \in Nat /\ MaxCost * m \in Nat
      /\ MaxCost * Cardinality(Sessions) \in Nat
  BY <1>2, <1>3, TimesMonotonic, CostAssumption
<1>6. ledger.spent \in Nat
  BY DEF TypeOK
<1>7. ledger.spent + MaxCost * n < Budget
  BY DEF BudgetInv
<1>8. ledger'.spent + MaxCost * m < Budget
  <2> HIDE DEF n, m
  <2> QED
    BY <1>4, <1>5, <1>6, <1>7, CapAssumption, CostAssumption DEF Budget
<1> QED
  BY <1>8 DEF BudgetInv, Budget

-----------------------------------------------------------------------------
(***************************************************************************)
(* The inductive invariant.                                                *)
(***************************************************************************)

\* The invariant holds before the first request.
LEMMA InitIInv == Init => IInv
<1> SUFFICES ASSUME Init PROVE IInv
  OBVIOUS
<1>1. TypeOK
  BY CapAssumption, CostAssumption, RequestsAssumption
  DEF Init, TypeOK, TurnType, BookType, Places
<1>2. BudgetInv
  <2>1. Unreported = {}
    BY DEF Init, Unreported
  <2>2. Cardinality(Unreported) = 0
    BY <2>1, FS_EmptySet
  <2>3. Cardinality(Sessions) \in Nat
    BY SessionSets
  <2>4. MaxCost * Cardinality(Sessions) \in Nat
    BY <2>3, CostAssumption
  <2> QED
    BY <2>2, <2>4, CostAssumption, CapAssumption DEF Init, BudgetInv, Budget
<1>3. TrackerCountsOnce
  BY SessionsAssumption DEF Init, TrackerCountsOnce
<1>4. DriverInv
  BY SessionsAssumption, CapAssumption DEF Init, DriverInv, Exceeded
<1> QED
  BY <1>1, <1>2, <1>3, <1>4 DEF IInv

\* A step that only moves one turn, and no driver's turn to or from an event.
LEMMA OneTurnMoves ==
    ASSUME IInv, NEW s \in Sessions, NEW t \in TurnType,
           turns' = [turns EXCEPT ![s] = t], UNCHANGED books,
           t.total = turns[s].total, t.aborted = turns[s].aborted,
           turns[s].pc # "event", t.pc # "event"
    PROVE  /\ turns' \in [Sessions -> TurnType]
           /\ TrackerCountsOnce' /\ DriverInv'
<1>1. turns' \in [Sessions -> TurnType]
  BY DEF IInv, TypeOK
<1>2. \A x \in Sessions : /\ turns'[x].total = turns[x].total
                          /\ turns'[x].aborted = turns[x].aborted
                          /\ (turns'[x].pc = "event") = (turns[x].pc = "event")
                          /\ turns[x].pc = "event" => turns'[x].cost = turns[x].cost
  BY DEF IInv, TypeOK
<1>3. TrackerCountsOnce'
  BY <1>2, SessionsAssumption DEF IInv, TrackerCountsOnce
<1>4. DriverInv'
  BY <1>2, SessionsAssumption DEF IInv, DriverInv
<1> QED
  BY <1>1, <1>3, <1>4

\* A request is admitted below the cap.
LEMMA RequestStep ==
    ASSUME IInv, NEW s \in Sessions, Request(s)
    PROVE  IInv'
<1> DEFINE t == [turns[s] EXCEPT !.pc = "unreported", !.requests = @ + 1]
<1>1. turns' = [turns EXCEPT ![s] = t] /\ UNCHANGED <<ledger, billed, books>>
  BY DEF Request, IInv, TypeOK
<1>2. t \in TurnType /\ t.total = turns[s].total /\ t.aborted = turns[s].aborted
      /\ turns[s].pc # "event" /\ t.pc # "event"
  BY RequestsAssumption DEF Request, IInv, TypeOK, TurnType, Places
<1> HIDE DEF t
<1>3. turns' \in [Sessions -> TurnType] /\ TrackerCountsOnce' /\ DriverInv'
  BY <1>1, <1>2, OneTurnMoves
<1>4. TypeOK'
  BY <1>1, <1>3 DEF IInv, TypeOK
<1>5. BudgetInv'
  BY <1>1, <1>4, BudgetOfRequest DEF Request, IInv
<1> QED
  BY <1>3, <1>4, <1>5 DEF IInv

\* A turn that ends, or goes on without a cost, leaves all else alone.
LEMMA PlainMoveStep ==
    ASSUME IInv, NEW s \in Sessions, NEW place \in {"between", "over"},
           turns[s].pc # "event", Move(s, place), UNCHANGED <<ledger, billed, books>>
    PROVE  IInv'
<1> DEFINE t == [turns[s] EXCEPT !.pc = place]
<1>1. turns' = [turns EXCEPT ![s] = t]
  BY DEF Move, IInv, TypeOK
<1>2. t \in TurnType /\ t.total = turns[s].total /\ t.aborted = turns[s].aborted
      /\ t.pc \notin {"event", "unreported"}
  BY DEF IInv, TypeOK, TurnType, Places
<1> HIDE DEF t
<1>3. turns' \in [Sessions -> TurnType] /\ TrackerCountsOnce' /\ DriverInv'
  BY <1>1, <1>2, OneTurnMoves
<1>4. TypeOK'
  BY <1>3 DEF IInv, TypeOK
<1>5. Unreported' \subseteq Unreported
  BY <1>1, <1>2 DEF Unreported, IInv, TypeOK
<1>6. BudgetInv'
  BY <1>4, <1>5, BudgetKept DEF IInv
<1> QED
  BY <1>3, <1>4, <1>6 DEF IInv

\* A stream reports its cost, to the ledger too or not.
LEMMA ReportStep ==
    ASSUME IInv, NEW s \in Sessions, StreamReportsUsage(s) \/ StreamReportsFinal(s)
    PROVE  IInv'
<1>1. turns[s].pc = "unreported" /\ UNCHANGED books
  BY DEF StreamReportsUsage, StreamReportsFinal
<1>2. PICK cost \in 1..MaxCost, final \in BOOLEAN :
          /\ ledger' = Recorded(ledger, cost) \/ ledger' = ledger
          /\ billed' = billed + cost
          /\ turns' = [turns EXCEPT ![s].pc = "chunk", ![s].cost = cost,
                                    ![s].final = final]
  BY DEF StreamReportsUsage, StreamReportsFinal
<1> DEFINE t == [turns[s] EXCEPT !.pc = "chunk", !.cost = cost, !.final = final]
<1>3. turns' = [turns EXCEPT ![s] = t]
  BY <1>2 DEF IInv, TypeOK
<1>4. t \in TurnType /\ t.total = turns[s].total /\ t.aborted = turns[s].aborted
      /\ t.pc = "chunk"
  <2>1. turns[s] \in TurnType /\ cost \in 0..MaxCost /\ "chunk" \in Places
    BY CostAssumption DEF IInv, TypeOK, Places
  <2>2. t = [pc |-> "chunk", cost |-> cost, final |-> final, total |-> turns[s].total,
             requests |-> turns[s].requests, aborted |-> turns[s].aborted]
    <3> DEFINE u == [turns[s] EXCEPT !.pc = "chunk"]
               v == [u EXCEPT !.cost = cost]
    <3>1. u = [pc |-> "chunk", cost |-> turns[s].cost, final |-> turns[s].final,
               total |-> turns[s].total, requests |-> turns[s].requests,
               aborted |-> turns[s].aborted]
      BY <2>1 DEF TurnType
    <3>2. v = [pc |-> "chunk", cost |-> cost, final |-> turns[s].final,
               total |-> turns[s].total, requests |-> turns[s].requests,
               aborted |-> turns[s].aborted]
      <4> HIDE DEF u
      <4> QED
        BY <3>1
    <3>3. t = [v EXCEPT !.final = final]
      OBVIOUS
    <3> HIDE DEF v, t
    <3> QED
      BY <3>2, <3>3
  <2> HIDE DEF t
  <2>3. turns[s].total \in Nat /\ turns[s].requests \in 0..MaxRequests
        /\ turns[s].aborted \in BOOLEAN
    BY <2>1 DEF TurnType
  <2> QED
    BY <2>1, <2>2, <2>3 DEF TurnType
<1> HIDE DEF t
<1>5. turns' \in [Sessions -> TurnType] /\ TrackerCountsOnce' /\ DriverInv'
  BY <1>1, <1>3, <1>4, OneTurnMoves
<1>6. cost \in Nat /\ ledger.spent \in Nat /\ billed \in Nat
  BY CostAssumption DEF IInv, TypeOK
<1>7. /\ ledger' \in [spent : Nat, warned : BOOLEAN]
      /\ ledger'.spent = ledger.spent + cost \/ ledger'.spent = ledger.spent
  <2> DEFINE warned == ledger.warned \/ (~Exceeded(ledger.spent + cost)
                                        /\ At90(ledger.spent + cost))
  <2>1. warned \in BOOLEAN
    OBVIOUS
  <2>2. Recorded(ledger, cost) = [spent |-> ledger.spent + cost, warned |-> warned]
    BY DEF Recorded
  <2> HIDE DEF warned
  <2>3. ledger \in [spent : Nat, warned : BOOLEAN]
    BY DEF IInv, TypeOK
  <2> QED
    BY <1>2, <1>6, <2>1, <2>2, <2>3
<1>8. TypeOK'
  BY <1>1, <1>2, <1>5, <1>6, <1>7 DEF IInv, TypeOK
<1>9. Unreported' = Unreported \ {s} /\ s \in Unreported
  BY <1>1, <1>3, <1>4 DEF Unreported, IInv, TypeOK
<1>10. BudgetInv'
  <2>1. CASE ledger'.spent = ledger.spent + cost
    BY <2>1, <1>9, BudgetOfCost DEF IInv
  <2>2. CASE ledger'.spent = ledger.spent
    BY <2>2, <1>8, <1>9, BudgetKept DEF IInv
  <2> QED
    BY <1>7, <2>1, <2>2
<1> QED
  BY <1>5, <1>8, <1>10 DEF IInv

\* The turn takes a chunk, or leaves its loop.
LEMMA CountStep ==
    ASSUME IInv, NEW s \in Sessions, TurnCountsUsage(s)
    PROVE  IInv'
<1>1. CASE turns[s].aborted
  <2>1. Move(s, "over") /\ turns[s].pc = "chunk" /\ UNCHANGED <<ledger, billed, books>>
    BY <1>1 DEF TurnCountsUsage, Move, IInv, TypeOK, TurnType
  <2> QED
    BY <2>1, PlainMoveStep
<1>2. CASE ~turns[s].aborted
  <2> DEFINE t == [turns[s] EXCEPT !.pc = "event", !.total = @ + turns[s].cost]
  <2>1. turns' = [turns EXCEPT ![s] = t] /\ turns[s].pc = "chunk"
        /\ UNCHANGED <<ledger, billed, books>>
    BY <1>2 DEF TurnCountsUsage, IInv, TypeOK
  <2>2. /\ t \in TurnType /\ t.total = turns[s].total + turns[s].cost
        /\ t.aborted = turns[s].aborted /\ t.pc = "event" /\ t.cost = turns[s].cost
        /\ turns[s].total \in Nat /\ turns[s].cost \in Nat
    <3>1. turns[s] \in TurnType /\ "event" \in Places
      BY DEF IInv, TypeOK, Places
    <3>2. turns[s].total \in Nat /\ turns[s].cost \in Nat
      BY <3>1, CostAssumption DEF TurnType
    <3> DEFINE total == turns[s].total + turns[s].cost
    <3>3. t = [turns[s] EXCEPT !.pc = "event", !.total = total] /\ total \in Nat
      BY <3>2
    <3> HIDE DEF t, total
    <3>4. t = [pc |-> "event", cost |-> turns[s].cost, final |-> turns[s].final,
               total |-> total, requests |-> turns[s].requests,
               aborted |-> turns[s].aborted]
      BY <3>1, <3>3 DEF TurnType
    <3>5. /\ turns[s].cost \in 0..MaxCost /\ turns[s].requests \in 0..MaxRequests
          /\ turns[s].final \in BOOLEAN /\ turns[s].aborted \in BOOLEAN
      BY <3>1 DEF TurnType
    <3>6. t \in TurnType
      BY <3>1, <3>3, <3>4, <3>5 DEF TurnType
    <3> QED
      BY <3>2, <3>4, <3>6 DEF total
  <2> HIDE DEF t
  <2>3. TypeOK'
    BY <2>1, <2>2 DEF IInv, TypeOK
  <2>4. Unreported' \subseteq Unreported
    BY <2>1, <2>2 DEF Unreported, IInv, TypeOK
  <2>5. BudgetInv'
    BY <2>1, <2>3, <2>4, BudgetKept DEF IInv
  <2>6. \A x \in Sessions : turns'[x] = IF x = s THEN t ELSE turns[x]
    BY <2>1 DEF IInv, TypeOK
  <2>7. TrackerCountsOnce'
    BY <2>1, <2>2, <2>6, SessionsAssumption DEF IInv, TrackerCountsOnce
  <2>8. DriverInv'
    BY <2>1, <2>2, <2>6, SessionsAssumption DEF IInv, DriverInv
  <2> QED
    BY <2>3, <2>5, <2>7, <2>8 DEF IInv
<1> QED
  BY <1>1, <1>2

\* The driver feeds the difference and cancels at the cap.
LEMMA DriverStep ==
    ASSUME IInv, NEW s \in Sessions, DriverConsumes(s)
    PROVE  IInv'
<1> DEFINE delta == turns[s].total - books[s].last
           spent == books[s].costMinor + delta
           stop == delta > 0 /\ Exceeded(spent)
           t == [turns[s] EXCEPT !.pc = AfterEvent(turns[s]),
                                 !.aborted = @ \/ (stop /\ ~books[s].stopped)]
           b == [costMinor |-> spent, last |-> turns[s].total,
                 stopped |-> books[s].stopped \/ stop]
<1>1. /\ s \in Drivers /\ turns[s].pc = "event" /\ UNCHANGED <<ledger, billed>>
      /\ turns' = [turns EXCEPT ![s] = t] /\ books' = [books EXCEPT ![s] = b]
  BY DEF DriverConsumes, IInv, TypeOK
<1>2. turns[s] \in TurnType /\ books[s] \in BookType
  BY DEF IInv, TypeOK
<1>3. /\ books[s].last = books[s].costMinor
      /\ books[s].stopped => turns[s].aborted
      /\ Exceeded(books[s].costMinor) => turns[s].aborted
  BY <1>1 DEF IInv, DriverInv
<1>4. spent = turns[s].total /\ turns[s].total \in Nat
  BY <1>2, <1>3 DEF TurnType, BookType
<1>5. Exceeded(spent) => stop \/ turns[s].aborted
  <2>1. CASE delta > 0
    BY <2>1
  <2>2. CASE ~(delta > 0)
    <3>1. spent <= books[s].costMinor /\ books[s].costMinor \in Nat
      BY <2>2, <1>2, <1>4 DEF TurnType, BookType
    <3>2. Exceeded(spent) => Exceeded(books[s].costMinor)
      BY <3>1, <1>4, CapAssumption DEF Exceeded
    <3> QED
      BY <3>2, <1>3
  <2> QED
    BY <2>1, <2>2
<1>6. stop \in BOOLEAN /\ AfterEvent(turns[s]) \in {"between", "reported"}
  BY DEF AfterEvent
<1> HIDE DEF delta, spent, stop
<1>7. t \in TurnType /\ t.pc \in {"between", "reported"} /\ t.total = turns[s].total
      /\ (t.aborted <=> turns[s].aborted \/ (stop /\ ~books[s].stopped))
  BY <1>2, <1>6 DEF TurnType, Places
<1>8. b \in BookType /\ b.costMinor = spent /\ b.last = turns[s].total
      /\ (b.stopped <=> books[s].stopped \/ stop)
  BY <1>2, <1>4, <1>6 DEF BookType
<1> HIDE DEF t, b
<1>9. TypeOK'
  BY <1>1, <1>7, <1>8 DEF IInv, TypeOK
<1>10. /\ \A x \in Sessions : turns'[x] = IF x = s THEN t ELSE turns[x]
       /\ \A x \in Sessions : books'[x] = IF x = s THEN b ELSE books[x]
  BY <1>1 DEF IInv, TypeOK
<1>11. BudgetInv'
  <2>1. Unreported' \subseteq Unreported
    BY <1>7, <1>10 DEF Unreported
  <2> QED
    BY <2>1, <1>1, <1>9, BudgetKept DEF IInv
<1>12. TrackerCountsOnce'
  BY <1>4, <1>7, <1>8, <1>10, SessionsAssumption DEF IInv, TrackerCountsOnce
<1>13. DriverInv'
  BY <1>3, <1>4, <1>5, <1>7, <1>8, <1>10, SessionsAssumption DEF IInv, DriverInv
<1> QED
  BY <1>9, <1>11, <1>12, <1>13 DEF IInv

\* An executor's step, or a cancelled delegation, concerns no driver.
LEMMA ExecutorStep ==
    ASSUME IInv, NEW s \in Sessions, ExecutorConsumes(s) \/ DelegationCancelled(s)
    PROVE  IInv'
<1>1. turns[s] \in TurnType /\ books[s] \in BookType /\ s \notin Drivers
      /\ UNCHANGED <<ledger, billed>>
  BY DEF IInv, TypeOK, ExecutorConsumes, DelegationCancelled
<1>2. PICK place \in Places \ {"unreported"}, b \in BookType :
          /\ turns' = [turns EXCEPT ![s].pc = place] \/ turns' = turns
          /\ books' = [books EXCEPT ![s] = b]
  <2>1. CASE DelegationCancelled(s)
    <3> DEFINE b == [books[s] EXCEPT !.stopped = TRUE]
    <3>1. b \in BookType
      BY <1>1 DEF BookType
    <3>2. books' = [books EXCEPT ![s] = b] /\ turns' = turns
      BY <2>1 DEF DelegationCancelled, IInv, TypeOK
    <3>3. "over" \in Places \ {"unreported"}
      BY DEF Places
    <3> QED
      BY <3>1, <3>2, <3>3
  <2>2. CASE ExecutorConsumes(s) /\ books[s].stopped
    <3>1. turns' = [turns EXCEPT ![s].pc = "over"] /\ books' = [books EXCEPT ![s] = books[s]]
      BY <2>2 DEF ExecutorConsumes, Move, IInv, TypeOK
    <3>2. "over" \in Places \ {"unreported"}
      BY DEF Places
    <3> QED
      BY <3>1, <3>2, <1>1
  <2>3. CASE ExecutorConsumes(s) /\ ~books[s].stopped
    <3> DEFINE b == [books[s] EXCEPT !.costMinor = @ + turns[s].total]
    <3>1. b \in BookType
      BY <1>1 DEF BookType, TurnType
    <3>2. turns' = [turns EXCEPT ![s].pc = AfterEvent(turns[s])]
          /\ books' = [books EXCEPT ![s] = b]
      BY <2>3 DEF ExecutorConsumes, Move, IInv, TypeOK
    <3>3. AfterEvent(turns[s]) \in Places \ {"unreported"}
      BY DEF AfterEvent, Places
    <3> QED
      BY <3>1, <3>2, <3>3
  <2> QED
    BY <2>1, <2>2, <2>3
<1>3. TypeOK'
  BY <1>1, <1>2 DEF IInv, TypeOK, TurnType
<1>4. \A x \in Sessions : x # s => turns'[x] = turns[x] /\ books'[x] = books[x]
  BY <1>2 DEF IInv, TypeOK
<1>5. Unreported' \subseteq Unreported
  BY <1>1, <1>2, <1>4 DEF Unreported, IInv, TypeOK, TurnType
<1>6. BudgetInv'
  BY <1>1, <1>3, <1>5, BudgetKept DEF IInv
<1>7. TrackerCountsOnce'
  BY <1>1, <1>4, SessionsAssumption DEF IInv, TrackerCountsOnce
<1>8. DriverInv'
  BY <1>1, <1>4, SessionsAssumption DEF IInv, DriverInv
<1> QED
  BY <1>3, <1>6, <1>7, <1>8 DEF IInv

\* Every step keeps the invariant: one case per action.
LEMMA NextIInv == IInv /\ [Next]_vars => IInv'
<1> SUFFICES ASSUME IInv, [Next]_vars PROVE IInv'
  OBVIOUS
<1>1. CASE UNCHANGED vars
  BY <1>1 DEF vars, IInv, TypeOK, BudgetInv, Unreported, TrackerCountsOnce, DriverInv
<1>2. CASE Next
  <2> PICK s \in Sessions :
        \/ Request(s) \/ RequestRefused(s) \/ StreamReportsUsage(s)
        \/ StreamReportsFinal(s) \/ TurnCountsUsage(s) \/ DriverConsumes(s)
        \/ ExecutorConsumes(s) \/ DelegationCancelled(s) \/ StreamEnds(s)
        \/ TurnEnds(s)
    BY <1>2 DEF Next
  <2>1. CASE Request(s)
    BY <2>1, RequestStep
  <2>2. CASE RequestRefused(s) \/ StreamEnds(s) \/ TurnEnds(s)
    <3>1. PICK place \in {"between", "over"} :
              Move(s, place) /\ turns[s].pc # "event" /\ UNCHANGED <<ledger, billed, books>>
      BY <2>2 DEF RequestRefused, StreamEnds, TurnEnds
    <3> QED
      BY <3>1, PlainMoveStep
  <2>3. CASE StreamReportsUsage(s) \/ StreamReportsFinal(s)
    BY <2>3, ReportStep
  <2>4. CASE TurnCountsUsage(s)
    BY <2>4, CountStep
  <2>5. CASE DriverConsumes(s)
    BY <2>5, DriverStep
  <2>6. CASE ExecutorConsumes(s) \/ DelegationCancelled(s)
    BY <2>6, ExecutorStep
  <2> QED
    BY <2>1, <2>2, <2>3, <2>4, <2>5, <2>6
<1> QED
  BY <1>1, <1>2

-----------------------------------------------------------------------------
(***************************************************************************)
(* Theorems.                                                               *)
(***************************************************************************)

\* In every reachable state the types hold, the streams under way fit into the
\* budget, and the drivers' trackers hold what their turns have counted.
THEOREM IInvHolds == Spec => []IInv
<1>1. Init => IInv
  BY InitIInv
<1>2. IInv /\ [Next]_vars => IInv'
  BY NextIInv
<1> QED
  BY <1>1, <1>2, PTL DEF Spec

\* The ledger of src/spend-cap.ts never reaches the cap plus what one stream of
\* each session may cost, for any number of sessions.
THEOREM OvershootIsBounded == Spec => []OvershootBounded
<1>1. IInv => OvershootBounded
  <2> SUFFICES ASSUME IInv PROVE OvershootBounded
    OBVIOUS
  <2>1. Unreported \in SUBSET Sessions
    BY DEF Unreported
  <2>2. Cardinality(Unreported) \in Nat /\ Cardinality(Sessions) \in Nat
    BY <2>1, SessionSets
  <2>3. MaxCost * Cardinality(Unreported) \in Nat
    BY <2>2, TimesMonotonic, CostAssumption
  <2>4. MaxCost * Cardinality(Sessions) = Cardinality(Sessions) * MaxCost
        /\ MaxCost * Cardinality(Sessions) \in Nat
    BY <2>2, TimesMonotonic, CostAssumption
  <2>5. ledger.spent \in Nat
    BY DEF IInv, TypeOK
  <2> HIDE DEF Unreported
  <2> QED
    BY <2>3, <2>4, <2>5, CapAssumption DEF IInv, BudgetInv, Budget, OvershootBounded
<1> QED
  BY <1>1, IInvHolds, PTL

\* The SpendTracker of auto.ts holds each cost that its turn has counted, once.
THEOREM TrackedOnce == Spec => []TrackerCountsOnce
<1>1. IInv => TrackerCountsOnce
  BY DEF IInv
<1> QED
  BY <1>1, IInvHolds, PTL

\* A driver whose tracker has reached the cap issues no request any more, for it
\* has aborted its turn.
THEOREM DriversStop == Spec => DriverStopsAtCap
<1>1. IInv /\ [Next]_vars =>
          [\A s \in Drivers : Exceeded(books[s].costMinor) =>
               turns'[s].requests = turns[s].requests]_vars
  <2> SUFFICES ASSUME IInv, Next, NEW s \in Drivers, Exceeded(books[s].costMinor)
               PROVE  turns'[s].requests = turns[s].requests
    OBVIOUS
  <2>1. turns[s].aborted /\ s \in Sessions
    BY SessionsAssumption DEF IInv, DriverInv
  <2>2. PICK x \in Sessions :
        \/ Request(x) \/ RequestRefused(x) \/ StreamReportsUsage(x)
        \/ StreamReportsFinal(x) \/ TurnCountsUsage(x) \/ DriverConsumes(x)
        \/ ExecutorConsumes(x) \/ DelegationCancelled(x) \/ StreamEnds(x)
        \/ TurnEnds(x)
    BY DEF Next
  <2>3. CASE Request(x)
    BY <2>1, <2>3 DEF Request, IInv, TypeOK
  <2>4. CASE \/ RequestRefused(x) \/ StreamEnds(x) \/ TurnEnds(x)
             \/ TurnCountsUsage(x) \/ DelegationCancelled(x)
    BY <2>1, <2>4 DEF RequestRefused, StreamEnds, TurnEnds, TurnCountsUsage,
       DelegationCancelled, Move, IInv, TypeOK, TurnType
  <2>5. CASE StreamReportsUsage(x) \/ StreamReportsFinal(x)
    <3>1. PICK cost \in 1..MaxCost, final \in BOOLEAN :
              turns' = [turns EXCEPT ![x].pc = "chunk", ![x].cost = cost,
                                     ![x].final = final]
      BY <2>5 DEF StreamReportsUsage, StreamReportsFinal
    <3>2. turns[s] \in TurnType /\ turns[x] \in TurnType
      BY <2>1 DEF IInv, TypeOK
    <3> QED
      BY <2>1, <3>1, <3>2 DEF IInv, TypeOK, TurnType
  <2>6. CASE DriverConsumes(x) \/ ExecutorConsumes(x)
    BY <2>1, <2>6 DEF DriverConsumes, ExecutorConsumes, Move, IInv, TypeOK, TurnType
  <2> QED
    BY <2>2, <2>3, <2>4, <2>5, <2>6
<1> QED
  BY <1>1, IInvHolds, PTL DEF Spec, DriverStopsAtCap
==============================================================================
