----------------------------- MODULE AtomicEdits -----------------------------
(***************************************************************************)
(* AtomicEditPlanner of src/src/editing/atomic-edit-planner.ts: one plan   *)
(* of changes to several files, reviewed file by file (the session of      *)
(* edit-preview.ts hands every call on), applied with a rollback when a    *)
(* write fails, and rolled back on demand.                                 *)
(*                                                                         *)
(* The writes are awaited one by one; nothing keeps the reviewer from      *)
(* calling in between, and other programs write the same files. A file is  *)
(* as it was planned from, as proposed, absent, half written or somebody   *)
(* else's. Hunks are in EditHunks.                                         *)
(***************************************************************************)
EXTENDS Integers, SequencesExt

CONSTANTS
    NumFiles,  \* files of the plan, in its order
    MaxCalls   \* bound: calls of apply and of rollback

VARIABLES
    disk,      \* what each file holds
    plan,      \* AtomicEditPlan: files with their decisions, status, appliedPaths
    applying,  \* apply: files still to write, and whether it runs
    restoring, \* rollback, called by apply and by the reviewer
    upset      \* what happened that no code of the planner looks for

editVars == <<disk, plan, applying, restoring, upset>>

Files == 1..NumFiles
Contents == {"old", "new", "absent", "torn", "foreign"}
Decisions == {"pending", "accepted", "rejected"}
Callers == {"apply", "reviewer"}
NotRunning == [on |-> FALSE, todo |-> <<>>, failed |-> FALSE]

\* plan() reads every file before anything is written; a proposal of null deletes.
\* A file that exists or not, and what is proposed for it.
EditStarts == [original : [Files -> {"old", "absent"}], proposed : [Files -> {"new", "absent"}]]
EditBegins(starts) ==
    /\ \E s \in starts :
           /\ disk = s.original
           /\ plan = [original |-> s.original, proposed |-> s.proposed, status |-> "awaiting-review",
                      decision |-> [f \in Files |-> "pending"], taken |-> <<>>, applied |-> <<>>]
    /\ applying = [on |-> FALSE, todo |-> <<>>]
    /\ restoring = [c \in Callers |-> NotRunning]
    /\ upset = [torn |-> FALSE, foreign |-> FALSE, overlap |-> FALSE, calls |-> 0]

EditInit == EditBegins(EditStarts)

Running == applying.on \/ \E c \in Callers : restoring[c].on

\* accept, reject.
Decide(f, decision) ==
    /\ plan' = [plan EXCEPT !.decision[f] = decision]
    /\ UNCHANGED <<disk, applying, restoring, upset>>

\* acceptAll, rejectAll.
DecideAll(decision) ==
    /\ plan' = [plan EXCEPT !.decision = [f \in Files |-> decision]]
    /\ UNCHANGED <<disk, applying, restoring, upset>>

Called ==
    /\ upset.calls < MaxCalls
    /\ upset' = [upset EXCEPT !.calls = @ + 1, !.overlap = @ \/ Running]

Accepted == {f \in Files : plan.decision[f] = "accepted"}
InOrder(files, q) == ToSet(q) = files /\ \A i, j \in DOMAIN q : i < j => q[i] < q[j]

\* apply, whatever the status is: the decisions of this moment count, in the plan's order.
Apply ==
    /\ ~applying.on
    /\ ~restoring["apply"].on
    /\ Called
    /\ IF Accepted = {}
       THEN plan' = [plan EXCEPT !.status = "rejected"] /\ UNCHANGED applying
       ELSE \E accepted \in [1..Cardinality(Accepted) -> Accepted] :
               /\ InOrder(Accepted, accepted)
               /\ applying' = [on |-> TRUE, todo |-> accepted]
               /\ plan' = [plan EXCEPT !.taken = accepted]
    /\ UNCHANGED <<disk, restoring>>

\* A write or delete is done; after the last one the plan is applied.
ApplyWrites ==
    LET f == Head(applying.todo)
        last == Len(applying.todo) = 1
    IN  /\ applying.on
        /\ disk' = [disk EXCEPT ![f] = plan.proposed[f]]
        /\ plan' = [plan EXCEPT !.applied = Append(@, f), !.status = IF last THEN "applied" ELSE @]
        /\ applying' = [on |-> ~last, todo |-> Tail(applying.todo)]
        /\ UNCHANGED <<restoring, upset>>

\* The status a rollback ends with.
Ended(failed) == IF failed THEN "failed" ELSE "rolled-back"

\* Mutant: the file written last is taken for the one that failed.
StartRestoreShort(caller) ==
    LET todo == IF plan.applied = <<>> THEN <<>> ELSE Reverse(Front(plan.applied))
    IN  /\ restoring' = [restoring EXCEPT ![caller] = [on |-> todo # <<>>, todo |-> todo, failed |-> FALSE]]
        /\ plan' = IF todo = <<>> THEN [plan EXCEPT !.status = Ended(FALSE)] ELSE plan

\* rollback, in reverse order of writing.
StartRestore(caller) ==
    LET todo == Reverse(plan.applied)
    IN  /\ restoring' = [restoring EXCEPT ![caller] = [on |-> todo # <<>>, todo |-> todo, failed |-> FALSE]]
        /\ plan' = IF todo = <<>> THEN [plan EXCEPT !.status = Ended(FALSE)] ELSE plan

\* A write fails and leaves the file alone, or half written; either way its path is
\* not among the applied ones.
ApplyFails(torn) ==
    LET f == Head(applying.todo) IN
    /\ applying.on
    /\ torn => plan.proposed[f] = "new"
    /\ disk' = IF torn THEN [disk EXCEPT ![f] = "torn"] ELSE disk
    /\ upset' = [upset EXCEPT !.torn = @ \/ torn]
    /\ applying' = [on |-> FALSE, todo |-> <<>>]
    /\ StartRestore("apply")

Rollback ==
    /\ ~restoring["reviewer"].on
    /\ Called
    /\ StartRestore("reviewer")
    /\ UNCHANGED <<disk, applying>>

\* One file is restored, or it is not and the others still are.
Restore(caller, ok) ==
    LET f == Head(restoring[caller].todo)
        last == Len(restoring[caller].todo) = 1
        failed == restoring[caller].failed \/ ~ok
    IN  /\ restoring[caller].on
        /\ disk' = IF ok THEN [disk EXCEPT ![f] = plan.original[f]] ELSE disk
        /\ restoring' = [restoring EXCEPT ![caller] =
               IF last THEN NotRunning ELSE [on |-> TRUE, todo |-> Tail(@.todo), failed |-> failed]]
        /\ plan' = IF last THEN [plan EXCEPT !.status = Ended(failed)] ELSE plan
        /\ UNCHANGED <<applying, upset>>

\* Another program writes a file of the plan; nothing compares before it is written over.
ForeignWrite(f) ==
    /\ disk[f] # "foreign"
    /\ disk' = [disk EXCEPT ![f] = "foreign"]
    /\ upset' = [upset EXCEPT !.foreign = TRUE]
    /\ UNCHANGED <<plan, applying, restoring>>

EditNext ==
    \/ \E decision \in {"accepted", "rejected"} :
           DecideAll(decision) \/ \E f \in Files : Decide(f, decision)
    \/ Apply \/ ApplyWrites \/ Rollback
    \/ \E torn \in BOOLEAN : ApplyFails(torn)
    \/ \E caller \in Callers, ok \in BOOLEAN : Restore(caller, ok)
    \/ \E f \in Files : ForeignWrite(f)

EditSpec == EditInit /\ [][EditNext]_editVars

-----------------------------------------------------------------------------
(***************************************************************************)
(* Properties.                                                             *)
(***************************************************************************)

EditTypeOK ==
    /\ disk \in [Files -> Contents]
    /\ plan.status \in {"awaiting-review", "applied", "rolled-back", "rejected", "failed"}
    /\ plan.decision \in [Files -> Decisions]
    /\ plan.applied \in Seq(Files) /\ plan.taken \in Seq(Files)
    /\ applying.todo \in Seq(Files)

Whole ==
    /\ plan.status = "applied" => \A f \in ToSet(plan.taken) : disk[f] = plan.proposed[f]
    /\ plan.status = "rolled-back" => \A f \in Files : disk[f] = plan.original[f]

\* The files a status speaks of are all as it says, over repeated calls of apply and
\* rollback with changing decisions: all that was accepted is written, or nothing is.
\* Left out are a write that fails half way, calls that overlap, and foreign writes.
AllOrNothing == Running \/ upset.torn \/ upset.overlap \/ upset.foreign \/ Whole

\* "if ANY write fails the planner rolls back every file it already touched - the
\* working tree is never left half-edited", one call at a time and no other program.
NeverHalfEdited == Running \/ upset.overlap \/ upset.foreign \/ Whole
===============================================================================
