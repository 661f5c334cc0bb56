------------------------------ MODULE AcpServer ------------------------------
(***************************************************************************)
(* The JSON-RPC server of agent-runtime/src/transport.ts over the methods  *)
(* of runtime.ts that are no turn (AgentRuntime has those), and the tables *)
(* of store.ts that they keep: sessions, plans and diffs.                  *)
(*                                                                         *)
(* handleLine is not awaited: a line runs up to its first await, then the  *)
(* next one does. Methods that await nothing but their own promise are one *)
(* step; diff.apply awaits the reading and the writing of the file, and    *)
(* command.run its process. A file content is the set of the patches in    *)
(* it; a patch may find its context gone. Calls are numbered.              *)
(***************************************************************************)
EXTENDS Integers, FiniteSets, SequencesExt

CONSTANTS
    MaxSessions,  \* bound: sessions
    MaxCalls,     \* bound: calls other than session.list
    PageSize,     \* the limit of session.list
    EditModes,    \* modes whose profile has canEditFiles
    ReadModes,    \* modes that deny edits and commands
    Roles         \* roles of specialists, each with a mode

VARIABLES
    sessions,   \* rows of the table, the one updated last first
    plans,      \* each plan: the status of its steps
    calls,      \* calls that came in: where they stand, how they were answered, and whether an
                \* error of the file system made them lose what was in the file
    workspace,  \* the content of the file that patches are for
    diffs,      \* rows of the table diffs: before and after, and the call they are of
    pager,      \* a client that reads the list of sessions page by page
    open        \* the process is up: the input is open, and so is the database

acpVars == <<sessions, plans, calls, workspace, diffs, pager, open>>

Modes == EditModes \cup ReadModes
NoParent == 0
StepStatuses == {"pending", "in-progress", "completed"}

Known == {sessions[k].id : k \in DOMAIN sessions}
Place(id) == CHOOSE k \in DOMAIN sessions : sessions[k].id = id
Row(id) == sessions[Place(id)]
NextSession == Len(sessions) + 1
NextCall == Len(calls) + 1

AcpInit ==
    /\ sessions = <<>>
    /\ plans = <<>>
    /\ calls = <<>>
    /\ workspace = {}
    /\ diffs = <<>>
    /\ pager = [reading |-> FALSE, offset |-> 0, seen |-> {}, untouched |-> {}]
    /\ open = TRUE

\* A call is answered in the step in which it came.
Answer(outcome) ==
    /\ open
    /\ Len(calls) < MaxCalls
    /\ calls' = Append(calls, [method |-> "other", at |-> "answered",
                               outcome |-> outcome, base |-> {},
                               overlapped |-> FALSE, loses |-> FALSE])

\* updateSession with updated_at: the row moves to the front of the list.
Touch(row) ==
    /\ LET k == Place(row.id)
       IN  sessions' = [j \in DOMAIN sessions |-> CASE j = 1 -> row
                                                   [] j # 1 /\ j <= k -> sessions[j - 1]
                                                   [] OTHER -> sessions[j]]
    /\ pager' = [pager EXCEPT !.untouched = @ \ {row.id}]

-----------------------------------------------------------------------------
\* Sessions.

Insert(id, mode, parent) ==
    /\ sessions' = <<[id |-> id, status |-> "active", mode |-> mode, parent |-> parent]>> \o sessions
    /\ UNCHANGED pager

CreateSession(mode) ==
    /\ NextSession <= MaxSessions
    /\ Answer("result")
    /\ Insert(NextSession, mode, NoParent)
    /\ UNCHANGED <<plans, workspace, diffs, open>>

\* specialist.spawn: a session of the parent's, in the mode of its role.
CreateChildSession(parent, role) ==
    /\ parent \in Known
    /\ NextSession <= MaxSessions
    /\ Answer("result")
    /\ Insert(NextSession, Roles[role], parent)
    /\ UNCHANGED <<plans, workspace, diffs, open>>

\* session.resume, message.cancel and session.dispose; cancelTurn and disposeSession
\* abort the turn in AgentRuntime.
SetStatus(id, status) ==
    /\ id \in Known
    /\ Answer("result")
    /\ Touch([Row(id) EXCEPT !.status = status])
    /\ UNCHANGED <<plans, workspace, diffs, open>>

SetMode(id, mode) ==
    /\ id \in Known
    /\ Answer("result")
    /\ Touch([Row(id) EXCEPT !.mode = mode])
    /\ UNCHANGED <<plans, workspace, diffs, open>>

\* model.select of the one model there is, and workspace.attach of a directory.
Attach(id) ==
    /\ id \in Known
    /\ Answer("result")
    /\ Touch(Row(id))
    /\ UNCHANGED <<plans, workspace, diffs, open>>

\* An unknown session, plan, step, role, model, method or mode, a session id in use, a
\* line that does not parse: an error, and nothing is changed.
Refuse ==
    /\ Answer("error")
    /\ UNCHANGED <<sessions, plans, workspace, diffs, pager, open>>

\* Mutant: the cursor of the next page is one row too far.
FirstPageSkipping ==
    /\ open
    /\ pager' = [reading |-> Len(sessions) > PageSize, offset |-> PageSize + 1,
                 seen |-> {sessions[k].id : k \in 1..Len(sessions) \cap 1..PageSize},
                 untouched |-> Known]
    /\ UNCHANGED <<sessions, plans, calls, workspace, diffs, open>>

\* listSessions from the start: one row more than the limit tells whether a page follows.
FirstPage ==
    /\ open
    /\ pager' = [reading |-> Len(sessions) > PageSize, offset |-> PageSize,
                 seen |-> {sessions[k].id : k \in 1..Len(sessions) \cap 1..PageSize},
                 untouched |-> Known]
    /\ UNCHANGED <<sessions, plans, calls, workspace, diffs, open>>

\* listSessions from a cursor, which is an offset.
NextPage ==
    /\ open
    /\ pager.reading
    /\ LET page == pager.offset + 1..pager.offset + PageSize
       IN  pager' = [pager EXCEPT !.reading = Len(sessions) > pager.offset + PageSize,
                                  !.offset = @ + PageSize,
                                  !.seen = @ \cup {sessions[k].id : k \in DOMAIN sessions \cap page}]
    /\ UNCHANGED <<sessions, plans, calls, workspace, diffs, open>>

-----------------------------------------------------------------------------
\* Plans. The plan's own status stays "draft".

CreatePlan(id, steps) ==
    /\ id \in Known
    /\ Answer("result")
    /\ plans' = Append(plans, [session |-> id, steps |-> [k \in 1..steps |-> "pending"]])
    /\ UNCHANGED <<sessions, workspace, diffs, pager, open>>

UpdatePlanStep(plan, step, status) ==
    /\ plan \in DOMAIN plans
    /\ step \in DOMAIN plans[plan].steps
    /\ Answer("result")
    /\ plans' = [plans EXCEPT ![plan].steps[step] = status]
    /\ UNCHANGED <<sessions, workspace, diffs, pager, open>>

-----------------------------------------------------------------------------
\* diff.apply and command.run.

InFlight == {c \in DOMAIN calls : calls[c].at # "answered"}
Patching == {c \in InFlight : calls[c].method = "diff.apply"}

Arrives(method) ==
    /\ open
    /\ Len(calls) < MaxCalls
    /\ calls' = Append([c \in DOMAIN calls |-> [calls[c] EXCEPT !.overlapped =
                            @ \/ (method = "diff.apply" /\ c \in Patching)]],
                       [method |-> method, at |-> "begun", outcome |-> "none", base |-> {},
                        overlapped |-> method = "diff.apply" /\ Patching # {}, loses |-> FALSE])

Settle(c, outcome) == calls' = [calls EXCEPT ![c].at = "answered", ![c].outcome = outcome]

\* The mode is checked before the file is read.
ApplyPatch(id) ==
    /\ id \in Known
    /\ Row(id).mode \in EditModes
    /\ Arrives("diff.apply")
    /\ UNCHANGED <<sessions, plans, workspace, diffs, pager, open>>

\* readFile is back, with nothing after any error; the patch fits, or it is a conflict.
PatchRead(c) ==
    /\ calls[c].method = "diff.apply" /\ calls[c].at = "begun"
    /\ \/ \E base \in {workspace, {}} :
              calls' = [calls EXCEPT ![c].at = "read", ![c].base = base, ![c].loses = base # workspace]
       \/ Settle(c, "error")
    /\ UNCHANGED <<sessions, plans, workspace, diffs, pager, open>>

\* writeFile fails, before or after it has emptied the file.
WriteFails(c) ==
    /\ workspace' \in {workspace, {}}
    /\ calls' = [calls EXCEPT ![c].at = "answered", ![c].outcome = "error",
                              ![c].loses = @ \/ workspace' # workspace]

\* Mutant: the patched lines alone are written.
PatchWritesLines(c) ==
    /\ calls[c].method = "diff.apply" /\ calls[c].at = "read"
    /\ \/ /\ workspace' = {c}
          /\ calls' = [calls EXCEPT ![c].at = "written"]
       \/ WriteFails(c)
    /\ UNCHANGED <<sessions, plans, diffs, pager, open>>

\* writeFile puts what was read, with the patch, or fails.
PatchWrites(c) ==
    /\ calls[c].method = "diff.apply" /\ calls[c].at = "read"
    /\ \/ /\ workspace' = calls[c].base \cup {c}
          /\ calls' = [calls EXCEPT ![c].at = "written"]
       \/ WriteFails(c)
    /\ UNCHANGED <<sessions, plans, diffs, pager, open>>

\* insertDiff, which throws when the database is closed.
PatchRecords(c) ==
    /\ calls[c].method = "diff.apply" /\ calls[c].at = "written"
    /\ IF open
       THEN /\ diffs' = Append(diffs, [before |-> calls[c].base, after |-> calls[c].base \cup {c}, call |-> c])
            /\ Settle(c, "result")
       ELSE Settle(c, "error") /\ UNCHANGED diffs
    /\ UNCHANGED <<sessions, plans, workspace, pager, open>>

\* The mode's profile decides on bash; only a denial is final.
RunCommand(id) ==
    /\ id \in Known
    /\ Row(id).mode \in EditModes
    /\ Arrives("command.run")
    /\ UNCHANGED <<sessions, plans, workspace, diffs, pager, open>>

\* The process has ended, or the 30 s are over; recordEvent swallows a closed database.
CommandEnds(c) ==
    /\ calls[c].method = "command.run" /\ calls[c].at = "begun"
    /\ Settle(c, "result")
    /\ UNCHANGED <<sessions, plans, workspace, diffs, pager, open>>

\* The input ends: the runtime is closed, what is in flight goes on.
Close ==
    /\ open
    /\ open' = FALSE
    /\ UNCHANGED <<sessions, plans, calls, workspace, diffs, pager>>

Awaited(c) == PatchRead(c) \/ PatchWrites(c) \/ PatchRecords(c) \/ CommandEnds(c)

AcpNext ==
    \/ \E mode \in Modes : CreateSession(mode)
    \/ \E id \in Known :
           \/ \E role \in DOMAIN Roles : CreateChildSession(id, role)
           \/ \E status \in {"active", "idle", "completed"} : SetStatus(id, status)
           \/ \E mode \in Modes : SetMode(id, mode)
           \/ Attach(id)
           \/ \E steps \in 1..2 : CreatePlan(id, steps)
           \/ ApplyPatch(id)
           \/ RunCommand(id)
    \/ \E plan \in DOMAIN plans, step \in 1..2, status \in StepStatuses : UpdatePlanStep(plan, step, status)
    \/ Refuse \/ FirstPage \/ NextPage \/ Close
    \/ \E c \in DOMAIN calls : Awaited(c)

AcpSpec == AcpInit /\ [][AcpNext]_acpVars

-----------------------------------------------------------------------------
(***************************************************************************)
(* Properties.                                                             *)
(***************************************************************************)

AcpTypeOK ==
    /\ \A k \in DOMAIN sessions :
           sessions[k] \in [id : 1..MaxSessions, status : {"active", "idle", "completed"},
                            mode : Modes, parent : 0..MaxSessions]
    /\ \A k \in DOMAIN plans : plans[k].session \in Known /\ Range(plans[k].steps) \subseteq StepStatuses
    /\ calls \in Seq([method : {"other", "diff.apply", "command.run"},
                      at : {"begun", "read", "written", "answered"},
                      outcome : {"none", "result", "error"}, base : SUBSET (1..MaxCalls),
                      overlapped : BOOLEAN, loses : BOOLEAN])
    /\ workspace \subseteq 1..MaxCalls
    /\ diffs \in Seq([before : SUBSET (1..MaxCalls), after : SUBSET (1..MaxCalls), call : 1..MaxCalls])
    /\ pager \in [reading : BOOLEAN, offset : Nat, seen : SUBSET (1..MaxSessions),
                  untouched : SUBSET (1..MaxSessions)]
    /\ open \in BOOLEAN

\* Cursors are offsets into a list whose order changes between two pages. A client that
\* has read the last page has seen every session that was there when it began and was
\* not updated meanwhile.
PagesMissOnlyTouched == ~pager.reading => pager.untouched \subseteq pager.seen

\* A patch that was answered with "applied" is in the file and its diff in the table, the diffs
\* are a chain and the last one leads to the file as it is, as long as no two patches were in
\* flight together and the process was not closed in the middle of one; across an unreadable
\* file or a torn write the chain breaks, and nowhere else.
DiffsTellTheFile ==
    LET applied == {c \in DOMAIN calls : calls[c].method = "diff.apply" /\ calls[c].outcome = "result"}
        Lost(first, last) == \E c \in first..last : calls[c].loses
        told == IF diffs = <<>> THEN [after |-> {}, call |-> 0] ELSE Last(diffs)
    IN  (\A c \in DOMAIN calls : ~calls[c].overlapped) /\ open =>
            /\ \A c \in applied : c \in workspace \/ Lost(c + 1, Len(calls))
            /\ \A k \in DOMAIN diffs : k > 1 =>
                   diffs[k].before = diffs[k - 1].after \/ Lost(diffs[k - 1].call + 1, diffs[k].call)
            /\ Patching = {} => workspace = told.after \/ Lost(told.call + 1, Len(calls))
===============================================================================
