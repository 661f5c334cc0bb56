---------------------------- MODULE EngineSessions ----------------------------
(***************************************************************************)
(* The rows of the sessions in the patched engine (session/session.ts):    *)
(* create, the setters, which read a session, patch it and publish it      *)
(* whole, and remove, which cancels background jobs and removes a session  *)
(* after its children.  Events reach the table through projectors outside  *)
(* of the repository: Created writes a row, Updated rewrites one that      *)
(* exists, Deleted deletes it.                                             *)
(***************************************************************************)
EXTENDS Integers, FiniteSetsExt, SequencesExt

CONSTANTS
    Callers,      \* fibers that patch a session
    Removers,     \* fibers that remove one
    Values,       \* values of a field
    MaxSessions,  \* bound: sessions created
    MaxWork       \* bound: sessions created and patches begun

VARIABLES
    made,      \* sessions created
    rows,      \* SessionTable: parent, fields, who made a session and if its parent's
               \* children had been listed by then
    jobs,      \* background jobs that run: session and parentSessionId
    patching,  \* the patch of every caller between get and publish
    patches,   \* patches begun
    removing   \* for every remover its stack of remove() calls, and how the call ended

sessionVars == <<made, rows, jobs, patching, patches, removing>>

SessionIds == 1..MaxSessions
NoRow == [parent |-> -1]
Present == {s \in SessionIds : rows[s] # NoRow}

Null == "null"            \* null in a patch; a column that is not set
Undefined == "undefined"  \* a key of a patch that is undefined

\* The fields a patch treats differently; agent, model, metadata and workspaceID are like title,
\* permission is like summary, and time merges like share.
SessionFields == {"title", "share", "summary", "revert"}
NotPatching == [session |-> 0]
NotRemoving == [stack |-> <<>>, listed |-> {}, instance |-> TRUE, outcome |-> "none"]

SessionsInit ==
    /\ made = 0
    /\ rows = [s \in SessionIds |-> NoRow]
    /\ jobs = {}
    /\ patching = [c \in Callers |-> NotPatching]
    /\ patches = 0
    /\ removing = [r \in Removers |-> NotRemoving]

-----------------------------------------------------------------------------
\* createNext does not ask if the parent exists.  maker is what runs create(): the client
\* (0 for a root), a turn of the parent, or the background job of the parent.
CreateNext(parent, maker) ==
    /\ made < MaxSessions /\ made + patches < MaxWork
    /\ made' = made + 1
    /\ rows' = [rows EXCEPT ![made'] =
           [parent |-> parent, maker |-> maker, info |-> [f \in SessionFields |-> Null],
            late |-> \E r \in Removers : parent \in removing[r].listed]]
    /\ UNCHANGED <<patching, patches, removing>>

Create == CreateNext(0, "client") /\ UNCHANGED jobs

\* The task tool: a turn of a session, or a background job that runs in one, makes a child and
\* lets the child work in the background or not.
TurnCreates(parent, inBackground) ==
    /\ parent \in Present
    /\ CreateNext(parent, "turn")
    /\ jobs' = jobs \cup {[session |-> made', parent |-> parent] : b \in {TRUE} \cap {inBackground}}
JobCreates(job) ==
    /\ job \in jobs
    /\ CreateNext(job.session, "job")
    /\ UNCHANGED jobs
JobEnds(job) ==
    /\ job \in jobs
    /\ jobs' = jobs \ {job}
    /\ UNCHANGED <<made, rows, patching, patches, removing>>

-----------------------------------------------------------------------------
\* patch: what a setter gives over what was read; null clears, and an undefined summary or revert
\* keeps what was read.

\* Mutant: what a patch has undefined is cleared.
PatchedClearing(current, change) ==
    [f \in SessionFields |-> IF f \notin DOMAIN change THEN current[f]
                             ELSE IF change[f] = Undefined THEN Null ELSE change[f]]

Patched(current, change) ==
    [f \in SessionFields |-> IF f \notin DOMAIN change \/ change[f] = Undefined THEN current[f]
                             ELSE change[f]]

\* What setTitle and its like, setShare, setSummary, setRevert and clearRevert patch.
Changes ==
    {[f \in {"title"} |-> v] : v \in Values}
    \cup {[f \in {"share"} |-> v] : v \in Values \cup {Null}}
    \cup {[f \in {"summary"} |-> v] : v \in Values \cup {Undefined}}
    \cup {[f \in {"revert", "summary"} |-> IF f = "revert" THEN v ELSE w] :
              v \in Values \cup {Undefined}, w \in Values \cup {Undefined}}
    \cup {[f \in {"revert"} |-> Null]}

\* get; where there is no session the fiber dies.
BeginPatch(c, s, change) ==
    /\ patching[c] = NotPatching
    /\ made + patches < MaxWork
    /\ s \in Present
    /\ patches' = patches + 1
    /\ patching' = [patching EXCEPT ![c] =
           [session |-> s, change |-> change, read |-> rows[s].info, missed |-> {}]]
    /\ UNCHANGED <<made, rows, jobs, removing>>

\* Updated is published with every field.  The patches of the session that have read already
\* do not see what this one sets.
PublishPatch(c) ==
    LET p == patching[c]
        next == Patched(p.read, p.change)
    IN  /\ p # NotPatching
        /\ rows' = IF p.session \in Present THEN [rows EXCEPT ![p.session].info = next] ELSE rows
        /\ patching' = [d \in Callers |->
               IF d = c THEN NotPatching
               ELSE IF patching[d].session # p.session THEN patching[d]
               ELSE [patching[d] EXCEPT !.missed = @ \cup DOMAIN p.change \cup p.missed]]
        /\ UNCHANGED <<made, jobs, patches, removing>>

-----------------------------------------------------------------------------
\* remove, as a stack of calls.

\* Mutant: a job that is the session's own runs on.
JobsOfChildren(s) == {job \in jobs : job.parent = s}

\* cancelBackgroundJobs: the job of the session and those of its children.
JobsOf(s) == {job \in jobs : job.session = s \/ job.parent = s}

Top(r) == Last(removing[r].stack)
SetTop(r, frame) == Append(Front(removing[r].stack), frame)

\* get: the failure of a child is that of every call on the stack, as a try block does not catch
\* what fails in an effect.
EnterRemove(r, stack, s) ==
    removing' = [removing EXCEPT
        ![r].stack = IF s \in Present THEN Append(stack, [session |-> s, step |-> "cancel", kids |-> <<>>])
                     ELSE <<>>,
        ![r].outcome = IF s \in Present THEN "running" ELSE "failed"]

RemoveSession(r, s, hasInstance) ==
    /\ removing[r].outcome = "none"
    /\ s \in Present
    /\ removing' = [removing EXCEPT ![r].instance = hasInstance, ![r].outcome = "running",
                                    ![r].stack = <<[session |-> s, step |-> "cancel", kids |-> <<>>]>>]
    /\ UNCHANGED <<made, rows, jobs, patching, patches>>

CancelJobs(r) ==
    /\ removing[r].stack # <<>>
    /\ Top(r).step = "cancel"
    /\ jobs' = IF removing[r].instance THEN jobs \ JobsOf(Top(r).session) ELSE jobs
    /\ removing' = [removing EXCEPT ![r].stack = SetTop(r, [Top(r) EXCEPT !.step = "list"])]
    /\ UNCHANGED <<made, rows, patching, patches>>

Children(s) == SetToSortSeq({t \in Present : rows[t].parent = s}, LAMBDA t, u : t < u)

ListChildren(r) ==
    /\ removing[r].stack # <<>>
    /\ Top(r).step = "list"
    /\ removing' = [removing EXCEPT
           ![r].listed = @ \cup {Top(r).session},
           ![r].stack = SetTop(r, [Top(r) EXCEPT !.step = "kids", !.kids = Children(Top(r).session)])]
    /\ UNCHANGED <<made, rows, jobs, patching, patches>>

RemoveChild(r) ==
    /\ removing[r].stack # <<>>
    /\ Top(r).step = "kids" /\ Top(r).kids # <<>>
    /\ EnterRemove(r, SetTop(r, [Top(r) EXCEPT !.kids = Tail(@)]), Head(Top(r).kids))
    /\ UNCHANGED <<made, rows, jobs, patching, patches>>

Delete(r) ==
    /\ removing[r].stack # <<>>
    /\ Top(r).step = "kids" /\ Top(r).kids = <<>>
    /\ rows' = [rows EXCEPT ![Top(r).session] = NoRow]
    /\ removing' = [removing EXCEPT ![r].stack = Front(@),
                                    ![r].outcome = IF Len(removing[r].stack) = 1 THEN "done" ELSE @]
    /\ UNCHANGED <<made, jobs, patching, patches>>

SessionsNext ==
    \/ Create
    \/ \E p \in SessionIds, b \in BOOLEAN : TurnCreates(p, b)
    \/ \E job \in jobs : JobCreates(job) \/ JobEnds(job)
    \/ \E c \in Callers, s \in SessionIds, change \in Changes : BeginPatch(c, s, change)
    \/ \E c \in Callers : PublishPatch(c)
    \/ \E r \in Removers, s \in SessionIds, i \in BOOLEAN : RemoveSession(r, s, i)
    \/ \E r \in Removers : CancelJobs(r) \/ ListChildren(r) \/ RemoveChild(r) \/ Delete(r)

SessionsSpec == SessionsInit /\ [][SessionsNext]_sessionVars

-----------------------------------------------------------------------------
(***************************************************************************)
(* Properties.                                                             *)
(***************************************************************************)

\* A session whose parent was removed was made after the children of that parent were listed,
\* and not by a job that removal cancels: by a turn, or where there was no instance to cancel with.
OrphansAreLate ==
    \A s \in Present :
        rows[s].parent \notin {0} \cup Present =>
        /\ rows[s].late
        /\ rows[s].maker = "turn" \/ \E r \in Removers : ~removing[r].instance

\* A patch that is published changes what it does not set only where another patch was published
\* since it read, and only what that patch had set.
PatchesKeepTheRest ==
    [][\A c \in Callers :
           patching[c] # NotPatching /\ patching'[c] = NotPatching =>
           LET p == patching[c]
               sets == {f \in DOMAIN p.change : p.change[f] # Undefined}
           IN  p.session \in Present =>
               \A f \in SessionFields \ sets :
                   rows'[p.session].info[f] # rows[p.session].info[f] => f \in p.missed]_sessionVars
===============================================================================
