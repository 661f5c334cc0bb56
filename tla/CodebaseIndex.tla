---------------------------- MODULE CodebaseIndex ----------------------------
(***************************************************************************)
(* CodebaseIndexer of codebase-index/indexer.ts: the files of the project, *)
(* which file imports which, the cache on disk and the watcher; and the    *)
(* context the plugin pushes to the server after every change of the index *)
(* (plugin.ts).                                                            *)
(*                                                                         *)
(* The text of a file is the set of files its import statements name; a    *)
(* walk finds files in the order of their numbers.  Symbols are left out.  *)
(***************************************************************************)
EXTENDS Integers, FiniteSetsExt, SequencesExt

CONSTANTS
    Language,   \* the language of every file, by its extension
    MaxFiles,   \* MAX_FILES
    CacheFits,  \* the serialised index is within MAX_INDEX_BYTES
    PushesMayFail,  \* the server may refuse or lose a push
    MaxSaves,   \* bound: changes of files
    MaxStarts   \* bound: starts of the client

VARIABLES
    project,  \* the files on disk: what they import, and whether they can be read
    index,    \* CodebaseIndexer.index by file; NoIndex before there is one
    cached,   \* index.json
    watch,    \* the watcher: "off", "on", or "due" while its debounce timer runs
    sync,     \* the push of the context: its timer, what it carries, what the server has
    saves,    \* changes made
    client    \* starts, and where the last one is

indexVars == <<project, index, cached, watch, sync, saves, client>>

Files == DOMAIN Language
NoIndex == <<>>  \* no index, or one without files: every reader treats them alike
Text(imports, readable) == [imports |-> imports, readable |-> readable]

IndexStarts == [{Min(Files)} -> {Text({f}, TRUE) : f \in Files}]
IndexBegins(starts) ==
    /\ project \in starts
    /\ index = NoIndex
    /\ cached = NoIndex
    /\ watch = "off"
    /\ sync = [timer |-> FALSE, pushing |-> FALSE, carries |-> 0, version |-> 0, told |-> 0]
    /\ saves = 0
    /\ client = [starts |-> 1, at |-> "loaded"]

IndexInit == IndexBegins(IndexStarts)

-----------------------------------------------------------------------------
\* Parsing.

\* walkDir: no more than MAX_FILES.
WalkDir == {f \in DOMAIN project : Cardinality({g \in DOMAIN project : g <= f}) <= MaxFiles}

\* A relative import is an edge when the file is there to be found; `use` of Rust never is.
ParseTsJs(imports) == imports \cap DOMAIN project
ParsePython(imports) == imports \cap DOMAIN project
ParseRust(imports) == {}

ParseFile(f) ==
    LET imports == project[f].imports
    IN  [imports |-> imports,
         edges |-> CASE Language[f] = "rust"   -> ParseRust(imports)
                     [] Language[f] = "python" -> ParsePython(imports)
                     [] OTHER                  -> ParseTsJs(imports)]

Dependents(f) == {g \in DOMAIN index : f \in index[g].edges}

\* persist: an index that is too large leaves the older one in the cache.
Persisted(updated) == IF CacheFits THEN updated ELSE cached

\* The maps are rebuilt, the index persisted, and the listener sets the timer of a push.
Update(updated) ==
    /\ index' = updated
    /\ cached' = Persisted(updated)
    /\ sync' = [sync EXCEPT !.version = @ + 1, !.timer = TRUE]

-----------------------------------------------------------------------------
\* Indexing.

Readable == {f \in WalkDir : project[f].readable}

IndexAll ==
    /\ client.at = "loaded"
    /\ Update([f \in Readable |-> ParseFile(f)])
    /\ client' = [client EXCEPT !.at = "indexed"]
    /\ UNCHANGED <<project, watch, saves>>

\* A file that cannot be read keeps its entry, an unchanged one is not parsed again.
Kept(f) == f \in DOMAIN index /\ (~project[f].readable \/ index[f].imports = project[f].imports)

\* Mutant: files that are gone stay in the index.
ChangedKeepingGone ==
    [f \in {g \in WalkDir \cup DOMAIN index : g \notin DOMAIN project \/ g \in DOMAIN index \/ project[g].readable} |->
        IF f \notin DOMAIN project \/ Kept(f) THEN index[f] ELSE ParseFile(f)]

Changed == [f \in {g \in WalkDir : Kept(g) \/ project[g].readable} |->
                IF Kept(f) THEN index[f] ELSE ParseFile(f)]

\* indexChanged, when the debounce timer fires.
IndexChanged ==
    /\ watch = "due"
    /\ watch' = "on"
    /\ IF Changed = index THEN UNCHANGED <<index, cached, sync>> ELSE Update(Changed)
    /\ UNCHANGED <<project, saves, client>>

\* After the first index; what changed since it was read is not noticed.
StartWatch ==
    /\ client.at = "indexed"
    /\ watch' = "on"
    /\ sync' = [sync EXCEPT !.timer = TRUE]
    /\ client' = [client EXCEPT !.at = "watching"]
    /\ UNCHANGED <<project, index, cached, saves>>

\* dispose: the timer of a push is left running.
StopWatch ==
    /\ client.at = "watching"
    /\ watch' = "off"
    /\ client' = [client EXCEPT !.at = "disposed"]
    /\ UNCHANGED <<project, index, cached, sync, saves>>

\* A new process loads the cache.
Start ==
    /\ client.starts < MaxStarts
    /\ client' = [starts |-> client.starts + 1, at |-> "loaded"]
    /\ index' = cached
    /\ watch' = "off"
    /\ sync' = [sync EXCEPT !.timer = FALSE, !.pushing = FALSE]
    /\ UNCHANGED <<project, cached, saves>>

-----------------------------------------------------------------------------
\* The project.

\* Every event starts the debounce timer again.
Noticed == watch' = IF watch = "off" THEN "off" ELSE "due"

Save(f, imports, readable) ==
    /\ saves < MaxSaves
    /\ saves' = saves + 1
    /\ project' = (f :> Text(imports, readable)) @@ project
    /\ Noticed
    /\ UNCHANGED <<index, cached, sync, client>>

Delete(f) ==
    /\ saves < MaxSaves
    /\ saves' = saves + 1
    /\ project' = [g \in DOMAIN project \ {f} |-> project[g]]
    /\ Noticed
    /\ UNCHANGED <<index, cached, sync, client>>

-----------------------------------------------------------------------------
\* scheduleContextSync and pushProjectContext.

\* A push that is still under way takes the place of this one.
SyncTimerFires ==
    /\ sync.timer
    /\ sync' = CASE sync.pushing                                 -> [sync EXCEPT !.timer = FALSE]
                 [] index = NoIndex                               -> [sync EXCEPT !.timer = FALSE, !.told = sync.version]
                 [] OTHER -> [sync EXCEPT !.timer = FALSE, !.pushing = TRUE, !.carries = sync.version]
    /\ UNCHANGED <<project, index, cached, watch, saves, client>>

PushEnds(ok) ==
    /\ sync.pushing
    /\ sync' = [sync EXCEPT !.pushing = FALSE, !.told = IF ok THEN sync.carries ELSE @]
    /\ UNCHANGED <<project, index, cached, watch, saves, client>>

Timers == IndexChanged \/ SyncTimerFires

IndexNext ==
    \/ Timers \/ IndexAll \/ StartWatch \/ StopWatch \/ Start
    \/ \E f \in Files : \/ f \in DOMAIN project /\ Delete(f)
                        \/ \E g \in Files, readable \in BOOLEAN : Save(f, {g}, readable)
    \/ \E ok \in {TRUE} \cup {~PushesMayFail} : PushEnds(ok)

IndexFairness ==
    /\ WF_indexVars(IndexChanged)
    /\ WF_indexVars(SyncTimerFires)
    /\ WF_indexVars(PushEnds(TRUE))

IndexSpec == IndexInit /\ [][IndexNext]_indexVars /\ IndexFairness

-----------------------------------------------------------------------------
(***************************************************************************)
(* Properties.                                                             *)
(***************************************************************************)

\* The index is what a walk of the project finds: the same readable files, with the imports
\* they have.
Current ==
    /\ \A f \in Readable : f \in DOMAIN index /\ index[f].imports = project[f].imports
    /\ DOMAIN index \subseteq WalkDir

\* Whatever is saved, deleted or made unreadable while the debounce timer runs, and however
\* often that starts it again, the index is that of the project in the end, unless the
\* watcher is stopped first.
IndexCatchesUp == watch = "due" ~> (watch = "off" \/ Current)

\* "after indexing (and on every re-index from a file change) push the local orientation to
\* the server": the server has the latest index in the end.
ServerIsTold == sync.timer ~> (sync.told = sync.version \/ client.at # "watching")

\* "Files that import this file (reverse graph)": the dependents of a file of the index are
\* the files of the index whose text imports it.
DependentsAreKnown ==
    Current =>
        \A f \in DOMAIN index :
            Dependents(f) = {g \in DOMAIN index : f \in index[g].imports /\ Language[g] # "rust"}
===============================================================================
