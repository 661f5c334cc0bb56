----------------------------- MODULE TokenRefresh -----------------------------
(***************************************************************************)
(* access_token of launcher/src/main.rs: how several launcher processes    *)
(* rotate one single-use refresh token that lives in the OS keyring, under *)
(* a lock that is a directory of the temporary directory.                  *)
(*                                                                         *)
(* A process reads, exchanges, writes and verifies; it may crash anywhere, *)
(* the keyring may refuse, and what it did not do in time it may do later. *)
(* The authorization server accepts a refresh token once and treats a      *)
(* second presentation as a replay. Tokens are numbered as they are        *)
(* issued. A lock that cannot be removed is like that of a process that    *)
(* crashed. Wording, HTTP and the CAPIX_API_KEY shortcut, which takes no   *)
(* token, are left out.                                                    *)
(***************************************************************************)
EXTENDS Integers, FiniteSets

CONSTANTS
    Processes,   \* launcher processes (a command, an engine start, the IPC broker)
    MaxTokens,   \* bound: refresh tokens the server issues
    MaxFailures  \* bound: crashes, lost answers, errors of the keyring, slow refreshes

VARIABLES
    lock,     \* the directory: who created it, and whether it is older than 30 s
    procs,    \* each process: where it stands and the tokens it holds
    keyring,  \* the stored refresh token, the one in the plaintext file of old versions, and
              \* what processes that gave up still write (None: a deletion)
    server,   \* the tokens issued, used and replayed
    history   \* failures, locks removed as stale (of the dead, of the living), if a lock of the
              \* living grew old, and tokens stranded: used and still stored, or stored too late

refreshVars == <<lock, procs, keyring, server, history>>

None == 0
Tokens == 1..MaxTokens
NoLock == [owner |-> "nobody", old |-> FALSE]

\* Between acquire and drop; "removing" has seen a stale lock and not yet removed it.
Holding == {"reading", "migrating", "sending", "answered", "written"}
Stages == {"idle", "acquiring", "removing", "crashed"} \cup Holding

RefreshStarts == {[token |-> 1, file |-> None, late |-> {}], [token |-> None, file |-> 1, late |-> {}]}
RefreshBegins(starts) ==
    /\ lock = NoLock
    /\ procs = [p \in Processes |-> [at |-> "idle", token |-> None]]
    /\ keyring \in starts
    /\ server = [issued |-> 1, used |-> {}, replayed |-> {}]
    /\ history = [failures |-> 0, ofDead |-> 0, ofLiving |-> 0, slow |-> FALSE, stranded |-> {}]

RefreshInit == RefreshBegins(RefreshStarts)

Goto(p, stage, token) == procs' = [procs EXCEPT ![p] = [at |-> stage, token |-> token]]

\* A failure that strands tokens.
Fails(tokens) ==
    /\ history.failures < MaxFailures
    /\ history' = [history EXCEPT !.failures = @ + 1, !.stranded = @ \cup tokens]

\* The used tokens that stay stored when their successor is not written.
UsedAndStored == server.used \cap {keyring.token, keyring.file}

\* access_token is called.
Want(p) ==
    /\ procs[p].at = "idle"
    /\ Goto(p, "acquiring", None)
    /\ UNCHANGED <<lock, keyring, server, history>>

\* Mutant: create_dir_all, which an existing directory satisfies.
AcquireExisting(p) ==
    /\ procs[p].at = "acquiring"
    /\ lock' = [owner |-> p, old |-> FALSE]
    /\ Goto(p, "reading", None)
    /\ UNCHANGED <<keyring, server, history>>

\* create_dir succeeds for one process only.
Acquire(p) ==
    /\ procs[p].at = "acquiring"
    /\ lock = NoLock
    /\ lock' = [owner |-> p, old |-> FALSE]
    /\ Goto(p, "reading", None)
    /\ UNCHANGED <<keyring, server, history>>

\* AlreadyExists, and its modification time is more than 30 s ago.
FindStale(p) ==
    /\ procs[p].at = "acquiring"
    /\ lock.old
    /\ Goto(p, "removing", None)
    /\ UNCHANGED <<lock, keyring, server, history>>

\* remove_dir, of whatever directory is there by now.
RemoveStale(p) ==
    /\ procs[p].at = "removing"
    /\ lock' = NoLock
    /\ Goto(p, "acquiring", None)
    /\ history' = IF lock = NoLock THEN history
                  ELSE IF procs[lock.owner].at = "crashed"
                       THEN [history EXCEPT !.ofDead = @ + 1]
                       ELSE [history EXCEPT !.ofLiving = @ + 1]
    /\ UNCHANGED <<keyring, server>>

\* 20 s are over, or the directory cannot be made.
GiveUp(p) ==
    /\ procs[p].at = "acquiring"
    /\ Goto(p, "idle", None)
    /\ UNCHANGED <<lock, keyring, server, history>>

\* Drop: the directory is removed, whoever created the one that is there.
Drop(p, kept) ==
    /\ lock' = NoLock
    /\ keyring' = kept
    /\ Goto(p, "idle", None)

\* keyring_get_password.
Read(p) ==
    /\ procs[p].at = "reading"
    /\ keyring.token # None
    /\ Goto(p, "sending", keyring.token)
    /\ UNCHANGED <<lock, keyring, server, history>>

\* The keyring has no token, or does not give it: the file is read.
ReadFile(p) ==
    /\ procs[p].at = "reading"
    /\ IF keyring.token = None THEN UNCHANGED history ELSE Fails({})
    /\ IF keyring.file = None
       THEN Drop(p, keyring)
       ELSE Goto(p, "migrating", keyring.file) /\ UNCHANGED <<lock, keyring>>
    /\ UNCHANGED server

\* keyring_set_password of the token of the file, which is removed, or is not: the error is dropped.
Migrate(p) ==
    /\ procs[p].at = "migrating"
    /\ \/ /\ keyring' = [keyring EXCEPT !.token = procs[p].token, !.file = None]
          /\ UNCHANGED history
       \/ /\ keyring' = [keyring EXCEPT !.token = procs[p].token]
          /\ Fails({procs[p].token})
    /\ Goto(p, "sending", procs[p].token)
    /\ UNCHANGED <<lock, server>>

\* The server rotates a token it has not seen used, and its answer arrives.
Rotated(p) ==
    /\ procs[p].at = "sending"
    /\ procs[p].token \notin server.used
    /\ server.issued < MaxTokens
    /\ server' = [server EXCEPT !.issued = @ + 1, !.used = @ \cup {procs[p].token}]
    /\ Goto(p, "answered", server.issued + 1)
    /\ UNCHANGED <<lock, keyring, history>>

\* A used token is a replay; the rejection is definitive and the session is deleted, later, or not
\* at all: an error of keyring_delete_password is dropped.
Replayed(p) ==
    /\ procs[p].at = "sending"
    /\ procs[p].token \in server.used
    /\ server' = [server EXCEPT !.replayed = @ \cup {procs[p].token}]
    /\ \/ Drop(p, [keyring EXCEPT !.token = None]) /\ UNCHANGED history
       \/ Drop(p, keyring) /\ Fails({})
       \/ Drop(p, [keyring EXCEPT !.late = @ \cup {[by |-> p, token |-> None]}]) /\ Fails({})

\* Any other failure preserves the credentials: the server has not seen the token ...
Failed(p) ==
    /\ procs[p].at = "sending"
    /\ Drop(p, keyring)
    /\ UNCHANGED <<server, history>>

\* ... or it has, and its answer is lost.
AnswerLost(p) ==
    /\ procs[p].at = "sending"
    /\ procs[p].token \notin server.used
    /\ server.issued < MaxTokens
    /\ server' = [server EXCEPT !.issued = @ + 1, !.used = @ \cup {procs[p].token}]
    /\ Fails({procs[p].token})
    /\ Drop(p, keyring)

\* keyring_set_password of the rotated token.
Write(p) ==
    /\ procs[p].at = "answered"
    /\ keyring' = [keyring EXCEPT !.token = procs[p].token]
    /\ Goto(p, "written", procs[p].token)
    /\ UNCHANGED <<lock, server, history>>

\* keyring_set_password refuses, in a migration too, ...
WriteFails(p) ==
    /\ procs[p].at \in {"migrating", "answered"}
    /\ Fails(UsedAndStored)
    /\ Drop(p, keyring)
    /\ UNCHANGED server

\* ... or gives up after 30 s, when the lock is older than that; its thread goes on.
WriteTimesOut(p) ==
    /\ procs[p].at \in {"migrating", "answered"}
    /\ lock.owner = p => lock.old
    /\ Fails(UsedAndStored \cup {procs[p].token})
    /\ Drop(p, [keyring EXCEPT !.late = @ \cup {[by |-> p, token |-> procs[p].token]}])
    /\ UNCHANGED server

\* What was given up is done.
LateWrite(w) ==
    /\ keyring' = [keyring EXCEPT !.token = w.token, !.late = @ \ {w}]
    /\ UNCHANGED <<lock, procs, server, history>>

\* The token is read back and compared; either way, and when it cannot be read, the lock is dropped.
Verify(p) ==
    /\ procs[p].at = "written"
    /\ Drop(p, keyring)
    /\ UNCHANGED <<server, history>>

\* The threads of the process end with it.
Crash(p) ==
    /\ procs[p].at \notin {"idle", "crashed"}
    /\ Fails(UsedAndStored)
    /\ Goto(p, "crashed", None)
    /\ keyring' = [keyring EXCEPT !.late = {w \in @ : w.by # p}]
    /\ UNCHANGED <<lock, server>>

\* 30 s have passed since the directory was made. Keyring (15, 30, 15 s) and server
\* (30 s) have time limits that add up to more.
LockAges ==
    /\ lock # NoLock
    /\ ~lock.old
    /\ lock' = [lock EXCEPT !.old = TRUE]
    /\ IF procs[lock.owner].at = "crashed" THEN UNCHANGED history
       ELSE /\ history.failures < MaxFailures
            /\ history' = [history EXCEPT !.failures = @ + 1, !.slow = TRUE]
    /\ UNCHANGED <<procs, keyring, server>>

RefreshNext ==
    \/ LockAges
    \/ \E w \in keyring.late : LateWrite(w)
    \/ \E p \in Processes :
           \/ Want(p) \/ Acquire(p) \/ FindStale(p) \/ RemoveStale(p) \/ GiveUp(p)
           \/ Read(p) \/ ReadFile(p) \/ Migrate(p) \/ Rotated(p) \/ Replayed(p) \/ Failed(p)
           \/ AnswerLost(p) \/ Write(p) \/ WriteFails(p) \/ WriteTimesOut(p) \/ Verify(p) \/ Crash(p)

RefreshSpec == RefreshInit /\ [][RefreshNext]_refreshVars

-----------------------------------------------------------------------------
(***************************************************************************)
(* Properties.                                                             *)
(***************************************************************************)

RefreshTypeOK ==
    /\ lock \in [owner : Processes \cup {"nobody"}, old : BOOLEAN]
    /\ procs \in [Processes -> [at : Stages, token : Tokens \cup {None}]]
    /\ keyring \in [token : Tokens \cup {None}, file : Tokens \cup {None},
                    late : SUBSET [by : Processes, token : Tokens \cup {None}]]
    /\ server \in [issued : Tokens, used : SUBSET Tokens, replayed : SUBSET Tokens]
    /\ history \in [failures : 0..MaxFailures, ofDead : Nat, ofLiving : Nat, slow : BOOLEAN,
                    stranded : SUBSET Tokens]

Unfinished == {p \in Processes : procs[p].at \in Holding}

\* "two launchers reading the same token concurrently can trigger replay protection":
\* every lock that is taken from a living process lets one more of them at the token, and none
\* is before a lock was left by the dead or outlived 30 s; while none was taken a token is
\* presented again only where it was stranded; and until something fails none is, and the newest
\* one is stored or in the hands of the process that rotates it.
RotationIsExclusive ==
    /\ Cardinality(Unfinished) <= 1 + history.ofLiving
    /\ history.ofLiving > 0 => history.ofDead > 0 \/ history.slow
    /\ history.ofLiving = 0 => server.replayed \subseteq history.stranded
    /\ history.failures = 0 =>
           /\ server.replayed = {}
           /\ \/ server.issued \in {keyring.token, keyring.file}
              \/ \E p \in Unfinished : procs[p].at = "answered" /\ procs[p].token = server.issued

\* "never steal one from an active refresh": a lock that is removed as stale was
\* left by a process that crashed.
NeverStolen == history.ofLiving = 0
===============================================================================
