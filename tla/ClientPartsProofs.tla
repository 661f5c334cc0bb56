-------------------------- MODULE ClientPartsProofs --------------------------
(***************************************************************************)
(* Proofs about the parts of ClientParts, for every value of the           *)
(* constants.                                                              *)
(*                                                                         *)
(* Credentials: as many launchers are at the refresh token as locks were   *)
(* taken from living ones, and one more (RefreshInv), and the broker of    *)
(* the plugin presents no token a second time but one whose answer was     *)
(* lost or that a failing store left (BrokerInv).  Plans: an execution     *)
(* that ended has settled its steps (PlanInv).  The debugger: what was     *)
(* asked is answered, a replay is the fold of the events before its cursor *)
(* (DebuggerInv).  The ACP server: what a page left out lies ahead or was  *)
(* touched, and the diffs lead to the file, but for what was lost (AcpInv).*)
(***************************************************************************)
EXTENDS ClientParts, FiniteSetTheorems, SequenceTheorems, WellFoundedInduction, TLAPS

-----------------------------------------------------------------------------
(***************************************************************************)
(* A behaviour of the parts is a behaviour of each.                        *)
(***************************************************************************)

\* The starts of a part that does not run are starts of it.
LEMMA StartsWithin ==
    ASSUME NEW p, NEW starts, starts # {}
    PROVE  Starts(p, starts) \subseteq starts
BY DEF Starts, Some

\* A step is one of a part's, or leaves the part alone.
LEMMA PartSteps ==
    ASSUME [Next]_vars
    PROVE  /\ [Refresh!RefreshNext]_refreshVars
           /\ [Broker!BrokerNext]_brokerVars
           /\ [Plan!PlanNext]_planVars
           /\ [Debugger!DebuggerNext]_debuggerVars
           /\ [Acp!AcpNext]_acpVars
<1>1. CASE UNCHANGED vars
  BY <1>1 DEF vars
<1>2. CASE Next
  BY <1>2 DEF Next, Rest
<1> QED
  BY <1>1, <1>2

-----------------------------------------------------------------------------
(***************************************************************************)
(* The launchers and their lock.                                           *)
(***************************************************************************)

\* The types of the five variables.
Known == Refresh!Tokens \cup {Refresh!None}
LockType == [owner : Processes \cup {"nobody"}, old : BOOLEAN]
ProcsType == [Processes -> [at : Refresh!Stages, token : Known]]
KeyringType == [token : Known, file : Known, late : SUBSET [by : Processes, token : Known]]
ServerType == [issued : Refresh!Tokens, used : SUBSET Refresh!Tokens, replayed : SUBSET Refresh!Tokens]
HistoryType ==
    [failures : 0..MaxFailures, ofDead : Nat, ofLiving : Nat, slow : BOOLEAN,
     stranded : SUBSET Refresh!Tokens]

LEMMA RefreshTypesAre ==
    Refresh!RefreshTypeOK <=>
        /\ lock \in LockType /\ procs \in ProcsType /\ keyring \in KeyringType
        /\ server \in ServerType /\ history \in HistoryType
BY DEF Refresh!RefreshTypeOK, Known, LockType, ProcsType, KeyringType, ServerType, HistoryType

\* The types; what is sent or migrated is a token; and a token is one that was issued.
RefreshTyped ==
    /\ lock \in LockType /\ procs \in ProcsType /\ keyring \in KeyringType
    /\ server \in ServerType /\ history \in HistoryType
    /\ \A p \in Processes :
           /\ procs[p].token <= server.issued
           /\ procs[p].at \in {"migrating", "sending", "answered"} => procs[p].token # Refresh!None
    /\ \A t \in server.used : t <= server.issued
    /\ keyring.token <= server.issued /\ keyring.file <= server.issued
    /\ \A w \in keyring.late : w.token <= server.issued

\* The fields of what is typed.
LEMMA RefreshFields ==
    ASSUME RefreshTyped
    PROVE  /\ Known = 0..MaxTokens /\ Refresh!Tokens = 1..MaxTokens /\ MaxTokens \in Nat \ {0}
           /\ MaxFailures \in Nat /\ Refresh!None = 0
           /\ lock \in LockType /\ lock.old \in BOOLEAN /\ lock.owner \in Processes \cup {"nobody"}
           /\ procs \in ProcsType
           /\ \A p \in Processes : procs[p].at \in Refresh!Stages /\ procs[p].token \in Known
           /\ keyring.token \in Known /\ keyring.file \in Known
           /\ \A w \in keyring.late : w.by \in Processes /\ w.token \in Known
           /\ server.issued \in Refresh!Tokens /\ server.used \in SUBSET Refresh!Tokens
           /\ server.replayed \in SUBSET Refresh!Tokens
           /\ history.failures \in Nat /\ history.ofDead \in Nat /\ history.ofLiving \in Nat
           /\ history.slow \in BOOLEAN /\ history.stranded \in SUBSET Refresh!Tokens
<1>1. /\ Known = 0..MaxTokens /\ Refresh!Tokens = 1..MaxTokens /\ MaxTokens \in Nat \ {0}
      /\ MaxFailures \in Nat /\ Refresh!None = 0
  BY MaxTokensAssumption, MaxFailuresAssumption DEF Known, Refresh!Tokens, Refresh!None
<1> QED
  BY <1>1 DEF RefreshTyped, LockType, ProcsType, KeyringType, ServerType, HistoryType

\* A process goes to a place with a token it may hold.
LEMMA GotoGives ==
    ASSUME procs \in ProcsType, NEW p \in Processes, NEW at \in Refresh!Stages, NEW token \in Known,
           Refresh!Goto(p, at, token)
    PROVE  /\ procs' \in ProcsType /\ procs'[p].at = at /\ procs'[p].token = token
           /\ \A q \in Processes \ {p} : procs'[q] = procs[q]
BY DEF Refresh!Goto, ProcsType

\* What fails counts, and strands tokens.
LEMMA TroubleGives ==
    ASSUME RefreshTyped, NEW tokens \in SUBSET Refresh!Tokens, Refresh!Fails(tokens)
    PROVE  /\ history' \in HistoryType /\ history'.failures # 0
           /\ history'.stranded = history.stranded \cup tokens
           /\ history'.ofDead = history.ofDead /\ history'.ofLiving = history.ofLiving
           /\ history'.slow = history.slow
<1>1. history \in HistoryType /\ history.failures + 1 \in 0..MaxFailures /\ history.failures + 1 # 0
  BY RefreshFields DEF RefreshTyped, HistoryType, Refresh!Fails
<1>2. history' = [history EXCEPT !.failures = history.failures + 1,
                                 !.stranded = history.stranded \cup tokens]
  BY DEF Refresh!Fails
<1>3. history.stranded \cup tokens \in SUBSET Refresh!Tokens
  BY RefreshFields
<1> QED
  BY <1>1, <1>2, <1>3 DEF HistoryType

\* The server issues the next token for one that it takes.
LEMMA IssueGives ==
    ASSUME RefreshTyped, server.issued < MaxTokens, NEW t \in Refresh!Tokens,
           server' = [server EXCEPT !.issued = @ + 1, !.used = @ \cup {t}]
    PROVE  /\ server' \in ServerType /\ server'.issued = server.issued + 1
           /\ server'.used = server.used \cup {t} /\ server'.replayed = server.replayed
           /\ server.issued + 1 \in Refresh!Tokens
<1>1. server.issued + 1 \in Refresh!Tokens
  BY RefreshFields
<1>2. server' = [server EXCEPT !.issued = server.issued + 1, !.used = server.used \cup {t}]
  OBVIOUS
<1>3. server \in ServerType /\ server.used \cup {t} \in SUBSET Refresh!Tokens
  BY RefreshFields DEF RefreshTyped
<1> QED
  BY <1>1, <1>2, <1>3 DEF ServerType

\* The keyring with another token, ...
LEMMA TokenGives ==
    ASSUME RefreshTyped, NEW t \in Known, NEW k, k = [keyring EXCEPT !.token = t]
    PROVE  /\ k \in KeyringType /\ k.token = t /\ k.file = keyring.file /\ k.late = keyring.late
BY DEF RefreshTyped, KeyringType

\* ... or with other writes to come.
LEMMA LateGives ==
    ASSUME RefreshTyped, NEW late \in SUBSET [by : Processes, token : Known], NEW k,
           k = [keyring EXCEPT !.late = late]
    PROVE  /\ k \in KeyringType /\ k.token = keyring.token /\ k.file = keyring.file /\ k.late = late
BY DEF RefreshTyped, KeyringType

\* A process that gives up a write leaves it to be done.
LEMMA LeftToDo ==
    ASSUME RefreshTyped, NEW p \in Processes, NEW t \in Known, NEW late,
           late = keyring.late \cup {[by |-> p, token |-> t]}
    PROVE  /\ late \in SUBSET [by : Processes, token : Known]
           /\ \A w \in late : w \in keyring.late \/ w.token = t
BY DEF RefreshTyped, KeyringType

\* Drop: the lock is gone, and the process begins anew.
LEMMA DropGives ==
    ASSUME RefreshTyped, NEW p \in Processes, NEW kept, Refresh!Drop(p, kept)
    PROVE  /\ lock' = Refresh!NoLock /\ lock' \in LockType /\ lock'.old = FALSE
           /\ keyring' = kept
           /\ procs' \in ProcsType /\ procs'[p].at = "idle" /\ procs'[p].token = Refresh!None
           /\ \A q \in Processes \ {p} : procs'[q] = procs[q]
<1>1. "idle" \in Refresh!Stages /\ Refresh!None \in Known /\ procs \in ProcsType
  BY DEF Refresh!Stages, Known, RefreshTyped
<1>2. Refresh!NoLock \in LockType /\ Refresh!NoLock.old = FALSE
  BY DEF Refresh!NoLock, LockType
<1> QED
  BY <1>1, <1>2, GotoGives DEF Refresh!Drop

\* A step of a launcher keeps the types.
LEMMA RefreshTypes ==
    ASSUME RefreshTyped, [Refresh!RefreshNext]_refreshVars
    PROVE  RefreshTyped'
<1>1. /\ lock \in LockType /\ procs \in ProcsType /\ keyring \in KeyringType
      /\ server \in ServerType /\ history \in HistoryType
      /\ \A p \in Processes :
             /\ procs[p].token <= server.issued
             /\ procs[p].at \in {"migrating", "sending", "answered"} => procs[p].token # Refresh!None
      /\ \A t \in server.used : t <= server.issued
      /\ keyring.token <= server.issued /\ keyring.file <= server.issued
      /\ \A w \in keyring.late : w.token <= server.issued
  BY DEF RefreshTyped
<1>2. /\ Known = 0..MaxTokens /\ Refresh!Tokens = 1..MaxTokens /\ MaxTokens \in Nat \ {0}
      /\ Refresh!None = 0 /\ server.issued \in Refresh!Tokens
      /\ \A p \in Processes : procs[p].token \in Known
      /\ keyring.token \in Known /\ keyring.file \in Known
      /\ server.used \in SUBSET Refresh!Tokens
  BY RefreshFields
<1>3. Refresh!NoLock \in LockType /\ \A p \in Processes : [owner |-> p, old |-> FALSE] \in LockType
  BY DEF Refresh!NoLock, LockType
<1>4. /\ {"idle", "acquiring", "removing", "crashed", "reading", "migrating", "sending", "answered", "written"}
            \subseteq Refresh!Stages
      /\ Refresh!None \in Known /\ Refresh!None <= server.issued
      /\ Refresh!UsedAndStored \in SUBSET Refresh!Tokens /\ {} \in SUBSET Refresh!Tokens
  BY <1>2 DEF Refresh!Stages, Refresh!Holding, Refresh!UsedAndStored
<1>5. ASSUME NEW p \in Processes, NEW kept \in KeyringType, Refresh!Drop(p, kept), server' \in ServerType,
             server'.issued >= server.issued, \A t \in server'.used : t <= server'.issued,
             history' \in HistoryType,
             kept.token <= server.issued, kept.file <= server.issued,
             \A w \in kept.late : w.token <= server.issued
      PROVE  RefreshTyped'
  <2>1. /\ lock' \in LockType /\ keyring' = kept
        /\ procs' \in ProcsType /\ procs'[p].at = "idle" /\ procs'[p].token = Refresh!None
        /\ \A q \in Processes \ {p} : procs'[q] = procs[q]
    BY <1>5, DropGives
  <2>2. /\ server'.issued \in Nat /\ server.issued \in Nat /\ kept.token \in Nat /\ kept.file \in Nat
        /\ \A w \in kept.late : w.token \in Nat
    BY <1>2, <1>5 DEF KeyringType, ServerType
  <2>3. \A q \in Processes :
            /\ procs'[q].token <= server'.issued
            /\ procs'[q].at \in {"migrating", "sending", "answered"} => procs'[q].token # Refresh!None
    BY <1>1, <1>2, <1>5, <2>1, <2>2
  <2>4. /\ keyring'.token <= server'.issued /\ keyring'.file <= server'.issued
        /\ \A w \in keyring'.late : w.token <= server'.issued
    BY <1>5, <2>1, <2>2
  <2> QED
    BY <1>5, <2>1, <2>3, <2>4 DEF RefreshTyped
<1>6. ASSUME NEW p \in Processes, NEW at \in Refresh!Stages, NEW t \in Known, Refresh!Goto(p, at, t),
             t <= server.issued, t # Refresh!None \/ at \notin {"migrating", "sending", "answered"},
             lock' \in LockType, keyring' \in KeyringType, server' = server, history' \in HistoryType,
             keyring'.token <= server.issued, keyring'.file <= server.issued,
             \A w \in keyring'.late : w.token <= server.issued
      PROVE  RefreshTyped'
  <2>1. /\ procs' \in ProcsType /\ procs'[p].at = at /\ procs'[p].token = t
        /\ \A q \in Processes \ {p} : procs'[q] = procs[q]
    BY <1>1, <1>6, GotoGives
  <2> QED
    BY <1>1, <1>6, <2>1 DEF RefreshTyped
<1>7. CASE UNCHANGED refreshVars
  BY <1>1, <1>7 DEF RefreshTyped, refreshVars
<1>8. CASE Refresh!LockAges
  <2>1. lock' \in LockType
    BY <1>1, <1>8 DEF Refresh!LockAges, LockType
  <2>2. history' \in HistoryType
    <3>1. CASE history' = history
      BY <1>1, <3>1
    <3>2. CASE /\ history.failures < MaxFailures
               /\ history' = [history EXCEPT !.failures = history.failures + 1, !.slow = TRUE]
      <4>1. history.failures + 1 \in 0..MaxFailures
        BY <1>1, <3>2, MaxFailuresAssumption DEF HistoryType
      <4> QED
        BY <1>1, <3>2, <4>1 DEF HistoryType
    <3> QED
      BY <1>8, <3>1, <3>2 DEF Refresh!LockAges
  <2> QED
    BY <1>1, <1>8, <2>1, <2>2 DEF RefreshTyped, Refresh!LockAges
<1>9. ASSUME NEW w \in keyring.late, Refresh!LateWrite(w)
      PROVE  RefreshTyped'
  <2>1. w.token \in Known /\ keyring.late \ {w} \in SUBSET [by : Processes, token : Known]
    BY <1>1 DEF KeyringType
  <2>2. keyring' \in KeyringType /\ keyring'.token = w.token /\ keyring'.file = keyring.file
        /\ keyring'.late = keyring.late \ {w}
    BY <1>1, <1>9, <2>1 DEF Refresh!LateWrite, KeyringType
  <2> QED
    BY <1>1, <1>9, <2>2 DEF RefreshTyped, Refresh!LateWrite
<1>10. ASSUME NEW p \in Processes,
              Refresh!Want(p) \/ Refresh!Acquire(p) \/ Refresh!FindStale(p) \/ Refresh!GiveUp(p)
       PROVE  RefreshTyped'
  BY <1>1, <1>3, <1>4, <1>6, <1>10
     DEF Refresh!Want, Refresh!Acquire, Refresh!FindStale, Refresh!GiveUp
<1>11. ASSUME NEW p \in Processes, Refresh!RemoveStale(p)
       PROVE  RefreshTyped'
  <2>1. history' \in HistoryType
    BY <1>1, <1>11 DEF Refresh!RemoveStale, HistoryType
  <2> QED
    BY <1>1, <1>3, <1>4, <1>6, <1>11, <2>1 DEF Refresh!RemoveStale
<1>12. ASSUME NEW p \in Processes, Refresh!Read(p)
       PROVE  RefreshTyped'
  BY <1>1, <1>2, <1>4, <1>6, <1>12 DEF Refresh!Read
<1>13. ASSUME NEW p \in Processes, Refresh!ReadFile(p)
       PROVE  RefreshTyped'
  <2>1. history' \in HistoryType /\ server' = server
    BY <1>1, <1>4, <1>13, TroubleGives DEF Refresh!ReadFile
  <2>2. CASE keyring.file = Refresh!None
    BY <1>1, <1>2, <1>5, <1>13, <2>1, <2>2 DEF Refresh!ReadFile
  <2>3. CASE keyring.file # Refresh!None
    BY <1>1, <1>2, <1>4, <1>6, <1>13, <2>1, <2>3 DEF Refresh!ReadFile
  <2> QED
    BY <2>2, <2>3
<1>14. ASSUME NEW p \in Processes, Refresh!Migrate(p)
       PROVE  RefreshTyped'
  <2>1. procs[p].token \in Known /\ procs[p].token # Refresh!None /\ {procs[p].token} \in SUBSET Refresh!Tokens
    BY <1>1, <1>2, <1>14 DEF Refresh!Migrate
  <2>2. history' \in HistoryType
    BY <1>1, <1>14, <2>1, TroubleGives DEF Refresh!Migrate
  <2>3. /\ keyring' \in KeyringType /\ keyring'.token = procs[p].token
        /\ keyring'.file \in {keyring.file, Refresh!None} /\ keyring'.late = keyring.late
    <3>1. CASE keyring' = [keyring EXCEPT !.token = procs[p].token, !.file = Refresh!None]
      BY <1>1, <1>4, <2>1, <3>1 DEF KeyringType
    <3>2. CASE keyring' = [keyring EXCEPT !.token = procs[p].token]
      BY <2>1, <3>2, TokenGives
    <3> QED
      BY <1>14, <3>1, <3>2 DEF Refresh!Migrate
  <2> QED
    BY <1>1, <1>4, <1>6, <1>14, <2>1, <2>2, <2>3 DEF Refresh!Migrate
<1>15. ASSUME NEW p \in Processes, Refresh!Rotated(p) \/ Refresh!AnswerLost(p)
       PROVE  RefreshTyped'
  <2>1. procs[p].token \in Refresh!Tokens /\ procs[p].token <= server.issued
    BY <1>1, <1>2, <1>15 DEF Refresh!Rotated, Refresh!AnswerLost
  <2>2. /\ server' \in ServerType /\ server'.issued = server.issued + 1
        /\ server'.used = server.used \cup {procs[p].token}
        /\ server.issued + 1 \in Refresh!Tokens
    BY <1>15, <2>1, IssueGives DEF Refresh!Rotated, Refresh!AnswerLost
  <2>3. server'.issued >= server.issued /\ \A t \in server'.used : t <= server'.issued
    BY <1>1, <1>2, <2>1, <2>2
  <2>4. CASE Refresh!AnswerLost(p)
    <3>1. history' \in HistoryType
      BY <2>1, <2>4, TroubleGives DEF Refresh!AnswerLost
    <3> QED
      BY <1>1, <1>5, <2>2, <2>3, <2>4, <3>1 DEF Refresh!AnswerLost
  <2>5. CASE Refresh!Rotated(p)
    <3>1. server.issued + 1 \in Known /\ server.issued + 1 # Refresh!None
      BY <1>2, <2>2 DEF Known
    <3>2. /\ procs' \in ProcsType /\ procs'[p].at = "answered" /\ procs'[p].token = server.issued + 1
          /\ \A q \in Processes \ {p} : procs'[q] = procs[q]
          /\ lock' = lock /\ keyring' = keyring /\ history' = history
      BY <1>1, <1>4, <2>5, <3>1, GotoGives DEF Refresh!Rotated
    <3>3. \A q \in Processes :
              /\ procs'[q].token <= server'.issued
              /\ procs'[q].at \in {"migrating", "sending", "answered"} => procs'[q].token # Refresh!None
      BY <1>1, <1>2, <2>2, <3>1, <3>2
    <3>4. /\ keyring'.token <= server'.issued /\ keyring'.file <= server'.issued
          /\ \A w \in keyring'.late : w.token \in Nat /\ w.token <= server'.issued
      <4>1. \A w \in keyring.late : w.token \in Nat
        BY <1>1, <1>2 DEF KeyringType
      <4> QED
        BY <1>1, <1>2, <2>2, <3>2, <4>1
    <3> QED
      BY <1>1, <2>2, <2>3, <3>2, <3>3, <3>4 DEF RefreshTyped
  <2> QED
    BY <1>15, <2>4, <2>5
<1>16. ASSUME NEW p \in Processes, Refresh!Replayed(p)
       PROVE  RefreshTyped'
  <2>1. server' \in ServerType /\ server'.issued = server.issued /\ server'.used = server.used
    BY <1>1, <1>16 DEF Refresh!Replayed, ServerType
  <2>2. server'.issued >= server.issued /\ \A t \in server'.used : t <= server'.issued
    BY <1>1, <1>2, <2>1
  <2>3. history' \in HistoryType
    BY <1>1, <1>4, <1>16, TroubleGives DEF Refresh!Replayed
  <2>4. CASE Refresh!Drop(p, [keyring EXCEPT !.token = Refresh!None])
    <3>1. PICK k : k = [keyring EXCEPT !.token = Refresh!None]
      OBVIOUS
    <3>2. k \in KeyringType /\ k.token = Refresh!None /\ k.file = keyring.file /\ k.late = keyring.late
      BY <1>4, <3>1, TokenGives
    <3>3. Refresh!Drop(p, k)
      BY <2>4, <3>1
    <3> QED
      BY <1>1, <1>4, <1>5, <2>1, <2>2, <2>3, <3>2, <3>3
  <2>5. CASE Refresh!Drop(p, keyring)
    BY <1>1, <1>5, <2>1, <2>2, <2>3, <2>5
  <2>6. CASE Refresh!Drop(p, [keyring EXCEPT !.late = @ \cup {[by |-> p, token |-> Refresh!None]}])
    <3>1. PICK late : late = keyring.late \cup {[by |-> p, token |-> Refresh!None]}
      OBVIOUS
    <3>2. /\ late \in SUBSET [by : Processes, token : Known]
          /\ \A w \in late : w \in keyring.late \/ w.token = Refresh!None
      BY <1>4, <3>1, LeftToDo
    <3>3. PICK k : k = [keyring EXCEPT !.late = late]
      OBVIOUS
    <3>4. k \in KeyringType /\ k.token = keyring.token /\ k.file = keyring.file /\ k.late = late
      BY <3>2, <3>3, LateGives
    <3>5. Refresh!Drop(p, k)
      BY <2>6, <3>1, <3>3
    <3> QED
      BY <1>1, <1>4, <1>5, <2>1, <2>2, <2>3, <3>2, <3>4, <3>5
  <2> QED
    BY <1>16, <2>4, <2>5, <2>6 DEF Refresh!Replayed
<1>17. ASSUME NEW p \in Processes, Refresh!Failed(p) \/ Refresh!Verify(p)
       PROVE  RefreshTyped'
  BY <1>1, <1>2, <1>5, <1>17 DEF Refresh!Failed, Refresh!Verify
<1>18. ASSUME NEW p \in Processes, Refresh!Write(p)
       PROVE  RefreshTyped'
  <2>1. /\ keyring' \in KeyringType /\ keyring'.token = procs[p].token
        /\ keyring'.file = keyring.file /\ keyring'.late = keyring.late
    BY <1>2, <1>18, TokenGives DEF Refresh!Write
  <2> QED
    BY <1>1, <1>2, <1>4, <1>6, <1>18, <2>1 DEF Refresh!Write
<1>19. ASSUME NEW p \in Processes, Refresh!WriteFails(p)
       PROVE  RefreshTyped'
  <2>1. history' \in HistoryType
    BY <1>4, <1>19, TroubleGives DEF Refresh!WriteFails
  <2> QED
    BY <1>1, <1>2, <1>5, <1>19, <2>1 DEF Refresh!WriteFails
<1>20. ASSUME NEW p \in Processes, Refresh!WriteTimesOut(p)
       PROVE  RefreshTyped'
  <2>1. /\ procs[p].token \in Known /\ procs[p].token <= server.issued
        /\ Refresh!UsedAndStored \cup {procs[p].token} \in SUBSET Refresh!Tokens
    BY <1>1, <1>2, <1>4, <1>20 DEF Refresh!WriteTimesOut
  <2>2. history' \in HistoryType
    BY <1>20, <2>1, TroubleGives DEF Refresh!WriteTimesOut
  <2>3. PICK late : late = keyring.late \cup {[by |-> p, token |-> procs[p].token]}
    OBVIOUS
  <2>4. /\ late \in SUBSET [by : Processes, token : Known]
        /\ \A w \in late : w \in keyring.late \/ w.token = procs[p].token
    BY <2>1, <2>3, LeftToDo
  <2>5. PICK k : k = [keyring EXCEPT !.late = late]
    OBVIOUS
  <2>6. k \in KeyringType /\ k.token = keyring.token /\ k.file = keyring.file /\ k.late = late
    BY <2>4, <2>5, LateGives
  <2>7. Refresh!Drop(p, k) /\ server' = server
    BY <1>20, <2>3, <2>5 DEF Refresh!WriteTimesOut
  <2> QED
    BY <1>1, <1>2, <1>5, <2>1, <2>2, <2>4, <2>6, <2>7
<1>21. ASSUME NEW p \in Processes, Refresh!Crash(p)
       PROVE  RefreshTyped'
  <2>1. history' \in HistoryType
    BY <1>4, <1>21, TroubleGives DEF Refresh!Crash
  <2>2. PICK late : late = {w \in keyring.late : w.by # p}
    OBVIOUS
  <2>3. late \in SUBSET [by : Processes, token : Known] /\ late \subseteq keyring.late
    BY <1>1, <2>2 DEF KeyringType
  <2>4. keyring' = [keyring EXCEPT !.late = late]
    BY <1>21, <2>2 DEF Refresh!Crash
  <2>5. /\ keyring' \in KeyringType /\ keyring'.token = keyring.token
        /\ keyring'.file = keyring.file /\ keyring'.late = late
    BY <2>3, <2>4, LateGives
  <2> QED
    BY <1>1, <1>4, <1>6, <1>21, <2>1, <2>3, <2>5 DEF Refresh!Crash
<1> QED
  BY <1>7, <1>8, <1>9, <1>10, <1>11, <1>12, <1>13, <1>14, <1>15, <1>16, <1>17, <1>18, <1>19, <1>20, <1>21
     DEF Refresh!RefreshNext

\* What a step does to the lock: it leaves it as it is, lets it age, or is one of a process.
Counters == <<history.ofDead, history.ofLiving, history.slow>>
Ages ==
    /\ lock # Refresh!NoLock /\ lock'.owner = lock.owner /\ lock'.old = TRUE
    /\ history'.ofDead = history.ofDead /\ history'.ofLiving = history.ofLiving
    /\ \/ procs[lock.owner].at = "crashed" /\ history'.slow = history.slow
       \/ history'.slow = TRUE
Moves(p) ==
    /\ lock' = lock /\ Counters' = Counters
    /\ \/ procs[p].at \in Refresh!Holding /\ procs'[p].at \in Refresh!Holding
       \/ procs[p].at \in {"idle", "acquiring"} /\ procs'[p].at \in {"idle", "acquiring"}
Finds(p) ==
    /\ lock' = lock /\ Counters' = Counters
    /\ procs[p].at = "acquiring" /\ procs'[p].at = "removing" /\ lock.old
Takes(p) ==
    /\ lock = Refresh!NoLock /\ lock' = [owner |-> p, old |-> FALSE] /\ Counters' = Counters
    /\ procs[p].at = "acquiring" /\ procs'[p].at = "reading"
Drops(p) ==
    /\ lock' = Refresh!NoLock /\ Counters' = Counters
    /\ procs[p].at \in Refresh!Holding /\ procs'[p].at = "idle"
Removes(p) ==
    /\ lock' = Refresh!NoLock
    /\ procs[p].at = "removing" /\ procs'[p].at = "acquiring"
    /\ \/ lock = Refresh!NoLock /\ Counters' = Counters
       \/ /\ lock # Refresh!NoLock /\ procs[lock.owner].at = "crashed"
          /\ history'.ofDead = history.ofDead + 1
          /\ history'.ofLiving = history.ofLiving /\ history'.slow = history.slow
       \/ /\ lock # Refresh!NoLock /\ procs[lock.owner].at # "crashed"
          /\ history'.ofDead = history.ofDead
          /\ history'.ofLiving = history.ofLiving + 1 /\ history'.slow = history.slow
Dies(p) == lock' = lock /\ Counters' = Counters /\ procs[p].at \notin {"idle", "crashed"} /\ procs'[p].at = "crashed"
OneMoves(p) ==
    /\ \A q \in Processes \ {p} : procs'[q] = procs[q]
    /\ Moves(p) \/ Finds(p) \/ Takes(p) \/ Drops(p) \/ Removes(p) \/ Dies(p)

LEMMA LockSteps ==
    ASSUME RefreshTyped, [Refresh!RefreshNext]_refreshVars
    PROVE  \/ procs' = procs /\ lock' = lock /\ Counters' = Counters
           \/ procs' = procs /\ Ages
           \/ \E p \in Processes : OneMoves(p)
<1>1. /\ procs \in ProcsType /\ lock \in LockType /\ history \in HistoryType
      /\ {"idle", "acquiring", "removing", "crashed", "reading", "migrating", "sending", "answered", "written"}
            \subseteq Refresh!Stages
      /\ Refresh!Holding = {"reading", "migrating", "sending", "answered", "written"}
      /\ Refresh!None \in Known /\ Refresh!UsedAndStored \in SUBSET Refresh!Tokens /\ {} \in SUBSET Refresh!Tokens
      /\ keyring.token \in Known /\ keyring.file \in Known
      /\ \A p \in Processes : procs[p].token \in Known
      /\ \A t \in Known : t # Refresh!None => t \in Refresh!Tokens
      /\ \A p \in Processes :
             procs[p].at \in {"migrating", "sending", "answered"} => procs[p].token \in Refresh!Tokens
  BY RefreshFields DEF RefreshTyped, Refresh!Stages, Refresh!Holding, Refresh!UsedAndStored, Known
<1>2. ASSUME NEW tokens \in SUBSET Refresh!Tokens, Refresh!Fails(tokens)
      PROVE  Counters' = Counters
  BY <1>2, TroubleGives DEF Counters
<1>3. ASSUME NEW p \in Processes, NEW kept, Refresh!Drop(p, kept), procs[p].at \in Refresh!Holding, Counters' = Counters
      PROVE  OneMoves(p)
  BY <1>3, DropGives DEF OneMoves, Drops
<1>4. CASE UNCHANGED refreshVars
  BY <1>4 DEF refreshVars, Counters
<1>5. CASE Refresh!LockAges
  <2>1. procs' = procs /\ lock # Refresh!NoLock /\ lock' = [lock EXCEPT !.old = TRUE]
    BY <1>5 DEF Refresh!LockAges
  <2>2. lock'.owner = lock.owner /\ lock'.old = TRUE
    BY <1>1, <2>1 DEF LockType
  <2>3. CASE procs[lock.owner].at = "crashed"
    BY <1>5, <2>1, <2>2, <2>3 DEF Refresh!LockAges, Ages
  <2>4. CASE procs[lock.owner].at # "crashed"
    <3>1. history' = [history EXCEPT !.failures = history.failures + 1, !.slow = TRUE]
      BY <1>5, <2>4 DEF Refresh!LockAges
    <3>2. history'.ofDead = history.ofDead /\ history'.ofLiving = history.ofLiving /\ history'.slow = TRUE
      BY <1>1, <3>1 DEF HistoryType
    <3> QED
      BY <2>1, <2>2, <3>2 DEF Ages
  <2> QED
    BY <2>3, <2>4
<1>6. ASSUME NEW w \in keyring.late, Refresh!LateWrite(w)
      PROVE  procs' = procs /\ lock' = lock /\ Counters' = Counters
  BY <1>6 DEF Refresh!LateWrite, Counters
<1>7. ASSUME NEW p \in Processes,
             Refresh!Want(p) \/ Refresh!Acquire(p) \/ Refresh!FindStale(p) \/ Refresh!GiveUp(p)
      PROVE  OneMoves(p)
  <2>1. CASE Refresh!Want(p) \/ Refresh!GiveUp(p)
    BY <1>1, <2>1, GotoGives DEF Refresh!Want, Refresh!GiveUp, OneMoves, Moves, Counters
  <2>2. CASE Refresh!Acquire(p)
    BY <1>1, <2>2, GotoGives DEF Refresh!Acquire, OneMoves, Takes, Counters
  <2>3. CASE Refresh!FindStale(p)
    BY <1>1, <2>3, GotoGives DEF Refresh!FindStale, OneMoves, Finds, Counters
  <2> QED
    BY <1>7, <2>1, <2>2, <2>3
<1>8. ASSUME NEW p \in Processes, Refresh!RemoveStale(p)
      PROVE  OneMoves(p)
  <2>1. /\ procs[p].at = "removing" /\ procs'[p].at = "acquiring" /\ lock' = Refresh!NoLock
        /\ \A q \in Processes \ {p} : procs'[q] = procs[q]
    BY <1>1, <1>8, GotoGives DEF Refresh!RemoveStale
  <2>2. CASE lock = Refresh!NoLock
    BY <1>8, <2>1, <2>2 DEF Refresh!RemoveStale, OneMoves, Removes, Counters
  <2>3. CASE lock # Refresh!NoLock /\ procs[lock.owner].at = "crashed"
    <3>1. history' = [history EXCEPT !.ofDead = history.ofDead + 1]
      BY <1>8, <2>3 DEF Refresh!RemoveStale
    <3>2. /\ history'.ofDead = history.ofDead + 1
          /\ history'.ofLiving = history.ofLiving /\ history'.slow = history.slow
      BY <1>1, <3>1 DEF HistoryType
    <3> QED
      BY <2>1, <2>3, <3>2 DEF OneMoves, Removes
  <2>4. CASE lock # Refresh!NoLock /\ procs[lock.owner].at # "crashed"
    <3>1. history' = [history EXCEPT !.ofLiving = history.ofLiving + 1]
      BY <1>8, <2>4 DEF Refresh!RemoveStale
    <3>2. /\ history'.ofDead = history.ofDead
          /\ history'.ofLiving = history.ofLiving + 1 /\ history'.slow = history.slow
      BY <1>1, <3>1 DEF HistoryType
    <3> QED
      BY <2>1, <2>4, <3>2 DEF OneMoves, Removes
  <2> QED
    BY <2>2, <2>3, <2>4
<1>9. ASSUME NEW p \in Processes, Refresh!Read(p) \/ Refresh!Write(p)
      PROVE  OneMoves(p)
  BY <1>1, <1>9, GotoGives DEF Refresh!Read, Refresh!Write, OneMoves, Moves, Counters
<1>10. ASSUME NEW p \in Processes, Refresh!ReadFile(p)
       PROVE  OneMoves(p)
  <2>1. procs[p].at = "reading" /\ procs[p].at \in Refresh!Holding
    BY <1>1, <1>10 DEF Refresh!ReadFile
  <2>2. Counters' = Counters
    BY <1>1, <1>2, <1>10 DEF Refresh!ReadFile, Counters
  <2>3. CASE keyring.file = Refresh!None
    BY <1>3, <1>10, <2>1, <2>2, <2>3 DEF Refresh!ReadFile
  <2>4. CASE keyring.file # Refresh!None
    BY <1>1, <1>10, <2>1, <2>2, <2>4, GotoGives DEF Refresh!ReadFile, OneMoves, Moves
  <2> QED
    BY <2>3, <2>4
<1>11. ASSUME NEW p \in Processes, Refresh!Migrate(p)
       PROVE  OneMoves(p)
  <2>1. procs[p].at = "migrating" /\ lock' = lock /\ procs[p].token \in Refresh!Tokens
    BY <1>1, <1>11 DEF Refresh!Migrate
  <2>2. Counters' = Counters
    BY <1>2, <1>11, <2>1 DEF Refresh!Migrate, Counters
  <2> QED
    BY <1>1, <1>11, <2>1, <2>2, GotoGives DEF Refresh!Migrate, OneMoves, Moves
<1>12. ASSUME NEW p \in Processes, Refresh!Rotated(p)
       PROVE  OneMoves(p)
  <2>1. server.issued + 1 \in Known
    BY <1>12, RefreshFields DEF Refresh!Rotated
  <2> QED
    BY <1>1, <1>12, <2>1, GotoGives DEF Refresh!Rotated, OneMoves, Moves, Counters
<1>13. ASSUME NEW p \in Processes,
              \/ Refresh!Replayed(p) \/ Refresh!Failed(p) \/ Refresh!AnswerLost(p)
              \/ Refresh!WriteFails(p) \/ Refresh!WriteTimesOut(p) \/ Refresh!Verify(p)
       PROVE  OneMoves(p)
  <2>1. procs[p].at \in Refresh!Holding
    BY <1>1, <1>13 DEF Refresh!Replayed, Refresh!Failed, Refresh!AnswerLost, Refresh!WriteFails,
       Refresh!WriteTimesOut, Refresh!Verify
  <2>2. Counters' = Counters
    <3>1. CASE Refresh!Failed(p) \/ Refresh!Verify(p)
      BY <3>1 DEF Refresh!Failed, Refresh!Verify, Counters
    <3>2. CASE Refresh!Replayed(p)
      BY <1>1, <1>2, <3>2 DEF Refresh!Replayed, Counters
    <3>3. CASE Refresh!AnswerLost(p)
      BY <1>1, <1>2, <3>3 DEF Refresh!AnswerLost
    <3>4. CASE Refresh!WriteFails(p)
      BY <1>1, <1>2, <3>4 DEF Refresh!WriteFails
    <3>5. CASE Refresh!WriteTimesOut(p)
      <4>1. Refresh!UsedAndStored \cup {procs[p].token} \in SUBSET Refresh!Tokens
        BY <1>1, <3>5 DEF Refresh!WriteTimesOut
      <4> QED
        BY <1>2, <3>5, <4>1 DEF Refresh!WriteTimesOut
    <3> QED
      BY <1>13, <3>1, <3>2, <3>3, <3>4, <3>5
  <2>3. \E kept : Refresh!Drop(p, kept)
    BY <1>13 DEF Refresh!Replayed, Refresh!Failed, Refresh!AnswerLost, Refresh!WriteFails,
       Refresh!WriteTimesOut, Refresh!Verify
  <2> QED
    BY <1>3, <2>1, <2>2, <2>3
<1>14. ASSUME NEW p \in Processes, Refresh!Crash(p)
       PROVE  OneMoves(p)
  <2>1. Counters' = Counters
    BY <1>1, <1>2, <1>14 DEF Refresh!Crash
  <2> QED
    BY <1>1, <1>14, <2>1, GotoGives DEF Refresh!Crash, OneMoves, Dies
<1> QED
  BY <1>4, <1>5, <1>6, <1>7, <1>8, <1>9, <1>10, <1>11, <1>12, <1>13, <1>14 DEF Refresh!RefreshNext

\* Every lock taken from a living process lets one more of them at the token.
Counted ==
    /\ IsFiniteSet(Refresh!Unfinished)
    /\ Cardinality(Refresh!Unfinished) <= 1 + history.ofLiving
    /\ lock = Refresh!NoLock \/ procs[lock.owner].at = "crashed" =>
           Cardinality(Refresh!Unfinished) <= history.ofLiving

\* Before any is taken, whoever is between reading and verifying made the lock that is there.
Held == \A p \in Processes : procs[p].at \in Refresh!Holding => lock.owner = p

\* Until a lock was left by the dead or outlived 30 s, an old one is that of the dead,
\* and whoever is about to remove one removes that.
StaleIsDead ==
    /\ history.ofLiving = 0
    /\ lock.old => procs[lock.owner].at = "crashed"
    /\ \A p \in Processes : procs[p].at = "removing" => lock.old

LockInv ==
    /\ \/ lock = Refresh!NoLock
       \/ lock.owner \in Processes /\ procs[lock.owner].at \in Refresh!Holding \cup {"crashed"}
    /\ Counted
    /\ history.ofLiving = 0 => Held
    /\ history.ofDead > 0 \/ history.slow \/ StaleIsDead

\* Whoever holds or held the lock is not where the others are.
LEMMA HoldingIs ==
    Refresh!Holding = {"reading", "migrating", "sending", "answered", "written"}
BY DEF Refresh!Holding

\* The processes that hold a token: the same, one more, or one less.
LEMMA UnfinishedAre ==
    ASSUME NEW p \in Processes, \A q \in Processes \ {p} : procs'[q] = procs[q]
    PROVE  Refresh!Unfinished' = IF procs'[p].at \in Refresh!Holding
                                 THEN Refresh!Unfinished \cup {p} ELSE Refresh!Unfinished \ {p}
BY DEF Refresh!Unfinished, Refresh!Holding

LEMMA LockStep ==
    ASSUME RefreshTyped, LockInv, [Refresh!RefreshNext]_refreshVars
    PROVE  LockInv'
<1> DEFINE U == Refresh!Unfinished
<1>1. /\ lock \in LockType /\ history.ofDead \in Nat /\ history.ofLiving \in Nat
      /\ history.slow \in BOOLEAN
      /\ Refresh!NoLock.old = FALSE /\ Refresh!NoLock.owner = "nobody" /\ "nobody" \notin Processes
  BY RefreshFields, ProcessesAssumption DEF Refresh!NoLock
<1>2. /\ \/ lock = Refresh!NoLock
         \/ lock.owner \in Processes /\ procs[lock.owner].at \in Refresh!Holding \cup {"crashed"}
      /\ IsFiniteSet(U) /\ Cardinality(U) \in Nat /\ Cardinality(U) <= 1 + history.ofLiving
      /\ lock = Refresh!NoLock \/ procs[lock.owner].at = "crashed" => Cardinality(U) <= history.ofLiving
      /\ history.ofLiving = 0 => Held
      /\ history.ofDead > 0 \/ history.slow \/ StaleIsDead
  BY FS_CardinalityType DEF LockInv, Counted
<1>3. CASE procs' = procs /\ lock' = lock /\ Counters' = Counters
  BY <1>3 DEF LockInv, Counted, Held, StaleIsDead, Counters, Refresh!Unfinished
<1>4. CASE procs' = procs /\ Ages
  <2>1. lock # Refresh!NoLock /\ lock'.owner = lock.owner /\ lock' # Refresh!NoLock
    BY <1>1, <1>4 DEF Ages
  <2>2. Refresh!Unfinished' = U
    BY <1>4 DEF Refresh!Unfinished
  <2>3. Counted'
    BY <1>2, <1>4, <2>1, <2>2 DEF Counted, Ages
  <2>4. history'.ofLiving = 0 => Held'
    BY <1>2, <1>4, <2>1 DEF Held, Ages
  <2>5. (history.ofDead > 0 \/ history.slow \/ StaleIsDead)'
    BY <1>2, <1>4, <2>1 DEF StaleIsDead, Ages
  <2> QED
    BY <1>2, <1>4, <2>1, <2>3, <2>4, <2>5 DEF LockInv
<1>5. ASSUME NEW p \in Processes, OneMoves(p)
      PROVE  LockInv'
  <2>1. /\ \A q \in Processes \ {p} : procs'[q] = procs[q]
        /\ Moves(p) \/ Finds(p) \/ Takes(p) \/ Drops(p) \/ Removes(p) \/ Dies(p)
    BY <1>5 DEF OneMoves
  <2>2. Refresh!Unfinished' = IF procs'[p].at \in Refresh!Holding THEN U \cup {p} ELSE U \ {p}
    BY <2>1, UnfinishedAre
  <2>3. p \in U <=> procs[p].at \in Refresh!Holding
    BY DEF Refresh!Unfinished
  <2>4. CASE Moves(p)
    <3>1. /\ lock' = lock /\ history'.ofDead = history.ofDead /\ history'.ofLiving = history.ofLiving
          /\ history'.slow = history.slow
          /\ procs[p].at \in Refresh!Holding <=> procs'[p].at \in Refresh!Holding
          /\ procs[p].at # "crashed" /\ procs'[p].at # "crashed" /\ procs'[p].at # "removing"
      BY <2>4, HoldingIs DEF Moves, Counters
    <3>2. Refresh!Unfinished' = U
      BY <2>2, <2>3, <3>1
    <3> QED
      BY <1>1, <1>2, <2>1, <3>1, <3>2 DEF LockInv, Counted, Held, StaleIsDead
  <2>5. CASE Finds(p)
    <3>1. /\ lock' = lock /\ history'.ofDead = history.ofDead /\ history'.ofLiving = history.ofLiving
          /\ history'.slow = history.slow /\ lock.old
          /\ procs[p].at \notin Refresh!Holding \cup {"crashed"}
          /\ procs'[p].at \notin Refresh!Holding \cup {"crashed"}
      BY <2>5, HoldingIs DEF Finds, Counters
    <3>2. Refresh!Unfinished' = U
      BY <2>2, <2>3, <3>1
    <3> QED
      BY <1>1, <1>2, <2>1, <3>1, <3>2 DEF LockInv, Counted, Held, StaleIsDead
  <2>6. CASE Takes(p)
    <3>1. /\ lock = Refresh!NoLock /\ lock'.owner = p /\ lock'.old = FALSE /\ lock' # Refresh!NoLock
          /\ history'.ofDead = history.ofDead /\ history'.ofLiving = history.ofLiving
          /\ history'.slow = history.slow
          /\ procs[p].at \notin Refresh!Holding \cup {"crashed", "removing"}
          /\ procs'[p].at = "reading" /\ procs'[p].at \in Refresh!Holding
      BY <1>1, <2>6, HoldingIs DEF Takes, Counters
    <3>2. Refresh!Unfinished' = U \cup {p} /\ p \notin U
      BY <2>2, <2>3, <3>1
    <3>3. IsFiniteSet(U \cup {p}) /\ Cardinality(U \cup {p}) = Cardinality(U) + 1
      BY <1>2, <3>2, FS_AddElement
    <3>4. Counted'
      BY <1>1, <1>2, <3>1, <3>2, <3>3 DEF Counted
    <3>5. history'.ofLiving = 0 => Held'
      <4>1. history.ofLiving = 0 => \A q \in Processes : procs[q].at \notin Refresh!Holding
        BY <1>1, <1>2, <3>1 DEF Held
      <4> QED
        BY <2>1, <3>1, <4>1 DEF Held
    <3>6. (history.ofDead > 0 \/ history.slow \/ StaleIsDead)'
      BY <1>1, <1>2, <2>1, <3>1 DEF StaleIsDead
    <3> QED
      BY <3>1, <3>4, <3>5, <3>6 DEF LockInv
  <2>7. CASE Drops(p)
    <3>1. /\ lock' = Refresh!NoLock /\ history'.ofDead = history.ofDead
          /\ history'.ofLiving = history.ofLiving /\ history'.slow = history.slow
          /\ procs[p].at \in Refresh!Holding /\ procs'[p].at = "idle"
          /\ procs'[p].at \notin Refresh!Holding /\ procs[p].at # "crashed"
      BY <2>7, HoldingIs DEF Drops, Counters
    <3>2. Refresh!Unfinished' = U \ {p} /\ p \in U
      BY <2>2, <2>3, <3>1
    <3>3. IsFiniteSet(U \ {p}) /\ Cardinality(U \ {p}) = Cardinality(U) - 1
      BY <1>2, <3>2, FS_RemoveElement
    <3>4. Counted'
      BY <1>1, <1>2, <3>1, <3>2, <3>3 DEF Counted
    <3>5. history'.ofLiving = 0 => Held'
      BY <1>2, <2>1, <3>1 DEF Held
    <3>6. (history.ofDead > 0 \/ history.slow \/ StaleIsDead)'
      <4>1. history.ofDead > 0 \/ history.slow \/ ~lock.old
        BY <1>2, <3>1 DEF Held, StaleIsDead
      <4> QED
        BY <1>1, <1>2, <2>1, <3>1, <4>1 DEF StaleIsDead
    <3> QED
      BY <3>1, <3>4, <3>5, <3>6 DEF LockInv
  <2>8. CASE Removes(p)
    <3>1. /\ lock' = Refresh!NoLock /\ procs[p].at = "removing" /\ procs'[p].at = "acquiring"
          /\ procs'[p].at \notin Refresh!Holding /\ p \notin U
      BY <2>3, <2>8, HoldingIs DEF Removes
    <3>2. Refresh!Unfinished' = U
      BY <2>2, <3>1
    <3>3. CASE lock = Refresh!NoLock /\ Counters' = Counters
      <4>1. /\ history'.ofDead = history.ofDead /\ history'.ofLiving = history.ofLiving
            /\ history'.slow = history.slow
        BY <3>3 DEF Counters
      <4>2. Counted'
        BY <1>2, <3>1, <3>2, <3>3, <4>1 DEF Counted
      <4>3. history'.ofLiving = 0 => Held'
        BY <1>1, <1>2, <2>1, <3>1, <3>3, <4>1 DEF Held
      <4>4. (history.ofDead > 0 \/ history.slow \/ StaleIsDead)'
        BY <1>1, <1>2, <2>1, <3>1, <3>3, <4>1 DEF StaleIsDead
      <4> QED
        BY <3>1, <4>2, <4>3, <4>4 DEF LockInv
    <3>4. CASE /\ lock # Refresh!NoLock /\ procs[lock.owner].at = "crashed"
               /\ history'.ofDead = history.ofDead + 1
               /\ history'.ofLiving = history.ofLiving /\ history'.slow = history.slow
      <4>1. Counted'
        BY <1>1, <1>2, <3>1, <3>2, <3>4 DEF Counted
      <4>2. history'.ofLiving = 0 => Held'
        BY <1>2, <2>1, <3>1, <3>4, HoldingIs DEF Held
      <4>3. history'.ofDead > 0
        BY <1>1, <3>4
      <4> QED
        BY <3>1, <4>1, <4>2, <4>3 DEF LockInv
    <3>5. CASE /\ lock # Refresh!NoLock /\ procs[lock.owner].at # "crashed"
               /\ history'.ofDead = history.ofDead
               /\ history'.ofLiving = history.ofLiving + 1 /\ history'.slow = history.slow
      <4>1. Counted'
        BY <1>1, <1>2, <3>1, <3>2, <3>5 DEF Counted
      <4>2. history'.ofLiving # 0
        BY <1>1, <3>5
      <4>3. (history.ofDead > 0 \/ history.slow)'
        BY <1>2, <3>1, <3>5 DEF StaleIsDead
      <4> QED
        BY <3>1, <4>1, <4>2, <4>3 DEF LockInv
    <3> QED
      BY <2>8, <3>3, <3>4, <3>5 DEF Removes
  <2>9. CASE Dies(p)
    <3>1. /\ lock' = lock /\ history'.ofDead = history.ofDead /\ history'.ofLiving = history.ofLiving
          /\ history'.slow = history.slow
          /\ procs[p].at # "crashed" /\ procs'[p].at = "crashed" /\ procs'[p].at \notin Refresh!Holding
      BY <2>9, HoldingIs DEF Dies, Counters
    <3>2. Refresh!Unfinished' = U \ {p}
      BY <2>2, <3>1
    <3>3. IsFiniteSet(U \ {p})
          /\ Cardinality(U \ {p}) = IF p \in U THEN Cardinality(U) - 1 ELSE Cardinality(U)
      BY <1>2, FS_RemoveElement
    <3>4. Counted'
      <4>1. CASE p \in U
        BY <1>1, <1>2, <3>1, <3>2, <3>3, <4>1 DEF Counted
      <4>2. CASE p \notin U
        <5>1. lock = Refresh!NoLock \/ lock.owner # p
          BY <1>2, <2>3, <3>1, <4>2
        <5> QED
          BY <1>1, <1>2, <2>1, <3>1, <3>2, <3>3, <4>2, <5>1 DEF Counted
      <4> QED
        BY <4>1, <4>2
    <3>5. history'.ofLiving = 0 => Held'
      BY <1>2, <2>1, <3>1 DEF Held
    <3>6. (history.ofDead > 0 \/ history.slow \/ StaleIsDead)'
      BY <1>1, <1>2, <2>1, <3>1 DEF StaleIsDead
    <3>7. lock = Refresh!NoLock \/ (lock.owner \in Processes /\ procs'[lock.owner].at \in Refresh!Holding \cup {"crashed"})
      BY <1>2, <2>1, <3>1
    <3> QED
      BY <3>1, <3>4, <3>5, <3>6, <3>7 DEF LockInv
  <2> QED
    BY <2>1, <2>4, <2>5, <2>6, <2>7, <2>8, <2>9
<1> QED
  BY <1>3, <1>4, <1>5, LockSteps

\* While no lock was taken from the living: what is presented, stored, or still to be written was
\* not used or is stranded, a token only counts as stored while its successor is in no hand, and
\* what was answered is new.
Stranded ==
    /\ server.replayed \subseteq history.stranded
    /\ \A p \in Processes :
           /\ procs[p].at \in {"migrating", "sending"} /\ procs[p].token \in server.used =>
                  procs[p].token \in history.stranded
           /\ procs[p].at = "sending" /\ procs[p].token = keyring.file =>
                  procs[p].token \in history.stranded
           /\ procs[p].at = "migrating" => procs[p].token = keyring.file
           /\ procs[p].at = "answered" => procs[p].token \notin server.used \cup {keyring.file}
    /\ keyring.token \in server.used =>
           \/ keyring.token \in history.stranded
           \/ \E p \in Processes : procs[p].at = "answered"
    /\ keyring.file \in server.used => keyring.file \in history.stranded
    /\ keyring.token = keyring.file /\ keyring.token # Refresh!None => keyring.token \in history.stranded
    /\ \A w \in keyring.late : w.token \in history.stranded \cup {Refresh!None}

\* A step that moves no token.
LEMMA StrandedSame ==
    ASSUME Stranded, keyring' = keyring, server' = server, history'.stranded = history.stranded,
           \A q \in Processes :
               \/ procs'[q] = procs[q]
               \/ procs[q].at # "answered" /\ procs'[q].at \notin {"migrating", "sending", "answered"}
    PROVE  Stranded'
BY DEF Stranded

\* The process at the token ends.
LEMMA StrandedEnds ==
    ASSUME Held, Stranded, NEW p \in Processes, procs[p].at \in Refresh!Holding,
           \A q \in Processes \ {p} : procs'[q] = procs[q], procs'[p].at \in {"idle", "crashed"},
           history.stranded \subseteq history'.stranded,
           server'.used \subseteq server.used \cup history'.stranded,
           server'.replayed \subseteq server.replayed \cup history'.stranded,
           keyring'.file = keyring.file,
           keyring'.token \in {keyring.token, Refresh!None}, Refresh!None \notin server'.used,
           \A w \in keyring'.late : w \in keyring.late \/ w.token \in history'.stranded \cup {Refresh!None},
           procs[p].at = "answered" => (keyring'.token \in server'.used => keyring'.token \in history'.stranded)
    PROVE  Stranded'
<1>1. \A q \in Processes : procs'[q].at \notin {"migrating", "sending", "answered"}
  BY HoldingIs DEF Held
<1>2. \A q \in Processes \ {p} : procs[q].at # "answered"
  BY HoldingIs DEF Held
<1>3. keyring'.token \in server'.used => keyring'.token \in history'.stranded
  BY <1>2 DEF Stranded
<1> QED
  BY <1>1, <1>3 DEF Stranded

LEMMA StrandedStep ==
    ASSUME RefreshTyped, Held, Stranded, [Refresh!RefreshNext]_refreshVars
    PROVE  Stranded'
<1>1. /\ procs \in ProcsType /\ history \in HistoryType
      /\ {"idle", "acquiring", "removing", "crashed", "reading", "migrating", "sending", "answered", "written"}
            \subseteq Refresh!Stages
      /\ Known = 0..MaxTokens /\ Refresh!Tokens = 1..MaxTokens /\ Refresh!None = 0 /\ MaxTokens \in Nat
      /\ Refresh!None \in Known /\ Refresh!None \notin server.used
      /\ Refresh!UsedAndStored \in SUBSET Refresh!Tokens /\ {} \in SUBSET Refresh!Tokens
      /\ keyring.token \in Known /\ keyring.file \in Known
      /\ server.issued \in Refresh!Tokens /\ server.used \in SUBSET Refresh!Tokens
      /\ \A p \in Processes : procs[p].token \in Known
      /\ \A p \in Processes :
             procs[p].at \in {"migrating", "sending", "answered"} => procs[p].token \in Refresh!Tokens
      /\ keyring.token <= server.issued /\ keyring.file <= server.issued
      /\ \A t \in server.used : t <= server.issued
  BY RefreshFields DEF RefreshTyped, Refresh!Stages, Refresh!Holding, Refresh!UsedAndStored
<1>2. ASSUME NEW p \in Processes, procs[p].at \in Refresh!Holding
      PROVE  \A q \in Processes \ {p} : procs[q].at \notin {"reading", "migrating", "sending", "answered", "written"}
  BY <1>2, HoldingIs DEF Held
<1>3. CASE UNCHANGED refreshVars
  BY <1>3, StrandedSame DEF refreshVars
<1>4. CASE Refresh!LockAges
  <2>1. history'.stranded = history.stranded
    BY <1>1, <1>4 DEF Refresh!LockAges, HistoryType
  <2> QED
    BY <1>4, <2>1, StrandedSame DEF Refresh!LockAges
<1>5. ASSUME NEW w \in keyring.late, Refresh!LateWrite(w)
      PROVE  Stranded'
  <2>1. /\ keyring'.token = w.token /\ keyring'.file = keyring.file
        /\ keyring'.late = keyring.late \ {w}
    BY <1>5 DEF Refresh!LateWrite, RefreshTyped, KeyringType
  <2>2. w.token \in history.stranded \cup {Refresh!None}
    BY DEF Stranded
  <2> QED
    BY <1>1, <1>5, <2>1, <2>2 DEF Stranded, Refresh!LateWrite
<1>6. ASSUME NEW p \in Processes,
             Refresh!Want(p) \/ Refresh!Acquire(p) \/ Refresh!FindStale(p) \/ Refresh!GiveUp(p)
      PROVE  Stranded'
  BY <1>1, <1>6, GotoGives, StrandedSame
     DEF Refresh!Want, Refresh!Acquire, Refresh!FindStale, Refresh!GiveUp
<1>7. ASSUME NEW p \in Processes, Refresh!RemoveStale(p)
      PROVE  Stranded'
  <2>1. history'.stranded = history.stranded
    BY <1>1, <1>7 DEF Refresh!RemoveStale, HistoryType
  <2> QED
    BY <1>1, <1>7, <2>1, GotoGives, StrandedSame DEF Refresh!RemoveStale
<1>8. ASSUME NEW p \in Processes, Refresh!Read(p)
      PROVE  Stranded'
  <2>1. /\ procs[p].at = "reading" /\ procs[p].at \in Refresh!Holding /\ keyring.token # Refresh!None
        /\ keyring' = keyring /\ server' = server /\ history' = history
    BY <1>8, HoldingIs DEF Refresh!Read
  <2>2. /\ procs'[p].at = "sending" /\ procs'[p].token = keyring.token
        /\ \A q \in Processes \ {p} : procs'[q] = procs[q]
    BY <1>1, <1>8, GotoGives DEF Refresh!Read
  <2>3. \A q \in Processes : procs[q].at # "answered"
    BY <1>2, <2>1
  <2> QED
    BY <2>1, <2>2, <2>3 DEF Stranded
<1>9. ASSUME NEW p \in Processes, Refresh!ReadFile(p)
      PROVE  Stranded'
  <2>1. /\ procs[p].at = "reading" /\ procs[p].at \in Refresh!Holding /\ server' = server
        /\ history'.stranded = history.stranded
    BY <1>1, <1>9, HoldingIs, TroubleGives DEF Refresh!ReadFile
  <2>2. CASE keyring.file = Refresh!None
    <3>1. Refresh!Drop(p, keyring)
      BY <1>9, <2>2 DEF Refresh!ReadFile
    <3> QED
      BY <2>1, <3>1, DropGives, StrandedSame
  <2>3. CASE keyring.file # Refresh!None
    <3>1. /\ procs'[p].at = "migrating" /\ procs'[p].token = keyring.file /\ keyring' = keyring
          /\ \A q \in Processes \ {p} : procs'[q] = procs[q]
      BY <1>1, <1>9, <2>3, GotoGives DEF Refresh!ReadFile
    <3> QED
      BY <2>1, <3>1 DEF Stranded
  <2> QED
    BY <2>2, <2>3
<1>10. ASSUME NEW p \in Processes, Refresh!Migrate(p)
       PROVE  Stranded'
  <2>1. /\ procs[p].at = "migrating" /\ procs[p].at \in Refresh!Holding /\ procs[p].token \in Refresh!Tokens
        /\ procs[p].token = keyring.file /\ server' = server
    BY <1>1, <1>10, HoldingIs DEF Refresh!Migrate, Stranded
  <2>2. /\ procs'[p].at = "sending" /\ procs'[p].token = procs[p].token
        /\ \A q \in Processes \ {p} : procs'[q] = procs[q]
    BY <1>1, <1>10, <2>1, GotoGives DEF Refresh!Migrate
  <2>3. CASE /\ keyring' = [keyring EXCEPT !.token = procs[p].token, !.file = Refresh!None]
             /\ history' = history
    <3>1. /\ keyring'.token = procs[p].token /\ keyring'.file = Refresh!None
          /\ keyring'.late = keyring.late
      BY <2>3 DEF RefreshTyped, KeyringType
    <3>2. \A q \in Processes \ {p} : procs'[q].at \notin {"migrating", "sending", "answered"}
      BY <1>2, <2>1, <2>2
    <3> QED
      BY <1>1, <2>1, <2>2, <2>3, <3>1, <3>2 DEF Stranded
  <2>4. CASE /\ keyring' = [keyring EXCEPT !.token = procs[p].token]
             /\ Refresh!Fails({procs[p].token})
    <3>1. /\ keyring'.token = procs[p].token /\ keyring'.file = keyring.file
          /\ keyring'.late = keyring.late
      BY <2>4 DEF RefreshTyped, KeyringType
    <3>2. history'.stranded = history.stranded \cup {procs[p].token}
      BY <2>1, <2>4, TroubleGives
    <3> QED
      BY <1>1, <2>1, <2>2, <3>1, <3>2 DEF Stranded
  <2> QED
    BY <1>10, <2>3, <2>4 DEF Refresh!Migrate
<1>11. ASSUME NEW p \in Processes, Refresh!Rotated(p)
       PROVE  Stranded'
  <2>1. /\ procs[p].at = "sending" /\ procs[p].at \in Refresh!Holding /\ procs[p].token \in Refresh!Tokens
        /\ keyring' = keyring /\ history' = history
    BY <1>1, <1>11, HoldingIs DEF Refresh!Rotated
  <2>2. /\ server'.used = server.used \cup {procs[p].token} /\ server'.replayed = server.replayed
        /\ server.issued + 1 \in Known
    <3>1. /\ server'.used = server.used \cup {procs[p].token} /\ server'.replayed = server.replayed
          /\ server.issued + 1 \in Refresh!Tokens
      BY <1>11, <2>1, IssueGives DEF Refresh!Rotated
    <3> QED
      BY <3>1 DEF Known
  <2>3. /\ procs'[p].at = "answered" /\ procs'[p].token = server.issued + 1
        /\ \A q \in Processes \ {p} : procs'[q] = procs[q]
    BY <1>1, <1>11, <2>2, GotoGives DEF Refresh!Rotated
  <2>4. server.issued + 1 \notin server'.used \cup {keyring.file}
    <3>1. procs[p].token <= server.issued
      BY DEF RefreshTyped
    <3> QED
      BY <1>1, <2>2, <3>1
  <2>5. \A q \in Processes \ {p} : procs'[q].at \notin {"migrating", "sending", "answered"}
    BY <1>2, <2>1, <2>3
  <2> QED
    BY <2>1, <2>2, <2>3, <2>4, <2>5 DEF Stranded
<1>12. ASSUME NEW p \in Processes, Refresh!Replayed(p)
       PROVE  Stranded'
  <2>1. /\ procs[p].at = "sending" /\ procs[p].at \in Refresh!Holding /\ procs[p].token \in history.stranded
        /\ server'.used = server.used /\ server'.replayed = server.replayed \cup {procs[p].token}
    BY <1>12, HoldingIs DEF Refresh!Replayed, Stranded, RefreshTyped, ServerType
  <2>2. history'.stranded = history.stranded
    BY <1>1, <1>12, TroubleGives DEF Refresh!Replayed
  <2>3. /\ \E kept : Refresh!Drop(p, kept)
        /\ keyring'.file = keyring.file
        /\ keyring'.token \in {keyring.token, Refresh!None}
        /\ \A w \in keyring'.late : w \in keyring.late \/ w.token = Refresh!None
    <3>1. CASE Refresh!Drop(p, keyring)
      BY <3>1, DropGives
    <3>2. CASE Refresh!Drop(p, [keyring EXCEPT !.token = Refresh!None])
      <4>1. keyring' = [keyring EXCEPT !.token = Refresh!None]
        BY <3>2, DropGives
      <4>2. /\ keyring'.file = keyring.file /\ keyring'.token = Refresh!None
            /\ keyring'.late = keyring.late
        BY <4>1 DEF RefreshTyped, KeyringType
      <4> QED
        BY <3>2, <4>2
    <3>3. CASE Refresh!Drop(p, [keyring EXCEPT !.late = @ \cup {[by |-> p, token |-> Refresh!None]}])
      <4>1. keyring' = [keyring EXCEPT !.late = keyring.late \cup {[by |-> p, token |-> Refresh!None]}]
        BY <3>3, DropGives
      <4>2. /\ keyring'.file = keyring.file /\ keyring'.token = keyring.token
            /\ keyring'.late = keyring.late \cup {[by |-> p, token |-> Refresh!None]}
        BY <4>1 DEF RefreshTyped, KeyringType
      <4> QED
        BY <3>3, <4>2
    <3> QED
      BY <1>12, <3>1, <3>2, <3>3 DEF Refresh!Replayed
  <2>4. procs'[p].at = "idle" /\ \A q \in Processes \ {p} : procs'[q] = procs[q]
    BY <2>3, DropGives
  <2> QED
    BY <1>1, <2>1, <2>2, <2>3, <2>4, StrandedEnds
<1>13. ASSUME NEW p \in Processes, Refresh!Failed(p) \/ Refresh!Verify(p)
       PROVE  Stranded'
  <2>1. /\ Refresh!Drop(p, keyring) /\ server' = server /\ history' = history
        /\ procs[p].at # "answered"
    BY <1>13 DEF Refresh!Failed, Refresh!Verify
  <2> QED
    BY <2>1, DropGives, StrandedSame
<1>14. ASSUME NEW p \in Processes, Refresh!AnswerLost(p)
       PROVE  Stranded'
  <2>1. /\ procs[p].at = "sending" /\ procs[p].at \in Refresh!Holding /\ procs[p].token \in Refresh!Tokens
        /\ Refresh!Drop(p, keyring)
    BY <1>1, <1>14, HoldingIs DEF Refresh!AnswerLost
  <2>2. /\ server'.used = server.used \cup {procs[p].token} /\ server'.replayed = server.replayed
    BY <1>14, <2>1, IssueGives DEF Refresh!AnswerLost
  <2>3. history'.stranded = history.stranded \cup {procs[p].token}
    BY <1>14, <2>1, TroubleGives DEF Refresh!AnswerLost
  <2>4. /\ keyring' = keyring /\ procs'[p].at = "idle" /\ \A q \in Processes \ {p} : procs'[q] = procs[q]
    BY <2>1, DropGives
  <2> QED
    BY <1>1, <2>1, <2>2, <2>3, <2>4, StrandedEnds
<1>15. ASSUME NEW p \in Processes, Refresh!Write(p)
       PROVE  Stranded'
  <2>1. /\ procs[p].at = "answered" /\ procs[p].at \in Refresh!Holding /\ server' = server /\ history' = history
    BY <1>15, HoldingIs DEF Refresh!Write
  <2>2. /\ keyring'.token = procs[p].token /\ keyring'.file = keyring.file /\ keyring'.late = keyring.late
    BY <1>15 DEF Refresh!Write, RefreshTyped, KeyringType
  <2>3. /\ procs'[p].at = "written" /\ \A q \in Processes \ {p} : procs'[q] = procs[q]
    BY <1>1, <1>15, GotoGives DEF Refresh!Write
  <2>4. procs[p].token \notin server.used \cup {keyring.file}
    BY <2>1 DEF Stranded
  <2> QED
    BY <2>1, <2>2, <2>3, <2>4 DEF Stranded
<1>16. ASSUME NEW p \in Processes, Refresh!WriteFails(p)
       PROVE  Stranded'
  <2>1. /\ procs[p].at \in Refresh!Holding /\ Refresh!Drop(p, keyring) /\ server' = server
        /\ history'.stranded = history.stranded \cup Refresh!UsedAndStored
    BY <1>1, <1>16, HoldingIs, TroubleGives DEF Refresh!WriteFails
  <2>2. /\ keyring' = keyring /\ procs'[p].at = "idle" /\ \A q \in Processes \ {p} : procs'[q] = procs[q]
    BY <2>1, DropGives
  <2> QED
    BY <1>1, <2>1, <2>2, StrandedEnds DEF Refresh!UsedAndStored
<1>17. ASSUME NEW p \in Processes, Refresh!WriteTimesOut(p)
       PROVE  Stranded'
  <2>1. procs[p].at \in Refresh!Holding /\ server' = server /\ procs[p].token \in Refresh!Tokens
    BY <1>1, <1>17, HoldingIs DEF Refresh!WriteTimesOut
  <2>2. history'.stranded = history.stranded \cup (Refresh!UsedAndStored \cup {procs[p].token})
    <3>1. Refresh!UsedAndStored \cup {procs[p].token} \in SUBSET Refresh!Tokens
      BY <1>1, <2>1
    <3> QED
      BY <1>17, <3>1, TroubleGives DEF Refresh!WriteTimesOut
  <2>3. Refresh!Drop(p, [keyring EXCEPT !.late = @ \cup {[by |-> p, token |-> procs[p].token]}])
    BY <1>17 DEF Refresh!WriteTimesOut
  <2>4. /\ keyring' = [keyring EXCEPT !.late = keyring.late \cup {[by |-> p, token |-> procs[p].token]}]
        /\ procs'[p].at = "idle" /\ \A q \in Processes \ {p} : procs'[q] = procs[q]
    BY <2>3, DropGives
  <2>5. /\ keyring'.token = keyring.token /\ keyring'.file = keyring.file
        /\ keyring'.late = keyring.late \cup {[by |-> p, token |-> procs[p].token]}
    BY <2>4 DEF RefreshTyped, KeyringType
  <2> QED
    BY <1>1, <2>1, <2>2, <2>4, <2>5, StrandedEnds DEF Refresh!UsedAndStored
<1>18. ASSUME NEW p \in Processes, Refresh!Crash(p)
       PROVE  Stranded'
  <2>1. /\ server' = server /\ history'.stranded = history.stranded \cup Refresh!UsedAndStored
    BY <1>1, <1>18, TroubleGives DEF Refresh!Crash
  <2>2. /\ procs'[p].at = "crashed" /\ \A q \in Processes \ {p} : procs'[q] = procs[q]
    BY <1>1, <1>18, GotoGives DEF Refresh!Crash
  <2>3. /\ keyring'.token = keyring.token /\ keyring'.file = keyring.file
        /\ keyring'.late \subseteq keyring.late
    BY <1>18 DEF Refresh!Crash, RefreshTyped, KeyringType
  <2> QED
    BY <2>1, <2>2, <2>3 DEF Stranded, Refresh!UsedAndStored
<1> QED
  BY <1>3, <1>4, <1>5, <1>6, <1>7, <1>8, <1>9, <1>10, <1>11, <1>12, <1>13, <1>14, <1>15, <1>16, <1>17, <1>18
     DEF Refresh!RefreshNext

\* As long as nothing failed: nobody crashed, nothing is stranded or still to be written, the token
\* that is sent is the newest one, and that one is stored unless it has just been answered.
Untroubled ==
    /\ history.ofDead = 0 /\ ~history.slow
    /\ history.stranded = {} /\ keyring.late = {}
    /\ keyring.token # Refresh!None => keyring.file = Refresh!None
    /\ \A p \in Processes :
           /\ procs[p].at # "crashed"
           /\ procs[p].at \in {"sending", "answered"} =>
                  procs[p].token = server.issued /\ keyring.file = Refresh!None
           /\ procs[p].at = "sending" => keyring.token = server.issued
           /\ procs[p].at = "migrating" =>
                  keyring.file = server.issued /\ keyring.token = Refresh!None
    /\ \/ server.issued \in {keyring.token, keyring.file}
       \/ \E p \in Processes : procs[p].at = "answered"

\* A step without a failure that moves no token.
LEMMA UntroubledSame ==
    ASSUME Untroubled, keyring' = keyring, server' = server,
           history'.ofDead = history.ofDead, history'.slow = history.slow,
           history'.stranded = history.stranded,
           \A q \in Processes :
               \/ procs'[q] = procs[q]
               \/ /\ procs[q].at # "answered"
                  /\ procs'[q].at \notin {"migrating", "sending", "answered", "crashed"}
    PROVE  Untroubled'
BY DEF Untroubled

LEMMA UntroubledStep ==
    ASSUME RefreshTyped, LockInv, Held, Stranded, Untroubled, [Refresh!RefreshNext]_refreshVars,
           history'.failures = 0
    PROVE  Untroubled'
<1>1. /\ procs \in ProcsType /\ history \in HistoryType /\ lock \in LockType
      /\ {"idle", "acquiring", "removing", "crashed", "reading", "migrating", "sending", "answered", "written"}
            \subseteq Refresh!Stages
      /\ Refresh!Holding = {"reading", "migrating", "sending", "answered", "written"}
      /\ Known = 0..MaxTokens /\ Refresh!Tokens = 1..MaxTokens /\ Refresh!None = 0 /\ MaxTokens \in Nat
      /\ Refresh!None \in Known
      /\ Refresh!UsedAndStored \in SUBSET Refresh!Tokens /\ {} \in SUBSET Refresh!Tokens
      /\ keyring.token \in Known /\ keyring.file \in Known
      /\ server.issued \in Refresh!Tokens /\ server.used \in SUBSET Refresh!Tokens
      /\ \A p \in Processes : procs[p].token \in Known
      /\ \A p \in Processes :
             procs[p].at \in {"migrating", "sending", "answered"} => procs[p].token \in Refresh!Tokens
  BY RefreshFields DEF RefreshTyped, Refresh!Stages, Refresh!Holding, Refresh!UsedAndStored
<1>2. ASSUME NEW p \in Processes, procs[p].at \in Refresh!Holding
      PROVE  \A q \in Processes \ {p} : procs[q].at \notin {"reading", "migrating", "sending", "answered", "written"}
  BY <1>2, HoldingIs DEF Held
<1>3. \A tokens \in SUBSET Refresh!Tokens : ~Refresh!Fails(tokens)
  BY TroubleGives
<1>4. CASE UNCHANGED refreshVars
  BY <1>4, UntroubledSame DEF refreshVars
<1>5. CASE Refresh!LockAges
  <2>1. procs[lock.owner].at # "crashed"
    BY <1>5 DEF LockInv, Untroubled, Refresh!LockAges
  <2>2. history' = [history EXCEPT !.failures = history.failures + 1, !.slow = TRUE]
    BY <1>5, <2>1 DEF Refresh!LockAges
  <2>3. history'.failures = history.failures + 1 /\ history.failures \in Nat
    BY <1>1, <2>2, MaxFailuresAssumption DEF HistoryType
  <2> QED
    BY <2>3
<1>6. ASSUME NEW w \in keyring.late, Refresh!LateWrite(w)
      PROVE  Untroubled'
  BY DEF Untroubled
<1>7. ASSUME NEW p \in Processes,
             Refresh!Want(p) \/ Refresh!Acquire(p) \/ Refresh!FindStale(p) \/ Refresh!GiveUp(p)
      PROVE  Untroubled'
  BY <1>1, <1>7, GotoGives, UntroubledSame
     DEF Refresh!Want, Refresh!Acquire, Refresh!FindStale, Refresh!GiveUp
<1>8. ASSUME NEW p \in Processes, Refresh!RemoveStale(p)
      PROVE  Untroubled'
  <2>1. lock = Refresh!NoLock \/ procs[lock.owner].at # "crashed"
    BY DEF LockInv, Untroubled
  <2>2. history'.ofDead = history.ofDead /\ history'.slow = history.slow /\ history'.stranded = history.stranded
    BY <1>1, <1>8, <2>1 DEF Refresh!RemoveStale, HistoryType
  <2> QED
    BY <1>1, <1>8, <2>2, GotoGives, UntroubledSame DEF Refresh!RemoveStale
<1>9. ASSUME NEW p \in Processes, Refresh!Read(p)
      PROVE  Untroubled'
  <2>1. /\ procs[p].at = "reading" /\ keyring.token # Refresh!None
        /\ keyring' = keyring /\ server' = server /\ history' = history
    BY <1>9 DEF Refresh!Read
  <2>2. /\ procs'[p].at = "sending" /\ procs'[p].token = keyring.token
        /\ \A q \in Processes \ {p} : procs'[q] = procs[q]
    BY <1>1, <1>9, GotoGives DEF Refresh!Read
  <2>3. \A q \in Processes : procs[q].at # "answered"
    BY <1>1, <1>2, <2>1
  <2>4. keyring.token = server.issued /\ keyring.file = Refresh!None
    BY <1>1, <2>1, <2>3 DEF Untroubled
  <2> QED
    BY <2>1, <2>2, <2>3, <2>4 DEF Untroubled
<1>10. ASSUME NEW p \in Processes, Refresh!ReadFile(p)
       PROVE  Untroubled'
  <2>1. /\ procs[p].at = "reading" /\ keyring.token = Refresh!None
        /\ server' = server /\ history' = history
    BY <1>1, <1>3, <1>10 DEF Refresh!ReadFile
  <2>2. \A q \in Processes : procs[q].at # "answered"
    BY <1>1, <1>2, <2>1
  <2>3. keyring.file = server.issued /\ keyring.file # Refresh!None
    BY <1>1, <2>1, <2>2 DEF Untroubled
  <2>4. /\ procs'[p].at = "migrating" /\ procs'[p].token = keyring.file /\ keyring' = keyring
        /\ \A q \in Processes \ {p} : procs'[q] = procs[q]
    BY <1>1, <1>10, <2>3, GotoGives DEF Refresh!ReadFile
  <2> QED
    BY <2>1, <2>2, <2>3, <2>4 DEF Untroubled
<1>11. ASSUME NEW p \in Processes, Refresh!Migrate(p)
       PROVE  Untroubled'
  <2>1. /\ procs[p].at = "migrating" /\ server' = server /\ procs[p].token = keyring.file
        /\ keyring.file = server.issued /\ procs[p].token \in Refresh!Tokens
    BY <1>1, <1>11 DEF Refresh!Migrate, Stranded, Untroubled
  <2>2. /\ keyring' = [keyring EXCEPT !.token = procs[p].token, !.file = Refresh!None]
        /\ history' = history
    BY <1>3, <1>11, <2>1 DEF Refresh!Migrate
  <2>3. /\ keyring'.token = procs[p].token /\ keyring'.file = Refresh!None
        /\ keyring'.late = keyring.late
    BY <2>2 DEF RefreshTyped, KeyringType
  <2>4. /\ procs'[p].at = "sending" /\ procs'[p].token = procs[p].token
        /\ \A q \in Processes \ {p} : procs'[q] = procs[q]
    BY <1>1, <1>11, <2>1, GotoGives DEF Refresh!Migrate
  <2>5. \A q \in Processes \ {p} : procs'[q].at \notin {"migrating", "sending", "answered"}
    BY <1>1, <1>2, <2>1, <2>4
  <2> QED
    BY <2>1, <2>2, <2>3, <2>4, <2>5 DEF Untroubled
<1>12. ASSUME NEW p \in Processes, Refresh!Rotated(p)
       PROVE  Untroubled'
  <2>1. /\ procs[p].at = "sending" /\ procs[p].token \in Refresh!Tokens
        /\ keyring' = keyring /\ history' = history
    BY <1>1, <1>12 DEF Refresh!Rotated
  <2>2. server'.issued = server.issued + 1 /\ server.issued + 1 \in Refresh!Tokens
    BY <1>12, <2>1, IssueGives DEF Refresh!Rotated
  <2>3. /\ procs'[p].at = "answered" /\ procs'[p].token = server.issued + 1
        /\ \A q \in Processes \ {p} : procs'[q] = procs[q]
    BY <1>1, <1>12, <2>2, GotoGives DEF Refresh!Rotated, Known
  <2>4. \A q \in Processes \ {p} : procs'[q].at \notin {"migrating", "sending", "answered"}
    BY <1>1, <1>2, <2>1, <2>3
  <2> QED
    BY <2>1, <2>2, <2>3, <2>4 DEF Untroubled
<1>13. ASSUME NEW p \in Processes, Refresh!Replayed(p)
       PROVE  Untroubled'
  <2>1. procs[p].token \in history.stranded
    BY <1>13 DEF Refresh!Replayed, Stranded
  <2> QED
    BY <2>1 DEF Untroubled
<1>14. ASSUME NEW p \in Processes, Refresh!Failed(p) \/ Refresh!Verify(p)
       PROVE  Untroubled'
  <2>1. /\ Refresh!Drop(p, keyring) /\ server' = server /\ history' = history
        /\ procs[p].at # "answered"
    BY <1>14 DEF Refresh!Failed, Refresh!Verify
  <2> QED
    BY <2>1, DropGives, UntroubledSame
<1>15. ASSUME NEW p \in Processes, Refresh!Write(p)
       PROVE  Untroubled'
  <2>1. /\ procs[p].at = "answered" /\ server' = server /\ history' = history
    BY <1>15 DEF Refresh!Write
  <2>2. /\ keyring'.token = procs[p].token /\ keyring'.file = keyring.file /\ keyring'.late = keyring.late
    BY <1>15 DEF Refresh!Write, RefreshTyped, KeyringType
  <2>3. /\ procs'[p].at = "written" /\ \A q \in Processes \ {p} : procs'[q] = procs[q]
    BY <1>1, <1>15, GotoGives DEF Refresh!Write
  <2>4. \A q \in Processes \ {p} : procs'[q].at \notin {"migrating", "sending", "answered"}
    BY <1>1, <1>2, <2>1, <2>3
  <2> QED
    BY <2>1, <2>2, <2>3, <2>4 DEF Untroubled
<1>16. ASSUME NEW p \in Processes,
              Refresh!AnswerLost(p) \/ Refresh!WriteFails(p) \/ Refresh!WriteTimesOut(p) \/ Refresh!Crash(p)
       PROVE  FALSE
  <2>1. CASE Refresh!WriteFails(p) \/ Refresh!Crash(p)
    BY <1>1, <1>3, <2>1 DEF Refresh!WriteFails, Refresh!Crash
  <2>2. CASE Refresh!AnswerLost(p)
    BY <1>1, <1>3, <2>2 DEF Refresh!AnswerLost
  <2>3. CASE Refresh!WriteTimesOut(p)
    <3>1. Refresh!UsedAndStored \cup {procs[p].token} \in SUBSET Refresh!Tokens
      BY <1>1, <2>3 DEF Refresh!WriteTimesOut
    <3> QED
      BY <1>3, <2>3, <3>1 DEF Refresh!WriteTimesOut
  <2> QED
    BY <1>16, <2>1, <2>2, <2>3
<1> QED
  BY <1>4, <1>5, <1>6, <1>7, <1>8, <1>9, <1>10, <1>11, <1>12, <1>13, <1>14, <1>15, <1>16
     DEF Refresh!RefreshNext

\* What was taken and what failed is never forgotten.
LEMMA HistoryGrows ==
    ASSUME RefreshTyped, [Refresh!RefreshNext]_refreshVars
    PROVE  /\ history'.ofLiving = 0 => history.ofLiving = 0
           /\ history'.failures = 0 => history.failures = 0
<1>1. history \in HistoryType /\ history.ofLiving \in Nat /\ history.failures \in Nat
  BY RefreshFields DEF RefreshTyped
<1>2. \/ history' = history
      \/ history' = [history EXCEPT !.ofDead = @ + 1]
      \/ history' = [history EXCEPT !.ofLiving = @ + 1]
      \/ history' = [history EXCEPT !.failures = @ + 1, !.slow = TRUE]
      \/ \E tokens : history' = [history EXCEPT !.failures = @ + 1, !.stranded = @ \cup tokens]
  BY DEF Refresh!RefreshNext, refreshVars, Refresh!LockAges, Refresh!LateWrite, Refresh!Want, Refresh!Acquire,
     Refresh!FindStale, Refresh!RemoveStale, Refresh!GiveUp, Refresh!Read, Refresh!ReadFile,
     Refresh!Migrate, Refresh!Rotated, Refresh!Replayed, Refresh!Failed, Refresh!AnswerLost,
     Refresh!Write, Refresh!WriteFails, Refresh!WriteTimesOut, Refresh!Verify, Refresh!Crash, Refresh!Fails
<1>3. CASE history' = history
  BY <1>3
<1>4. CASE history' = [history EXCEPT !.ofDead = @ + 1]
  BY <1>1, <1>4 DEF HistoryType
<1>5. CASE history' = [history EXCEPT !.ofLiving = @ + 1]
  BY <1>1, <1>5 DEF HistoryType
<1>6. CASE history' = [history EXCEPT !.failures = @ + 1, !.slow = TRUE]
  BY <1>1, <1>6 DEF HistoryType
<1>7. ASSUME NEW tokens, history' = [history EXCEPT !.failures = @ + 1, !.stranded = @ \cup tokens]
      PROVE  /\ history'.ofLiving = 0 => history.ofLiving = 0
             /\ history'.failures = 0 => history.failures = 0
  BY <1>1, <1>7 DEF HistoryType
<1> QED
  BY <1>2, <1>3, <1>4, <1>5, <1>6, <1>7

\* All of it: the lock always, the tokens while no lock was taken from the living, and more
\* until something fails.
RefreshInv ==
    /\ RefreshTyped
    /\ LockInv
    /\ history.ofLiving = 0 => Stranded
    /\ history.failures = 0 => history.ofLiving = 0 /\ Untroubled

LEMMA RefreshStarts ==
    ASSUME Refresh!RefreshBegins(Starts("refresh", Refresh!RefreshStarts))
    PROVE  RefreshInv
<1>1. /\ lock = Refresh!NoLock /\ procs = [p \in Processes |-> [at |-> "idle", token |-> Refresh!None]]
      /\ keyring \in Refresh!RefreshStarts
      /\ server = [issued |-> 1, used |-> {}, replayed |-> {}]
      /\ history = [failures |-> 0, ofDead |-> 0, ofLiving |-> 0, slow |-> FALSE, stranded |-> {}]
  <2>1. Refresh!RefreshStarts # {}
    BY DEF Refresh!RefreshStarts
  <2>2. Starts("refresh", Refresh!RefreshStarts) \subseteq Refresh!RefreshStarts
    BY <2>1, StartsWithin
  <2> QED
    BY <2>2 DEF Refresh!RefreshBegins
<1>2. 1 \in Refresh!Tokens
  BY MaxTokensAssumption DEF Refresh!Tokens
<1>3. keyring \in KeyringType /\ keyring.late = {} /\ keyring.token <= 1 /\ keyring.file <= 1
  BY <1>1, <1>2 DEF Refresh!RefreshStarts, KeyringType, Known, Refresh!None
<1>4. RefreshTyped
  BY <1>1, <1>2, <1>3, MaxFailuresAssumption
     DEF RefreshTyped, LockType, ProcsType, ServerType, HistoryType, Known,
         Refresh!NoLock, Refresh!Stages, Refresh!None
<1>5. Held /\ Stranded /\ Untroubled
  BY <1>1 DEF Held, Stranded, Untroubled, Refresh!Holding, Refresh!RefreshStarts, Refresh!None
<1>6. Refresh!Unfinished = {}
  BY <1>1, HoldingIs DEF Refresh!Unfinished
<1>7. Counted
  BY <1>1, <1>6, FS_EmptySet DEF Counted
<1>8. StaleIsDead
  BY <1>1 DEF StaleIsDead, Refresh!NoLock
<1> QED
  BY <1>1, <1>4, <1>5, <1>7, <1>8 DEF RefreshInv, LockInv

LEMMA RefreshStep ==
    ASSUME RefreshInv, [Refresh!RefreshNext]_refreshVars
    PROVE  RefreshInv'
<1>1. RefreshTyped /\ RefreshTyped' /\ LockInv /\ LockInv'
  BY RefreshTypes, LockStep DEF RefreshInv
<1>2. history'.ofLiving = 0 => Stranded'
  BY <1>1, HistoryGrows, StrandedStep DEF RefreshInv, LockInv
<1>3. ASSUME history'.failures = 0
      PROVE  history'.ofLiving = 0 /\ Untroubled'
  <2>1. Held /\ Stranded /\ Untroubled
    BY <1>1, <1>3, HistoryGrows DEF RefreshInv, LockInv
  <2>2. Untroubled'
    BY <1>1, <1>3, <2>1, UntroubledStep
  <2>3. StaleIsDead'
    BY <1>1, <2>2, RefreshFields DEF LockInv, Untroubled
  <2> QED
    BY <2>2, <2>3 DEF StaleIsDead
<1> QED
  BY <1>1, <1>2, <1>3 DEF RefreshInv

\* Every lock that is taken from the living lets one more at the token, and none is before a lock was
\* left by the dead or outlived 30 s; until then only stranded tokens are presented twice; and
\* before a failure none, and the newest is at hand.
LEMMA RotationHolds ==
    ASSUME RefreshInv
    PROVE  Refresh!RotationIsExclusive
<1>1. Refresh!Cardinality(Refresh!Unfinished) <= 1 + history.ofLiving
  <2>1. Refresh!Cardinality(Refresh!Unfinished) = Cardinality(Refresh!Unfinished)
    BY DEF Cardinality, Refresh!Cardinality
  <2> QED
    BY <2>1 DEF RefreshInv, LockInv, Counted
<1>2. history.ofLiving > 0 => history.ofDead > 0 \/ history.slow
  BY DEF RefreshInv, LockInv, StaleIsDead
<1>3. history.ofLiving = 0 => server.replayed \subseteq history.stranded
  BY DEF RefreshInv, Stranded
<1>4. ASSUME history.failures = 0
      PROVE  /\ server.replayed = {}
             /\ \/ server.issued \in {keyring.token, keyring.file}
                \/ \E p \in Refresh!Unfinished :
                       procs[p].at = "answered" /\ procs[p].token = server.issued
  <2>1. Stranded /\ Untroubled
    BY <1>4 DEF RefreshInv
  <2>2. server.replayed = {}
    BY <2>1 DEF Stranded, Untroubled
  <2> QED
    BY <2>1, <2>2 DEF Untroubled, Refresh!Unfinished, Refresh!Holding
<1> QED
  BY <1>1, <1>2, <1>3, <1>4 DEF Refresh!RotationIsExclusive

-----------------------------------------------------------------------------
(***************************************************************************)
(* The broker of the plugin and its clients.                               *)
(***************************************************************************)


\* What a field of the broker, a client or the server holds when n grants are minted.
BrokerType(n) ==
    [env : 0..n, access : [token : 0..n, fresh : BOOLEAN], sessionRefresh : 0..n, lastSeen : 0..n,
     device : BOOLEAN, migrated : BOOLEAN, login : Nat, verifier : Nat, code : Nat]
StoreType(n) == [canonical : 0..n, legacy : 0..n, left : SUBSET (1..n)]
FlightType(n) ==
    [at : {"none", "asking", "migrating", "loading", "revoking", "sending", "storing"},
     refresh : 0..n, grant : 0..n]
ClientType(n) ==
    [at : {"idle", "getting", "sent", "renewing", "resent"}, token : 0..n, refused : 0..n]
AuthType(n) ==
    [minted : {n}, live : SUBSET (1..n), used : SUBSET (1..n), valid : SUBSET (1..n),
     lost : SUBSET (1..n), replayed : SUBSET (1..n)]

BrokerTypedUpto(n) ==
    /\ broker \in BrokerType(n) /\ store \in StoreType(n) /\ flight \in FlightType(n)
    /\ clients \in [Broker!Clients -> ClientType(n)]

BrokerTyped ==
    /\ brokerServer.minted \in Nat \ {0}
    /\ BrokerTypedUpto(brokerServer.minted)
    /\ brokerServer \in AuthType(brokerServer.minted)

\* What was typed is typed with more grants.
LEMMA TypesGrow ==
    ASSUME NEW n \in Nat, NEW m \in Nat, n <= m
    PROVE  /\ 0..n \subseteq 0..m
           /\ BrokerType(n) \subseteq BrokerType(m) /\ StoreType(n) \subseteq StoreType(m)
           /\ FlightType(n) \subseteq FlightType(m) /\ ClientType(n) \subseteq ClientType(m)
           /\ [Broker!Clients -> ClientType(n)] \subseteq [Broker!Clients -> ClientType(m)]
<1>1. 0..n \subseteq 0..m /\ 1..n \subseteq 1..m
  OBVIOUS
<1>2. BrokerType(n) \subseteq BrokerType(m)
  BY <1>1 DEF BrokerType
<1>3. StoreType(n) \subseteq StoreType(m) /\ FlightType(n) \subseteq FlightType(m)
  BY <1>1 DEF StoreType, FlightType
<1>4. ClientType(n) \subseteq ClientType(m)
  BY <1>1 DEF ClientType
<1>5. [Broker!Clients -> ClientType(n)] \subseteq [Broker!Clients -> ClientType(m)]
  BY <1>4
<1> QED
  BY <1>1, <1>2, <1>3, <1>4, <1>5

\* The server mints the next grant.
LEMMA MintTypes ==
    ASSUME BrokerTyped, NEW live, NEW used, live \subseteq brokerServer.live,
           NEW t \in 1..brokerServer.minted, used \in {brokerServer.used, brokerServer.used \cup {t}},
           NEW s, s = Broker!Minted(live, used)
    PROVE  /\ s.minted = Broker!Mint /\ s.minted \in Nat \ {0} /\ s \in AuthType(s.minted)
           /\ s.used = used /\ s.lost = brokerServer.lost /\ s.replayed = brokerServer.replayed
<1> DEFINE n == brokerServer.minted
<1>1. n \in Nat \ {0} /\ brokerServer \in AuthType(n)
  BY DEF BrokerTyped
<1>2. 1..n \subseteq 1..(n + 1) /\ n + 1 \in 1..(n + 1) /\ t \in 1..(n + 1)
  BY <1>1
<1>3. /\ brokerServer.live \subseteq 1..(n + 1) /\ brokerServer.used \subseteq 1..(n + 1)
      /\ brokerServer.valid \subseteq 1..(n + 1) /\ brokerServer.lost \subseteq 1..(n + 1)
      /\ brokerServer.replayed \subseteq 1..(n + 1)
  BY <1>1, <1>2 DEF AuthType
<1>4. s = [brokerServer EXCEPT !.minted = n + 1, !.valid = @ \cup {n + 1},
                               !.live = live \cup {n + 1}, !.used = used]
  BY DEF Broker!Minted, Broker!Mint
<1>5. s = [minted |-> n + 1, live |-> live \cup {n + 1}, used |-> used,
           valid |-> brokerServer.valid \cup {n + 1}, lost |-> brokerServer.lost,
           replayed |-> brokerServer.replayed]
  BY <1>1, <1>4 DEF AuthType
<1> HIDE DEF n
<1>6. s.minted = n + 1
  BY <1>5
<1>7. s \in AuthType(n + 1)
  BY <1>2, <1>3, <1>5 DEF AuthType
<1> QED
  BY <1>1, <1>5, <1>6, <1>7 DEF n, Broker!Mint

\* The refresh that succeeds with the fields b gives every client that waits a token.
LEMMA SucceedsGives ==
    ASSUME NEW n \in Nat, clients \in [Broker!Clients -> ClientType(n)], NEW b \in BrokerType(n),
           Broker!Succeeds(b)
    PROVE  /\ flight' = Broker!NoFlight
           /\ broker' \in BrokerType(n) /\ clients' \in [Broker!Clients -> ClientType(n)]
           /\ broker'.env = b.env /\ broker'.sessionRefresh = b.sessionRefresh
           /\ broker'.lastSeen = b.lastSeen /\ broker'.migrated = b.migrated
           /\ \A c \in Broker!Clients :
                  \/ clients'[c] = clients[c]
                  \/ clients'[c].at = "sent"
                  \/ /\ clients[c].at = "renewing" /\ clients'[c].at = "resent"
                     /\ clients'[c].refused = clients[c].refused
                     /\ b.env = Broker!NoToken => clients'[c].token = b.access.token
<1> DEFINE again == IF b.env # Broker!NoToken /\ b.env # b.access.token
                    THEN Broker!Fresh(b.env) ELSE b.access
<1> DEFINE next(c) == CASE clients[c].at = "getting"  -> [clients[c] EXCEPT !.at = "sent", !.token = b.access.token]
                        [] clients[c].at = "renewing" -> [clients[c] EXCEPT !.at = "resent", !.token = again.token]
                        [] OTHER -> clients[c]
<1>1. /\ clients' = [c \in Broker!Clients |-> next(c)]
      /\ broker' \in {b, [b EXCEPT !.access = again]}
      /\ flight' = Broker!NoFlight
  BY DEF Broker!Succeeds
<1>2. /\ again \in [token : 0..n, fresh : BOOLEAN] /\ b.access.token \in 0..n
      /\ b.env = Broker!NoToken => again = b.access
  BY DEF BrokerType, Broker!Fresh
<1> HIDE DEF again
<1>3. /\ broker' \in BrokerType(n) /\ broker'.env = b.env
      /\ broker'.sessionRefresh = b.sessionRefresh /\ broker'.lastSeen = b.lastSeen
      /\ broker'.migrated = b.migrated
  BY <1>1, <1>2 DEF BrokerType
<1>4. ASSUME NEW c \in Broker!Clients
      PROVE  /\ next(c) \in ClientType(n)
             /\ \/ next(c) = clients[c]
                \/ next(c).at = "sent"
                \/ /\ clients[c].at = "renewing" /\ next(c).at = "resent"
                   /\ next(c).refused = clients[c].refused
                   /\ b.env = Broker!NoToken => next(c).token = b.access.token
  <2>1. clients[c] \in ClientType(n)
    BY <1>4
  <2>2. CASE clients[c].at = "getting"
    BY <1>2, <2>1, <2>2 DEF ClientType
  <2>3. CASE clients[c].at = "renewing"
    BY <1>2, <2>1, <2>3 DEF ClientType
  <2>4. CASE clients[c].at \notin {"getting", "renewing"}
    BY <2>1, <2>4
  <2> QED
    BY <2>2, <2>3, <2>4
<1> HIDE DEF next
<1> QED
  BY <1>1, <1>3, <1>4

\* Of a refresh token that was used the first answer was lost, wherever it still lies, or the store
\* failed to give or to delete it; the last one that was rotated may lie in the store as well,
\* where the broker knows it again. Before the one migration no token was used.
Spent ==
    /\ ~SecureStore => store.canonical = Broker!NoToken
    /\ ~broker.migrated => flight.at \in {"none", "asking"}
    /\ ~broker.migrated \/ flight.at = "migrating" => brokerServer.used = {}
    /\ broker.sessionRefresh \in brokerServer.used => broker.sessionRefresh \in brokerServer.lost
    /\ store.canonical \in brokerServer.used =>
           store.canonical \in brokerServer.lost \cup store.left \cup {broker.lastSeen}
    /\ flight.at = "sending" =>
           /\ store.canonical \in brokerServer.used => store.canonical \in brokerServer.lost \cup store.left
           /\ flight.refresh \in brokerServer.used => flight.refresh \in brokerServer.lost \cup store.left
    /\ flight.at = "storing" => flight.grant \notin brokerServer.used
    /\ brokerServer.replayed \subseteq brokerServer.lost \cup store.left

\* CAPIX_API_KEY is never set again, so a provider that renews does without it; the grant that is
\* being stored is one that no client has had.
Renewals ==
    /\ broker.env # Broker!NoToken => EnvKey
    /\ \A c \in Providers : clients[c].at = "renewing" => broker.env = Broker!NoToken
    /\ flight.at = "storing" =>
           /\ flight.grant \notin {Broker!NoToken, broker.env, broker.access.token}
           /\ \A c \in Broker!Clients : flight.grant \notin {clients[c].token, clients[c].refused}
    /\ \A c \in Broker!Clients :
           clients[c].at = "resent" /\ (c \in Providers \/ ~EnvKey) =>
               clients[c].token # clients[c].refused

BrokerInv == BrokerTyped /\ Spent /\ Renewals

LEMMA BrokerStarts ==
    ASSUME Broker!BrokerBegins(Starts("broker", Broker!BrokerStarts))
    PROVE  BrokerInv
<1>1. Broker!BrokerStarts # {}
  BY DEF Broker!BrokerStarts
<1>2. Starts("broker", Broker!BrokerStarts) \subseteq Broker!BrokerStarts
  BY <1>1, StartsWithin
<1>3. /\ broker = [env |-> IF EnvKey THEN 1 ELSE 0, access |-> [token |-> 0, fresh |-> FALSE],
                   sessionRefresh |-> 0, lastSeen |-> 0, device |-> FALSE,
                   migrated |-> FALSE, login |-> 0, verifier |-> 0, code |-> 0]
      /\ store \in Broker!BrokerStarts
      /\ flight = [at |-> "none", refresh |-> 0, grant |-> 0]
      /\ clients = [c \in Broker!Clients |-> [at |-> "idle", token |-> 0, refused |-> 0]]
      /\ brokerServer = [minted |-> 1, live |-> {1}, used |-> {}, valid |-> {1}, lost |-> {},
                         replayed |-> {}]
  BY <1>2 DEF Broker!BrokerBegins, Broker!NoToken, Broker!NoAccess, Broker!NoFlight
<1>4. \/ store = [canonical |-> 1, legacy |-> 0, left |-> {}]
      \/ store = [canonical |-> 0, legacy |-> 1, left |-> {}]
      \/ store = [canonical |-> 0, legacy |-> 0, left |-> {}]
  BY <1>3 DEF Broker!BrokerStarts, Broker!NoToken
<1>empty. ~SecureStore => store.canonical = 0
  BY <1>3 DEF Broker!BrokerStarts, Broker!NoToken
<1>5. 0 \in 0..1 /\ 1 \in 0..1 /\ 1 \in 1..1
  OBVIOUS
<1>6. BrokerTyped
  <2>1. broker \in BrokerType(1)
    BY <1>3, <1>5 DEF BrokerType
  <2>2. store \in StoreType(1)
    BY <1>4, <1>5 DEF StoreType
  <2>3. flight \in FlightType(1)
    BY <1>3, <1>5 DEF FlightType
  <2>4. clients \in [Broker!Clients -> ClientType(1)]
    BY <1>3, <1>5 DEF ClientType
  <2>5. brokerServer \in AuthType(1) /\ brokerServer.minted = 1
    BY <1>3, <1>5 DEF AuthType
  <2> QED
    BY <2>1, <2>2, <2>3, <2>4, <2>5 DEF BrokerTyped, BrokerTypedUpto
<1>7. Spent
  BY <1>3, <1>4, <1>empty DEF Spent, Broker!NoToken
<1>8. Renewals
  <2>1. \A c \in Broker!Clients : clients[c] = [at |-> "idle", token |-> 0, refused |-> 0]
    BY <1>3
  <2>2. \A c \in Broker!Clients : clients[c].at = "idle"
    BY <2>1
  <2>3. flight.at = "none" /\ (broker.env # 0 => EnvKey)
    BY <1>3
  <2> QED
    BY <2>2, <2>3 DEF Renewals, Broker!NoToken, Broker!Clients
<1> QED
  BY <1>6, <1>7, <1>8 DEF BrokerInv

\* A client goes to a place with tokens.
LEMMA ClientGoes ==
    ASSUME NEW n \in Nat, clients \in [Broker!Clients -> ClientType(n)],
           NEW c \in Broker!Clients, NEW r \in ClientType(n),
           clients' = [clients EXCEPT ![c] = r]
    PROVE  /\ clients' \in [Broker!Clients -> ClientType(n)] /\ clients'[c] = r
           /\ \A d \in Broker!Clients \ {c} : clients'[d] = clients[d]
OBVIOUS

\* A refresh that fails leaves the clients that waited idle.
LEMMA FailsGives ==
    ASSUME NEW n \in Nat, clients \in [Broker!Clients -> ClientType(n)], Broker!Fails
    PROVE  /\ flight' = Broker!NoFlight
           /\ clients' \in [Broker!Clients -> ClientType(n)]
           /\ \A c \in Broker!Clients : clients'[c] = clients[c] \/ clients'[c].at = "idle"
<1>1. [at |-> "idle", token |-> Broker!NoToken, refused |-> Broker!NoToken] \in ClientType(n)
  BY DEF ClientType, Broker!NoToken
<1> QED
  BY <1>1 DEF Broker!Fails

\* The refresh in flight is joined, or one is asked for.
LEMMA JoinGives ==
    ASSUME NEW n \in Nat, clients \in [Broker!Clients -> ClientType(n)], flight \in FlightType(n),
           NEW c \in Broker!Clients, NEW stage \in {"getting", "renewing"}, NEW refused \in 0..n,
           Broker!Join(c, stage, refused)
    PROVE  /\ clients' \in [Broker!Clients -> ClientType(n)] /\ flight' \in FlightType(n)
           /\ clients'[c] = [at |-> stage, token |-> Broker!NoToken, refused |-> refused]
           /\ \A d \in Broker!Clients \ {c} : clients'[d] = clients[d]
           /\ flight' = flight \/ flight'.at = "asking"
<1>1. [at |-> stage, token |-> Broker!NoToken, refused |-> refused] \in ClientType(n)
  BY DEF ClientType, Broker!NoToken
<1> QED
  BY <1>1, ClientGoes DEF Broker!Join, FlightType

\* A step of the broker or of what it talks to keeps the three parts of the invariant.
LEMMA BrokerStep ==
    ASSUME BrokerInv, [Broker!BrokerNext]_brokerVars
    PROVE  BrokerInv'
<1> DEFINE n == brokerServer.minted
<1> DEFINE S == brokerServer
<1>1. /\ BrokerTyped /\ Spent /\ Renewals
      /\ n \in Nat \ {0} /\ 0 \in 0..n /\ Broker!NoToken \in 0..n /\ Broker!NoToken = 0
      /\ broker \in BrokerType(n) /\ store \in StoreType(n) /\ flight \in FlightType(n)
      /\ clients \in [Broker!Clients -> ClientType(n)] /\ brokerServer \in AuthType(n)
  BY DEF BrokerInv, BrokerTyped, BrokerTypedUpto, Broker!NoToken
<1>2. /\ broker.access \in [token : 0..n, fresh : BOOLEAN]
      /\ \A c \in Broker!Clients : clients[c] \in ClientType(n)
      /\ Broker!NoFlight \in FlightType(n) /\ Broker!NoFlight.at = "none"
      /\ store.canonical \in 0..n /\ store.legacy \in 0..n /\ broker.sessionRefresh \in 0..n
      /\ broker.env \in 0..n /\ flight.refresh \in 0..n /\ flight.grant \in 0..n
      /\ broker.access.token \in 0..n
      /\ \A c \in Broker!Clients : clients[c].token \in 0..n /\ clients[c].refused \in 0..n
      /\ S.used \subseteq 1..n /\ S.lost \subseteq 1..n /\ S.live \subseteq 1..n
      /\ S.replayed \subseteq 1..n /\ S.valid \subseteq 1..n
  BY <1>1 DEF BrokerType, ClientType, FlightType, StoreType, AuthType, Broker!NoFlight
<1>3. /\ Broker!Cache \in [token : 0..n, fresh : BOOLEAN]
      /\ Broker!Cache.token \in {broker.access.token, broker.env}
  BY <1>1, <1>2 DEF Broker!Cache, Broker!Fresh
<1>4. /\ Broker!Forgotten \in BrokerType(n) /\ Broker!Forgotten.env = broker.env
      /\ Broker!Forgotten.sessionRefresh = 0 /\ Broker!Forgotten.access.token = 0
      /\ Broker!Forgotten.lastSeen = 0 /\ Broker!Forgotten.migrated = broker.migrated
  <2>1. Broker!NoAccess \in [token : 0..n, fresh : BOOLEAN] /\ Broker!NoAccess.token = 0
    BY <1>1 DEF Broker!NoAccess
  <2>2. /\ Broker!Forgotten \in BrokerType(n) /\ Broker!Forgotten.env = broker.env
        /\ Broker!Forgotten.sessionRefresh = 0 /\ Broker!Forgotten.access = Broker!NoAccess
        /\ Broker!Forgotten.lastSeen = 0 /\ Broker!Forgotten.migrated = broker.migrated
    BY <1>1, <2>1 DEF Broker!Forgotten, BrokerType
  <2> QED
    BY <2>1, <2>2
<1>5. ASSUME NEW m \in Nat \ {0}, n <= m, S'.minted = m, S' \in AuthType(m), BrokerTypedUpto(m)'
      PROVE  BrokerTyped'
  BY <1>5 DEF BrokerTyped
<1>left. /\ Broker!Left \in StoreType(n) /\ Broker!Left.canonical = store.canonical
       /\ Broker!Left.left = store.left \cup (S.used \cap {store.canonical})
  <2>1. store.left \cup (S.used \cap {store.canonical}) \in SUBSET (1..n)
    BY <1>1, <1>2 DEF StoreType
  <2>2. Broker!Left = [store EXCEPT !.left = store.left \cup (S.used \cap {store.canonical})]
    BY DEF Broker!Left
  <2> QED
    BY <1>1, <2>1, <2>2 DEF StoreType
\* What a delete leaves in the store was not used, or counts as left.
<1>deleted. ASSUME store' \in Broker!AfterDelete
       PROVE  /\ store' \in StoreType(n) /\ store.left \subseteq store'.left
              /\ store'.canonical \in S.used => store'.canonical \in store'.left
              /\ ~SecureStore => store'.canonical = 0
  <2>1. /\ [store EXCEPT !.canonical = 0] \in StoreType(n)
        /\ [store EXCEPT !.canonical = 0].canonical = 0
        /\ [store EXCEPT !.canonical = 0].left = store.left
    BY <1>1 DEF StoreType
  <2>2. 0 \notin S.used
    BY <1>2
  <2>3. CASE SecureStore
    BY <1>1, <1>left, <1>deleted, <2>1, <2>2, <2>3 DEF Broker!AfterDelete
  <2>4. CASE ~SecureStore
    BY <1>1, <1>deleted, <2>2, <2>4 DEF Broker!AfterDelete, Spent
  <2> QED
    BY <2>3, <2>4
\* What is loaded lies in the store or in memory.
<1>loaded. ASSUME NEW token, Broker!Loads(store', token)
       PROVE  /\ store' \in StoreType(n) /\ store'.canonical = store.canonical
              /\ store.left \subseteq store'.left
              /\ token \in {store.canonical, broker.sessionRefresh}
              /\ \/ token = store.canonical \/ store.canonical = 0
                 \/ store.canonical \in S.used => store.canonical \in store'.left
  BY <1>1, <1>left, <1>loaded DEF Broker!Loads
<1>6. ASSUME UNCHANGED brokerVars PROVE BrokerInv'
  BY <1>1, <1>6 DEF brokerVars, BrokerInv, BrokerTyped, BrokerTypedUpto, Spent, Renewals
<1>7. ASSUME NEW c \in Broker!Clients, Broker!Request(c) PROVE BrokerInv'
  <2>1. /\ broker' = [broker EXCEPT !.access = Broker!Cache]
        /\ UNCHANGED <<store, brokerServer>>
    BY <1>7 DEF Broker!Request
  <2>2. /\ broker' \in BrokerType(n) /\ broker'.env = broker.env
        /\ broker'.sessionRefresh = broker.sessionRefresh /\ broker'.lastSeen = broker.lastSeen
        /\ broker'.migrated = broker.migrated
        /\ broker'.access.token \in {broker.access.token, broker.env}
    BY <1>1, <1>3, <2>1 DEF BrokerType
  <2>3. CASE Broker!Cache.fresh
    <3>1. /\ clients' = [clients EXCEPT ![c] = [clients[c] EXCEPT !.at = "sent", !.token = Broker!Cache.token]]
          /\ flight' = flight
      BY <1>1, <1>7, <2>3 DEF Broker!Request, Broker!Send
    <3>2. /\ [clients[c] EXCEPT !.at = "sent", !.token = Broker!Cache.token] \in ClientType(n)
          /\ [clients[c] EXCEPT !.at = "sent", !.token = Broker!Cache.token].at = "sent"
          /\ [clients[c] EXCEPT !.at = "sent", !.token = Broker!Cache.token].token = Broker!Cache.token
          /\ [clients[c] EXCEPT !.at = "sent", !.token = Broker!Cache.token].refused = clients[c].refused
      BY <1>2, <1>3 DEF ClientType
    <3>3. /\ clients' \in [Broker!Clients -> ClientType(n)]
          /\ clients'[c].at = "sent" /\ clients'[c].token = Broker!Cache.token
          /\ clients'[c].refused = clients[c].refused
          /\ \A d \in Broker!Clients \ {c} : clients'[d] = clients[d]
      BY <1>1, <3>1, <3>2, ClientGoes
    <3>4. BrokerTyped'
      BY <1>1, <1>5, <2>1, <2>2, <3>1, <3>3 DEF BrokerTypedUpto
    <3>5. Spent'
      BY <1>1, <2>1, <2>2, <3>1 DEF Spent
    <3>6. Renewals'
      BY <1>1, <1>3, <2>2, <3>1, <3>3 DEF Renewals, Broker!Clients
    <3> QED
      BY <3>4, <3>5, <3>6 DEF BrokerInv
  <2>4. CASE ~Broker!Cache.fresh
    <3>1. Broker!Join(c, "getting", Broker!NoToken)
      BY <1>7, <2>4 DEF Broker!Request
    <3>2. /\ clients' \in [Broker!Clients -> ClientType(n)] /\ flight' \in FlightType(n)
          /\ clients'[c] = [at |-> "getting", token |-> Broker!NoToken, refused |-> Broker!NoToken]
          /\ \A d \in Broker!Clients \ {c} : clients'[d] = clients[d]
          /\ flight' = flight \/ flight'.at = "asking"
      BY <1>1, <3>1, JoinGives
    <3>3. BrokerTyped'
      BY <1>1, <1>5, <2>1, <2>2, <3>2 DEF BrokerTypedUpto
    <3>4. Spent'
      BY <1>1, <2>1, <2>2, <3>2 DEF Spent
    <3>5. Renewals'
      BY <1>1, <1>3, <2>2, <3>2 DEF Renewals, Broker!Clients
    <3> QED
      BY <3>3, <3>4, <3>5 DEF BrokerInv
  <2> QED
    BY <2>3, <2>4
<1>8. ASSUME NEW c \in Broker!Clients, Broker!Answered(c) PROVE BrokerInv'
  <2>1. /\ clients' = [clients EXCEPT ![c] = [at |-> "idle", token |-> Broker!NoToken, refused |-> Broker!NoToken]]
        /\ UNCHANGED <<broker, store, flight, brokerServer>>
    BY <1>8 DEF Broker!Answered, Broker!Finish
  <2>2. [at |-> "idle", token |-> Broker!NoToken, refused |-> Broker!NoToken] \in ClientType(n)
    BY <1>1 DEF ClientType
  <2>3. /\ clients' \in [Broker!Clients -> ClientType(n)]
        /\ clients'[c] = [at |-> "idle", token |-> Broker!NoToken, refused |-> Broker!NoToken]
        /\ \A d \in Broker!Clients \ {c} : clients'[d] = clients[d]
    BY <1>1, <2>1, <2>2, ClientGoes
  <2>4. BrokerTyped'
    BY <1>1, <1>5, <2>1, <2>3 DEF BrokerTypedUpto
  <2>5. Spent'
    BY <1>1, <2>1 DEF Spent
  <2>6. Renewals'
    BY <1>1, <2>1, <2>3 DEF Renewals, Broker!Clients
  <2> QED
    BY <2>4, <2>5, <2>6 DEF BrokerInv
<1>9. ASSUME NEW c \in Broker!Clients, Broker!Unauthorized(c) PROVE BrokerInv'
  <2>1. /\ broker' = IF c \in Providers THEN [broker EXCEPT !.env = Broker!NoToken] ELSE broker
        /\ Broker!Join(c, "renewing", clients[c].token)
        /\ UNCHANGED <<store, brokerServer>>
    BY <1>9 DEF Broker!Unauthorized
  <2>2. /\ broker' \in BrokerType(n) /\ broker'.env \in {broker.env, 0}
        /\ c \in Providers => broker'.env = 0
        /\ broker'.sessionRefresh = broker.sessionRefresh /\ broker'.lastSeen = broker.lastSeen
        /\ broker'.access = broker.access /\ broker'.migrated = broker.migrated
    BY <1>1, <2>1 DEF BrokerType
  <2>3. /\ clients' \in [Broker!Clients -> ClientType(n)] /\ flight' \in FlightType(n)
        /\ clients'[c] = [at |-> "renewing", token |-> Broker!NoToken, refused |-> clients[c].token]
        /\ \A d \in Broker!Clients \ {c} : clients'[d] = clients[d]
        /\ flight' = flight \/ flight'.at = "asking"
    BY <1>1, <1>2, <2>1, JoinGives
  <2>4. BrokerTyped'
    BY <1>1, <1>5, <2>1, <2>2, <2>3 DEF BrokerTypedUpto
  <2>5. Spent'
    BY <1>1, <2>1, <2>2, <2>3 DEF Spent
  <2>6. Renewals'
    BY <1>1, <2>2, <2>3 DEF Renewals, Broker!Clients
  <2> QED
    BY <2>4, <2>5, <2>6 DEF BrokerInv
<1>10. ASSUME Broker!LauncherAnswers PROVE BrokerInv'
  <2>1. CASE /\ brokerServer' = Broker!Minted(S.live, S.used)
             /\ Broker!Succeeds([broker EXCEPT !.access = Broker!Fresh(Broker!Mint)])
    <3> DEFINE b == [broker EXCEPT !.access = Broker!Fresh(Broker!Mint)]
    <3> DEFINE m == Broker!Mint
    <3>1. /\ m = n + 1 /\ m \in Nat \ {0} /\ n <= m /\ S'.minted = m /\ S' \in AuthType(m)
          /\ S'.used = S.used /\ S'.lost = S.lost /\ S'.replayed = S.replayed
      BY <1>1, <1>2, <2>1, MintTypes DEF Broker!Mint
    <3>2. /\ broker \in BrokerType(m) /\ store \in StoreType(m)
          /\ clients \in [Broker!Clients -> ClientType(m)]
      BY <1>1, <3>1, TypesGrow
    <3>3. b \in BrokerType(m) /\ b.access = Broker!Fresh(m) /\ b.access.token = m
          /\ b.env = broker.env /\ b.sessionRefresh = broker.sessionRefresh
          /\ b.lastSeen = broker.lastSeen /\ b.migrated = broker.migrated
      <4>1. Broker!Fresh(m) \in [token : 0..m, fresh : BOOLEAN] /\ Broker!Fresh(m).token = m
        BY <3>1 DEF Broker!Fresh
      <4> QED
        BY <3>2, <4>1 DEF BrokerType
    <3> HIDE DEF b, m
    <3>4. /\ flight' = Broker!NoFlight
          /\ broker' \in BrokerType(m) /\ clients' \in [Broker!Clients -> ClientType(m)]
          /\ broker'.env = b.env /\ broker'.sessionRefresh = b.sessionRefresh
          /\ broker'.lastSeen = b.lastSeen /\ broker'.migrated = b.migrated
          /\ \A c \in Broker!Clients :
                  \/ clients'[c] = clients[c]
                  \/ clients'[c].at = "sent"
                  \/ /\ clients[c].at = "renewing" /\ clients'[c].at = "resent"
                     /\ clients'[c].refused = clients[c].refused
                     /\ b.env = Broker!NoToken => clients'[c].token = b.access.token
      <4>1. Broker!Succeeds(b)
        BY <2>1 DEF b
      <4> QED
        BY <3>1, <3>2, <3>3, <4>1, SucceedsGives
    <3>5. store' = store /\ Broker!NoFlight \in FlightType(m) /\ flight'.at = "none"
      BY <1>1, <1>2, <1>10, <3>1, <3>4, TypesGrow DEF Broker!LauncherAnswers
    <3>6. BrokerTyped'
      BY <1>5, <3>1, <3>2, <3>4, <3>5 DEF BrokerTypedUpto
    <3>7. Spent'
      BY <1>1, <3>1, <3>3, <3>4, <3>5 DEF Spent
    <3>8. Renewals'
      BY <1>1, <1>2, <3>1, <3>3, <3>4, <3>5 DEF Renewals, Broker!Clients
    <3> QED
      BY <3>6, <3>7, <3>8 DEF BrokerInv
  <2>2. CASE /\ flight' = [flight EXCEPT !.at = IF broker.migrated THEN "loading" ELSE "migrating"]
             /\ broker' = [broker EXCEPT !.migrated = TRUE]
             /\ UNCHANGED <<clients, brokerServer>>
    <3>1. /\ flight' \in FlightType(n) /\ flight'.at \in {"loading", "migrating"}
          /\ broker.migrated => flight'.at = "loading"
      BY <1>1, <2>2 DEF FlightType
    <3>2. /\ broker' \in BrokerType(n) /\ broker'.env = broker.env /\ broker'.migrated = TRUE
          /\ broker'.sessionRefresh = broker.sessionRefresh /\ broker'.lastSeen = broker.lastSeen
      BY <1>1, <2>2 DEF BrokerType
    <3>3. store' = store
      BY <1>10 DEF Broker!LauncherAnswers
    <3>4. BrokerTyped'
      BY <1>1, <1>5, <2>2, <3>1, <3>2, <3>3 DEF BrokerTypedUpto
    <3>5. Spent'
      BY <1>1, <2>2, <3>1, <3>2, <3>3 DEF Spent
    <3>6. Renewals'
      BY <1>1, <2>2, <3>1, <3>2 DEF Renewals
    <3> QED
      BY <3>4, <3>5, <3>6 DEF BrokerInv
  <2> QED
    BY <1>10, <2>1, <2>2 DEF Broker!LauncherAnswers
<1>11. ASSUME Broker!Migrate PROVE BrokerInv'
  <2>1. /\ flight' \in FlightType(n) /\ flight'.at = "loading" /\ flight.at = "migrating"
        /\ UNCHANGED <<broker, clients, brokerServer>>
    BY <1>1, <1>11 DEF Broker!Migrate, FlightType
  <2>2. /\ store' \in StoreType(n)
        /\ \/ store' = store
           \/ SecureStore /\ store'.canonical = store.legacy
        /\ store'.left = store.left
    BY <1>1, <1>11 DEF Broker!Migrate, StoreType
  <2>3. BrokerTyped'
    BY <1>1, <1>5, <2>1, <2>2 DEF BrokerTypedUpto
  <2>4. Spent'
    BY <1>1, <2>1, <2>2 DEF Spent
  <2>5. Renewals'
    BY <1>1, <2>1 DEF Renewals
  <2> QED
    BY <2>3, <2>4, <2>5 DEF BrokerInv
<1>12. ASSUME Broker!Fails, UNCHANGED <<broker, brokerServer>>, store' \in StoreType(n),
              store'.canonical = store.canonical, store.left \subseteq store'.left
       PROVE  BrokerInv'
  <2>1. /\ flight' = Broker!NoFlight
        /\ clients' \in [Broker!Clients -> ClientType(n)]
        /\ \A c \in Broker!Clients : clients'[c] = clients[c] \/ clients'[c].at = "idle"
    BY <1>1, <1>12, FailsGives
  <2>2. BrokerTyped'
    BY <1>1, <1>2, <1>5, <1>12, <2>1 DEF BrokerTypedUpto
  <2>3. Spent'
    BY <1>1, <1>2, <1>12, <2>1 DEF Spent
  <2>4. Renewals'
    BY <1>1, <1>2, <1>12, <2>1 DEF Renewals, Broker!Clients
  <2> QED
    BY <2>2, <2>3, <2>4 DEF BrokerInv
<1>13. ASSUME Broker!Load PROVE BrokerInv'
  <2>1. UNCHANGED <<broker, brokerServer>> /\ flight.at = "loading"
    BY <1>13 DEF Broker!Load
  <2>2. PICK token \in Broker!TokenOrNone :
            /\ Broker!Loads(store', token)
            /\ \/ Broker!Fails
               \/ flight' = [flight EXCEPT !.at = "revoking"] /\ UNCHANGED clients
               \/ /\ token # broker.lastSeen /\ token # Broker!NoToken
                  /\ flight' = [flight EXCEPT !.at = "sending", !.refresh = token] /\ UNCHANGED clients
    BY <1>13 DEF Broker!Load
  <2>3. /\ store' \in StoreType(n) /\ store'.canonical = store.canonical
        /\ store.left \subseteq store'.left
        /\ token \in {store.canonical, broker.sessionRefresh}
        /\ \/ token = store.canonical \/ store.canonical = 0
           \/ store.canonical \in S.used => store.canonical \in store'.left
    BY <1>loaded, <2>2
  <2>4. CASE Broker!Fails
    BY <1>12, <2>1, <2>3, <2>4
  <2>5. CASE flight' = [flight EXCEPT !.at = "revoking"] /\ UNCHANGED clients
    <3>1. flight' \in FlightType(n) /\ flight'.at = "revoking"
      BY <1>1, <2>5 DEF FlightType
    <3>2. BrokerTyped'
      BY <1>1, <1>5, <2>1, <2>3, <2>5, <3>1 DEF BrokerTypedUpto
    <3>3. Spent'
      BY <1>1, <2>1, <2>3, <2>5, <3>1 DEF Spent
    <3>4. Renewals'
      BY <1>1, <2>1, <2>5, <3>1 DEF Renewals
    <3> QED
      BY <3>2, <3>3, <3>4 DEF BrokerInv
  <2>6. CASE /\ token # broker.lastSeen /\ token # Broker!NoToken
             /\ flight' = [flight EXCEPT !.at = "sending", !.refresh = token] /\ UNCHANGED clients
    <3>1. flight' \in FlightType(n) /\ flight'.at = "sending" /\ flight'.refresh = token
      BY <1>1, <1>2, <2>3, <2>6 DEF FlightType
    <3>2. BrokerTyped'
      BY <1>1, <1>5, <2>1, <2>3, <2>6, <3>1 DEF BrokerTypedUpto
    <3>3. Spent'
      BY <1>1, <1>2, <2>1, <2>3, <2>6, <3>1 DEF Spent
    <3>4. Renewals'
      BY <1>1, <2>1, <2>6, <3>1 DEF Renewals
    <3> QED
      BY <3>2, <3>3, <3>4 DEF BrokerInv
  <2> QED
    BY <2>2, <2>4, <2>5, <2>6
<1>14. ASSUME Broker!Revoke PROVE BrokerInv'
  <2>1. /\ flight' = Broker!NoFlight
        /\ clients' \in [Broker!Clients -> ClientType(n)]
        /\ \A c \in Broker!Clients : clients'[c] = clients[c] \/ clients'[c].at = "idle"
    BY <1>1, <1>14, FailsGives DEF Broker!Revoke
  <2>2. /\ broker' = Broker!Forgotten
        /\ store' \in StoreType(n) /\ store.left \subseteq store'.left
        /\ store'.canonical \in S.used => store'.canonical \in store'.left
        /\ ~SecureStore => store'.canonical = 0
    BY <1>14, <1>deleted DEF Broker!Revoke
  <2>3. /\ S' \in AuthType(n) /\ S'.minted = n
        /\ S'.used = S.used /\ S'.lost = S.lost /\ S'.replayed = S.replayed
    BY <1>1, <1>14 DEF Broker!Revoke, AuthType
  <2>4. BrokerTyped'
    BY <1>1, <1>2, <1>4, <1>5, <2>1, <2>2, <2>3 DEF BrokerTypedUpto
  <2>5. Spent'
    BY <1>1, <1>2, <1>4, <2>1, <2>2, <2>3 DEF Spent
  <2>6. Renewals'
    BY <1>1, <1>2, <1>4, <2>1, <2>2 DEF Renewals, Broker!Clients
  <2> QED
    BY <2>4, <2>5, <2>6 DEF BrokerInv
<1>15. ASSUME Broker!ServerRejects PROVE BrokerInv'
  <2>1. /\ flight' = Broker!NoFlight /\ flight.at = "sending"
        /\ clients' \in [Broker!Clients -> ClientType(n)]
        /\ \A c \in Broker!Clients : clients'[c] = clients[c] \/ clients'[c].at = "idle"
    BY <1>1, <1>15, FailsGives DEF Broker!ServerRejects
  <2>2. /\ store' \in StoreType(n) /\ store.left \subseteq store'.left
        /\ store'.canonical \in S.used => store'.canonical \in store'.left
        /\ ~SecureStore => store'.canonical = 0
        /\ broker' \in BrokerType(n) /\ broker'.env = broker.env /\ broker'.sessionRefresh = 0
        /\ broker'.migrated = broker.migrated
    BY <1>1, <1>15, <1>deleted DEF Broker!ServerRejects, BrokerType
  <2>3. /\ S' \in AuthType(n) /\ S'.minted = n /\ S'.used = S.used /\ S'.lost = S.lost
        /\ S'.replayed = S.replayed \cup (S.used \cap {flight.refresh})
    BY <1>1, <1>15 DEF Broker!ServerRejects, AuthType
  <2>4. BrokerTyped'
    BY <1>1, <1>2, <1>4, <1>5, <2>1, <2>2, <2>3 DEF BrokerTypedUpto
  <2>5. Spent'
    BY <1>1, <1>2, <1>4, <2>1, <2>2, <2>3 DEF Spent
  <2>6. Renewals'
    BY <1>1, <1>2, <1>4, <2>1, <2>2 DEF Renewals, Broker!Clients
  <2> QED
    BY <2>4, <2>5, <2>6 DEF BrokerInv
<1>16. ASSUME Broker!RefreshFails PROVE BrokerInv'
  BY <1>1, <1>12, <1>16 DEF Broker!RefreshFails
<1>17. ASSUME Broker!StoreRotated PROVE BrokerInv'
  <2> DEFINE b == [broker EXCEPT !.access = Broker!Fresh(flight.grant), !.device = TRUE]
  <2>1. /\ b \in BrokerType(n) /\ b.access.token = flight.grant
        /\ b.env = broker.env /\ b.sessionRefresh = broker.sessionRefresh
        /\ b.lastSeen = broker.lastSeen /\ b.migrated = broker.migrated
    <3>1. /\ Broker!Fresh(flight.grant) \in [token : 0..n, fresh : BOOLEAN]
          /\ Broker!Fresh(flight.grant).token = flight.grant
      BY <1>2 DEF Broker!Fresh
    <3> QED
      BY <1>1, <3>1 DEF BrokerType
  <2>2. flight.at = "storing" /\ brokerServer' = brokerServer
    BY <1>17 DEF Broker!StoreRotated
  <2>3. /\ store' \in StoreType(n) /\ store'.left = store.left
        /\ store'.canonical \in {store.canonical, flight.grant}
        /\ ~SecureStore => store' = store
    BY <1>1, <1>2, <1>17 DEF Broker!StoreRotated, Broker!AfterSet, StoreType
  <2>4. Broker!Succeeds(b)
    BY <1>17 DEF Broker!StoreRotated
  <2> HIDE DEF b
  <2>5. /\ flight' = Broker!NoFlight
        /\ broker' \in BrokerType(n) /\ clients' \in [Broker!Clients -> ClientType(n)]
        /\ broker'.env = b.env /\ broker'.sessionRefresh = b.sessionRefresh
        /\ broker'.lastSeen = b.lastSeen /\ broker'.migrated = b.migrated
        /\ \A c \in Broker!Clients :
               \/ clients'[c] = clients[c]
               \/ clients'[c].at = "sent"
               \/ /\ clients[c].at = "renewing" /\ clients'[c].at = "resent"
                  /\ clients'[c].refused = clients[c].refused
                  /\ b.env = Broker!NoToken => clients'[c].token = b.access.token
    BY <1>1, <2>1, <2>4, SucceedsGives
  <2>6. BrokerTyped'
    BY <1>1, <1>2, <1>5, <2>2, <2>3, <2>5 DEF BrokerTypedUpto
  <2>7. Spent'
    BY <1>1, <1>2, <2>1, <2>2, <2>3, <2>5 DEF Spent
  <2>8. Renewals'
    BY <1>1, <1>2, <2>1, <2>2, <2>5 DEF Renewals, Broker!Clients
  <2> QED
    BY <2>6, <2>7, <2>8 DEF BrokerInv
<1>18. ASSUME Broker!ServerRotates("arrives") \/ Broker!ServerRotates("lost") PROVE BrokerInv'
  <2> DEFINE m == n + 1
  <2> DEFINE s == Broker!Minted(S.live \ {flight.refresh}, S.used \cup {flight.refresh})
  <2>1. /\ flight.at = "sending" /\ flight.refresh \in S.live /\ flight.refresh \in 1..n
        /\ store' = store
    BY <1>2, <1>18 DEF Broker!ServerRotates
  <2>2. /\ m \in Nat \ {0} /\ n <= m /\ s.minted = m /\ s \in AuthType(m)
        /\ s.used = S.used \cup {flight.refresh} /\ s.lost = S.lost /\ s.replayed = S.replayed
    BY <1>1, <2>1, MintTypes DEF Broker!Mint
  <2>3. /\ broker \in BrokerType(m) /\ store \in StoreType(m) /\ flight \in FlightType(m)
        /\ clients \in [Broker!Clients -> ClientType(m)]
    BY <1>1, <2>2, TypesGrow
  <2>4. CASE /\ brokerServer' = s
             /\ flight' = [flight EXCEPT !.at = "storing", !.grant = Broker!Mint]
             /\ broker' = [broker EXCEPT !.lastSeen = flight.refresh, !.sessionRefresh = Broker!Mint]
             /\ UNCHANGED clients
    <3>1. m = Broker!Mint /\ m \in 0..m /\ flight.refresh \in 0..m
      BY <1>1, <2>1 DEF Broker!Mint
    <3> HIDE DEF m, s
    <3>2. /\ flight' \in FlightType(m) /\ flight'.at = "storing" /\ flight'.grant = m
      BY <2>3, <2>4, <3>1 DEF FlightType
    <3>3. /\ broker' \in BrokerType(m) /\ broker'.lastSeen = flight.refresh
          /\ broker'.sessionRefresh = m /\ broker'.env = broker.env /\ broker'.access = broker.access
          /\ broker'.migrated = broker.migrated
      BY <2>3, <2>4, <3>1 DEF BrokerType
    <3>4. BrokerTyped'
      BY <1>5, <2>1, <2>2, <2>3, <2>4, <3>2, <3>3 DEF BrokerTypedUpto
    <3>5. m \notin 1..n /\ m # 0 /\ m \notin 0..n
      BY <1>1 DEF m
    <3>6. Spent'
      BY <1>1, <1>2, <2>1, <2>2, <2>4, <3>2, <3>3, <3>5 DEF Spent
    <3>7. Renewals'
      BY <1>1, <1>2, <2>2, <2>4, <3>2, <3>3, <3>5 DEF Renewals
    <3> QED
      BY <3>4, <3>6, <3>7 DEF BrokerInv
  <2>5. CASE /\ brokerServer' = [s EXCEPT !.lost = @ \cup {flight.refresh}]
             /\ Broker!Fails
             /\ UNCHANGED broker
    <3> HIDE DEF s, m
    <3>1. /\ S' \in AuthType(m) /\ S'.minted = m /\ S'.used = S.used \cup {flight.refresh}
          /\ S'.lost = S.lost \cup {flight.refresh} /\ S'.replayed = S.replayed
      <4>1. flight.refresh \in 1..m
        BY <1>1, <2>1 DEF m
      <4> QED
        BY <2>2, <2>5, <4>1 DEF AuthType
    <3>2. /\ flight' = Broker!NoFlight
          /\ clients' \in [Broker!Clients -> ClientType(m)]
          /\ \A c \in Broker!Clients : clients'[c] = clients[c] \/ clients'[c].at = "idle"
      BY <2>2, <2>3, <2>5, FailsGives
    <3>3. Broker!NoFlight \in FlightType(m) /\ flight'.at = "none"
      BY <1>1, <1>2, <2>2, <3>2, TypesGrow
    <3>4. BrokerTyped'
      BY <1>5, <2>1, <2>2, <2>3, <2>5, <3>1, <3>2, <3>3 DEF BrokerTypedUpto
    <3>5. Spent'
      BY <1>1, <1>2, <2>1, <2>5, <3>1, <3>3 DEF Spent
    <3>6. Renewals'
      BY <1>1, <2>5, <3>2, <3>3 DEF Renewals, Broker!Clients
    <3> QED
      BY <3>4, <3>5, <3>6 DEF BrokerInv
  <2> QED
    BY <1>18, <2>4, <2>5 DEF Broker!ServerRotates
<1>19. ASSUME Broker!Login \/ Broker!ExchangeFails \/ Broker!LocalExpiry
              \/ \E state \in 1..MaxLogins : Broker!SubmitCallback(state)
       PROVE  BrokerInv'
  <2>1. UNCHANGED <<store, flight, clients, brokerServer>>
    BY <1>19 DEF Broker!Login, Broker!ExchangeFails, Broker!LocalExpiry, Broker!SubmitCallback
  <2>2. /\ broker' \in BrokerType(n) /\ broker'.env = broker.env
        /\ broker'.sessionRefresh = broker.sessionRefresh /\ broker'.lastSeen = broker.lastSeen
        /\ broker'.access.token = broker.access.token /\ broker'.migrated = broker.migrated
    <3>1. CASE Broker!LocalExpiry
      <4>1. broker' = [broker EXCEPT !.access = [broker.access EXCEPT !.fresh = FALSE]]
        BY <1>1, <3>1 DEF Broker!LocalExpiry
      <4>2. /\ [broker.access EXCEPT !.fresh = FALSE] \in [token : 0..n, fresh : BOOLEAN]
            /\ [broker.access EXCEPT !.fresh = FALSE].token = broker.access.token
        BY <1>2
      <4> QED
        BY <1>1, <4>1, <4>2 DEF BrokerType
    <3>2. CASE Broker!Login
      <4>1. broker.login + 1 \in Nat
        BY <1>1 DEF BrokerType
      <4>2. broker' = [broker EXCEPT !.login = broker.login + 1, !.verifier = broker.login + 1, !.code = 0]
        BY <3>2 DEF Broker!Login
      <4> QED
        BY <1>1, <4>1, <4>2 DEF BrokerType
    <3>3. CASE Broker!ExchangeFails
      BY <1>1, <3>3 DEF Broker!ExchangeFails, BrokerType
    <3>4. ASSUME NEW state \in 1..MaxLogins, Broker!SubmitCallback(state)
          PROVE  broker' = [broker EXCEPT !.code = broker.login]
      BY <3>4 DEF Broker!SubmitCallback
    <3>5. CASE broker' = [broker EXCEPT !.code = broker.login]
      BY <1>1, <3>5 DEF BrokerType
    <3> QED
      BY <1>19, <3>1, <3>2, <3>3, <3>4, <3>5
  <2>3. BrokerTyped'
    BY <1>1, <1>5, <2>1, <2>2 DEF BrokerTypedUpto
  <2>4. Spent'
    BY <1>1, <2>1, <2>2 DEF Spent
  <2>5. Renewals'
    BY <1>1, <2>1, <2>2 DEF Renewals
  <2> QED
    BY <2>3, <2>4, <2>5 DEF BrokerInv
<1>20. ASSUME Broker!Exchange \/ Broker!RegisterApiKey PROVE BrokerInv'
  <2> DEFINE m == n + 1
  <2>1. m \in Nat \ {0} /\ n <= m /\ UNCHANGED <<flight, clients>>
    BY <1>1, <1>20 DEF Broker!Exchange, Broker!RegisterApiKey
  <2>2. /\ broker \in BrokerType(m) /\ store \in StoreType(m) /\ flight \in FlightType(m)
        /\ clients \in [Broker!Clients -> ClientType(m)]
    BY <1>1, <2>1, TypesGrow
  <2>3. /\ S'.minted = m /\ S' \in AuthType(m)
        /\ S'.used = S.used /\ S'.lost = S.lost /\ S'.replayed = S.replayed
    <3>1. CASE Broker!Exchange
      <4>1. 1 \in 1..n /\ brokerServer' = Broker!Minted(S.live, S.used)
        BY <1>1, <3>1 DEF Broker!Exchange
      <4> QED
        BY <1>1, <4>1, MintTypes DEF Broker!Mint
    <3>2. CASE Broker!RegisterApiKey
      <4>1. 1..n \subseteq 1..m /\ m \in 1..m
        BY <1>1
      <4>2. brokerServer' = [brokerServer EXCEPT !.minted = m, !.valid = @ \cup {m}]
        BY <3>2 DEF Broker!RegisterApiKey, Broker!Mint
      <4> HIDE DEF m
      <4> QED
        BY <1>1, <1>2, <4>1, <4>2 DEF AuthType
    <3> QED
      BY <1>20, <3>1, <3>2
  <2>4. /\ broker' \in BrokerType(m) /\ broker'.env = broker.env
        /\ broker'.sessionRefresh \in {broker.sessionRefresh, m}
        /\ broker'.lastSeen = broker.lastSeen /\ broker'.access.token = m
        /\ broker'.migrated = broker.migrated
    <3>1. Broker!Fresh(m) \in [token : 0..m, fresh : BOOLEAN] /\ Broker!Fresh(m).token = m
      BY <2>1 DEF Broker!Fresh
    <3>2. m = Broker!Mint /\ m \in 0..m
      BY <1>1 DEF Broker!Mint
    <3> HIDE DEF m
    <3>3. CASE Broker!Exchange
      <4>1. broker' = [broker EXCEPT !.access = Broker!Fresh(m), !.sessionRefresh = m, !.device = TRUE,
                                     !.verifier = 0, !.code = 0]
        BY <3>2, <3>3 DEF Broker!Exchange
      <4> QED
        BY <2>2, <3>1, <3>2, <4>1 DEF BrokerType
    <3>4. CASE Broker!RegisterApiKey
      <4>1. broker' = [broker EXCEPT !.access = Broker!Fresh(m), !.login = broker.login + 1]
        BY <3>2, <3>4 DEF Broker!RegisterApiKey
      <4>2. broker.login + 1 \in Nat
        BY <1>1 DEF BrokerType
      <4> QED
        BY <2>2, <3>1, <3>2, <4>1, <4>2 DEF BrokerType
    <3> QED
      BY <1>20, <3>3, <3>4
  <2>5. /\ store' \in StoreType(m) /\ store'.left = store.left
        /\ store'.canonical \in {store.canonical, m}
        /\ ~SecureStore => store' = store
    BY <1>1, <1>20, <2>2 DEF Broker!Exchange, Broker!RegisterApiKey, Broker!AfterSet, StoreType, Broker!Mint
  <2>6. BrokerTyped'
    BY <1>5, <2>1, <2>2, <2>3, <2>4, <2>5 DEF BrokerTypedUpto
  <2>7. Spent'
    BY <1>1, <1>2, <2>1, <2>3, <2>4, <2>5 DEF Spent
  <2>8. Renewals'
    BY <1>1, <1>2, <2>1, <2>4 DEF Renewals
  <2> QED
    BY <2>6, <2>7, <2>8 DEF BrokerInv
<1>21. ASSUME Broker!LogoutEnds PROVE BrokerInv'
  <2>1. /\ broker' = Broker!Forgotten /\ UNCHANGED <<flight, clients, brokerServer>>
        /\ store' \in StoreType(n) /\ store.left \subseteq store'.left
        /\ store'.canonical \in S.used => store'.canonical \in store'.left
        /\ ~SecureStore => store'.canonical = 0
    BY <1>21, <1>deleted DEF Broker!LogoutEnds
  <2>2. BrokerTyped'
    BY <1>1, <1>4, <1>5, <2>1 DEF BrokerTypedUpto
  <2>3. Spent'
    BY <1>1, <1>2, <1>4, <2>1 DEF Spent
  <2>4. Renewals'
    BY <1>1, <1>2, <1>4, <2>1 DEF Renewals
  <2> QED
    BY <2>2, <2>3, <2>4 DEF BrokerInv
<1>22. ASSUME Broker!LogoutLoads \/ \E t \in Broker!Grants : Broker!ServerExpiry(t) PROVE BrokerInv'
  <2>1. /\ UNCHANGED <<broker, flight, clients>>
        /\ store' \in StoreType(n) /\ store'.canonical = store.canonical
        /\ store.left \subseteq store'.left
    <3>1. CASE Broker!LogoutLoads
      BY <1>loaded, <3>1 DEF Broker!LogoutLoads
    <3>2. CASE \E t \in Broker!Grants : Broker!ServerExpiry(t)
      BY <1>1, <3>2 DEF Broker!ServerExpiry
    <3> QED
      BY <1>22, <3>1, <3>2
  <2>2. /\ S' \in AuthType(n) /\ S'.minted = n
        /\ S'.used = S.used /\ S'.lost = S.lost /\ S'.replayed = S.replayed
    BY <1>1, <1>22 DEF Broker!LogoutLoads, Broker!ServerExpiry, AuthType
  <2>3. BrokerTyped'
    BY <1>1, <1>5, <2>1, <2>2 DEF BrokerTypedUpto
  <2>4. Spent'
    BY <1>1, <2>1, <2>2 DEF Spent
  <2>5. Renewals'
    BY <1>1, <2>1 DEF Renewals
  <2> QED
    BY <2>3, <2>4, <2>5 DEF BrokerInv
<1> QED
  BY <1>6, <1>7, <1>8, <1>9, <1>10, <1>11, <1>13, <1>14, <1>15, <1>16, <1>17, <1>18, <1>19, <1>20,
     <1>21, <1>22
     DEF Broker!BrokerNext

\* The token endpoint sees a token twice only when its first answer was lost or the store failed
\* twice over it, and a provider
\* does not send again the token that was refused.
LEMMA BrokerHolds ==
    ASSUME BrokerInv
    PROVE  /\ Broker!NoReplay
           /\ \A c \in Providers : clients[c].at = "resent" => clients[c].token # clients[c].refused
           /\ (EnvKey => OtherClients = {}) => Broker!RetryIsFresh
BY DEF BrokerInv, Spent, Renewals, Broker!NoReplay, Broker!RetryIsFresh, Broker!Clients

-----------------------------------------------------------------------------
(***************************************************************************)
(* Plans and their executions.                                             *)
(***************************************************************************)

StepStates == {"pending", "in-progress", "completed", "failed"}
PlanStates == {"drafting", "awaiting-approval", "executing", "completed", "failed"}
PlanSteps == Seq([id : Nat, status : StepStates])
PlanType == [at : {"orienting", "asking", "ready"}, status : PlanStates, steps : PlanSteps]
ExecutionType ==
    [plan : Nat, at : {"registering", "thrown", "running", "recording", "ended"}, step : Nat,
     cancelled : BOOLEAN, result : {"none", "timeout", "completed", "failed"}, completed : Nat,
     failed : Nat]

PlanTyped ==
    /\ plans \in Seq(PlanType)
    /\ currentPlan \in 0..Len(plans)
    /\ executions \in Seq(ExecutionType)
    /\ \A e \in DOMAIN executions : executions[e].plan \in DOMAIN plans

\* A set of numbers has a least one.
LEMMA LeastNumber ==
    ASSUME NEW S \in SUBSET Nat, S # {}
    PROVE  \E x \in S : \A y \in S : x <= y
<1>1. PICK x \in S : \A y \in S : ~ (<<y, x>> \in OpToRel(<, Nat))
  BY NatLessThanWellFounded, WFMin
<1>2. \A y \in S : ~(y < x)
  BY <1>1 DEF OpToRel
<1> QED
  BY <1>2

LEMMA PlanMin ==
    ASSUME NEW S \in SUBSET Nat, S # {}
    PROVE  Plan!Min(S) \in S /\ \A y \in S : Plan!Min(S) <= y
BY LeastNumber DEF Plan!Min

LEMMA SeqElements ==
    ASSUME NEW T, NEW s \in Seq(T)
    PROVE  /\ DOMAIN s = 1..Len(s) /\ Len(s) \in Nat /\ DOMAIN s \subseteq Nat
           /\ \A k \in DOMAIN s : s[k] \in T
OBVIOUS

\* A function on the first numbers is a sequence.
LEMMA SeqBuilt ==
    ASSUME NEW S, NEW n \in Nat, NEW f \in [1..n -> S]
    PROVE  f \in Seq(S)
OBVIOUS

\* The sequence with another element in a place.
LEMMA SeqExcept ==
    ASSUME NEW T, NEW s \in Seq(T), NEW k \in DOMAIN s, NEW x \in T
    PROVE  /\ [s EXCEPT ![k] = x] \in Seq(T) /\ Len([s EXCEPT ![k] = x]) = Len(s)
           /\ [s EXCEPT ![k] = x][k] = x
           /\ \A j \in DOMAIN s \ {k} : [s EXCEPT ![k] = x][j] = s[j]
           /\ DOMAIN [s EXCEPT ![k] = x] = DOMAIN s
OBVIOUS

\* ... or with another behind the last.
LEMMA SeqPlaced ==
    ASSUME NEW T, NEW s \in Seq(T), NEW e \in 1..(Len(s) + 1), NEW x \in T,
           NEW r, r = [d \in DOMAIN s \cup {e} |-> IF d = e THEN x ELSE s[d]]
    PROVE  r \in Seq(T)
<1>1. \E n \in Nat : DOMAIN s \cup {e} = 1..n
  <2>1. DOMAIN s = 1..Len(s) /\ Len(s) \in Nat
    OBVIOUS
  <2>2. CASE e \in DOMAIN s
    BY <2>1, <2>2
  <2>3. CASE e = Len(s) + 1
    <3>1. (1..Len(s)) \cup {Len(s) + 1} = 1..(Len(s) + 1)
      BY <2>1
    <3> QED
      BY <2>1, <2>3, <3>1
  <2> QED
    BY <2>1, <2>2, <2>3
<1>2. PICK n \in Nat : DOMAIN s \cup {e} = 1..n
  BY <1>1
<1>3. \A d \in 1..n : r[d] \in T
  BY <1>2
<1>4. r = [d \in 1..n |-> r[d]]
  BY <1>2
<1> QED
  BY <1>2, <1>3, <1>4, SeqDef

\* What becomes of the status of a step: nothing else of the plan is touched, and where no number
\* is given twice it is the step meant, and the status of the plan is that of its steps.
LEMMA MarkGives ==
    ASSUME NEW all \in Seq(PlanType), NEW p \in DOMAIN all, NEW id, NEW status \in StepStates,
           NEW r, r = Plan!MarkStep(all, p, id, status)
    PROVE  /\ r \in Seq(PlanType) /\ Len(r) = Len(all) /\ DOMAIN r = DOMAIN all
           /\ \A q \in DOMAIN all \ {p} : r[q] = all[q]
           /\ r[p].at = all[p].at /\ DOMAIN r[p].steps = DOMAIN all[p].steps
           /\ \A k \in DOMAIN all[p].steps : r[p].steps[k].id = all[p].steps[k].id
           /\ \A k \in DOMAIN all[p].steps :
                  Plan!DistinctIds(all[p]) /\ id = all[p].steps[k].id =>
                      /\ r[p].steps[k].status = status
                      /\ \A j \in DOMAIN all[p].steps \ {k} : r[p].steps[j] = all[p].steps[j]
                      /\ r[p].status = Plan!PlanStatus(r[p])
<1> DEFINE own == all[p].steps
           named == {k \in DOMAIN own : own[k].id = id}
           m == Plan!Min(named)
           marked == [all[p] EXCEPT !.steps[m].status = status]
           final == [marked EXCEPT !.status = Plan!PlanStatus(marked)]
<1>1. /\ all[p] \in PlanType /\ own \in PlanSteps /\ DOMAIN own \subseteq Nat
      /\ \A k \in DOMAIN own : own[k] \in [id : Nat, status : StepStates]
  <2>1. all[p] \in PlanType
    OBVIOUS
  <2>2. own \in Seq([id : Nat, status : StepStates])
    BY <2>1 DEF PlanType, PlanSteps
  <2> HIDE DEF own
  <2>3. DOMAIN own \subseteq Nat /\ \A k \in DOMAIN own : own[k] \in [id : Nat, status : StepStates]
    BY <2>2, SeqElements
  <2> QED
    BY <2>1, <2>2, <2>3 DEF PlanSteps
<1>2. r = IF named = {} THEN all ELSE [all EXCEPT ![p] = final]
  BY DEF Plan!MarkStep
<1>3. CASE named = {}
  BY <1>2, <1>3
<1>4. CASE named # {}
  <2>1. m \in named /\ m \in DOMAIN own /\ own[m].id = id
    <3>1. named \in SUBSET Nat
      BY <1>1
    <3>2. m \in named
      BY <1>4, <3>1, PlanMin
    <3> QED
      BY <3>2
  <2> DEFINE step == [own[m] EXCEPT !.status = status]
             after == [own EXCEPT ![m] = step]
  <2>2. /\ step \in [id : Nat, status : StepStates] /\ step.status = status
        /\ step.id = own[m].id
    BY <1>1, <2>1
  <2>3. /\ after \in PlanSteps /\ after[m] = step /\ DOMAIN after = DOMAIN own
        /\ \A j \in DOMAIN own \ {m} : after[j] = own[j]
    <3> HIDE DEF step, own, m
    <3> QED
      BY <1>1, <2>1, <2>2, SeqExcept DEF PlanSteps
  <2>4. marked = [all[p] EXCEPT !.steps = after]
    BY <1>1, <2>1 DEF PlanType
  <2>5. marked \in PlanType /\ marked.steps = after /\ marked.at = all[p].at
        /\ marked.status = all[p].status
    <3> HIDE DEF after, marked
    <3> QED
      BY <1>1, <2>3, <2>4 DEF PlanType
  <2> HIDE DEF marked
  <2>6. Plan!PlanStatus(marked) \in PlanStates
    <3>1. marked.status \in PlanStates
      BY <2>5 DEF PlanType
    <3> HIDE DEF final, after, step, m, named
    <3> QED
      BY <3>1 DEF Plan!PlanStatus, PlanStates
  <2>7. /\ final \in PlanType /\ final.steps = after /\ final.at = all[p].at
        /\ final.status = Plan!PlanStatus(marked)
    <3> HIDE DEF after
    <3> QED
      BY <2>5, <2>6 DEF PlanType
  <2>8. Plan!PlanStatus(final) = Plan!PlanStatus(marked)
    <3> HIDE DEF after, final
    <3> QED
      BY <2>5, <2>7 DEF Plan!PlanStatus
  <2> HIDE DEF final
  <2>9. /\ r \in Seq(PlanType) /\ Len(r) = Len(all) /\ DOMAIN r = DOMAIN all /\ r[p] = final
        /\ \A q \in DOMAIN all \ {p} : r[q] = all[q]
    BY <1>2, <1>4, <2>7, SeqExcept
  <2>10. ASSUME NEW k \in DOMAIN own, Plan!DistinctIds(all[p]), id = own[k].id
         PROVE  k = m
    BY <2>1, <2>10 DEF Plan!DistinctIds
  <2> HIDE DEF after, step, m, named
  <2> QED
    BY <2>1, <2>2, <2>3, <2>7, <2>8, <2>9, <2>10
<1> QED
  BY <1>3, <1>4

\* An execution goes on from x: its plan is the only one that is touched, and it stands at the
\* next step that is left, or has ended.
GoneOn(e, x, updated, after, to) ==
    LET p == x.plan
        rest == Plan!StepsAfter(updated[p].steps, x.step)
        y == after[e]
    IN  /\ after \in Seq(ExecutionType)
        /\ DOMAIN after = DOMAIN executions \cup {e}
        /\ \A d \in DOMAIN executions \ {e} : after[d] = executions[d]
        /\ y.plan = p /\ y.failed = x.failed /\ y.completed = x.completed
        /\ rest \subseteq DOMAIN updated[p].steps
        /\ \/ /\ rest = {} /\ y.at = "ended" /\ y.step = x.step
              /\ to = updated
           \/ /\ rest # {} /\ y.at \in {"registering", "thrown"}
              /\ y.step \in rest /\ \A k \in rest : y.step <= k
              /\ to = Plan!UpdateStep(updated, p, updated[p].steps[y.step].id, "in-progress")

LEMMA ProceedGives ==
    ASSUME PlanTyped, NEW e \in 1..(Len(executions) + 1), NEW x \in ExecutionType,
           NEW updated \in Seq(PlanType), x.plan \in DOMAIN updated,
           Plan!Proceed(e, x, updated)
    PROVE  GoneOn(e, x, updated, executions', plans')
<1> DEFINE p == x.plan
           rest == Plan!StepsAfter(updated[p].steps, x.step)
           Gone(at, step) == [x EXCEPT !.at = at, !.step = step]
           Goes(y) == executions' = [d \in DOMAIN executions \cup {e} |->
                                        IF d = e THEN y ELSE executions[d]]
<1>1. /\ executions \in Seq(ExecutionType) /\ DOMAIN executions = 1..Len(executions)
      /\ Len(executions) \in Nat
  BY DEF PlanTyped
<1>2. rest \subseteq DOMAIN updated[p].steps /\ DOMAIN updated[p].steps \subseteq Nat
  <2>1. updated[p] \in PlanType
    OBVIOUS
  <2>2. updated[p].steps \in PlanSteps
    BY <2>1 DEF PlanType
  <2> QED
    BY <2>2, SeqElements DEF PlanSteps, Plan!StepsAfter
<1>3. rest # {} => Plan!Min(rest) \in rest /\ \A k \in rest : Plan!Min(rest) <= k
  <2> HIDE DEF rest
  <2> QED
    BY <1>2, PlanMin
<1>4. ASSUME NEW y \in ExecutionType, Goes(y)
      PROVE  /\ executions' \in Seq(ExecutionType) /\ executions'[e] = y
             /\ DOMAIN executions' = DOMAIN executions \cup {e}
             /\ \A d \in DOMAIN executions \ {e} : executions'[d] = executions[d]
  <2>1. /\ executions'[e] = y /\ DOMAIN executions' = DOMAIN executions \cup {e}
        /\ \A d \in DOMAIN executions \ {e} : executions'[d] = executions[d]
    BY <1>4
  <2>2. executions' \in Seq(ExecutionType)
    BY <1>1, <1>4, SeqPlaced
  <2> QED
    BY <2>1, <2>2
<1>5. ASSUME NEW at \in {"ended", "registering", "thrown"}, NEW step \in Nat
      PROVE  /\ Gone(at, step) \in ExecutionType /\ Gone(at, step).at = at
             /\ Gone(at, step).step = step /\ Gone(at, step).plan = p
             /\ Gone(at, step).failed = x.failed /\ Gone(at, step).completed = x.completed
  BY DEF ExecutionType
<1>6. x.step \in Nat
  BY DEF ExecutionType
<1>7. CASE rest = {}
  <2>1. Goes(Gone("ended", x.step)) /\ plans' = updated
    BY <1>7 DEF Plan!Proceed
  <2> HIDE DEF Goes, Gone, rest, p
  <2>2. /\ Gone("ended", x.step) \in ExecutionType /\ Gone("ended", x.step).at = "ended"
        /\ Gone("ended", x.step).step = x.step /\ Gone("ended", x.step).plan = p
        /\ Gone("ended", x.step).failed = x.failed /\ Gone("ended", x.step).completed = x.completed
    BY <1>5, <1>6
  <2> QED
    BY <1>2, <1>4, <1>7, <2>1, <2>2 DEF p, rest, GoneOn
<1>8. CASE rest # {}
  <2>1. PICK at \in {"registering", "thrown"} : Goes(Gone(at, Plan!Min(rest)))
    BY <1>8 DEF Plan!Proceed
  <2>2. plans' = Plan!UpdateStep(updated, p, updated[p].steps[Plan!Min(rest)].id, "in-progress")
    BY <1>8 DEF Plan!Proceed
  <2> DEFINE m == Plan!Min(rest)
  <2>3. m \in Nat /\ m \in rest /\ \A k \in rest : m <= k
    BY <1>2, <1>3, <1>8
  <2> HIDE DEF Goes, Gone, m
  <2>4. /\ Gone(at, m) \in ExecutionType /\ Gone(at, m).at = at
        /\ Gone(at, m).step = m /\ Gone(at, m).plan = p
        /\ Gone(at, m).failed = x.failed /\ Gone(at, m).completed = x.completed
    BY <1>5, <2>3
  <2>5. /\ executions' \in Seq(ExecutionType) /\ executions'[e] = Gone(at, m)
        /\ DOMAIN executions' = DOMAIN executions \cup {e}
        /\ \A d \in DOMAIN executions \ {e} : executions'[d] = executions[d]
    BY <1>4, <2>1, <2>4 DEF m
  <2> QED
    BY <1>2, <1>8, <2>2, <2>3, <2>4, <2>5 DEF m, GoneOn
<1> QED
  BY <1>7, <1>8

\* What becomes of a plan when a step of it is updated: nothing if it is not the current one.
UpdatedTo(all, p, id, status, r) ==
    /\ r \in Seq(PlanType) /\ DOMAIN r = DOMAIN all
    /\ p # currentPlan => r = all
    /\ \A q \in DOMAIN all \ {p} : r[q] = all[q]
    /\ r[p].at = all[p].at /\ DOMAIN r[p].steps = DOMAIN all[p].steps
    /\ \A k \in DOMAIN all[p].steps : r[p].steps[k].id = all[p].steps[k].id
    /\ \A k \in DOMAIN all[p].steps :
           p = currentPlan /\ Plan!DistinctIds(all[p]) /\ id = all[p].steps[k].id =>
               /\ r[p].steps[k].status = status
               /\ \A j \in DOMAIN all[p].steps \ {k} : r[p].steps[j] = all[p].steps[j]
               /\ r[p].status = Plan!PlanStatus(r[p])

LEMMA UpdateGives ==
    ASSUME NEW all \in Seq(PlanType), NEW p \in DOMAIN all, NEW id, NEW status \in StepStates,
           NEW r, r = Plan!UpdateStep(all, p, id, status)
    PROVE  UpdatedTo(all, p, id, status, r)
<1>1. CASE p # currentPlan
  BY <1>1 DEF Plan!UpdateStep, UpdatedTo
<1>2. CASE p = currentPlan
  <2>1. r = Plan!MarkStep(all, p, id, status)
    BY <1>2 DEF Plan!UpdateStep
  <2> QED
    BY <1>2, <2>1, MarkGives DEF UpdatedTo
<1> QED
  BY <1>1, <1>2

\* A plan without an answer has no steps, and none of its executions has got to one; one that has
\* stands at a step of its plan.
Standing ==
    /\ \A p \in DOMAIN plans : plans[p].at # "ready" => DOMAIN plans[p].steps = {}
    /\ \A e \in DOMAIN executions :
           LET x == executions[e] IN
           /\ plans[x.plan].at # "ready" => x.step = 0
           /\ x.step = 0 => x.at = "ended"
           /\ x.step # 0 => x.step \in DOMAIN plans[x.plan].steps

\* An execution of the current plan leaves no step pending behind it, and the steps in progress are
\* those at which one stands: provided no number is given twice.
Settling ==
    currentPlan # 0 /\ Plan!DistinctIds(plans[currentPlan]) =>
        LET plan == plans[currentPlan] IN
        /\ \A e \in DOMAIN executions :
               executions[e].plan = currentPlan /\ executions[e].step # 0 =>
                   /\ \A k \in DOMAIN plan.steps :
                          k <= executions[e].step \/ executions[e].at = "ended" =>
                              plan.steps[k].status # "pending"
                   /\ plan.status = Plan!PlanStatus(plan)
        /\ \A k \in DOMAIN plan.steps : plan.steps[k].status = "in-progress" =>
               \E e \in DOMAIN executions : /\ executions[e].plan = currentPlan
                                            /\ executions[e].step = k
                                            /\ executions[e].at # "ended"

PlanInv == PlanTyped /\ Standing /\ Settling

LEMMA PlanStarts ==
    ASSUME Plan!PlanInit
    PROVE  PlanInv
<1>1. plans = <<>> /\ executions = <<>> /\ currentPlan = 0
  BY DEF Plan!PlanInit, Plan!NoPlan
<1>2. PlanTyped
  BY <1>1 DEF PlanTyped
<1>3. Standing /\ Settling
  BY <1>1 DEF Standing, Settling
<1> QED
  BY <1>2, <1>3 DEF PlanInv

\* What is known of a plan and its steps.
LEMMA PlanFields ==
    ASSUME NEW all \in Seq(PlanType), NEW p \in DOMAIN all
    PROVE  /\ all[p] \in PlanType /\ all[p].steps \in PlanSteps /\ DOMAIN all[p].steps \subseteq Nat \ {0}
           /\ all[p].at \in {"orienting", "asking", "ready"}
           /\ \A k \in DOMAIN all[p].steps : all[p].steps[k].status \in StepStates
<1>1. all[p] \in PlanType
  OBVIOUS
<1>2. all[p].steps \in PlanSteps /\ all[p].at \in {"orienting", "asking", "ready"}
  BY <1>1 DEF PlanType
<1>3. \A k \in DOMAIN all[p].steps : all[p].steps[k] \in [id : Nat, status : StepStates]
  BY <1>2, SeqElements DEF PlanSteps
<1>4. DOMAIN all[p].steps = 1..Len(all[p].steps) /\ Len(all[p].steps) \in Nat
  BY <1>2, SeqElements DEF PlanSteps
<1> QED
  BY <1>1, <1>2, <1>3, <1>4

\* An execution that begins, or one whose subagent has a result, goes on.
LEMMA ProceedKeeps ==
    ASSUME PlanInv, currentPlan' = currentPlan,
           NEW e \in 1..(Len(executions) + 1), NEW x \in ExecutionType, NEW updated, NEW status \in StepStates,
           status \notin {"pending", "in-progress"},
           \/ /\ e = Len(executions) + 1 /\ x.plan = currentPlan /\ x.step = 0
              /\ currentPlan # 0 /\ updated = plans
           \/ /\ e \in DOMAIN executions /\ executions[e].at # "ended"
              /\ x.plan = executions[e].plan /\ x.step = executions[e].step
              /\ updated = Plan!UpdateStep(plans, x.plan, plans[x.plan].steps[x.step].id, status),
           Plan!Proceed(e, x, updated)
    PROVE  /\ PlanInv'
           /\ DOMAIN plans' = DOMAIN plans /\ \A q \in DOMAIN plans \ {x.plan} : plans'[q] = plans[q]
           /\ e \in DOMAIN executions' /\ executions'[e].plan = x.plan
           /\ executions'[e].failed = x.failed /\ executions'[e].completed = x.completed
<1> DEFINE p == x.plan
           y == executions'[e]
           rest == Plan!StepsAfter(updated[p].steps, x.step)
           mid == updated[p]
           was == plans[p]
           is == plans'[p]
<1>1. /\ PlanTyped /\ Standing /\ Settling
      /\ plans \in Seq(PlanType) /\ executions \in Seq(ExecutionType)
      /\ currentPlan \in 0..Len(plans) /\ DOMAIN plans = 1..Len(plans) /\ Len(plans) \in Nat
      /\ DOMAIN executions = 1..Len(executions) /\ Len(executions) \in Nat
      /\ \A d \in DOMAIN executions : executions[d] \in ExecutionType /\ executions[d].plan \in DOMAIN plans
  BY DEF PlanInv, PlanTyped
<1>2. p \in DOMAIN plans /\ x.step \in Nat /\ (x.step # 0 => x.step \in DOMAIN was.steps)
      /\ (was.at # "ready" => x.step = 0)
      /\ (e \notin DOMAIN executions => p = currentPlan /\ x.step = 0 /\ mid = was /\ updated = plans)
      /\ (e \in DOMAIN executions => x.step # 0 /\ p = executions[e].plan /\ x.step = executions[e].step)
  <2>1. x.step \in Nat
    BY DEF ExecutionType
  <2> QED
    BY <1>1, <2>1 DEF Standing
<1>3. /\ updated \in Seq(PlanType) /\ DOMAIN updated = DOMAIN plans
      /\ p # currentPlan => updated = plans
      /\ \A q \in DOMAIN plans \ {p} : updated[q] = plans[q]
      /\ mid.at = was.at /\ DOMAIN mid.steps = DOMAIN was.steps
      /\ \A k \in DOMAIN was.steps : mid.steps[k].id = was.steps[k].id
      /\ p = currentPlan /\ Plan!DistinctIds(was) /\ e \in DOMAIN executions =>
             /\ mid.steps[x.step].status = status
             /\ \A j \in DOMAIN was.steps \ {x.step} : mid.steps[j] = was.steps[j]
             /\ mid.status = Plan!PlanStatus(mid)
  <2>1. CASE e = Len(executions) + 1
    BY <1>1, <1>2, <2>1
  <2>2. CASE e \in DOMAIN executions
    <3>1. updated = Plan!UpdateStep(plans, p, was.steps[x.step].id, status)
      BY <1>1, <2>2
    <3>2. UpdatedTo(plans, p, was.steps[x.step].id, status, updated)
      BY <1>1, <1>2, <3>1, UpdateGives
    <3>3. x.step \in DOMAIN was.steps
      BY <1>2, <2>2
    <3> HIDE DEF p
    <3> QED
      BY <2>2, <3>2, <3>3 DEF UpdatedTo
  <2> QED
    BY <1>1, <2>1, <2>2
<1>4. /\ executions' \in Seq(ExecutionType)
      /\ DOMAIN executions' = DOMAIN executions \cup {e}
      /\ \A d \in DOMAIN executions \ {e} : executions'[d] = executions[d]
      /\ y.plan = p /\ y.failed = x.failed /\ y.completed = x.completed
      /\ rest \subseteq DOMAIN mid.steps
      /\ \/ /\ rest = {} /\ y.at = "ended" /\ y.step = x.step
            /\ plans' = updated
         \/ /\ rest # {} /\ y.at \in {"registering", "thrown"}
            /\ y.step \in rest /\ \A k \in rest : y.step <= k
            /\ plans' = Plan!UpdateStep(updated, p, mid.steps[y.step].id, "in-progress")
  <2>1. GoneOn(e, x, updated, executions', plans')
    BY <1>1, <1>2, <1>3, ProceedGives
  <2> QED
    BY <2>1 DEF GoneOn
<1> HIDE DEF p, y, rest, mid, was, is
<1>5. rest = {k \in DOMAIN mid.steps : k > x.step /\ mid.steps[k].status \notin {"completed", "skipped"}}
  BY DEF rest, mid, p, Plan!StepsAfter, Plan!Finished
<1>6. /\ plans' \in Seq(PlanType) /\ DOMAIN plans' = DOMAIN plans
      /\ p # currentPlan => plans' = plans
      /\ \A q \in DOMAIN plans \ {p} : plans'[q] = plans[q]
      /\ is.at = was.at /\ DOMAIN is.steps = DOMAIN was.steps
      /\ \A k \in DOMAIN was.steps : is.steps[k].id = was.steps[k].id
      /\ rest = {} => is = mid
      /\ p = currentPlan /\ Plan!DistinctIds(was) /\ rest # {} =>
             /\ is.steps[y.step].status = "in-progress"
             /\ \A j \in DOMAIN was.steps \ {y.step} : is.steps[j] = mid.steps[j]
             /\ is.status = Plan!PlanStatus(is)
  <2>1. CASE rest = {}
    BY <1>3, <1>4, <2>1 DEF is, mid, was, p
  <2>2. CASE rest # {}
    <3>1. plans' = Plan!UpdateStep(updated, p, mid.steps[y.step].id, "in-progress")
      BY <1>4, <2>2
    <3>2. y.step \in DOMAIN mid.steps /\ "in-progress" \in StepStates /\ p \in DOMAIN updated
      BY <1>2, <1>3, <1>4, <2>2 DEF StepStates
    <3>3. Plan!DistinctIds(was) => Plan!DistinctIds(mid)
      BY <1>3 DEF Plan!DistinctIds
    <3>4. UpdatedTo(updated, p, mid.steps[y.step].id, "in-progress", plans')
      BY <1>3, <3>1, <3>2, UpdateGives
    <3> QED
      BY <1>3, <2>2, <3>2, <3>3, <3>4 DEF UpdatedTo, is, mid
  <2> QED
    BY <2>1, <2>2
<1>7. Len(plans') = Len(plans)
  BY <1>1, <1>6
<1>8. PlanTyped'
  BY <1>1, <1>2, <1>4, <1>6, <1>7 DEF PlanTyped, y
<1>9. Standing'
  <2>1. \A q \in DOMAIN plans' : plans'[q].at # "ready" => DOMAIN plans'[q].steps = {}
    BY <1>1, <1>2, <1>6 DEF Standing, is, was
  <2>2. \A d \in DOMAIN executions \ {e} :
            /\ plans'[executions[d].plan].at = plans[executions[d].plan].at
            /\ DOMAIN plans'[executions[d].plan].steps = DOMAIN plans[executions[d].plan].steps
    BY <1>1, <1>6 DEF is, was
  <2>3. /\ is.at # "ready" => y.step = 0
        /\ y.step = 0 => y.at = "ended"
        /\ y.step # 0 => y.step \in DOMAIN is.steps
    <3>1. is.at # "ready" => DOMAIN is.steps = {}
      BY <1>2, <1>6, <2>1 DEF is
    <3>2. \A k \in rest : k # 0
      BY <1>1, <1>2, <1>3, <1>5, PlanFields DEF was
    <3> QED
      BY <1>2, <1>3, <1>4, <1>6, <3>1, <3>2
  <2>4. ASSUME NEW d \in DOMAIN executions'
        PROVE  LET x2 == executions'[d] IN
               /\ plans'[x2.plan].at # "ready" => x2.step = 0
               /\ x2.step = 0 => x2.at = "ended"
               /\ x2.step # 0 => x2.step \in DOMAIN plans'[x2.plan].steps
    <3>1. CASE d = e
      BY <1>4, <2>3, <3>1 DEF y, is
    <3>2. CASE d # e
      <4>1. d \in DOMAIN executions \ {e} /\ executions'[d] = executions[d]
        BY <1>4, <2>4, <3>2
      <4>2. LET x2 == executions[d] IN
            /\ plans[x2.plan].at # "ready" => x2.step = 0
            /\ x2.step = 0 => x2.at = "ended"
            /\ x2.step # 0 => x2.step \in DOMAIN plans[x2.plan].steps
        BY <1>1, <4>1 DEF Standing
      <4> QED
        BY <2>2, <4>1, <4>2
    <3> QED
      BY <3>1, <3>2
  <2> QED
    BY <2>1, <2>4 DEF Standing
<1>10. Settling'
  <2>1. CASE p # currentPlan
    <3>1. plans' = plans /\ e \in DOMAIN executions /\ executions[e].plan = p /\ executions'[e].plan = p
      BY <1>1, <1>2, <1>4, <1>6, <2>1 DEF y
    <3>2. \A d \in DOMAIN executions : executions[d].plan = currentPlan => executions'[d] = executions[d]
      BY <1>4, <2>1, <3>1
    <3>3. \A d \in DOMAIN executions' : executions'[d].plan = currentPlan =>
              d \in DOMAIN executions /\ executions'[d] = executions[d]
      BY <1>4, <2>1, <3>1
    <3> DEFINE c == plans[currentPlan]
    <3>4. SUFFICES ASSUME currentPlan # 0, Plan!DistinctIds(c)
                   PROVE  /\ \A d \in DOMAIN executions' :
                                 executions'[d].plan = currentPlan /\ executions'[d].step # 0 =>
                                     /\ \A k \in DOMAIN c.steps :
                                            k <= executions'[d].step \/ executions'[d].at = "ended" =>
                                                c.steps[k].status # "pending"
                                     /\ c.status = Plan!PlanStatus(c)
                          /\ \A k \in DOMAIN c.steps : c.steps[k].status = "in-progress" =>
                                 \E d \in DOMAIN executions' : /\ executions'[d].plan = currentPlan
                                                               /\ executions'[d].step = k
                                                               /\ executions'[d].at # "ended"
      BY <3>1 DEF Settling
    <3>5. /\ \A d \in DOMAIN executions :
                executions[d].plan = currentPlan /\ executions[d].step # 0 =>
                    /\ \A k \in DOMAIN c.steps :
                           k <= executions[d].step \/ executions[d].at = "ended" =>
                               c.steps[k].status # "pending"
                    /\ c.status = Plan!PlanStatus(c)
          /\ \A k \in DOMAIN c.steps : c.steps[k].status = "in-progress" =>
                \E d \in DOMAIN executions : /\ executions[d].plan = currentPlan
                                             /\ executions[d].step = k
                                             /\ executions[d].at # "ended"
      BY <1>1, <3>4 DEF Settling
    <3> HIDE DEF c
    <3>6. ASSUME NEW d \in DOMAIN executions', executions'[d].plan = currentPlan, executions'[d].step # 0
          PROVE  /\ \A k \in DOMAIN c.steps :
                        k <= executions'[d].step \/ executions'[d].at = "ended" => c.steps[k].status # "pending"
                 /\ c.status = Plan!PlanStatus(c)
      BY <3>3, <3>5, <3>6
    <3>7. ASSUME NEW k \in DOMAIN c.steps, c.steps[k].status = "in-progress"
          PROVE  \E d \in DOMAIN executions' : /\ executions'[d].plan = currentPlan
                                               /\ executions'[d].step = k
                                               /\ executions'[d].at # "ended"
      BY <1>4, <3>2, <3>5, <3>7
    <3> QED
      BY <3>6, <3>7
  <2>2. CASE p = currentPlan /\ Plan!DistinctIds(was)
    <3>1. /\ \A d \in DOMAIN executions :
                 executions[d].plan = p /\ executions[d].step # 0 =>
                     /\ \A k \in DOMAIN was.steps :
                            k <= executions[d].step \/ executions[d].at = "ended" =>
                                was.steps[k].status # "pending"
                     /\ was.status = Plan!PlanStatus(was)
          /\ \A k \in DOMAIN was.steps : was.steps[k].status = "in-progress" =>
                 \E d \in DOMAIN executions : /\ executions[d].plan = p
                                              /\ executions[d].step = k
                                              /\ executions[d].at # "ended"
      BY <1>1, <1>2, <2>2 DEF Settling, was
    <3>2. DOMAIN was.steps \subseteq Nat \ {0} /\ \A k \in DOMAIN mid.steps : mid.steps[k].status \in StepStates
      BY <1>1, <1>2, <1>3, PlanFields DEF was, mid
    <3>3. \A k \in DOMAIN was.steps : is.steps[k].status = "pending" =>
              was.steps[k].status = "pending" /\ k # x.step /\ k # y.step
      <4> SUFFICES ASSUME NEW k \in DOMAIN was.steps, is.steps[k].status = "pending"
                   PROVE  was.steps[k].status = "pending" /\ k # x.step /\ k # y.step
        OBVIOUS
      <4>1. mid.steps[k].status = "pending" /\ (rest # {} => k # y.step)
        BY <1>6, <2>2
      <4>2. k # 0
        BY <3>2
      <4>3. was.steps[k].status = "pending" /\ k # x.step
        BY <1>2, <1>3, <2>2, <4>1, <4>2
      <4> QED
        BY <1>4, <4>1, <4>3
    <3>4. \A k \in DOMAIN was.steps : k <= x.step => is.steps[k].status # "pending"
      <4>1. CASE e \in DOMAIN executions
        <5>1. \A k \in DOMAIN was.steps : k <= x.step => was.steps[k].status # "pending"
          BY <1>2, <3>1, <4>1
        <5> QED
          BY <3>3, <5>1
      <4>2. CASE e \notin DOMAIN executions
        <5>1. \A k \in Nat \ {0} : ~(k <= 0)
          OBVIOUS
        <5> QED
          BY <1>2, <3>2, <4>2, <5>1
      <4> QED
        BY <4>1, <4>2
    <3>5. \A k \in DOMAIN was.steps : y.step # 0 /\ (k <= y.step \/ y.at = "ended") =>
              is.steps[k].status # "pending"
      <4> SUFFICES ASSUME NEW k \in DOMAIN was.steps, y.step # 0, k <= y.step \/ y.at = "ended",
                          is.steps[k].status = "pending"
                   PROVE  FALSE
        OBVIOUS
      <4>1. k > x.step /\ k # y.step
        BY <1>2, <3>2, <3>3, <3>4
      <4>2. is.steps[k] = mid.steps[k]
        BY <1>6, <2>2, <4>1
      <4>3. k \in rest
        BY <1>3, <1>5, <4>1, <4>2
      <4> QED
        BY <1>3, <1>4, <3>2, <4>1, <4>3
    <3>6. is.status = Plan!PlanStatus(is) \/ (rest = {} /\ is = was /\ y.step = 0)
      BY <1>2, <1>3, <1>4, <1>6, <2>2
    <3>7. ASSUME NEW d \in DOMAIN executions', executions'[d].plan = p, executions'[d].step # 0
          PROVE  /\ \A k \in DOMAIN is.steps :
                        k <= executions'[d].step \/ executions'[d].at = "ended" =>
                            is.steps[k].status # "pending"
                 /\ is.status = Plan!PlanStatus(is)
      <4>1. CASE d = e
        BY <1>6, <3>5, <3>6, <3>7, <4>1 DEF y
      <4>2. CASE d # e
        BY <1>4, <1>6, <3>1, <3>3, <3>6, <3>7, <4>2
      <4> QED
        BY <4>1, <4>2
    <3>8. ASSUME NEW k \in DOMAIN is.steps, is.steps[k].status = "in-progress"
          PROVE  \E d \in DOMAIN executions' : /\ executions'[d].plan = p
                                               /\ executions'[d].step = k
                                               /\ executions'[d].at # "ended"
      <4>1. CASE rest # {} /\ k = y.step
        BY <1>4, <4>1 DEF y
      <4>2. CASE ~(rest # {} /\ k = y.step)
        <5>1. mid.steps[k].status = "in-progress"
          BY <1>6, <2>2, <3>8, <4>2
        <5>2. was.steps[k].status = "in-progress" /\ (e \in DOMAIN executions => k # x.step)
          BY <1>2, <1>3, <1>6, <2>2, <5>1
        <5>3. PICK d \in DOMAIN executions : /\ executions[d].plan = p
                                             /\ executions[d].step = k
                                             /\ executions[d].at # "ended"
          BY <1>6, <3>1, <5>2
        <5> QED
          BY <1>2, <1>4, <5>2, <5>3
      <4> QED
        BY <4>1, <4>2
    <3> QED
      BY <2>2, <3>7, <3>8 DEF Settling, is
  <2>3. CASE p = currentPlan /\ ~Plan!DistinctIds(was)
    <3>1. ~Plan!DistinctIds(is)
      BY <1>6, <2>3 DEF Plan!DistinctIds
    <3> QED
      BY <2>3, <3>1 DEF Settling, is
  <2> QED
    BY <2>1, <2>2, <2>3
<1> QED
  BY <1>4, <1>6, <1>8, <1>9, <1>10 DEF PlanInv, y, p

\* A plan that is drafted: its executions have got to no step, and it may become the current one.
LEMMA DraftKeeps ==
    ASSUME PlanInv, UNCHANGED executions, NEW p \in DOMAIN plans, plans[p].at # "ready",
           NEW r \in PlanType, plans' = [plans EXCEPT ![p] = r],
           r.at # "ready" => DOMAIN r.steps = {},
           \A k \in DOMAIN r.steps : r.steps[k].status = "pending",
           currentPlan' \in {currentPlan, p}
    PROVE  PlanInv' /\ \A q \in DOMAIN plans \ {p} : plans'[q] = plans[q]
<1>1. /\ PlanTyped /\ Standing /\ Settling
      /\ plans \in Seq(PlanType) /\ executions \in Seq(ExecutionType)
      /\ currentPlan \in 0..Len(plans) /\ DOMAIN plans = 1..Len(plans) /\ Len(plans) \in Nat
      /\ \A d \in DOMAIN executions : executions[d] \in ExecutionType /\ executions[d].plan \in DOMAIN plans
  BY DEF PlanInv, PlanTyped
<1>2. /\ plans' \in Seq(PlanType) /\ Len(plans') = Len(plans) /\ plans'[p] = r
      /\ \A q \in DOMAIN plans \ {p} : plans'[q] = plans[q]
      /\ DOMAIN plans' = DOMAIN plans
  BY <1>1, SeqExcept
<1>3. PlanTyped'
  BY <1>1, <1>2 DEF PlanTyped
<1>4. \A d \in DOMAIN executions : executions[d].plan = p => executions[d].step = 0
  BY <1>1 DEF Standing
<1>5. Standing'
  BY <1>1, <1>2, <1>4 DEF Standing
<1>6. Settling'
  <2>1. CASE currentPlan' = p
    BY <1>2, <1>4, <2>1 DEF Settling
  <2>2. CASE currentPlan' # p
    <3>1. currentPlan' = currentPlan
      BY <2>2
    <3>2. currentPlan # 0 => plans'[currentPlan] = plans[currentPlan]
      BY <1>1, <1>2, <2>2, <3>1
    <3> QED
      BY <1>1, <3>1, <3>2 DEF Settling
  <2> QED
    BY <2>1, <2>2
<1> QED
  BY <1>2, <1>3, <1>5, <1>6 DEF PlanInv

\* The subagent of an execution gets on.
LEMMA ExecutionKeeps ==
    ASSUME PlanInv, UNCHANGED <<plans, currentPlan>>, NEW e \in DOMAIN executions,
           executions[e].at # "ended", NEW y \in ExecutionType,
           executions' = [executions EXCEPT ![e] = y], y.at # "ended",
           y.plan = executions[e].plan, y.step = executions[e].step
    PROVE  PlanInv'
<1>1. /\ PlanTyped /\ Standing /\ Settling
      /\ executions \in Seq(ExecutionType)
      /\ \A d \in DOMAIN executions : executions[d].plan \in DOMAIN plans
  BY DEF PlanInv, PlanTyped
<1>2. /\ executions' \in Seq(ExecutionType) /\ executions'[e] = y
      /\ \A d \in DOMAIN executions \ {e} : executions'[d] = executions[d]
      /\ DOMAIN executions' = DOMAIN executions
  BY <1>1, SeqExcept
<1>3. PlanTyped'
  BY <1>1, <1>2 DEF PlanTyped
<1>4. Standing'
  BY <1>1, <1>2 DEF Standing
<1>5. Settling'
  <2>1. \A d \in DOMAIN executions :
            /\ executions'[d].plan = executions[d].plan /\ executions'[d].step = executions[d].step
            /\ executions'[d].at = "ended" <=> executions[d].at = "ended"
    BY <1>2
  <2> QED
    BY <1>1, <1>2, <2>1 DEF Settling
<1> QED
  BY <1>3, <1>4, <1>5 DEF PlanInv

\* The step of a plan that is there changes only as one of its executions goes on.
PlanMoves ==
    \A p \in DOMAIN plans :
        plans'[p].steps # plans[p].steps /\ plans[p].at = "ready" =>
            \E e \in DOMAIN executions' :
                /\ executions'[e].plan = p
                /\ e \in DOMAIN executions => executions'[e] # executions[e]

LEMMA ParsedAre ==
    ASSUME NEW ids \in Seq(Nat)
    PROVE  /\ Plan!ParsedSteps(ids) \in PlanSteps
           /\ \A k \in DOMAIN Plan!ParsedSteps(ids) : Plan!ParsedSteps(ids)[k].status = "pending"
<1>1. DOMAIN ids = 1..Len(ids) /\ Len(ids) \in Nat
  OBVIOUS
<1>2. \A k \in 1..Len(ids) : [id |-> ids[k], status |-> "pending"] \in [id : Nat, status : StepStates]
  BY DEF StepStates
<1>3. Plan!ParsedSteps(ids) = [k \in 1..Len(ids) |-> [id |-> ids[k], status |-> "pending"]]
  BY <1>1 DEF Plan!ParsedSteps
<1>4. Plan!ParsedSteps(ids) \in [1..Len(ids) -> [id : Nat, status : StepStates]]
  BY <1>2, <1>3
<1>5. Plan!ParsedSteps(ids) \in PlanSteps
  BY <1>1, <1>4, SeqBuilt DEF PlanSteps
<1> QED
  BY <1>3, <1>5

LEMMA PlanStep ==
    ASSUME PlanInv, [Plan!PlanNext]_planVars
    PROVE  PlanInv' /\ PlanMoves
<1>1. /\ PlanTyped /\ Standing /\ Settling
      /\ plans \in Seq(PlanType) /\ executions \in Seq(ExecutionType)
      /\ currentPlan \in 0..Len(plans) /\ DOMAIN plans = 1..Len(plans) /\ Len(plans) \in Nat
      /\ DOMAIN executions = 1..Len(executions) /\ Len(executions) \in Nat
      /\ \A d \in DOMAIN executions : executions[d] \in ExecutionType /\ executions[d].plan \in DOMAIN plans
  BY DEF PlanInv, PlanTyped
<1>2. CASE UNCHANGED planVars
  BY <1>1, <1>2 DEF planVars, PlanInv, PlanTyped, Standing, Settling, PlanMoves
<1>3. CASE Plan!RequestPlan
  <2> DEFINE new == [at |-> "orienting", status |-> "drafting", steps |-> <<>>]
  <2>1. plans' = Append(plans, new) /\ UNCHANGED <<currentPlan, executions>>
    BY <1>3 DEF Plan!RequestPlan
  <2>2. new \in PlanType /\ DOMAIN new.steps = {}
    BY DEF PlanType, PlanStates, PlanSteps
  <2> HIDE DEF new
  <2>3. /\ plans' \in Seq(PlanType) /\ DOMAIN plans' = 1..(Len(plans) + 1)
        /\ plans'[Len(plans) + 1] = new /\ Len(plans') = Len(plans) + 1
        /\ \A q \in DOMAIN plans : plans'[q] = plans[q]
    BY <1>1, <2>1, <2>2
  <2>4. PlanTyped'
    BY <1>1, <2>1, <2>3 DEF PlanTyped
  <2>5. Standing'
    BY <1>1, <2>1, <2>2, <2>3 DEF Standing
  <2>6. Settling'
    BY <1>1, <2>1, <2>3 DEF Settling
  <2> QED
    BY <2>3, <2>4, <2>5, <2>6 DEF PlanInv, PlanMoves
<1>4. ASSUME NEW p \in DOMAIN plans, Plan!Seed(p)
      PROVE  PlanInv' /\ PlanMoves
  <2> DEFINE r == IF HasModel THEN [plans[p] EXCEPT !.at = "asking"]
                  ELSE [at |-> "ready", status |-> "awaiting-approval",
                        steps |-> Plan!ParsedSteps(<<1>>)]
  <2>1. /\ plans' = [plans EXCEPT ![p] = r] /\ plans[p].at = "orienting"
        /\ currentPlan' = p /\ executions' = executions
    BY <1>4 DEF Plan!Seed
  <2>2. plans[p] \in PlanType /\ DOMAIN plans[p].steps = {}
    BY <1>1, <2>1 DEF Standing
  <2>3. /\ Plan!ParsedSteps(<<1>>) \in PlanSteps
        /\ \A k \in DOMAIN Plan!ParsedSteps(<<1>>) : Plan!ParsedSteps(<<1>>)[k].status = "pending"
    <3>1. <<1>> \in Seq(Nat)
      OBVIOUS
    <3> QED
      BY <3>1, ParsedAre
  <2>4. /\ r \in PlanType
        /\ r.at # "ready" => DOMAIN r.steps = {}
        /\ \A k \in DOMAIN r.steps : r.steps[k].status = "pending"
    <3>1. CASE HasModel
      BY <2>1, <2>2, <3>1 DEF PlanType
    <3>2. CASE ~HasModel
      BY <2>3, <3>2 DEF PlanType, PlanStates
    <3> QED
      BY <3>1, <3>2
  <2> HIDE DEF r
  <2>5. PlanInv' /\ \A q \in DOMAIN plans \ {p} : plans'[q] = plans[q]
    BY <2>1, <2>4, DraftKeeps
  <2> QED
    BY <2>1, <2>5 DEF PlanMoves
<1>5. ASSUME NEW p \in DOMAIN plans, Plan!ModelFails(p)
      PROVE  PlanInv' /\ PlanMoves
  <2> DEFINE r == [plans[p] EXCEPT !.at = "ready", !.status = "awaiting-approval"]
  <2>1. /\ plans' = [plans EXCEPT ![p] = r] /\ plans[p].at = "asking"
        /\ currentPlan' = currentPlan /\ executions' = executions
    BY <1>5 DEF Plan!ModelFails
  <2>2. plans[p] \in PlanType /\ DOMAIN plans[p].steps = {}
    BY <1>1, <2>1 DEF Standing
  <2>3. r \in PlanType /\ DOMAIN r.steps = {} /\ r.at = "ready"
    BY <2>2 DEF PlanType, PlanStates
  <2> HIDE DEF r
  <2>4. PlanInv' /\ \A q \in DOMAIN plans \ {p} : plans'[q] = plans[q]
    BY <2>1, <2>3, DraftKeeps
  <2> QED
    BY <2>1, <2>4 DEF PlanMoves
<1>6. ASSUME NEW p \in DOMAIN plans, NEW ids \in StepLists, Plan!ModelAnswers(p, ids)
      PROVE  PlanInv' /\ PlanMoves
  <2> DEFINE r == [at |-> "ready", status |-> "awaiting-approval", steps |-> Plan!ParsedSteps(ids)]
  <2>1. /\ plans' = [plans EXCEPT ![p] = r] /\ plans[p].at = "asking"
        /\ currentPlan' = p /\ executions' = executions
    BY <1>6 DEF Plan!ModelAnswers
  <2>2. ids \in Seq(Nat)
    BY StepListsAssumption
  <2>3. /\ r \in PlanType /\ r.at = "ready"
        /\ \A k \in DOMAIN r.steps : r.steps[k].status = "pending"
    <3>1. /\ Plan!ParsedSteps(ids) \in PlanSteps
          /\ \A k \in DOMAIN Plan!ParsedSteps(ids) : Plan!ParsedSteps(ids)[k].status = "pending"
      BY <2>2, ParsedAre
    <3> QED
      BY <3>1 DEF PlanType, PlanStates
  <2> HIDE DEF r
  <2>4. PlanInv' /\ \A q \in DOMAIN plans \ {p} : plans'[q] = plans[q]
    BY <2>1, <2>3, DraftKeeps
  <2> QED
    BY <2>1, <2>4 DEF PlanMoves
<1>7. ASSUME Plan!Execute
      PROVE  PlanInv' /\ PlanMoves
  <2> DEFINE e == Len(executions) + 1
             x == [plan |-> currentPlan, at |-> "registering", step |-> 0, cancelled |-> FALSE,
                   result |-> "none", completed |-> 0, failed |-> 0]
  <2>1. currentPlan # 0 /\ currentPlan' = currentPlan /\ Plan!Proceed(e, x, plans)
    BY <1>7 DEF Plan!Execute, Plan!NoPlan
  <2>2. x \in ExecutionType /\ x.plan = currentPlan /\ x.step = 0
    BY <1>1, <2>1 DEF ExecutionType
  <2>3. e \in 1..(Len(executions) + 1) /\ "failed" \in StepStates
    BY <1>1 DEF StepStates
  <2> HIDE DEF x
  <2>4. /\ PlanInv'
        /\ DOMAIN plans' = DOMAIN plans /\ \A q \in DOMAIN plans \ {x.plan} : plans'[q] = plans[q]
        /\ e \in DOMAIN executions' /\ executions'[e].plan = x.plan
    BY <2>1, <2>2, <2>3, ProceedKeeps
  <2>5. e \notin DOMAIN executions
    BY <1>1
  <2> HIDE DEF e
  <2> QED
    BY <2>4, <2>5 DEF PlanMoves
<1>8. ASSUME NEW e \in DOMAIN executions, Plan!StartChild(e)
      PROVE  PlanInv' /\ PlanMoves
  <2> DEFINE y == [executions[e] EXCEPT !.at = "running", !.cancelled = FALSE]
  <2>1. /\ executions' = [executions EXCEPT ![e] = y] /\ executions[e].at = "registering"
        /\ UNCHANGED <<plans, currentPlan>>
    BY <1>8 DEF Plan!StartChild
  <2>2. /\ y \in ExecutionType /\ y.at # "ended" /\ y.plan = executions[e].plan
        /\ y.step = executions[e].step
    BY <1>1 DEF ExecutionType
  <2> HIDE DEF y
  <2> QED
    BY <2>1, <2>2, ExecutionKeeps DEF PlanMoves
<1>9. ASSUME NEW e \in DOMAIN executions, Plan!Terminate(e)
      PROVE  PlanInv' /\ PlanMoves
  <2> DEFINE y == [executions[e] EXCEPT !.cancelled = TRUE]
  <2>1. /\ executions' = [executions EXCEPT ![e] = y] /\ executions[e].at = "running"
        /\ UNCHANGED <<plans, currentPlan>>
    BY <1>9 DEF Plan!Terminate
  <2>2. /\ y \in ExecutionType /\ y.at = executions[e].at /\ y.plan = executions[e].plan
        /\ y.step = executions[e].step
    BY <1>1 DEF ExecutionType
  <2> HIDE DEF y
  <2> QED
    BY <2>1, <2>2, ExecutionKeeps DEF PlanMoves
<1>10. ASSUME NEW e \in DOMAIN executions, NEW ok \in BOOLEAN, Plan!ChildExits(e, ok)
       PROVE  PlanInv' /\ PlanMoves
  <2> DEFINE result == CASE executions[e].cancelled -> "timeout"
                         [] ok                      -> "completed"
                         [] OTHER                   -> "failed"
             y == [executions[e] EXCEPT !.at = "recording", !.result = result]
  <2>1. /\ executions' = [executions EXCEPT ![e] = y] /\ executions[e].at = "running"
        /\ UNCHANGED <<plans, currentPlan>>
    <3>1. /\ executions' = [executions EXCEPT ![e].at = "recording", ![e].result = result]
          /\ executions[e].at = "running" /\ UNCHANGED <<plans, currentPlan>>
      BY <1>10, Zenon DEF Plan!ChildExits
    <3> HIDE DEF result
    <3> QED
      BY <3>1
  <2>2. result \in {"none", "timeout", "completed", "failed"}
    OBVIOUS
  <2> HIDE DEF result
  <2>3. /\ y \in ExecutionType /\ y.at # "ended" /\ y.plan = executions[e].plan
        /\ y.step = executions[e].step
    BY <1>1, <2>2 DEF ExecutionType
  <2> HIDE DEF y
  <2> QED
    BY <2>1, <2>3, ExecutionKeeps DEF PlanMoves
<1>11. ASSUME NEW e \in DOMAIN executions, NEW x \in ExecutionType, executions[e].at # "ended",
              x.plan = executions[e].plan, x.step = executions[e].step,
              x.failed # executions[e].failed \/ x.completed # executions[e].completed,
              NEW status \in {"completed", "failed"}, currentPlan' = currentPlan,
              Plan!Proceed(e, x, Plan!UpdateStep(plans, x.plan, plans[x.plan].steps[x.step].id, status))
       PROVE  PlanInv' /\ PlanMoves
  <2>1. e \in 1..(Len(executions) + 1) /\ status \in StepStates
        /\ status \notin {"pending", "in-progress"}
    BY <1>1 DEF StepStates
  <2>2. /\ PlanInv'
        /\ DOMAIN plans' = DOMAIN plans /\ \A q \in DOMAIN plans \ {x.plan} : plans'[q] = plans[q]
        /\ e \in DOMAIN executions' /\ executions'[e].plan = x.plan
        /\ executions'[e].failed = x.failed /\ executions'[e].completed = x.completed
    BY <1>11, <2>1, ProceedKeeps
  <2>3. executions'[e] # executions[e]
    BY <1>11, <2>2
  <2> QED
    BY <2>2, <2>3 DEF PlanMoves
<1>12. ASSUME NEW e \in DOMAIN executions, Plan!SpawnThrown(e)
       PROVE  PlanInv' /\ PlanMoves
  <2> DEFINE x == [executions[e] EXCEPT !.failed = @ + 1]
  <2>1. /\ executions[e].at = "thrown" /\ currentPlan' = currentPlan
        /\ Plan!Proceed(e, x, Plan!UpdateStep(plans, executions[e].plan,
                                             plans[executions[e].plan].steps[executions[e].step].id, "failed"))
    BY <1>12 DEF Plan!SpawnThrown, Plan!StepOf
  <2>2. /\ x \in ExecutionType /\ x.plan = executions[e].plan /\ x.step = executions[e].step
        /\ x.failed # executions[e].failed
    <3>1. executions[e] \in ExecutionType /\ executions[e].failed \in Nat
      BY <1>1 DEF ExecutionType
    <3>2. x \in ExecutionType
      BY <3>1 DEF ExecutionType
    <3>3. /\ x.plan = executions[e].plan /\ x.step = executions[e].step
          /\ x.failed = executions[e].failed + 1
      BY <3>1 DEF ExecutionType
    <3> QED
      BY <3>1, <3>2, <3>3
  <2> HIDE DEF x
  <2> QED
    BY <1>11, <2>1, <2>2
<1>13. ASSUME NEW e \in DOMAIN executions, Plan!SpawnReturns(e)
       PROVE  PlanInv' /\ PlanMoves
  <2> DEFINE ok == executions[e].result = "completed"
             x == IF ok THEN [executions[e] EXCEPT !.completed = @ + 1]
                  ELSE [executions[e] EXCEPT !.failed = @ + 1]
             status == IF ok THEN "completed" ELSE "failed"
  <2>1. /\ executions[e].at = "recording" /\ currentPlan' = currentPlan
        /\ Plan!Proceed(e, x, Plan!UpdateStep(plans, executions[e].plan,
                                             plans[executions[e].plan].steps[executions[e].step].id, status))
    BY <1>13 DEF Plan!SpawnReturns, Plan!StepOf
  <2>2. /\ x \in ExecutionType /\ x.plan = executions[e].plan /\ x.step = executions[e].step
        /\ x.failed # executions[e].failed \/ x.completed # executions[e].completed
    <3>1. /\ executions[e] \in ExecutionType
          /\ executions[e].failed \in Nat /\ executions[e].completed \in Nat
      BY <1>1 DEF ExecutionType
    <3>2. CASE ok
      <4>1. x = [executions[e] EXCEPT !.completed = @ + 1]
        BY <3>2
      <4>2. x.completed = executions[e].completed + 1
        BY <3>1, <4>1 DEF ExecutionType
      <4> QED
        BY <3>1, <4>1, <4>2 DEF ExecutionType
    <3>3. CASE ~ok
      <4>1. x = [executions[e] EXCEPT !.failed = @ + 1]
        BY <3>3
      <4>2. x.failed = executions[e].failed + 1
        BY <3>1, <4>1 DEF ExecutionType
      <4> QED
        BY <3>1, <4>1, <4>2 DEF ExecutionType
    <3> QED
      BY <3>2, <3>3
  <2>3. status \in {"completed", "failed"}
    OBVIOUS
  <2> HIDE DEF x, status
  <2> QED
    BY <1>11, <2>1, <2>2, <2>3
<1> QED
  BY <1>2, <1>3, <1>4, <1>5, <1>6, <1>7, <1>8, <1>9, <1>10, <1>12, <1>13 DEF Plan!PlanNext

\* When all its executions have ended, every step of the plan has its result.
LEMMA SettledHolds ==
    ASSUME PlanInv
    PROVE  Plan!ExecutedIsSettled
<1> DEFINE plan == plans[currentPlan]
<1>1. SUFFICES ASSUME currentPlan # 0,
                      \A d \in DOMAIN executions : executions[d].plan = currentPlan => executions[d].at = "ended",
                      NEW e \in DOMAIN executions, executions[e].plan = currentPlan, executions[e].step # 0,
                      Plan!DistinctIds(plan)
               PROVE  /\ \A k \in DOMAIN plan.steps : plan.steps[k].status \in {"completed", "failed"}
                      /\ plan.status = IF \E k \in DOMAIN plan.steps : plan.steps[k].status = "failed"
                                       THEN "failed" ELSE "completed"
  BY DEF Plan!ExecutedIsSettled, Plan!NoPlan
<1>2. /\ \A k \in DOMAIN plan.steps : plan.steps[k].status # "pending"
      /\ plan.status = Plan!PlanStatus(plan)
      /\ \A k \in DOMAIN plan.steps : plan.steps[k].status # "in-progress"
  BY <1>1 DEF PlanInv, Settling
<1>3. \A k \in DOMAIN plan.steps : plan.steps[k].status \in StepStates
  <2>1. currentPlan \in DOMAIN plans /\ plans \in Seq(PlanType)
    BY <1>1 DEF PlanInv, PlanTyped
  <2> QED
    BY <2>1, PlanFields
<1>4. \A k \in DOMAIN plan.steps : plan.steps[k].status \in {"completed", "failed"}
  BY <1>2, <1>3 DEF StepStates
<1>5. executions[e].step \in DOMAIN plan.steps
  BY <1>1 DEF PlanInv, Standing
<1> HIDE DEF plan
<1>6. Plan!PlanStatus(plan) = IF \E k \in DOMAIN plan.steps : plan.steps[k].status = "failed"
                              THEN "failed" ELSE "completed"
  <2> DEFINE statuses == {plan.steps[k].status : k \in DOMAIN plan.steps}
  <2>1. statuses # {} /\ statuses \subseteq {"completed", "failed"}
    BY <1>4, <1>5
  <2>2. \A s : s \in statuses <=> \E k \in DOMAIN plan.steps : plan.steps[k].status = s
    OBVIOUS
  <2>3. Plan!PlanStatus(plan) = CASE statuses = {} -> plan.status
                                  [] statuses \subseteq {"completed", "skipped"} -> "completed"
                                  [] "in-progress" \in statuses -> "executing"
                                  [] "failed" \in statuses -> "failed"
                                  [] OTHER -> plan.status
    BY DEF Plan!PlanStatus, Plan!Finished
  <2> HIDE DEF statuses
  <2> QED
    BY <2>1, <2>2, <2>3
<1> QED
  BY <1>2, <1>4, <1>6

-----------------------------------------------------------------------------
(***************************************************************************)
(* The debugger: a timeline is the events folded one by one.               *)
(***************************************************************************)

\* h is the timeline after each of the first N events of a tape.
IsHistory(h, t, N) ==
    h = [k \in 0..N |-> IF k = 0 THEN <<>> ELSE Debugger!Recorded(h[k - 1], t[k], k)]

\* Folded and FoldOn over a tape that is named.
FoldedOf(t, n) ==
    LET at[k \in 0..n] == IF k = 0 THEN <<>> ELSE Debugger!Recorded(at[k - 1], t[k], k)
    IN  at[n]
FoldOnOf(t, timeline, from, to) ==
    LET at[k \in (from - 1)..to] ==
            IF k < from THEN timeline ELSE Debugger!Recorded(at[k - 1], t[k], k)
    IN  at[to]

LEMMA FoldsOfTape ==
    /\ \A n : Debugger!Folded(n) = FoldedOf(tape, n)
    /\ \A timeline, from, to : Debugger!FoldOn(timeline, from, to) = FoldOnOf(tape, timeline, from, to)
BY DEF Debugger!Folded, Debugger!FoldOn, FoldedOf, FoldOnOf

\* A tape has a history, however long.
LEMMA HistoryExists ==
    ASSUME NEW t, NEW N \in Nat
    PROVE  \E h : IsHistory(h, t, N)
<1> DEFINE Bad == {n \in Nat : ~ \E h : IsHistory(h, t, n)}
<1>1. SUFFICES ASSUME Bad # {}
               PROVE  FALSE
  OBVIOUS
<1>2. PICK m \in Bad : \A n \in Bad : m <= n
  BY <1>1, LeastNumber
<1>3. m \in Nat /\ ~ \E h : IsHistory(h, t, m)
  BY <1>2
<1>4. CASE m = 0
  <2> DEFINE g == [k \in 0..0 |-> <<>>]
  <2>1. 0..0 = {0}
    OBVIOUS
  <2>2. IsHistory(g, t, 0)
    BY <2>1 DEF IsHistory
  <2> QED
    BY <1>3, <1>4, <2>2
<1>5. CASE m # 0
  <2>1. m - 1 \in Nat /\ m - 1 \notin Bad
    <3> HIDE DEF Bad
    <3> QED
      BY <1>2, <1>3, <1>5
  <2>2. PICK h : IsHistory(h, t, m - 1)
    BY <2>1
  <2> DEFINE g == [k \in 0..m |-> IF k = m THEN Debugger!Recorded(h[m - 1], t[m], m) ELSE h[k]]
  <2>3. \A k \in 0..(m - 1) :
            h[k] = IF k = 0 THEN <<>> ELSE Debugger!Recorded(h[k - 1], t[k], k)
    BY <2>2 DEF IsHistory
  <2>4. \A k \in 0..m : g[k] = IF k = 0 THEN <<>> ELSE Debugger!Recorded(g[k - 1], t[k], k)
    <3>1. \A k \in 0..(m - 1) : g[k] = h[k] /\ k \in 0..m
      BY <1>3, <1>5, <2>1
    <3>2. g[m] = Debugger!Recorded(h[m - 1], t[m], m)
      BY <1>3
    <3>3. m - 1 \in 0..(m - 1)
      BY <1>3, <1>5, <2>1
    <3> HIDE DEF g
    <3>4. ASSUME NEW k \in 0..m
          PROVE  g[k] = IF k = 0 THEN <<>> ELSE Debugger!Recorded(g[k - 1], t[k], k)
      <4>1. CASE k = m
        BY <1>5, <3>1, <3>2, <3>3, <4>1
      <4>2. CASE k # m
        <5>1. k \in 0..(m - 1) /\ (k # 0 => k - 1 \in 0..(m - 1))
          BY <1>3, <4>2
        <5> QED
          BY <2>3, <3>1, <5>1
      <4> QED
        BY <4>1, <4>2
    <3> QED
      BY <3>4
  <2>5. IsHistory(g, t, m)
    <3>1. g = [k \in 0..m |-> g[k]]
      OBVIOUS
    <3> HIDE DEF g
    <3> QED
      BY <2>4, <3>1 DEF IsHistory
  <2> QED
    BY <1>3, <2>5
<1> QED
  BY <1>4, <1>5

\* Two functions that grow alike from the same start are the same.
Grows(f, t, a, b) == \A k \in (a + 1)..b : f[k] = Debugger!Recorded(f[k - 1], t[k], k)

LEMMA FoldsAgree ==
    ASSUME NEW t, NEW a \in Nat, NEW b \in Nat, NEW f, NEW h, f[a] = h[a],
           Grows(f, t, a, b), Grows(h, t, a, b)
    PROVE  \A k \in a..b : f[k] = h[k]
<1> DEFINE Bad == {k \in a..b : f[k] # h[k]}
<1>1. SUFFICES ASSUME Bad # {}
               PROVE  FALSE
  OBVIOUS
<1>2. Bad \in SUBSET Nat
  OBVIOUS
<1>3. PICK m \in Bad : \A n \in Bad : m <= n
  <2> HIDE DEF Bad
  <2> QED
    BY <1>1, <1>2, LeastNumber
<1>4. m \in a..b /\ f[m] # h[m] /\ m # a
  BY <1>3
<1>5. m - 1 \in a..b /\ m \in (a + 1)..b
  BY <1>4
<1>6. m - 1 \notin Bad
  <2> HIDE DEF Bad
  <2> QED
    BY <1>2, <1>3
<1>7. f[m - 1] = h[m - 1]
  BY <1>5, <1>6
<1> QED
  BY <1>4, <1>5, <1>7 DEF Grows

LEMMA FoldedIs ==
    ASSUME NEW t, NEW N \in Nat, NEW h, IsHistory(h, t, N), NEW n \in 0..N
    PROVE  FoldedOf(t, n) = h[n]
<1>1. \A k \in 0..N : h[k] = IF k = 0 THEN <<>> ELSE Debugger!Recorded(h[k - 1], t[k], k)
  BY DEF IsHistory
<1>2. PICK r : IsHistory(r, t, n)
  BY HistoryExists
<1> DEFINE f == CHOOSE at : at = [k \in 0..n |-> IF k = 0 THEN <<>>
                                                 ELSE Debugger!Recorded(at[k - 1], t[k], k)]
<1>3. FoldedOf(t, n) = f[n]
  BY DEF FoldedOf
<1>4. f = [k \in 0..n |-> IF k = 0 THEN <<>> ELSE Debugger!Recorded(f[k - 1], t[k], k)]
  BY <1>2 DEF IsHistory
<1> HIDE DEF f
<1>5. \A k \in 0..n : f[k] = IF k = 0 THEN <<>> ELSE Debugger!Recorded(f[k - 1], t[k], k)
  BY <1>4
<1>6. f[0] = h[0]
  BY <1>1, <1>5
<1>7. /\ Grows(f, t, 0, n) /\ Grows(h, t, 0, n) /\ n \in Nat /\ 0 \in Nat
  <2>1. n \in Nat /\ \A k \in (0 + 1)..n : k \in 0..n /\ k \in 0..N /\ k # 0
    OBVIOUS
  <2> QED
    BY <1>1, <1>5, <2>1 DEF Grows
<1>8. \A k \in 0..n : f[k] = h[k]
  BY <1>6, <1>7, FoldsAgree
<1> QED
  BY <1>3, <1>8

LEMMA FoldOnIs ==
    ASSUME NEW t, NEW N \in Nat, NEW h, IsHistory(h, t, N),
           NEW from \in 1..(N + 1), NEW to \in (from - 1)..N
    PROVE  FoldOnOf(t, h[from - 1], from, to) = h[to]
<1>1. \A k \in 0..N : h[k] = IF k = 0 THEN <<>> ELSE Debugger!Recorded(h[k - 1], t[k], k)
  BY DEF IsHistory
<1> DEFINE Start == h[from - 1]
           Fold(at) == at = [k \in (from - 1)..to |->
                                IF k < from THEN Start ELSE Debugger!Recorded(at[k - 1], t[k], k)]
           r == [k \in (from - 1)..to |-> h[k]]
           f == CHOOSE at : Fold(at)
<1>2. Fold(r)
  <2>1. ASSUME NEW k \in (from - 1)..to
        PROVE  h[k] = IF k < from THEN Start ELSE Debugger!Recorded(r[k - 1], t[k], k)
    <3>1. CASE k < from
      <4>1. k = from - 1
        BY <3>1
      <4> QED
        BY <3>1, <4>1
    <3>2. CASE ~(k < from)
      <4>1. k \in 0..N /\ k # 0 /\ k - 1 \in (from - 1)..to
        BY <3>2
      <4>2. r[k - 1] = h[k - 1]
        BY <4>1
      <4> HIDE DEF r
      <4> QED
        BY <1>1, <3>2, <4>1, <4>2
    <3> QED
      BY <3>1, <3>2
  <2> QED
    BY <2>1
<1>3. FoldOnOf(t, h[from - 1], from, to) = f[to]
  BY DEF FoldOnOf
<1>4. Fold(f)
  <2> HIDE DEF r, Fold
  <2> QED
    BY <1>2
<1> HIDE DEF f
<1>5. \A k \in (from - 1)..to :
          f[k] = IF k < from THEN h[from - 1] ELSE Debugger!Recorded(f[k - 1], t[k], k)
  BY <1>4
<1>6. /\ from - 1 \in Nat /\ to \in Nat /\ (from - 1) + 1 = from
      /\ from - 1 \in (from - 1)..to /\ to \in (from - 1)..to
      /\ \A k \in from..to : k \in (from - 1)..to /\ k \in 0..N /\ k # 0 /\ ~(k < from)
  OBVIOUS
<1>7. f[from - 1] = h[from - 1]
  BY <1>5, <1>6
<1>8. Grows(f, t, from - 1, to) /\ Grows(h, t, from - 1, to)
  BY <1>1, <1>5, <1>6 DEF Grows
<1>9. \A k \in (from - 1)..to : f[k] = h[k]
  BY <1>6, <1>7, <1>8, FoldsAgree
<1> QED
  BY <1>3, <1>6, <1>9

StepType == [kind : Debugger!EventKinds, opened : Nat, state : {"requested", "completed", "failed"}]
LogType == [hit : Debugger!Conditions \cup {"none"}, step : Nat]
GeneratorType ==
    [at : {"idle", "reading", "yielded", "parked", "resuming"}, status : {"idle", "running", "paused"},
     queued : Debugger!Actions \cup {"none"}, action : Debugger!Actions \cup {"none"},
     stepping : BOOLEAN, pausing : BOOLEAN]
OperatorType == [commands : Nat, changes : Nat, answered : BOOLEAN]

DebuggerTyped ==
    /\ tape \in Seq(Debugger!EventKinds) /\ steps \in Seq(StepType) /\ log \in Seq(LogType)
    /\ generator \in GeneratorType /\ operator \in OperatorType

\* A run that waits has had no answer: one that came before it waited is queued for it.
AnswersFound ==
    /\ generator.at = "parked" => generator.status = "paused" /\ ~operator.answered
    /\ generator.at = "yielded" /\ generator.status = "paused" /\ operator.answered =>
           generator.queued # "none"

\* What the log says has tripped is remembered, and is in the log once.
TripsRemembered ==
    /\ \A j \in DOMAIN log : log[j].hit # "none" => <<log[j].hit, log[j].step>> \in tripped
    /\ \A j, k \in DOMAIN log :
          j # k /\ log[j].hit # "none" /\ log[j].step = log[k].step => log[j].hit # log[k].hit

\* The replay starts when the run has ended, and its timeline is that of the events behind it.
ReplayMatches ==
    /\ replay.cursor \in 0..Len(tape)
    /\ replay.steps = FoldedOf(tape, replay.cursor)
    /\ generator.at # "idle" => replay.cursor = 0

DebuggerInv == DebuggerTyped /\ AnswersFound /\ TripsRemembered /\ ReplayMatches

\* A bounded set of numbers has a greatest one.
LEMMA DebuggerMax ==
    ASSUME NEW n \in Nat, NEW S \in SUBSET (1..n), S # {}
    PROVE  Debugger!Max(S) \in S
<1> DEFINE T == {n - x : x \in S}
<1>1. T \in SUBSET Nat /\ T # {}
  <2>1. \A x \in S : n - x \in Nat
    OBVIOUS
  <2>2. PICK x : x \in S
    OBVIOUS
  <2>3. n - x \in T
    BY <2>2
  <2> QED
    BY <2>1, <2>3
<1>2. PICK m \in T : \A y \in T : m <= y
  BY <1>1, LeastNumber
<1>3. PICK x \in S : m = n - x
  BY <1>2
<1>4. \A y \in S : n - y \in T /\ y \in Nat
  OBVIOUS
<1>5. \A y \in S : x >= y
  <2> HIDE DEF T
  <2> QED
    BY <1>2, <1>3, <1>4
<1> QED
  BY <1>5 DEF Debugger!Max

\* An event opens or updates a step of the timeline, or none.
LEMMA RecordedGives ==
    ASSUME NEW t \in Seq(StepType), NEW kind \in Debugger!EventKinds, NEW n \in Nat
    PROVE  /\ Debugger!Touched(t, kind) \in 0..(Len(t) + 1)
           /\ Debugger!Recorded(t, kind, n) \in Seq(StepType)
<1> DEFINE k == Debugger!Touched(t, kind)
           r == Debugger!Recorded(t, kind, n)
<1>1. DOMAIN t = 1..Len(t) /\ Len(t) \in Nat /\ \A j \in DOMAIN t : t[j] \in StepType
  OBVIOUS
<1>2. Debugger!ActiveStep(t) \in 0..Len(t)
  <2> DEFINE open_ == {j \in DOMAIN t : t[j].kind = "tool"}
  <2>1. open_ # {} => Debugger!Max(open_) \in open_
    BY <1>1, DebuggerMax
  <2>2. Debugger!ActiveStep(t) \in {0, Debugger!Max(open_)}
        /\ (open_ = {} => Debugger!ActiveStep(t) = 0)
    BY DEF Debugger!ActiveStep
  <2> HIDE DEF open_
  <2>3. open_ \subseteq DOMAIN t
    BY DEF open_
  <2> QED
    BY <1>1, <2>1, <2>2, <2>3
<1>3. k \in 0..(Len(t) + 1)
  BY <1>1, <1>2 DEF Debugger!Touched
<1>4. \/ r = t
      \/ k = Len(t) + 1 /\ r = Append(t, Debugger!Open(kind, n))
      \/ k \in DOMAIN t /\ r = [t EXCEPT ![k].state = "completed"]
      \/ k \in DOMAIN t /\ r = [t EXCEPT ![k].state = "failed"]
  <2> HIDE DEF k
  <2>1. r = CASE k = 0             -> t
              [] k > Len(t)        -> Append(t, Debugger!Open(kind, n))
              [] kind = "output"   -> [t EXCEPT ![k].state = "completed"]
              [] OTHER             -> [t EXCEPT ![k].state = "failed"]
    BY DEF Debugger!Recorded, k
  <2> HIDE DEF r
  <2>2. k = 0 \/ k = Len(t) + 1 \/ (k # 0 /\ ~(k > Len(t)) /\ k \in DOMAIN t)
    BY <1>1, <1>3
  <2>3. CASE k = 0
    BY <2>1, <2>3
  <2>4. CASE k = Len(t) + 1
    <3>1. k # 0 /\ k > Len(t)
      BY <1>1, <2>4
    <3> QED
      BY <2>1, <2>4, <3>1
  <2>5. CASE k # 0 /\ ~(k > Len(t)) /\ k \in DOMAIN t
    BY <2>1, <2>5
  <2> QED
    BY <2>2, <2>3, <2>4, <2>5
<1> HIDE DEF r, k
<1>5. Debugger!Open(kind, n) \in StepType
  BY DEF Debugger!Open, StepType
<1>6. \A j \in DOMAIN t : /\ [t[j] EXCEPT !.state = "completed"] \in StepType
                          /\ [t[j] EXCEPT !.state = "failed"] \in StepType
  BY <1>1 DEF StepType
<1>7. \A j \in DOMAIN t : \A s \in {"completed", "failed"} :
          [t EXCEPT ![j].state = s] = [t EXCEPT ![j] = [t[j] EXCEPT !.state = s]]
  OBVIOUS
<1>8. r \in Seq(StepType)
  <2>1. CASE k \in DOMAIN t /\ r = [t EXCEPT ![k].state = "completed"]
    <3> DEFINE y == [t[k] EXCEPT !.state = "completed"]
    <3>1. r = [t EXCEPT ![k] = y] /\ y \in StepType
      BY <2>1, <1>6, <1>7
    <3> HIDE DEF y
    <3> QED
      BY <2>1, <3>1, SeqExcept
  <2>2. CASE k \in DOMAIN t /\ r = [t EXCEPT ![k].state = "failed"]
    <3> DEFINE y == [t[k] EXCEPT !.state = "failed"]
    <3>1. r = [t EXCEPT ![k] = y] /\ y \in StepType
      BY <2>2, <1>6, <1>7
    <3> HIDE DEF y
    <3> QED
      BY <2>2, <3>1, SeqExcept
  <2>3. CASE r = t
    BY <2>3
  <2>4. CASE r = Append(t, Debugger!Open(kind, n))
    BY <1>5, <2>4
  <2> QED
    BY <1>4, <2>1, <2>2, <2>3, <2>4
<1> QED
  BY <1>3, <1>8 DEF k, r

LEMMA FoldedStart ==
    ASSUME NEW t
    PROVE  FoldedOf(t, 0) = <<>>
<1>1. PICK h : IsHistory(h, t, 0)
  BY HistoryExists
<1>2. h[0] = <<>>
  BY <1>1 DEF IsHistory
<1> QED
  BY <1>1, <1>2, FoldedIs

LEMMA DebuggerStarts ==
    ASSUME Debugger!DebuggerBegins(Starts("debugger", Debugger!DebuggerStarts))
    PROVE  DebuggerInv
<1>1. /\ tape = <<>> /\ steps = <<>> /\ log = <<>> /\ replay = [cursor |-> 0, steps |-> <<>>]
      /\ generator = [at |-> "idle", status |-> "idle", queued |-> "none", action |-> "none",
                      stepping |-> FALSE, pausing |-> FALSE]
      /\ operator = [commands |-> 0, changes |-> 0, answered |-> FALSE]
  BY DEF Debugger!DebuggerBegins
<1>2. DebuggerTyped
  BY <1>1 DEF DebuggerTyped, GeneratorType, OperatorType
<1>3. AnswersFound /\ TripsRemembered
  BY <1>1 DEF AnswersFound, TripsRemembered
<1>4. ReplayMatches
  BY <1>1, FoldedStart DEF ReplayMatches
<1> QED
  BY <1>2, <1>3, <1>4 DEF DebuggerInv

\* The invariant says what is promised.
LEMMA DebuggerHolds ==
    ASSUME DebuggerInv
    PROVE  Debugger!PausesAreAnswered /\ Debugger!ReplayFollowsCursor
BY FoldsOfTape DEF DebuggerInv, AnswersFound, TripsRemembered, ReplayMatches,
   Debugger!PausesAreAnswered, Debugger!ReplayFollowsCursor

\* The steps that leave the recording alone keep what is said of it.
LEMMA RecordingKept ==
    ASSUME DebuggerInv, UNCHANGED <<tape, steps, log, tripped, replay>>, generator' \in GeneratorType,
           operator' \in OperatorType, AnswersFound',
           generator.at = "idle" /\ generator'.at # "idle" => replay.cursor = 0
    PROVE  DebuggerInv'
<1>1. DebuggerTyped' /\ TripsRemembered' /\ ReplayMatches'
  BY DEF DebuggerInv, DebuggerTyped, TripsRemembered, ReplayMatches
<1> QED
  BY <1>1 DEF DebuggerInv

\* A command is counted, and it may be an answer.
LEMMA Commanded ==
    ASSUME operator \in OperatorType, NEW update, Debugger!Commands(update)
    PROVE  operator' \in OperatorType /\ operator'.answered = (operator.answered \/ update)
<1> DEFINE p == [operator EXCEPT !.commands = operator.commands + 1]
<1>1. operator' = [p EXCEPT !.answered = operator.answered \/ update]
  BY DEF Debugger!Commands
<1>2. p \in OperatorType
  BY DEF OperatorType
<1> HIDE DEF p
<1> QED
  BY <1>1, <1>2 DEF OperatorType

LEMMA DebuggerStep ==
    ASSUME DebuggerInv, [Debugger!DebuggerNext]_debuggerVars
    PROVE  DebuggerInv'
<1>1. /\ DebuggerTyped /\ AnswersFound /\ TripsRemembered /\ ReplayMatches
      /\ tape \in Seq(Debugger!EventKinds) /\ steps \in Seq(StepType) /\ log \in Seq(LogType)
      /\ generator \in GeneratorType /\ operator \in OperatorType
  BY DEF DebuggerInv, DebuggerTyped
<1>2. /\ generator.at \in {"idle", "reading", "yielded", "parked", "resuming"}
      /\ generator.status \in {"idle", "running", "paused"}
      /\ generator.queued \in Debugger!Actions \cup {"none"}
      /\ "none" \notin Debugger!Actions /\ operator.answered \in BOOLEAN
      /\ operator.commands \in Nat /\ operator.changes \in Nat
  BY <1>1 DEF GeneratorType, OperatorType, Debugger!Actions
<1>3. CASE UNCHANGED debuggerVars
  BY <1>1, <1>3 DEF debuggerVars, DebuggerInv, DebuggerTyped, AnswersFound, TripsRemembered, ReplayMatches
<1>4. ASSUME NEW kind \in Debugger!EventKinds, Debugger!Record(kind)
      PROVE  DebuggerInv'
  <2> DEFINE n == Len(tape) + 1
             k == Debugger!Touched(steps, kind)
             after == Debugger!Recorded(steps, kind, n)
             hits == IF k = 0 THEN {} ELSE Debugger!FindHit(after, k)
             hit == IF hits = {} THEN "none" ELSE CHOOSE c \in hits : TRUE
             pauses == hit # "none" \/ generator.pausing \/ (generator.stepping /\ k # 0)
             entry == [hit |-> hit, step |-> k]
  <2>1. /\ generator.at = "reading"
        /\ tape' = Append(tape, kind) /\ steps' = after /\ log' = Append(log, entry)
        /\ tripped' = IF hit = "none" THEN tripped ELSE tripped \cup {<<hit, k>>}
        /\ generator' = [generator EXCEPT !.at = "yielded",
                             !.status = IF pauses THEN "paused" ELSE @,
                             !.pausing = @ /\ ~pauses]
        /\ operator' = [operator EXCEPT !.answered = FALSE]
        /\ replay' = replay
    BY <1>4 DEF Debugger!Record
  <2>2. pauses \in BOOLEAN
    OBVIOUS
  <2>3. n \in Nat /\ k \in Nat /\ after \in Seq(StepType)
    <3>1. Len(tape) \in Nat /\ Len(steps) \in Nat
      BY <1>1
    <3>2. n \in Nat
      BY <3>1
    <3>3. k \in 0..(Len(steps) + 1) /\ after \in Seq(StepType)
      <4> HIDE DEF n
      <4> QED
        BY <1>1, <3>2, RecordedGives
    <3> QED
      BY <3>1, <3>2, <3>3
  <2>4. hits \subseteq Debugger!Conditions /\ \A c \in hits : <<c, k>> \notin tripped
    BY DEF Debugger!FindHit
  <2> HIDE DEF hits
  <2>5. /\ hit \in Debugger!Conditions \cup {"none"}
        /\ hit # "none" => <<hit, k>> \notin tripped
    BY <2>4
  <2> HIDE DEF hit, pauses, k, after, n
  <2>6. entry \in LogType /\ entry.hit = hit /\ entry.step = k
    BY <2>3, <2>5 DEF LogType
  <2> HIDE DEF entry
  <2>7. /\ generator' \in GeneratorType /\ generator'.at = "yielded"
        /\ operator' \in OperatorType /\ operator'.answered = FALSE
    BY <1>1, <2>1, <2>2 DEF GeneratorType, OperatorType
  <2>8. DebuggerTyped'
    BY <1>1, <2>1, <2>3, <2>6, <2>7 DEF DebuggerTyped
  <2>9. AnswersFound'
    BY <2>7 DEF AnswersFound
  <2>10. TripsRemembered'
    <3>1. /\ DOMAIN log = 1..Len(log) /\ Len(log) \in Nat /\ DOMAIN log' = 1..(Len(log) + 1)
          /\ log'[Len(log) + 1] = entry /\ \A j \in DOMAIN log : log'[j] = log[j]
      BY <1>1, <2>1, <2>6
    <3>2. /\ tripped \subseteq tripped'
          /\ hit # "none" => <<hit, k>> \in tripped'
      BY <2>1
    <3>3. \A j \in DOMAIN log : /\ log[j].hit # "none" => <<log[j].hit, log[j].step>> \in tripped
                                /\ log[j].hit # "none" /\ log[j].step = k => log[j].hit # hit
      BY <1>1, <2>5 DEF TripsRemembered
    <3>4. \A j \in DOMAIN log' : j \in DOMAIN log \/ j = Len(log) + 1
      BY <3>1
    <3>5. \A j \in DOMAIN log' : log'[j].hit # "none" => <<log'[j].hit, log'[j].step>> \in tripped'
      BY <2>6, <3>1, <3>2, <3>3, <3>4
    <3>6. \A i, j \in DOMAIN log' :
              i # j /\ log'[i].hit # "none" /\ log'[i].step = log'[j].step => log'[i].hit # log'[j].hit
      <4>1. \A i, j \in DOMAIN log :
                i # j /\ log[i].hit # "none" /\ log[i].step = log[j].step => log[i].hit # log[j].hit
        BY <1>1 DEF TripsRemembered
      <4>2. SUFFICES ASSUME NEW i \in DOMAIN log', NEW j \in DOMAIN log', i # j,
                            log'[i].hit # "none", log'[i].step = log'[j].step
                     PROVE  log'[i].hit # log'[j].hit
        OBVIOUS
      <4>3. CASE i \in DOMAIN log /\ j \in DOMAIN log
        BY <3>1, <4>1, <4>2, <4>3
      <4>4. CASE i \in DOMAIN log /\ j = Len(log) + 1
        BY <2>6, <3>1, <3>3, <4>2, <4>4
      <4>5. CASE i = Len(log) + 1 /\ j \in DOMAIN log
        <5>1. log'[i] = entry /\ log'[j] = log[j]
          BY <3>1, <4>5
        <5>2. log[j].hit = hit => log[j].hit # "none" /\ log[j].step = k
          BY <2>6, <4>2, <5>1
        <5> QED
          BY <2>6, <3>3, <4>5, <5>1, <5>2
      <4> QED
        BY <3>4, <4>2, <4>3, <4>4, <4>5
    <3> QED
      BY <3>5, <3>6 DEF TripsRemembered
  <2>11. ReplayMatches'
    <3>1. replay.cursor = 0 /\ replay.steps = FoldedOf(tape, 0)
      BY <1>1, <2>1 DEF ReplayMatches
    <3>2. replay'.cursor = 0 /\ replay'.steps = <<>> /\ FoldedOf(tape', 0) = <<>>
      BY <2>1, <3>1, FoldedStart
    <3>3. Len(tape') \in Nat
      BY <1>1, <2>1
    <3> QED
      BY <3>2, <3>3 DEF ReplayMatches
  <2> QED
    BY <2>8, <2>9, <2>10, <2>11 DEF DebuggerInv
<1>5. CASE Debugger!Run
  <2>1. /\ generator' = [generator EXCEPT !.at = "reading", !.status = "running"]
        /\ replay.cursor = 0 /\ UNCHANGED <<tape, steps, log, tripped, operator, replay>>
    BY <1>5 DEF Debugger!Run
  <2>2. generator' \in GeneratorType /\ generator'.at = "reading"
    BY <1>1, <2>1 DEF GeneratorType
  <2> QED
    BY <1>1, <2>1, <2>2, RecordingKept DEF AnswersFound
<1>6. CASE Debugger!Pull
  <2>1. /\ generator.at = "yielded"
        /\ generator' =
               IF generator.status # "paused" THEN [generator EXCEPT !.at = "reading"]
               ELSE IF generator.queued = "none" THEN [generator EXCEPT !.at = "parked"]
               ELSE [generator EXCEPT !.at = "resuming", !.action = generator.queued, !.queued = "none"]
        /\ UNCHANGED <<tape, steps, log, tripped, operator, replay>>
    BY <1>6 DEF Debugger!Pull
  <2>2. generator' \in GeneratorType /\ AnswersFound'
    <3>1. CASE generator.status # "paused"
      <4>1. generator' = [generator EXCEPT !.at = "reading"]
        BY <2>1, <3>1
      <4>2. generator' \in GeneratorType /\ generator'.at = "reading"
        BY <1>1, <4>1 DEF GeneratorType
      <4> QED
        BY <4>2 DEF AnswersFound
    <3>2. CASE generator.status = "paused" /\ generator.queued = "none"
      <4>1. generator' = [generator EXCEPT !.at = "parked"]
        BY <2>1, <3>2
      <4>2. generator' \in GeneratorType /\ generator'.at = "parked" /\ generator'.status = "paused"
        BY <1>1, <3>2, <4>1 DEF GeneratorType
      <4>3. ~operator.answered
        BY <1>1, <2>1, <3>2 DEF AnswersFound
      <4> QED
        BY <2>1, <4>2, <4>3 DEF AnswersFound
    <3>3. CASE generator.status = "paused" /\ generator.queued # "none"
      <4>1. generator' = [generator EXCEPT !.at = "resuming", !.action = generator.queued, !.queued = "none"]
        BY <2>1, <3>3
      <4>2. generator' \in GeneratorType /\ generator'.at = "resuming"
        BY <1>1, <1>2, <4>1 DEF GeneratorType
      <4> QED
        BY <4>2 DEF AnswersFound
    <3> QED
      BY <3>1, <3>2, <3>3
  <2> QED
    BY <1>1, <2>1, <2>2, RecordingKept
<1>7. CASE Debugger!GoOn
  <2>1. /\ generator.at = "resuming"
        /\ generator' = [generator EXCEPT !.at = "reading", !.status = "running",
                             !.stepping = generator.action = "step", !.action = "none"]
        /\ UNCHANGED <<tape, steps, log, tripped, operator, replay>>
    BY <1>7 DEF Debugger!GoOn
  <2>2. generator' \in GeneratorType /\ generator'.at = "reading"
    BY <1>1, <2>1 DEF GeneratorType
  <2> QED
    BY <1>1, <2>1, <2>2, RecordingKept DEF AnswersFound
<1>8. CASE Debugger!RunEndsNow
  <2>1. /\ generator' = [generator EXCEPT !.at = "idle", !.status = "idle", !.stepping = FALSE,
                                          !.queued = "none"]
        /\ UNCHANGED <<tape, steps, log, tripped, operator, replay>>
    BY <1>8 DEF Debugger!RunEndsNow
  <2>2. generator' \in GeneratorType /\ generator'.at = "idle"
    BY <1>1, <2>1 DEF GeneratorType
  <2> QED
    BY <1>1, <2>1, <2>2, RecordingKept DEF AnswersFound
<1>9. ASSUME NEW action \in Debugger!Actions, Debugger!Resume(action)
      PROVE  DebuggerInv'
  <2>1. /\ operator' = [operator EXCEPT !.commands = @ + 1,
                                        !.answered = @ \/ generator.status = "paused"]
        /\ generator' =
               IF generator.at = "parked" THEN [generator EXCEPT !.at = "resuming", !.action = action]
               ELSE IF generator.status = "paused" THEN [generator EXCEPT !.queued = action]
               ELSE generator
        /\ UNCHANGED <<tape, steps, log, tripped, replay>>
    BY <1>9 DEF Debugger!Resume, Debugger!Commands
  <2>2. operator' \in OperatorType
    BY <1>1, <1>9, Commanded DEF Debugger!Resume
  <2>3. /\ generator' \in GeneratorType /\ AnswersFound'
        /\ generator.at = "idle" => generator'.at = "idle"
    <3>1. CASE generator.at = "parked"
      <4>1. generator' = [generator EXCEPT !.at = "resuming", !.action = action]
        BY <2>1, <3>1
      <4>2. generator' \in GeneratorType /\ generator'.at = "resuming"
        BY <1>1, <4>1 DEF GeneratorType
      <4> QED
        BY <3>1, <4>2 DEF AnswersFound
    <3>2. CASE generator.at # "parked" /\ generator.status = "paused"
      <4>1. generator' = [generator EXCEPT !.queued = action]
        BY <2>1, <3>2
      <4>2. generator' \in GeneratorType /\ generator'.at = generator.at /\ generator'.queued = action
        BY <1>1, <4>1 DEF GeneratorType
      <4> QED
        BY <1>2, <3>2, <4>2 DEF AnswersFound
    <3>3. CASE generator.at # "parked" /\ generator.status # "paused"
      <4>1. generator' = generator
        BY <2>1, <3>3
      <4> QED
        BY <1>1, <3>3, <4>1 DEF AnswersFound
    <3> QED
      BY <3>1, <3>2, <3>3
  <2> QED
    BY <1>1, <2>1, <2>2, <2>3, RecordingKept
<1>10. CASE Debugger!Pause
  <2>1. /\ operator' = [operator EXCEPT !.commands = @ + 1, !.answered = @ \/ FALSE]
        /\ generator' = [generator EXCEPT !.pausing = TRUE]
        /\ UNCHANGED <<tape, steps, log, tripped, replay>>
    BY <1>10 DEF Debugger!Pause, Debugger!Commands
  <2>2. /\ operator' \in OperatorType /\ operator'.answered = operator.answered
        /\ generator' \in GeneratorType /\ generator'.at = generator.at
        /\ generator'.status = generator.status /\ generator'.queued = generator.queued
    <3>1. operator' \in OperatorType /\ operator'.answered = (operator.answered \/ FALSE)
      BY <1>1, <1>10, Commanded DEF Debugger!Pause
    <3> QED
      BY <1>1, <1>2, <2>1, <3>1 DEF GeneratorType
  <2>3. AnswersFound'
    BY <1>1, <2>2 DEF AnswersFound
  <2> QED
    BY <1>1, <2>1, <2>2, <2>3, RecordingKept
<1>11. ASSUME NEW c \in Debugger!Conditions, Debugger!SetBreakpoint(c)
       PROVE  DebuggerInv'
  <2>1. /\ operator' = [operator EXCEPT !.changes = @ + 1]
        /\ UNCHANGED <<tape, steps, log, tripped, generator, replay>>
    BY <1>11 DEF Debugger!SetBreakpoint
  <2>2. operator' \in OperatorType /\ operator'.answered = operator.answered
    BY <1>1, <1>2, <2>1 DEF OperatorType
  <2>3. AnswersFound'
    BY <1>1, <2>1, <2>2 DEF AnswersFound
  <2> QED
    BY <1>1, <2>1, <2>2, <2>3, RecordingKept
<1>12. ASSUME NEW cursor \in 0..Len(tape), Debugger!Moves(cursor, FoldedOf(tape, cursor))
       PROVE  DebuggerInv'
  <2>1. /\ generator.at = "idle" /\ replay' = [cursor |-> cursor, steps |-> FoldedOf(tape, cursor)]
        /\ UNCHANGED <<tape, steps, log, tripped, generator, operator>>
    BY <1>12 DEF Debugger!Moves
  <2>2. DebuggerTyped' /\ AnswersFound' /\ TripsRemembered' /\ ReplayMatches'
    BY <1>1, <2>1 DEF DebuggerTyped, AnswersFound, TripsRemembered, ReplayMatches
  <2> QED
    BY <2>2 DEF DebuggerInv
<1>13. PICK h : IsHistory(h, tape, Len(tape))
  <2>1. Len(tape) \in Nat
    BY <1>1
  <2> QED
    BY <2>1, HistoryExists
<1>14. /\ Len(tape) \in Nat /\ replay.cursor \in 0..Len(tape) /\ replay.steps = h[replay.cursor]
       /\ \A n \in 0..Len(tape) : FoldedOf(tape, n) = h[n]
  <2>1. Len(tape) \in Nat /\ replay.cursor \in 0..Len(tape) /\ replay.steps = FoldedOf(tape, replay.cursor)
    BY <1>1 DEF ReplayMatches
  <2> QED
    BY <1>13, <2>1, FoldedIs
<1>15. CASE Debugger!ReplayNext
  <2> DEFINE n == replay.cursor + 1
  <2>1. replay.cursor < Len(tape) /\ Debugger!Moves(n, Debugger!Recorded(replay.steps, tape[n], n))
    BY <1>15 DEF Debugger!ReplayNext
  <2>2. n \in 0..Len(tape) /\ n # 0 /\ n - 1 = replay.cursor
    BY <1>14, <2>1
  <2> HIDE DEF n
  <2>3. h[n] = Debugger!Recorded(h[n - 1], tape[n], n)
    BY <1>13, <2>2 DEF IsHistory
  <2>4. Debugger!Recorded(replay.steps, tape[n], n) = FoldedOf(tape, n)
    BY <1>14, <2>2, <2>3
  <2> QED
    BY <1>12, <2>1, <2>2, <2>4
<1>16. ASSUME NEW to \in 0..Len(tape), Debugger!Seek(to)
       PROVE  DebuggerInv'
  <2>1. \A from \in 1..(Len(tape) + 1) : to \in (from - 1)..Len(tape) =>
            Debugger!FoldOn(h[from - 1], from, to) = FoldedOf(tape, to)
    <3>1. ASSUME NEW from \in 1..(Len(tape) + 1), to \in (from - 1)..Len(tape)
          PROVE  Debugger!FoldOn(h[from - 1], from, to) = FoldedOf(tape, to)
      <4>1. FoldOnOf(tape, h[from - 1], from, to) = h[to]
        BY <1>13, <1>14, <3>1, FoldOnIs
      <4> QED
        BY <1>14, <4>1, FoldsOfTape
    <3> QED
      BY <3>1
  <2>2. CASE to < replay.cursor
    <3>1. h[1 - 1] = <<>>
      BY <1>13, <1>14 DEF IsHistory
    <3>2. Debugger!FoldOn(<<>>, 1, to) = FoldedOf(tape, to)
      <4>1. 1 \in 1..(Len(tape) + 1) /\ to \in (1 - 1)..Len(tape)
        BY <1>14
      <4> QED
        BY <2>1, <3>1, <4>1
    <3>3. Debugger!Moves(to, Debugger!FoldOn(<<>>, 1, to))
      BY <1>16, <2>2 DEF Debugger!Seek
    <3> QED
      BY <1>12, <3>2, <3>3
  <2>3. CASE ~(to < replay.cursor)
    <3> DEFINE from == replay.cursor + 1
    <3>1. from \in 1..(Len(tape) + 1) /\ to \in (from - 1)..Len(tape) /\ h[from - 1] = replay.steps
      BY <1>14, <2>3
    <3>2. Debugger!Moves(to, Debugger!FoldOn(replay.steps, from, to))
      BY <1>16, <2>3 DEF Debugger!Seek
    <3> HIDE DEF from
    <3>3. Debugger!FoldOn(replay.steps, from, to) = FoldedOf(tape, to)
      BY <2>1, <3>1
    <3> QED
      BY <1>12, <3>2, <3>3
  <2> QED
    BY <2>2, <2>3
<1> QED
  BY <1>3, <1>4, <1>5, <1>6, <1>7, <1>8, <1>9, <1>10, <1>11, <1>15, <1>16 DEF Debugger!DebuggerNext

-----------------------------------------------------------------------------
(***************************************************************************)
(* The ACP server: the pages of its list and the patches of its file.      *)
(***************************************************************************)

RowType ==
    [id : Nat, status : {"active", "idle", "completed"},
     mode : Acp!Modes \cup {Roles[r] : r \in DOMAIN Roles}, parent : Nat]
PagerType == [reading : BOOLEAN, offset : Nat, seen : SUBSET Nat, untouched : SUBSET Nat]

SessionsTyped ==
    /\ sessions \in Seq(RowType)
    /\ \A j, k \in DOMAIN sessions : sessions[j].id = sessions[k].id => j = k
    /\ \A k \in DOMAIN sessions : sessions[k].id \in 1..Len(sessions)
    /\ pager \in PagerType

\* A session that was not updated since the first page and is on none that was read lies behind
\* the offset; after the last page there is none.
PagesAhead ==
    /\ \A k \in DOMAIN sessions :
           sessions[k].id \in pager.untouched \ pager.seen => k > pager.offset
    /\ pager.untouched \subseteq Acp!Known
    /\ Acp!PagesMissOnlyTouched

PagesInv == SessionsTyped /\ PagesAhead

\* A session has a place of its own.
LEMMA PlaceIs ==
    ASSUME SessionsTyped, NEW id \in Acp!Known
    PROVE  /\ Acp!Place(id) \in DOMAIN sessions /\ sessions[Acp!Place(id)].id = id
           /\ Acp!Row(id) \in RowType /\ Acp!Row(id).id = id
<1>1. \E k \in DOMAIN sessions : sessions[k].id = id
  BY DEF Acp!Known
<1>2. Acp!Place(id) \in DOMAIN sessions /\ sessions[Acp!Place(id)].id = id
  BY <1>1 DEF Acp!Place
<1> QED
  BY <1>2 DEF Acp!Row, SessionsTyped

\* The row of a session moves to the front: the rows before it move back, the others stay.
LEMMA TouchKeeps ==
    ASSUME PagesInv, NEW row \in RowType, row.id \in Acp!Known, Acp!Touch(row)
    PROVE  PagesInv'
<1> DEFINE k == Acp!Place(row.id)
           n == Len(sessions)
<1>1. /\ SessionsTyped /\ PagesAhead /\ sessions \in Seq(RowType) /\ pager \in PagerType
      /\ DOMAIN sessions = 1..n /\ n \in Nat
      /\ k \in 1..n /\ sessions[k].id = row.id
  BY PlaceIs DEF PagesInv, SessionsTyped
<1>2. /\ sessions' = [j \in DOMAIN sessions |-> CASE j = 1 -> row
                                                [] j # 1 /\ j <= k -> sessions[j - 1]
                                                [] OTHER -> sessions[j]]
      /\ pager' = [pager EXCEPT !.untouched = @ \ {row.id}]
  BY DEF Acp!Touch
<1>3. /\ pager' \in PagerType /\ pager'.untouched = pager.untouched \ {row.id}
      /\ pager'.reading = pager.reading /\ pager'.offset = pager.offset /\ pager'.seen = pager.seen
  BY <1>1, <1>2 DEF PagerType
<1> HIDE DEF k
<1>4. /\ DOMAIN sessions' = 1..n /\ sessions'[1] = row
      /\ \A j \in 2..k : sessions'[j] = sessions[j - 1] /\ j - 1 \in 1..n
      /\ \A j \in (k + 1)..n : sessions'[j] = sessions[j]
  <2>1. DOMAIN sessions' = 1..n
    BY <1>1, <1>2
  <2>2. \A j \in 1..n : /\ j = 1 => sessions'[j] = row
                        /\ j # 1 /\ j <= k => sessions'[j] = sessions[j - 1]
                        /\ j # 1 /\ ~(j <= k) => sessions'[j] = sessions[j]
    BY <1>1, <1>2
  <2> QED
    BY <1>1, <2>1, <2>2
<1>5. \A j \in 1..n : j = 1 \/ j \in 2..k \/ j \in (k + 1)..n
  BY <1>1
<1>6. sessions' \in Seq(RowType) /\ Len(sessions') = n
  <2>1. \A j \in 1..n : sessions'[j] \in RowType
    BY <1>1, <1>4, <1>5
  <2>2. sessions' = [j \in 1..n |-> sessions'[j]]
    BY <1>1, <1>2, <1>4
  <2>3. sessions' \in [1..n -> RowType]
    BY <2>1, <2>2
  <2>4. sessions' \in Seq(RowType)
    BY <1>1, <2>3, SeqBuilt
  <2> QED
    BY <1>1, <1>4, <2>4
<1>7. /\ \A i, j \in 1..n : sessions[i].id = sessions[j].id => i = j
      /\ \A i \in 1..n : sessions[i].id \in 1..n
  BY <1>1 DEF SessionsTyped
\* Where the row at a place was before.
<1>8. \A j \in 1..n : j # 1 => \E i \in 1..n : /\ i # k /\ sessions'[j] = sessions[i]
                                               /\ i = IF j <= k THEN j - 1 ELSE j
  <2>1. ASSUME NEW j \in 2..k
        PROVE  j - 1 \in 1..n /\ j - 1 # k /\ sessions'[j] = sessions[j - 1] /\ j <= k
    BY <1>1, <1>4
  <2>2. ASSUME NEW j \in (k + 1)..n
        PROVE  j \in 1..n /\ j # k /\ sessions'[j] = sessions[j] /\ ~(j <= k)
    BY <1>1, <1>4
  <2> QED
    BY <1>5, <2>1, <2>2
<1>9. /\ \A i, j \in 1..n : sessions'[i].id = sessions'[j].id => i = j
      /\ \A i \in 1..n : sessions'[i].id \in 1..n
  <2>1. ASSUME NEW j \in 1..n, j # 1
        PROVE  sessions'[j].id # row.id /\ sessions'[j].id \in 1..n
    BY <1>1, <1>7, <1>8, <2>1
  <2>2. ASSUME NEW i \in 1..n, NEW j \in 1..n, i # 1, j # 1, sessions'[i].id = sessions'[j].id
        PROVE  i = j
    <3>1. PICK a \in 1..n : sessions'[i] = sessions[a] /\ a = IF i <= k THEN i - 1 ELSE i
      BY <1>8, <2>2
    <3>2. PICK b \in 1..n : sessions'[j] = sessions[b] /\ b = IF j <= k THEN j - 1 ELSE j
      BY <1>8, <2>2
    <3>3. a = b /\ a # k /\ b # k
      BY <1>1, <1>7, <2>1, <2>2, <3>1, <3>2
    <3> QED
      BY <1>1, <3>1, <3>2, <3>3
  <2>3. sessions'[1].id = row.id /\ row.id \in 1..n
    BY <1>1, <1>4, <1>7
  <2> QED
    BY <2>1, <2>2, <2>3
<1>10. SessionsTyped'
  BY <1>3, <1>4, <1>6, <1>9 DEF SessionsTyped
<1>11. \A j \in DOMAIN sessions' :
           sessions'[j].id \in pager'.untouched \ pager'.seen => j > pager'.offset
  <2>1. SUFFICES ASSUME NEW j \in 1..n, sessions'[j].id \in pager'.untouched \ pager'.seen
                 PROVE  j > pager.offset
    BY <1>3, <1>4
  <2>2. j # 1
    BY <1>3, <1>4, <2>1
  <2>3. PICK i \in 1..n : sessions'[j] = sessions[i] /\ i = IF j <= k THEN j - 1 ELSE j
    BY <1>8, <2>2
  <2>4. i > pager.offset
    BY <1>1, <1>3, <2>1, <2>3 DEF PagesAhead
  <2>5. pager.offset \in Nat /\ j >= i
    BY <1>1, <2>3 DEF PagerType
  <2> QED
    BY <2>4, <2>5
<1>12. Acp!Known' = Acp!Known
  <2>1. \A i \in 1..n : \E j \in 1..n : sessions'[j].id = sessions[i].id
    <3>1. ASSUME NEW i \in 1..n
          PROVE  \E j \in 1..n : sessions'[j].id = sessions[i].id
      <4>1. CASE i = k
        BY <1>1, <1>4, <4>1
      <4>2. CASE i < k
        <5>1. i + 1 \in 2..k /\ i + 1 \in 1..n /\ (i + 1) - 1 = i
          BY <1>1, <4>2
        <5>2. sessions'[i + 1] = sessions[(i + 1) - 1]
          BY <1>4, <5>1
        <5> QED
          BY <5>1, <5>2
      <4>3. CASE i > k
        <5>1. i \in (k + 1)..n
          BY <1>1, <4>3
        <5> QED
          BY <1>4, <5>1
      <4> QED
        BY <1>1, <4>1, <4>2, <4>3
    <3> QED
      BY <3>1
  <2>2. \A j \in 1..n : \E i \in 1..n : sessions'[j].id = sessions[i].id
    BY <1>1, <1>4, <1>8
  <2>3. Acp!Known = {sessions[j].id : j \in 1..n} /\ Acp!Known' = {sessions'[j].id : j \in 1..n}
    BY <1>1, <1>4 DEF Acp!Known
  <2>4. \A x : x \in {sessions[j].id : j \in 1..n} <=> x \in {sessions'[j].id : j \in 1..n}
    <3>1. ASSUME NEW x \in {sessions[j].id : j \in 1..n}
          PROVE  x \in {sessions'[j].id : j \in 1..n}
      <4>1. PICK i \in 1..n : x = sessions[i].id
        OBVIOUS
      <4> QED
        BY <2>1, <4>1
    <3>2. ASSUME NEW x \in {sessions'[j].id : j \in 1..n}
          PROVE  x \in {sessions[j].id : j \in 1..n}
      <4>1. PICK j \in 1..n : x = sessions'[j].id
        OBVIOUS
      <4> QED
        BY <2>2, <4>1
    <3> QED
      BY <3>1, <3>2
  <2> QED
    BY <2>3, <2>4
<1>13. PagesAhead'
  <2>1. pager.untouched \subseteq Acp!Known /\ (~pager.reading => pager.untouched \subseteq pager.seen)
    BY <1>1 DEF PagesAhead, Acp!PagesMissOnlyTouched
  <2> QED
    BY <1>3, <1>11, <1>12, <2>1 DEF PagesAhead, Acp!PagesMissOnlyTouched
<1> QED
  BY <1>10, <1>13 DEF PagesInv

\* A new session is at the front; the others move back.
LEMMA InsertKeeps ==
    ASSUME PagesInv, NEW mode \in Acp!Modes \cup {Roles[r] : r \in DOMAIN Roles}, NEW parent \in Nat,
           Acp!Insert(Acp!NextSession, mode, parent)
    PROVE  PagesInv'
<1> DEFINE n == Len(sessions)
           row == [id |-> n + 1, status |-> "active", mode |-> mode, parent |-> parent]
<1>1. /\ SessionsTyped /\ PagesAhead /\ sessions \in Seq(RowType) /\ pager \in PagerType
      /\ DOMAIN sessions = 1..n /\ n \in Nat /\ pager.offset \in Nat
      /\ \A i, j \in 1..n : sessions[i].id = sessions[j].id => i = j
      /\ \A i \in 1..n : sessions[i].id \in 1..n
  BY DEF PagesInv, SessionsTyped, PagerType
<1>2. sessions' = <<row>> \o sessions /\ pager' = pager
  BY DEF Acp!Insert, Acp!NextSession
<1>3. row \in RowType /\ row.id = n + 1
  BY <1>1 DEF RowType
<1> HIDE DEF row
<1>4. /\ sessions' \in Seq(RowType) /\ Len(sessions') = n + 1 /\ DOMAIN sessions' = 1..(n + 1)
      /\ sessions'[1] = row
      /\ \A j \in 2..(n + 1) : sessions'[j] = sessions[j - 1]
  BY <1>1, <1>2, <1>3
<1>5. \A j \in 1..(n + 1) : j = 1 \/ (j \in 2..(n + 1) /\ j - 1 \in 1..n)
  BY <1>1
<1>6. \A j \in 1..n : j + 1 \in 2..(n + 1) /\ j + 1 \in 1..(n + 1) /\ (j + 1) - 1 = j
  BY <1>1
<1>7. SessionsTyped'
  <2>1. \A i, j \in 1..(n + 1) : sessions'[i].id = sessions'[j].id => i = j
    BY <1>1, <1>3, <1>4, <1>5
  <2>2. \A i \in 1..(n + 1) : sessions'[i].id \in 1..(n + 1)
    BY <1>1, <1>3, <1>4, <1>5
  <2> QED
    BY <1>1, <1>2, <1>4, <2>1, <2>2 DEF SessionsTyped
<1>8. Acp!Known \subseteq Acp!Known'
  <2>1. SUFFICES ASSUME NEW i \in 1..n
                 PROVE  sessions[i].id \in Acp!Known'
    BY <1>1 DEF Acp!Known
  <2>2. i + 1 \in DOMAIN sessions' /\ sessions'[i + 1] = sessions[i]
    BY <1>4, <1>6
  <2> QED
    BY <2>2 DEF Acp!Known
<1>9. pager.untouched \subseteq 1..n
  BY <1>1 DEF PagesAhead, Acp!Known
<1>10. \A j \in DOMAIN sessions' :
           sessions'[j].id \in pager.untouched \ pager.seen => j > pager.offset
  <2>1. SUFFICES ASSUME NEW j \in 1..(n + 1), sessions'[j].id \in pager.untouched \ pager.seen
                 PROVE  j > pager.offset
    BY <1>4
  <2>2. j \in 2..(n + 1) /\ j - 1 \in 1..n
    BY <1>1, <1>3, <1>4, <1>5, <1>9, <2>1
  <2>3. sessions[j - 1].id \in pager.untouched \ pager.seen
    BY <1>4, <2>1, <2>2
  <2>4. j - 1 > pager.offset
    BY <1>1, <2>2, <2>3 DEF PagesAhead
  <2> QED
    BY <1>1, <2>4
<1>11. PagesAhead'
  BY <1>1, <1>2, <1>8, <1>10 DEF PagesAhead, Acp!PagesMissOnlyTouched
<1> QED
  BY <1>7, <1>11 DEF PagesInv

\* The first page: what is on it has been seen, the rest lies behind it.
LEMMA FirstPageKeeps ==
    ASSUME PagesInv, Acp!FirstPage
    PROVE  PagesInv'
<1> DEFINE n == Len(sessions)
           seen == {sessions[k].id : k \in 1..n \cap 1..PageSize}
<1>1. /\ SessionsTyped /\ sessions \in Seq(RowType) /\ DOMAIN sessions = 1..n /\ n \in Nat
      /\ \A k \in 1..n : sessions[k].id \in 1..n
      /\ PageSize \in Nat
  BY PageSizeAssumption DEF PagesInv, SessionsTyped
<1>2. /\ sessions' = sessions
      /\ pager' = [reading |-> n > PageSize, offset |-> PageSize, seen |-> seen, untouched |-> Acp!Known]
  BY DEF Acp!FirstPage
<1>3. \A k \in 1..n : k <= PageSize => sessions[k].id \in seen
  <2>1. ASSUME NEW k \in 1..n, k <= PageSize
        PROVE  sessions[k].id \in seen
    <3>1. k \in 1..n \cap 1..PageSize
      BY <1>1, <2>1
    <3> QED
      BY <3>1
  <2> QED
    BY <2>1
<1>4. Acp!Known \in SUBSET Nat /\ seen \in SUBSET Nat
  BY <1>1 DEF Acp!Known
<1>5. \A x \in Acp!Known : \E k \in 1..n : x = sessions[k].id
  BY <1>1 DEF Acp!Known
<1> HIDE DEF seen
<1>6. /\ pager' \in PagerType /\ pager'.offset = PageSize /\ pager'.seen = seen
      /\ pager'.untouched = Acp!Known /\ pager'.reading = (n > PageSize)
  BY <1>1, <1>2, <1>4 DEF PagerType
<1>7. SessionsTyped'
  BY <1>1, <1>2, <1>6 DEF SessionsTyped
<1>8. \A k \in 1..n : sessions[k].id \notin seen => k > PageSize
  BY <1>1, <1>3
<1>9. n <= PageSize => Acp!Known \subseteq seen
  BY <1>1, <1>3, <1>5
<1>10. Acp!Known' = Acp!Known
  BY <1>2 DEF Acp!Known
<1>11. PagesAhead'
  <2>1. ~(n > PageSize) => n <= PageSize
    BY <1>1
  <2> QED
    BY <1>1, <1>2, <1>6, <1>8, <1>9, <1>10, <2>1 DEF PagesAhead, Acp!PagesMissOnlyTouched
<1> QED
  BY <1>7, <1>11 DEF PagesInv

\* The next page begins at the offset.
LEMMA NextPageKeeps ==
    ASSUME PagesInv, Acp!NextPage
    PROVE  PagesInv'
<1> DEFINE n == Len(sessions)
           page == pager.offset + 1..pager.offset + PageSize
           more == {sessions[k].id : k \in DOMAIN sessions \cap page}
<1>1. /\ SessionsTyped /\ PagesAhead /\ sessions \in Seq(RowType) /\ DOMAIN sessions = 1..n /\ n \in Nat
      /\ \A k \in 1..n : sessions[k].id \in 1..n
      /\ pager \in PagerType /\ PageSize \in Nat /\ pager.offset \in Nat
      /\ pager.untouched \subseteq Acp!Known
  BY PageSizeAssumption DEF PagesInv, SessionsTyped, PagesAhead, PagerType
<1>2. /\ sessions' = sessions
      /\ pager' = [pager EXCEPT !.reading = n > pager.offset + PageSize,
                                !.offset = @ + PageSize, !.seen = @ \cup more]
  BY DEF Acp!NextPage
<1>3. \A k \in 1..n : k > pager.offset /\ k <= pager.offset + PageSize => sessions[k].id \in more
  <2>1. ASSUME NEW k \in 1..n, k > pager.offset, k <= pager.offset + PageSize
        PROVE  sessions[k].id \in more
    <3>1. k \in DOMAIN sessions \cap page
      BY <1>1, <2>1
    <3> QED
      BY <3>1
  <2> QED
    BY <2>1
<1>4. more \in SUBSET Nat
  BY <1>1
<1>5. \A x \in Acp!Known : \E k \in 1..n : x = sessions[k].id
  BY <1>1 DEF Acp!Known
<1> HIDE DEF more
<1>6. /\ pager' \in PagerType /\ pager'.offset = pager.offset + PageSize
      /\ pager'.seen = pager.seen \cup more /\ pager'.untouched = pager.untouched
      /\ pager'.reading = (n > pager.offset + PageSize)
  <2> DEFINE q == [pager EXCEPT !.reading = n > pager.offset + PageSize]
  <2>1. q \in PagerType /\ q.reading = (n > pager.offset + PageSize)
        /\ q.offset = pager.offset /\ q.seen = pager.seen /\ q.untouched = pager.untouched
    <3>1. q \in PagerType
      <4>1. CASE n > pager.offset + PageSize
        <5>1. q = [pager EXCEPT !.reading = TRUE]
          BY <4>1, Zenon
        <5> QED
          BY <1>1, <5>1 DEF PagerType
      <4>2. CASE ~(n > pager.offset + PageSize)
        <5>1. q = [pager EXCEPT !.reading = FALSE]
          <6>1. (n > pager.offset + PageSize) = FALSE
            BY <4>2
          <6> QED
            BY <6>1, Zenon
        <5> QED
          BY <1>1, <5>1 DEF PagerType
      <4> QED
        BY <4>1, <4>2
    <3>2. q.offset = pager.offset /\ q.seen = pager.seen /\ q.untouched = pager.untouched
      BY <1>1 DEF PagerType
    <3>3. "reading" \in DOMAIN pager
      BY <1>1 DEF PagerType
    <3>4. q.reading = (n > pager.offset + PageSize)
      BY <3>3, Zenon
    <3> QED
      BY <3>1, <3>2, <3>4
  <2> DEFINE r == [q EXCEPT !.offset = pager.offset + PageSize]
  <2>2. pager' = [r EXCEPT !.seen = pager.seen \cup more]
    BY <1>2
  <2> HIDE DEF q
  <2>3. r \in PagerType /\ r.reading = q.reading /\ r.offset = pager.offset + PageSize
        /\ r.seen = q.seen /\ r.untouched = q.untouched
    BY <1>1, <2>1 DEF PagerType
  <2> HIDE DEF r
  <2>4. /\ pager' \in PagerType /\ pager'.offset = r.offset /\ pager'.seen = pager.seen \cup more
        /\ pager'.untouched = r.untouched /\ pager'.reading = r.reading
    BY <1>1, <1>4, <2>1, <2>2, <2>3 DEF PagerType
  <2> QED
    BY <2>1, <2>3, <2>4
<1>7. SessionsTyped'
  BY <1>1, <1>2, <1>6 DEF SessionsTyped
<1>8. \A k \in 1..n : sessions[k].id \in pager.untouched \ (pager.seen \cup more) =>
          k > pager.offset + PageSize
  <2>1. \A k \in 1..n : sessions[k].id \in pager.untouched \ pager.seen => k > pager.offset
    BY <1>1 DEF PagesAhead
  <2> QED
    BY <1>1, <1>3, <2>1
<1>9. n <= pager.offset + PageSize => pager.untouched \subseteq pager.seen \cup more
  BY <1>1, <1>5, <1>8
<1>10. Acp!Known' = Acp!Known
  BY <1>2 DEF Acp!Known
<1>11. PagesAhead'
  <2>1. ~(n > pager.offset + PageSize) => n <= pager.offset + PageSize
    BY <1>1
  <2> QED
    BY <1>1, <1>2, <1>6, <1>8, <1>9, <1>10, <2>1 DEF PagesAhead, Acp!PagesMissOnlyTouched
<1> QED
  BY <1>7, <1>11 DEF PagesInv

-----------------------------------------------------------------------------

CallType ==
    [method : {"other", "diff.apply", "command.run"}, at : {"begun", "read", "written", "answered"},
     outcome : {"none", "result", "error"}, base : SUBSET Nat, overlapped : BOOLEAN, loses : BOOLEAN]
DiffType == [before : SUBSET Nat, after : SUBSET Nat, call : Nat]

\* What the last diff tells.
LastTold == IF diffs = <<>> THEN [after |-> {}, call |-> 0] ELSE Acp!Last(diffs)

\* One of these calls lost what was in the file.
LostIn(all, first, last) == \E c \in first..last : all[c].loses

\* This content is what a diff leads to, but for what was lost since then.
Reached(all, told, content, last) == content = told.after \/ LostIn(all, told.call + 1, last)

PatchTyped ==
    /\ calls \in Seq(CallType) /\ workspace \in SUBSET Nat /\ diffs \in Seq(DiffType)
    /\ \A k \in DOMAIN diffs : diffs[k].call \in DOMAIN calls
    /\ \A c \in DOMAIN calls : calls[c].at = "begun" => ~calls[c].loses

\* A patch that is there is in the file, if nothing was lost after it.
AppliedStay ==
    \A c \in DOMAIN calls :
        calls[c].method = "diff.apply" /\ calls[c].outcome = "result" =>
            c \in workspace \/ LostIn(calls, c + 1, Len(calls))

DiffsChain ==
    \A k \in DOMAIN diffs : k > 1 =>
        Reached(calls, diffs[k - 1], diffs[k].before, diffs[k].call)

\* A patch in flight is the last one; one that has read the file has read what the last diff
\* leads to, and one that has written it has added itself to that.
LastPatch(c) ==
    /\ \A d \in DOMAIN calls : calls[d].method = "diff.apply" => d <= c
    /\ LastTold.call < c
    /\ calls[c].at = "begun" => Reached(calls, LastTold, workspace, c)
    /\ calls[c].at = "read" =>
           Reached(calls, LastTold, calls[c].base, c) /\ (calls[c].base = workspace \/ calls[c].loses)
    /\ calls[c].at = "written" =>
           Reached(calls, LastTold, calls[c].base, c) /\ workspace = calls[c].base \cup {c}

PatchesAlone ==
    (\A c \in DOMAIN calls : ~calls[c].overlapped) /\ open =>
        /\ AppliedStay /\ DiffsChain
        /\ Acp!Patching = {} => Reached(calls, LastTold, workspace, Len(calls))
        /\ \A c \in Acp!Patching : LastPatch(c)

PatchInv == PatchTyped /\ PatchesAlone

LEMMA PatchingAre ==
    /\ \A c : c \in Acp!Patching <=>
                  c \in DOMAIN calls /\ calls[c].at # "answered" /\ calls[c].method = "diff.apply"
    /\ \A c : c \in Acp!Patching' <=>
                  c \in DOMAIN calls' /\ calls'[c].at # "answered" /\ calls'[c].method = "diff.apply"
BY DEF Acp!Patching, Acp!InFlight

LEMMA PatchTypes ==
    ASSUME PatchTyped
    PROVE  /\ calls \in Seq(CallType) /\ DOMAIN calls = 1..Len(calls) /\ Len(calls) \in Nat
           /\ \A c \in DOMAIN calls : calls[c] \in CallType
           /\ diffs \in Seq(DiffType) /\ DOMAIN diffs = 1..Len(diffs) /\ Len(diffs) \in Nat
           /\ \A k \in DOMAIN diffs : diffs[k].call \in 1..Len(calls) /\ diffs[k].after \in SUBSET Nat
           /\ LastTold.call \in 0..Len(calls) /\ LastTold.after \in SUBSET Nat
           /\ diffs # <<>> => Len(diffs) \in DOMAIN diffs /\ LastTold = diffs[Len(diffs)]
           /\ diffs = <<>> => LastTold.call = 0
<1>1. /\ calls \in Seq(CallType) /\ diffs \in Seq(DiffType)
      /\ \A k \in DOMAIN diffs : diffs[k].call \in DOMAIN calls
  BY DEF PatchTyped
<1>2. /\ DOMAIN calls = 1..Len(calls) /\ Len(calls) \in Nat /\ \A c \in DOMAIN calls : calls[c] \in CallType
      /\ DOMAIN diffs = 1..Len(diffs) /\ Len(diffs) \in Nat /\ \A k \in DOMAIN diffs : diffs[k] \in DiffType
  BY <1>1, SeqElements
<1>3. \A k \in DOMAIN diffs : diffs[k].after \in SUBSET Nat
  BY <1>2 DEF DiffType
<1>4. CASE diffs = <<>>
  <2>1. LastTold.call = 0 /\ LastTold.after = {}
    BY <1>4 DEF LastTold
  <2> QED
    BY <1>1, <1>2, <1>3, <1>4, <2>1
<1>5. CASE diffs # <<>>
  <2>1. Len(diffs) \in DOMAIN diffs
    BY <1>1, <1>2, <1>5
  <2>2. LastTold = diffs[Len(diffs)]
    BY <1>5 DEF LastTold, Acp!Last
  <2> QED
    BY <1>1, <1>2, <1>3, <1>5, <2>1, <2>2
<1> QED
  BY <1>4, <1>5

\* What was lost stays lost, and calls only come in.
CallsGrown(all, new) ==
    /\ DOMAIN all \subseteq DOMAIN new
    /\ \A c \in DOMAIN all : all[c].loses => new[c].loses

LEMMA LostStays ==
    ASSUME NEW all, NEW new, CallsGrown(all, new), NEW n \in Nat, DOMAIN all = 1..n,
           NEW i \in Nat, i >= 1, NEW j \in 0..n, NEW k \in Nat, j <= k, LostIn(all, i, j)
    PROVE  LostIn(new, i, k)
<1>1. PICK c \in i..j : all[c].loses
  BY DEF LostIn
<1>2. c \in DOMAIN all /\ c \in i..k
  BY <1>1
<1>3. new[c].loses
  BY <1>1, <1>2 DEF CallsGrown
<1> QED
  BY <1>2, <1>3 DEF LostIn

\* So the chain, and what is in the file or was lost from it, stay.
LEMMA PatchesStay ==
    ASSUME PatchTyped, PatchTyped', CallsGrown(calls, calls')
    PROVE  /\ Len(calls) <= Len(calls')
           /\ (DiffsChain /\ UNCHANGED diffs => DiffsChain')
           /\ \A content : \A j \in 0..Len(calls), k \in Nat :
                  j <= k /\ UNCHANGED diffs /\ Reached(calls, LastTold, content, j) =>
                      Reached(calls', LastTold', content, k)
           /\ \A c \in DOMAIN calls :
                  LostIn(calls, c + 1, Len(calls)) => LostIn(calls', c + 1, Len(calls'))
<1>1. /\ Len(calls) \in Nat /\ DOMAIN calls = 1..Len(calls)
      /\ LastTold.call \in 0..Len(calls) /\ DOMAIN diffs = 1..Len(diffs) /\ Len(diffs) \in Nat
      /\ \A k \in DOMAIN diffs : diffs[k].call \in 1..Len(calls)
  BY PatchTypes
<1>2. Len(calls') \in Nat /\ DOMAIN calls' = 1..Len(calls')
  BY DEF PatchTyped
<1>3. Len(calls) <= Len(calls')
  <2>1. 1..Len(calls) \subseteq 1..Len(calls')
    BY <1>1, <1>2 DEF CallsGrown
  <2>2. Len(calls) = 0 \/ Len(calls) \in 1..Len(calls)
    BY <1>1
  <2> QED
    BY <1>1, <1>2, <2>1, <2>2
<1>4. \A i \in Nat, j \in 0..Len(calls), k \in Nat :
          i >= 1 /\ j <= k /\ LostIn(calls, i, j) => LostIn(calls', i, k)
  BY <1>1, LostStays
<1>5. ASSUME DiffsChain, UNCHANGED diffs
      PROVE  DiffsChain'
  <2>1. ASSUME NEW k \in DOMAIN diffs, k > 1
        PROVE  Reached(calls', diffs[k - 1], diffs[k].before, diffs[k].call)
    <3>1. Reached(calls, diffs[k - 1], diffs[k].before, diffs[k].call)
      BY <1>5, <2>1 DEF DiffsChain
    <3>2. k - 1 \in DOMAIN diffs
      BY <1>1, <2>1
    <3>3. /\ diffs[k - 1].call + 1 \in Nat /\ diffs[k - 1].call + 1 >= 1
          /\ diffs[k].call \in 0..Len(calls) /\ diffs[k].call \in Nat
      BY <1>1, <2>1, <3>2
    <3> QED
      BY <1>4, <3>1, <3>3 DEF Reached
  <2> QED
    BY <1>5, <2>1 DEF DiffsChain
<1>6. ASSUME NEW content, NEW j \in 0..Len(calls), NEW k \in Nat, j <= k, UNCHANGED diffs,
             Reached(calls, LastTold, content, j)
      PROVE  Reached(calls', LastTold', content, k)
  <2>1. LastTold' = LastTold
    BY <1>6 DEF LastTold
  <2>2. LastTold.call + 1 \in Nat /\ LastTold.call + 1 >= 1
    BY <1>1
  <2> QED
    BY <1>4, <1>6, <2>1, <2>2 DEF Reached
<1>7. ASSUME NEW c \in DOMAIN calls, LostIn(calls, c + 1, Len(calls))
      PROVE  LostIn(calls', c + 1, Len(calls'))
  <2>1. c + 1 \in Nat /\ c + 1 >= 1 /\ Len(calls) \in 0..Len(calls)
    BY <1>1
  <2> QED
    BY <1>2, <1>3, <1>4, <1>7, <2>1
<1> QED
  BY <1>3, <1>5, <1>6, <1>7

\* And patches that were there are there, while nothing writes and none is recorded.
LEMMA AppliedKept ==
    ASSUME PatchTyped, PatchTyped', CallsGrown(calls, calls'), UNCHANGED <<workspace, diffs>>,
           AppliedStay,
           \A c \in DOMAIN calls' :
               calls'[c].method = "diff.apply" /\ calls'[c].outcome = "result" =>
                   c \in DOMAIN calls /\ calls[c].method = "diff.apply" /\ calls[c].outcome = "result"
    PROVE  AppliedStay'
<1>1. ASSUME NEW c \in DOMAIN calls', calls'[c].method = "diff.apply", calls'[c].outcome = "result"
      PROVE  c \in workspace \/ LostIn(calls', c + 1, Len(calls'))
  <2>1. c \in DOMAIN calls /\ (c \in workspace \/ LostIn(calls, c + 1, Len(calls)))
    BY <1>1 DEF AppliedStay
  <2> QED
    BY <2>1, PatchesStay
<1> QED
  BY <1>1 DEF AppliedStay

\* The patch in flight stays the last one when no other comes.
LEMMA StillLast ==
    ASSUME PatchTyped, PatchTyped', CallsGrown(calls, calls'), UNCHANGED <<workspace, diffs>>,
           NEW c \in DOMAIN calls, LastPatch(c), calls'[c].at = calls[c].at,
           calls'[c].base = calls[c].base,
           \A d \in DOMAIN calls' :
               calls'[d].method = "diff.apply" => d \in DOMAIN calls /\ calls[d].method = "diff.apply"
    PROVE  LastPatch(c)'
<1>1. c \in 0..Len(calls) /\ c \in Nat /\ c <= c /\ LastTold' = LastTold
  <2>1. Len(calls) \in Nat /\ DOMAIN calls = 1..Len(calls)
    BY PatchTypes
  <2>2. LastTold' = LastTold
    BY DEF LastTold
  <2> QED
    BY <2>1, <2>2
<1>2. \A content : Reached(calls, LastTold, content, c) => Reached(calls', LastTold', content, c)
  BY <1>1, PatchesStay
<1> QED
  BY <1>1, <1>2 DEF LastPatch, CallsGrown

\* A call that is answered as it comes.
LEMMA AnswerKeeps ==
    ASSUME PatchInv, NEW outcome \in {"result", "error"}, Acp!Answer(outcome),
           UNCHANGED <<workspace, diffs, open>>
    PROVE  PatchInv'
<1> DEFINE new == [method |-> "other", at |-> "answered", outcome |-> outcome, base |-> {},
                   overlapped |-> FALSE, loses |-> FALSE]
<1>1. /\ calls \in Seq(CallType) /\ DOMAIN calls = 1..Len(calls) /\ Len(calls) \in Nat
      /\ calls' = Append(calls, new)
  BY DEF PatchInv, PatchTyped, Acp!Answer
<1>2. new \in CallType /\ new.method = "other" /\ new.at = "answered" /\ new.overlapped = FALSE
      /\ new.loses = FALSE
  BY DEF CallType
<1> HIDE DEF new
<1>3. /\ calls' \in Seq(CallType) /\ DOMAIN calls' = 1..(Len(calls) + 1)
      /\ calls'[Len(calls) + 1] = new /\ \A c \in DOMAIN calls : calls'[c] = calls[c]
  BY <1>1, <1>2
<1>4. \A c \in DOMAIN calls' : c \in DOMAIN calls \/ c = Len(calls) + 1
  BY <1>1, <1>3
<1>5. DOMAIN calls \subseteq DOMAIN calls'
  BY <1>1, <1>3
<1>6. \A c : c \in Acp!Patching' <=> c \in Acp!Patching
  BY <1>2, <1>3, <1>4, <1>5, PatchingAre
<1>7. Acp!Patching' = Acp!Patching
  BY <1>6
<1>8. Acp!Patching \subseteq DOMAIN calls
  BY PatchingAre
<1>9. PatchTyped' /\ CallsGrown(calls, calls')
  <2>1. \A c \in DOMAIN calls' : calls'[c].at = "begun" => ~calls'[c].loses
    BY <1>2, <1>3, <1>4 DEF PatchInv, PatchTyped
  <2> QED
    BY <1>3, <1>5, <2>1 DEF PatchInv, PatchTyped, CallsGrown
<1>10. PatchesAlone'
  <2>1. SUFFICES ASSUME \A c \in DOMAIN calls' : ~calls'[c].overlapped, open
                 PROVE  PatchesAlone'
    BY DEF PatchesAlone
  <2>2. /\ AppliedStay /\ DiffsChain /\ (Acp!Patching = {} => Reached(calls, LastTold, workspace, Len(calls)))
        /\ \A c \in Acp!Patching : LastPatch(c)
    BY <1>3, <1>5, <2>1 DEF PatchInv, PatchesAlone
  <2>3. AppliedStay' /\ DiffsChain'
    <3>1. \A c \in DOMAIN calls' :
              calls'[c].method = "diff.apply" =>
                  c \in DOMAIN calls /\ calls[c] = calls'[c]
      BY <1>2, <1>3, <1>4
    <3>2. DiffsChain'
      BY <1>9, <2>2, PatchesStay DEF PatchInv
    <3> QED
      BY <1>9, <2>2, <3>1, <3>2, AppliedKept DEF PatchInv
  <2>4. Acp!Patching' = {} => Reached(calls', LastTold', workspace', Len(calls'))
    <3>1. Len(calls) \in 0..Len(calls) /\ Len(calls') \in Nat /\ Len(calls) <= Len(calls')
      BY <1>1, <1>3, <1>9, PatchesStay DEF PatchInv
    <3> QED
      BY <1>7, <1>9, <2>2, <3>1, PatchesStay DEF PatchInv
  <2>5. ASSUME NEW c \in Acp!Patching
        PROVE  LastPatch(c)'
    BY <1>2, <1>3, <1>4, <1>8, <1>9, <2>2, <2>5, StillLast DEF PatchInv
  <2> QED
    BY <1>7, <2>3, <2>4, <2>5 DEF PatchesAlone
<1> QED
  BY <1>9, <1>10 DEF PatchInv

\* A patch or a command that comes in: a patch beside another overlaps with it.
LEMMA ArrivalKeeps ==
    ASSUME PatchInv, NEW method \in {"diff.apply", "command.run"}, Acp!Arrives(method),
           UNCHANGED <<workspace, diffs, open>>
    PROVE  PatchInv'
<1> DEFINE beside(c) == method = "diff.apply" /\ c \in Acp!Patching
           overlaps == method = "diff.apply" /\ Acp!Patching # {}
           old == [c \in DOMAIN calls |-> [calls[c] EXCEPT !.overlapped = @ \/ beside(c)]]
           new == [method |-> method, at |-> "begun", outcome |-> "none", base |-> {},
                   overlapped |-> overlaps, loses |-> FALSE]
<1>1. /\ calls \in Seq(CallType) /\ DOMAIN calls = 1..Len(calls) /\ Len(calls) \in Nat
      /\ \A c \in DOMAIN calls : calls[c] \in CallType
      /\ calls' = Append(old, new)
  BY DEF PatchInv, PatchTyped, Acp!Arrives
<1>2. new \in CallType /\ new.method = method /\ new.at = "begun" /\ new.outcome = "none"
      /\ new.overlapped = overlaps /\ new.loses = FALSE
  BY DEF CallType
<1>3. ASSUME NEW c \in DOMAIN calls
      PROVE  /\ old[c] \in CallType /\ old[c].method = calls[c].method /\ old[c].at = calls[c].at
             /\ old[c].outcome = calls[c].outcome /\ old[c].base = calls[c].base
             /\ old[c].loses = calls[c].loses
             /\ ~old[c].overlapped => ~calls[c].overlapped
  <2> DEFINE x == calls[c]
             o == x.overlapped \/ beside(c)
             y == [x EXCEPT !.overlapped = o]
  <2>1. old[c] = y /\ x \in CallType
    BY <1>1, <1>3
  <2>2. "overlapped" \in DOMAIN x
    BY <2>1 DEF CallType
  <2>3. y.overlapped = o
    BY <2>2, Zenon
  <2>4. y \in CallType
    BY <2>1 DEF CallType
  <2>5. /\ y.method = x.method /\ y.at = x.at /\ y.outcome = x.outcome /\ y.base = x.base
        /\ y.loses = x.loses
    BY <2>1 DEF CallType
  <2> HIDE DEF y
  <2> QED
    BY <2>1, <2>3, <2>4, <2>5
<1>4. old \in Seq(CallType) /\ Len(old) = Len(calls) /\ DOMAIN old = DOMAIN calls
  <2>1. DOMAIN old = 1..Len(calls)
    BY <1>1
  <2>2. old = [c \in 1..Len(calls) |-> old[c]]
    BY <1>1
  <2> HIDE DEF old
  <2>3. old \in [1..Len(calls) -> CallType]
    BY <1>1, <1>3, <2>1, <2>2
  <2>4. old \in Seq(CallType)
    BY <1>1, <2>3, SeqBuilt
  <2> QED
    BY <1>1, <2>1, <2>4
<1> HIDE DEF old, new
<1>5. /\ calls' \in Seq(CallType) /\ DOMAIN calls' = 1..(Len(calls) + 1)
      /\ calls'[Len(calls) + 1] = new /\ \A c \in DOMAIN calls : calls'[c] = old[c]
  BY <1>1, <1>2, <1>4
<1>6. /\ \A c \in DOMAIN calls' : c \in DOMAIN calls \/ c = Len(calls) + 1
      /\ DOMAIN calls \subseteq DOMAIN calls' /\ Len(calls) + 1 \in DOMAIN calls'
      /\ Len(calls) + 1 \notin DOMAIN calls
  BY <1>1, <1>5
<1>7. \A c \in DOMAIN calls : c \in Acp!Patching' <=> c \in Acp!Patching
  BY <1>3, <1>5, <1>6, PatchingAre
<1>8. Len(calls) + 1 \in Acp!Patching' => method = "diff.apply"
  BY <1>2, <1>5, PatchingAre
<1>9. \A c \in Acp!Patching' : c \in Acp!Patching \/ (c = Len(calls) + 1 /\ method = "diff.apply")
  BY <1>6, <1>7, <1>8, PatchingAre
<1>10. Acp!Patching \subseteq DOMAIN calls /\ Acp!Patching \subseteq Acp!Patching'
  BY <1>7, PatchingAre
<1>11. PatchTyped' /\ CallsGrown(calls, calls')
  <2>1. \A c \in DOMAIN calls' : calls'[c].at = "begun" => ~calls'[c].loses
    BY <1>2, <1>3, <1>5, <1>6 DEF PatchInv, PatchTyped
  <2> QED
    BY <1>3, <1>5, <1>6, <2>1 DEF PatchInv, PatchTyped, CallsGrown
<1>12. PatchesAlone'
  <2>1. SUFFICES ASSUME \A c \in DOMAIN calls' : ~calls'[c].overlapped, open
                 PROVE  PatchesAlone'
    BY DEF PatchesAlone
  <2>2. \A c \in DOMAIN calls : ~calls[c].overlapped
    BY <1>3, <1>5, <1>6, <2>1
  <2>3. method = "diff.apply" => Acp!Patching = {}
    BY <1>2, <1>5, <1>6, <2>1
  <2>4. /\ AppliedStay /\ DiffsChain /\ (Acp!Patching = {} => Reached(calls, LastTold, workspace, Len(calls)))
        /\ \A c \in Acp!Patching : LastPatch(c)
    BY <2>1, <2>2 DEF PatchInv, PatchesAlone
  <2>5. AppliedStay' /\ DiffsChain'
    <3>1. \A c \in DOMAIN calls' :
              calls'[c].method = "diff.apply" /\ calls'[c].outcome = "result" =>
                  c \in DOMAIN calls /\ calls[c].method = "diff.apply" /\ calls[c].outcome = "result"
      BY <1>2, <1>3, <1>5, <1>6
    <3>2. DiffsChain'
      BY <1>11, <2>4, PatchesStay DEF PatchInv
    <3> QED
      BY <1>11, <2>4, <3>1, <3>2, AppliedKept DEF PatchInv
  <2>6. /\ Len(calls) \in 0..Len(calls) /\ Len(calls') = Len(calls) + 1 /\ Len(calls) + 1 \in Nat
        /\ LastTold' = LastTold /\ LastTold.call \in 0..Len(calls)
    <3>1. LastTold' = LastTold
      BY DEF LastTold
    <3>2. LastTold.call \in 0..Len(calls)
      BY PatchTypes DEF PatchInv
    <3>3. Len(calls') = Len(calls) + 1
      BY <1>1, <1>5
    <3> QED
      BY <1>1, <3>1, <3>2, <3>3
  <2>7. Acp!Patching = {} => Reached(calls', LastTold', workspace', Len(calls) + 1)
    BY <1>11, <2>4, <2>6, PatchesStay DEF PatchInv
  <2>8. Acp!Patching' = {} => Reached(calls', LastTold', workspace', Len(calls'))
    BY <1>10, <2>6, <2>7
  <2>9. ASSUME NEW c \in Acp!Patching'
        PROVE  LastPatch(c)'
    <3>1. CASE c \in Acp!Patching
      <4>1. /\ c \in DOMAIN calls /\ calls'[c].at = calls[c].at /\ calls'[c].base = calls[c].base
            /\ LastPatch(c)
        BY <1>3, <1>5, <1>10, <2>4, <3>1
      <4>2. \A d \in DOMAIN calls' :
                calls'[d].method = "diff.apply" => d \in DOMAIN calls /\ calls[d].method = "diff.apply"
        BY <1>2, <1>3, <1>5, <1>6, <2>3, <3>1
      <4> QED
        BY <1>11, <4>1, <4>2, StillLast DEF PatchInv
    <3>2. CASE c = Len(calls) + 1 /\ method = "diff.apply"
      <4>1. calls'[c].at = "begun" /\ Reached(calls', LastTold', workspace', c)
        BY <1>2, <1>5, <2>3, <2>7, <3>2
      <4>2. \A d \in DOMAIN calls' : d <= c
        BY <1>1, <1>5, <3>2
      <4>3. LastTold'.call < c
        BY <1>1, <2>6, <3>2
      <4> QED
        BY <4>1, <4>2, <4>3 DEF LastPatch
    <3> QED
      BY <1>9, <2>9, <3>1, <3>2
  <2> QED
    BY <2>5, <2>8, <2>9 DEF PatchesAlone
<1> QED
  BY <1>11, <1>12 DEF PatchInv

\* A call that goes on.
CallGoesOn(c, y) ==
    /\ calls' \in Seq(CallType) /\ DOMAIN calls' = DOMAIN calls /\ calls'[c] = y
    /\ \A d \in DOMAIN calls \ {c} : calls'[d] = calls[d]
    /\ y.method = calls[c].method /\ y.overlapped = calls[c].overlapped
    /\ (calls[c].loses => y.loses)

LEMMA CallMoves ==
    ASSUME PatchTyped, NEW c \in DOMAIN calls, NEW y \in CallType,
           y.method = calls[c].method, y.overlapped = calls[c].overlapped, calls[c].loses => y.loses,
           calls' = [calls EXCEPT ![c] = y]
    PROVE  CallGoesOn(c, y)
<1>1. calls \in Seq(CallType)
  BY DEF PatchTyped
<1>2. /\ calls' \in Seq(CallType) /\ DOMAIN calls' = DOMAIN calls /\ calls'[c] = y
      /\ \A d \in DOMAIN calls \ {c} : calls'[d] = calls[d]
  BY <1>1, SeqExcept
<1> QED
  BY <1>2 DEF CallGoesOn

\* Two fields of a call at once.
LEMMA CallSettles ==
    ASSUME PatchTyped, NEW c \in DOMAIN calls, NEW outcome \in {"result", "error"},
           Acp!Settle(c, outcome)
    PROVE  \E y : /\ CallGoesOn(c, y) /\ y.at = "answered" /\ y.outcome = outcome
                  /\ y.base = calls[c].base /\ y.loses = calls[c].loses
<1> DEFINE x == calls[c]
           y == [method |-> x.method, at |-> "answered", outcome |-> outcome, base |-> x.base,
                 overlapped |-> x.overlapped, loses |-> x.loses]
           mid == [calls EXCEPT ![c].at = "answered"]
<1>1. calls \in Seq(CallType) /\ x \in CallType /\ x.base \in SUBSET Nat
  <2>1. calls \in Seq(CallType)
    BY DEF PatchTyped
  <2>2. x \in CallType
    BY <2>1, SeqElements
  <2> QED
    BY <2>1, <2>2 DEF CallType
<1>2. calls' = [mid EXCEPT ![c].outcome = outcome]
  BY DEF Acp!Settle
<1>3. /\ DOMAIN mid = DOMAIN calls /\ \A d \in DOMAIN calls \ {c} : mid[d] = calls[d]
      /\ mid[c] = [x EXCEPT !.at = "answered"]
  OBVIOUS
<1> HIDE DEF mid
<1>4. /\ DOMAIN calls' = DOMAIN calls /\ \A d \in DOMAIN calls \ {c} : calls'[d] = calls[d]
      /\ calls'[c] = [mid[c] EXCEPT !.outcome = outcome]
      /\ calls' = [d \in DOMAIN calls' |-> calls'[d]]
  BY <1>2, <1>3
<1>5. mid[c] \in CallType /\ mid[c] = [x EXCEPT !.at = "answered"]
  BY <1>1, <1>3 DEF CallType
<1>6. [mid[c] EXCEPT !.outcome = outcome] = y
  <2>1. mid[c] = [method |-> x.method, at |-> "answered", outcome |-> x.outcome, base |-> x.base,
                  overlapped |-> x.overlapped, loses |-> x.loses]
    BY <1>1, <1>3 DEF CallType
  <2> QED
    BY <2>1
<1> HIDE DEF y
<1>7. calls' = [calls EXCEPT ![c] = y]
  <2> DEFINE g == [calls EXCEPT ![c] = y]
  <2>1. DOMAIN g = DOMAIN calls /\ \A d \in DOMAIN calls : g[d] = IF d = c THEN y ELSE calls[d]
    OBVIOUS
  <2>2. \A d \in DOMAIN calls : calls'[d] = g[d]
    BY <1>4, <1>6, <2>1
  <2>3. g = [d \in DOMAIN g |-> g[d]]
    OBVIOUS
  <2> HIDE DEF g
  <2>4. calls' = g
    BY <1>4, <2>1, <2>2, <2>3
  <2> QED
    BY <2>4 DEF g
<1>8. CallGoesOn(c, y) /\ y.at = "answered" /\ y.outcome = outcome /\ y.base = x.base
      /\ y.loses = x.loses
  <2>1. /\ y \in CallType /\ y.method = x.method /\ y.overlapped = x.overlapped
        /\ y.at = "answered" /\ y.outcome = outcome /\ y.base = x.base
        /\ y.loses = x.loses
    BY <1>1 DEF y, CallType
  <2> QED
    BY <1>7, <2>1, CallMoves
<1> QED
  BY <1>8

\* The calls that are being answered: one that is no patch, one that gives up, a patch that reads,
\* writes, fails to and is recorded.
LEMMA GoesOnKeeps ==
    ASSUME PatchInv, NEW c \in DOMAIN calls, calls[c].at # "answered", NEW y, CallGoesOn(c, y),
           y.at # "begun", UNCHANGED open, workspace' \in SUBSET Nat, diffs' \in Seq(DiffType),
           \A k \in DOMAIN diffs' : diffs'[k].call \in DOMAIN calls,
           open =>
           \/ /\ y.at = "answered" /\ calls[c].method # "diff.apply" /\ UNCHANGED <<workspace, diffs>>
           \/ /\ y.at = "answered" /\ y.outcome = "error" /\ calls[c].at = "begun"
              /\ UNCHANGED <<workspace, diffs>>
           \/ /\ calls[c].method = "diff.apply" /\ calls[c].at = "begun"
              /\ y.at = "read" /\ y.outcome = calls[c].outcome /\ (y.base = workspace \/ y.loses)
              /\ UNCHANGED <<workspace, diffs>>
           \/ /\ calls[c].method = "diff.apply" /\ calls[c].at = "read"
              /\ y.at = "written" /\ y.outcome = calls[c].outcome /\ y.base = calls[c].base
              /\ workspace' = calls[c].base \cup {c} /\ UNCHANGED diffs
           \/ /\ calls[c].method = "diff.apply" /\ calls[c].at = "read"
              /\ y.at = "answered" /\ y.outcome = "error" /\ UNCHANGED diffs
              /\ (workspace' = workspace \/ y.loses)
           \/ /\ calls[c].method = "diff.apply" /\ calls[c].at = "written"
              /\ y.at = "answered" /\ y.outcome = "result" /\ UNCHANGED workspace
              /\ diffs' = Append(diffs, [before |-> calls[c].base, after |-> calls[c].base \cup {c},
                                         call |-> c])
    PROVE  PatchInv'
<1> DEFINE m == Len(calls)
<1>1. /\ calls' \in Seq(CallType) /\ DOMAIN calls' = DOMAIN calls /\ calls'[c] = y
      /\ \A d \in DOMAIN calls \ {c} : calls'[d] = calls[d]
      /\ y.method = calls[c].method /\ y.overlapped = calls[c].overlapped
      /\ (calls[c].loses => y.loses)
  BY DEF CallGoesOn
<1>2. /\ calls \in Seq(CallType) /\ DOMAIN calls = 1..m /\ m \in Nat /\ c \in 1..m
      /\ \A d \in DOMAIN calls : calls[d] \in CallType
      /\ diffs \in Seq(DiffType) /\ LastTold.call \in 0..m
  BY PatchTypes DEF PatchInv
<1>3. Len(calls') = m
  BY <1>1, <1>2
<1>4. PatchTyped' /\ CallsGrown(calls, calls')
  <2>1. \A d \in DOMAIN calls' : calls'[d].at = "begun" => ~calls'[d].loses
    BY <1>1 DEF PatchInv, PatchTyped
  <2> QED
    BY <1>1, <2>1 DEF PatchTyped, CallsGrown
<1> HIDE DEF m
<1>5. \A d : d # c => (d \in Acp!Patching' <=> d \in Acp!Patching)
  BY <1>1, PatchingAre
<1>6. /\ c \in Acp!Patching <=> calls[c].method = "diff.apply"
      /\ c \in Acp!Patching' <=> calls[c].method = "diff.apply" /\ y.at # "answered"
  BY <1>1, PatchingAre
<1>7. PatchesAlone'
  <2>1. SUFFICES ASSUME \A d \in DOMAIN calls' : ~calls'[d].overlapped, open
                 PROVE  PatchesAlone'
    BY DEF PatchesAlone
  <2>2. \A d \in DOMAIN calls : ~calls[d].overlapped
    BY <1>1, <2>1
  <2>3. /\ AppliedStay /\ DiffsChain /\ (Acp!Patching = {} => Reached(calls, LastTold, workspace, Len(calls)))
        /\ \A d \in Acp!Patching : LastPatch(d)
    BY <2>1, <2>2 DEF PatchInv, PatchesAlone
  <2>4. UNCHANGED diffs =>
            /\ DiffsChain' /\ LastTold' = LastTold
            /\ \A content : \A j \in 0..m, k \in Nat :
                   j <= k /\ Reached(calls, LastTold, content, j) => Reached(calls', LastTold', content, k)
    <3>1. UNCHANGED diffs => LastTold' = LastTold
      BY DEF LastTold
    <3> QED
      BY <1>4, <2>3, <3>1, PatchesStay DEF PatchInv, m
  <2>5. CASE y.at = "answered" /\ calls[c].method # "diff.apply" /\ UNCHANGED <<workspace, diffs>>
    <3>1. Acp!Patching' = Acp!Patching
      <4>1. \A d : d \in Acp!Patching' <=> d \in Acp!Patching
        BY <1>5, <1>6, <2>5
      <4> QED
        BY <4>1
    <3>2. AppliedStay'
      BY <1>1, <1>4, <2>3, <2>5, AppliedKept DEF PatchInv
    <3>3. m \in 0..m /\ m <= m
      BY <1>2
    <3>4. Acp!Patching = {} => Reached(calls', LastTold', workspace', Len(calls'))
      BY <1>2, <1>3, <2>3, <2>4, <2>5, <3>3 DEF m
    <3>5. ASSUME NEW d \in Acp!Patching
          PROVE  LastPatch(d)'
      <4>1. d \in DOMAIN calls /\ d # c /\ LastPatch(d) /\ calls'[d] = calls[d]
        BY <1>1, <1>6, <2>3, <2>5, PatchingAre
      <4>2. \A e \in DOMAIN calls' :
                calls'[e].method = "diff.apply" => e \in DOMAIN calls /\ calls[e].method = "diff.apply"
        BY <1>1
      <4> QED
        BY <1>4, <2>5, <4>1, <4>2, StillLast DEF PatchInv
    <3> QED
      BY <2>4, <2>5, <3>1, <3>2, <3>4, <3>5 DEF PatchesAlone
  <2>6. ASSUME calls[c].method = "diff.apply"
        PROVE  /\ LastPatch(c) /\ Acp!Patching' = (IF y.at = "answered" THEN {} ELSE {c})
               /\ \A d \in DOMAIN calls' : calls'[d].method = "diff.apply" => d <= c
    <3>1. LastPatch(c)
      BY <1>6, <2>3, <2>6
    <3>2. \A d \in Acp!Patching : d = c
      <4>1. \A d \in Acp!Patching : d \in Nat /\ d <= c /\ c <= d
        BY <1>2, <1>6, <2>3, <2>6, PatchingAre DEF LastPatch
      <4> QED
        BY <1>2, <4>1
    <3>3. \A d : d \in Acp!Patching' <=> d = c /\ y.at # "answered"
      BY <1>5, <1>6, <2>6, <3>2
    <3>4. \A d \in DOMAIN calls' : calls'[d].method = "diff.apply" => d <= c
      BY <1>1, <3>1 DEF LastPatch
    <3> QED
      BY <3>1, <3>3, <3>4
  \* What c itself loses is counted for every patch before it.
  <2>7. ASSUME NEW content, calls[c].method = "diff.apply", UNCHANGED diffs, y.loses
        PROVE  Reached(calls', LastTold', content, c) /\ Reached(calls', LastTold', content, m)
    <3>1. LastTold.call < c /\ LastTold' = LastTold
      BY <2>4, <2>6, <2>7 DEF LastPatch
    <3>2. c \in LastTold.call + 1..c /\ c \in LastTold.call + 1..m
      BY <1>2, <3>1
    <3> QED
      BY <1>1, <2>7, <3>1, <3>2 DEF Reached, LostIn
  <2>8. ASSUME NEW d \in DOMAIN calls, calls[c].method = "diff.apply", y.loses,
               calls[d].method = "diff.apply", d # c
        PROVE  LostIn(calls', d + 1, m)
    <3>1. d <= c
      BY <2>6, <2>8 DEF LastPatch
    <3>2. c \in d + 1..m
      BY <1>2, <2>8, <3>1
    <3> QED
      BY <1>1, <2>8, <3>2 DEF LostIn
  <2>9. ASSUME calls[c].method = "diff.apply"
        PROVE  \A d \in DOMAIN calls : LostIn(calls, d + 1, m) => LostIn(calls', d + 1, m)
    BY <1>3, <1>4, PatchesStay DEF PatchInv, m
  <2>10. c \in 0..m /\ c \in Nat /\ c <= c /\ c <= m /\ m \in Nat
    BY <1>2
  <2>11. CASE /\ y.at = "answered" /\ y.outcome = "error" /\ calls[c].at = "begun"
              /\ calls[c].method = "diff.apply" /\ UNCHANGED <<workspace, diffs>>
    <3>1. Reached(calls, LastTold, workspace, c) /\ Acp!Patching' = {}
      BY <2>6, <2>11 DEF LastPatch
    <3>2. Reached(calls', LastTold', workspace', m)
      BY <2>4, <2>10, <2>11, <3>1
    <3>3. AppliedStay'
      BY <1>1, <1>4, <2>3, <2>11, AppliedKept DEF PatchInv
    <3> QED
      BY <1>3, <2>4, <2>11, <3>1, <3>2, <3>3 DEF PatchesAlone
  <2>12. CASE /\ calls[c].method = "diff.apply" /\ calls[c].at = "begun"
              /\ y.at = "read" /\ y.outcome = calls[c].outcome /\ (y.base = workspace \/ y.loses)
              /\ UNCHANGED <<workspace, diffs>>
    <3>1. Reached(calls, LastTold, workspace, c) /\ Acp!Patching' = {c} /\ LastTold.call < c
      BY <2>6, <2>12 DEF LastPatch
    <3>2. Reached(calls', LastTold', y.base, c)
      BY <2>4, <2>7, <2>10, <2>12, <3>1
    <3>3. AppliedStay'
      BY <1>1, <1>4, <2>3, <2>12, AppliedKept DEF PatchInv
    <3>4. LastPatch(c)'
      BY <1>1, <2>4, <2>6, <2>12, <3>1, <3>2 DEF LastPatch
    <3> QED
      BY <2>4, <2>12, <3>1, <3>3, <3>4 DEF PatchesAlone
  <2>13. CASE /\ calls[c].method = "diff.apply" /\ calls[c].at = "read"
              /\ y.at = "written" /\ y.outcome = calls[c].outcome /\ y.base = calls[c].base
              /\ workspace' = calls[c].base \cup {c} /\ UNCHANGED diffs
    <3>1. /\ Reached(calls, LastTold, y.base, c) /\ Acp!Patching' = {c} /\ LastTold.call < c
          /\ (y.base = workspace \/ y.loses)
      BY <1>1, <2>6, <2>13 DEF LastPatch
    <3>2. Reached(calls', LastTold', y.base, c)
      BY <2>4, <2>10, <2>13, <3>1
    <3>3. AppliedStay'
      <4>1. ASSUME NEW d \in DOMAIN calls, calls'[d].method = "diff.apply", calls'[d].outcome = "result"
            PROVE  d \in workspace' \/ LostIn(calls', d + 1, m)
        <5>1. CASE d = c
          BY <2>13, <5>1
        <5>2. CASE d # c
          <6>1. /\ calls[d].method = "diff.apply"
                /\ (d \in workspace \/ LostIn(calls, d + 1, m))
            BY <1>1, <2>3, <4>1, <5>2 DEF AppliedStay, m
          <6> QED
            BY <2>8, <2>9, <2>13, <3>1, <5>2, <6>1
        <5> QED
          BY <5>1, <5>2
      <4> QED
        BY <1>1, <1>3, <4>1 DEF AppliedStay
    <3>4. LastPatch(c)'
      BY <1>1, <2>4, <2>6, <2>13, <3>1, <3>2 DEF LastPatch
    <3> QED
      BY <2>4, <2>13, <3>1, <3>3, <3>4 DEF PatchesAlone
  <2>14. CASE /\ calls[c].method = "diff.apply" /\ calls[c].at = "read"
              /\ y.at = "answered" /\ y.outcome = "error" /\ UNCHANGED diffs
              /\ (workspace' = workspace \/ y.loses)
    <3>1. /\ Reached(calls, LastTold, calls[c].base, c) /\ Acp!Patching' = {}
          /\ (calls[c].base = workspace \/ y.loses)
      BY <1>1, <2>6, <2>14 DEF LastPatch
    <3>2. Reached(calls', LastTold', workspace', m)
      BY <2>4, <2>7, <2>10, <2>14, <3>1
    <3>3. AppliedStay'
      <4>1. ASSUME NEW d \in DOMAIN calls, calls'[d].method = "diff.apply", calls'[d].outcome = "result"
            PROVE  d \in workspace' \/ LostIn(calls', d + 1, m)
        <5>1. d # c
          BY <1>1, <2>14, <4>1
        <5>2. /\ calls[d].method = "diff.apply"
              /\ (d \in workspace \/ LostIn(calls, d + 1, m))
          BY <1>1, <2>3, <4>1, <5>1 DEF AppliedStay, m
        <5> QED
          BY <2>8, <2>9, <2>14, <5>1, <5>2
      <4> QED
        BY <1>1, <1>3, <4>1 DEF AppliedStay
    <3> QED
      BY <1>3, <2>4, <2>14, <3>1, <3>2, <3>3 DEF PatchesAlone
  <2>15. CASE /\ calls[c].method = "diff.apply" /\ calls[c].at = "written"
              /\ y.at = "answered" /\ y.outcome = "result" /\ UNCHANGED workspace
              /\ diffs' = Append(diffs, [before |-> calls[c].base, after |-> calls[c].base \cup {c},
                                         call |-> c])
    <3> DEFINE n == Len(diffs)
               new == [before |-> calls[c].base, after |-> calls[c].base \cup {c}, call |-> c]
    <3>1. Reached(calls, LastTold, new.before, c) /\ workspace = new.after /\ Acp!Patching' = {}
      BY <2>6, <2>15 DEF LastPatch
    <3>2. calls[c].base \in SUBSET Nat /\ calls[c].base \cup {c} \in SUBSET Nat
      BY <1>2 DEF CallType
    <3>3. new \in DiffType /\ new.call = c
      BY <1>2, <3>2 DEF DiffType
    <3>4. diffs' = Append(diffs, new)
      BY <2>15
    <3> HIDE DEF new
    <3>5. /\ DOMAIN diffs = 1..n /\ n \in Nat /\ Len(diffs') = n + 1 /\ DOMAIN diffs' = 1..(n + 1)
          /\ diffs'[n + 1] = new /\ \A k \in 1..n : diffs'[k] = diffs[k]
          /\ diffs' # <<>> /\ (n = 0 <=> diffs = <<>>)
      BY <1>2, <3>3, <3>4
    <3>6. LastTold' = new
      BY <3>5 DEF LastTold, Acp!Last
    <3>7. n # 0 => LastTold = diffs[n]
      BY <3>5 DEF LastTold, Acp!Last
    <3>8. ASSUME NEW k \in 1..n, k > 1
          PROVE  Reached(calls', diffs[k - 1], diffs[k].before, diffs[k].call)
      <4>1. Reached(calls, diffs[k - 1], diffs[k].before, diffs[k].call)
        BY <2>3, <3>5, <3>8 DEF DiffsChain
      <4>2. diffs[k - 1].call \in 1..m /\ diffs[k].call \in 1..m
        <5>1. \A f \in 1..n : diffs[f].call \in 1..m
          BY <3>5, PatchTypes DEF PatchInv, m
        <5>2. k - 1 \in 1..n
          BY <3>5, <3>8
        <5> QED
          BY <5>1, <5>2
      <4>3. /\ diffs[k - 1].call + 1 \in Nat /\ diffs[k - 1].call + 1 >= 1 /\ diffs[k].call \in 0..m
            /\ diffs[k].call \in Nat
        <5>1. \A x \in 1..m : x + 1 \in Nat /\ x + 1 >= 1 /\ x \in 0..m /\ x \in Nat
          BY <1>2
        <5> QED
          BY <4>2, <5>1, Zenon
      <4> QED
        BY <1>2, <1>4, <4>1, <4>3, LostStays DEF Reached
    <3>9. n # 0 => Reached(calls', diffs[n], new.before, c)
      <4>1. LastTold.call + 1 \in Nat /\ LastTold.call + 1 >= 1 /\ c \in 0..m /\ c \in Nat
        BY <1>2
      <4>2. Reached(calls', LastTold, new.before, c)
        BY <1>2, <1>4, <3>1, <4>1, LostStays DEF Reached
      <4> QED
        BY <3>7, <4>2
    <3>10. DiffsChain'
      <4>1. ASSUME NEW k \in 1..(n + 1), k > 1
            PROVE  Reached(calls', diffs'[k - 1], diffs'[k].before, diffs'[k].call)
        <5>1. CASE k \in 1..n
          <6>1. k - 1 \in 1..n
            BY <3>5, <4>1, <5>1
          <6> QED
            BY <3>5, <3>8, <4>1, <5>1, <6>1
        <5>2. CASE k = n + 1
          <6>1. k - 1 = n /\ n \in 1..n /\ n # 0
            BY <3>5, <4>1, <5>2
          <6> QED
            BY <3>3, <3>5, <3>9, <5>2, <6>1
        <5> QED
          BY <3>5, <4>1, <5>1, <5>2
      <4> QED
        BY <3>5, <4>1 DEF DiffsChain
    <3>11. AppliedStay'
      <4>1. ASSUME NEW d \in DOMAIN calls, calls'[d].method = "diff.apply", calls'[d].outcome = "result"
            PROVE  d \in workspace' \/ LostIn(calls', d + 1, m)
        <5>1. CASE d = c
          BY <2>6, <2>15, <5>1 DEF LastPatch
        <5>2. CASE d # c
          <6>1. d \in workspace \/ LostIn(calls, d + 1, m)
            BY <1>1, <2>3, <4>1, <5>2 DEF AppliedStay, m
          <6> QED
            BY <2>9, <2>15, <6>1
        <5> QED
          BY <5>1, <5>2
      <4> QED
        BY <1>1, <1>3, <4>1 DEF AppliedStay
    <3>12. Reached(calls', LastTold', workspace', Len(calls'))
      BY <2>15, <3>1, <3>6 DEF Reached
    <3> QED
      BY <3>1, <3>10, <3>11, <3>12 DEF PatchesAlone
  <2> QED
    BY <2>1, <2>5, <2>11, <2>12, <2>13, <2>14, <2>15
<1> QED
  BY <1>4, <1>7 DEF PatchInv

AcpInv == PagesInv /\ PatchInv

LEMMA AcpStarts ==
    ASSUME Acp!AcpInit
    PROVE  AcpInv
<1>1. /\ sessions = <<>> /\ calls = <<>> /\ workspace = {} /\ diffs = <<>>
      /\ pager = [reading |-> FALSE, offset |-> 0, seen |-> {}, untouched |-> {}]
  BY DEF Acp!AcpInit
<1>2. SessionsTyped
  BY <1>1 DEF SessionsTyped, PagerType
<1>3. PagesAhead
  BY <1>1 DEF PagesAhead, Acp!PagesMissOnlyTouched
<1>4. PatchTyped
  BY <1>1 DEF PatchTyped
<1>5. PatchesAlone
  <2>1. Acp!Patching = {} /\ LastTold.after = {}
    BY <1>1, PatchingAre DEF LastTold
  <2> QED
    BY <1>1, <2>1 DEF PatchesAlone, AppliedStay, DiffsChain, Reached
<1> QED
  BY <1>2, <1>3, <1>4, <1>5 DEF AcpInv, PagesInv, PatchInv

LEMMA PagesKept ==
    ASSUME PagesInv, UNCHANGED <<sessions, pager>>
    PROVE  PagesInv'
BY DEF PagesInv, SessionsTyped, PagesAhead, Acp!PagesMissOnlyTouched, Acp!Known

LEMMA PatchesKept ==
    ASSUME PatchInv, UNCHANGED <<calls, workspace, diffs>>, open' => open
    PROVE  PatchInv'
<1>1. Acp!Patching' = Acp!Patching /\ LastTold' = LastTold
  BY DEF Acp!Patching, Acp!InFlight, LastTold
<1> QED
  BY <1>1 DEF PatchInv, PatchTyped, PatchesAlone, AppliedStay, DiffsChain, LastPatch, Reached, LostIn

\* The steps of a patch and of a command.
LEMMA AwaitedKeeps ==
    ASSUME PatchInv, NEW c \in DOMAIN calls, Acp!Awaited(c)
    PROVE  PatchInv'
<1>1. /\ PatchTyped /\ workspace \in SUBSET Nat /\ diffs \in Seq(DiffType) /\ calls[c] \in CallType
      /\ DOMAIN calls \subseteq Nat /\ calls[c].base \in SUBSET Nat /\ c \in Nat
      /\ calls[c].at = "begun" => ~calls[c].loses
  <2>1. calls \in Seq(CallType)
    BY DEF PatchInv, PatchTyped
  <2>2. calls[c] \in CallType /\ DOMAIN calls \subseteq Nat
    BY <2>1, SeqElements
  <2> QED
    BY <2>2 DEF PatchInv, PatchTyped, CallType
<1> DEFINE Numbered(d) == \A k \in DOMAIN d : d[k].call \in DOMAIN calls
<1>2. Numbered(diffs)
  BY DEF PatchInv, PatchTyped
<1>3. ASSUME NEW outcome \in {"result", "error"}, Acp!Settle(c, outcome), calls[c].at # "answered",
             UNCHANGED <<workspace, diffs, open>>,
             open => calls[c].method # "diff.apply" \/ (outcome = "error" /\ calls[c].at = "begun")
      PROVE  PatchInv'
  <2>1. PICK y : CallGoesOn(c, y) /\ y.at = "answered" /\ y.outcome = outcome
    BY <1>1, <1>3, CallSettles
  <2>2. workspace' \in SUBSET Nat /\ diffs' \in Seq(DiffType) /\ Numbered(diffs') /\ y.at # "begun"
    BY <1>1, <1>2, <1>3, <2>1
  <2> QED
    BY <1>1, <1>3, <2>1, <2>2, GoesOnKeeps
<1>4. CASE Acp!PatchRead(c)
  <2>1. /\ calls[c].method = "diff.apply" /\ calls[c].at = "begun"
        /\ UNCHANGED <<workspace, diffs, open>>
    BY <1>4 DEF Acp!PatchRead
  <2>2. ASSUME NEW base \in {workspace, {}},
               calls' = [calls EXCEPT ![c].at = "read", ![c].base = base, ![c].loses = base # workspace]
        PROVE  PatchInv'
    <3> DEFINE x == calls[c]
               loses == base # workspace
               y == [x EXCEPT !.at = "read", !.base = base, !.loses = loses]
    <3>1. calls' = [calls EXCEPT ![c] = y]
      BY <2>2
    <3>2. /\ y.method = x.method /\ y.overlapped = x.overlapped
          /\ y.at = "read" /\ y.base = base /\ y.outcome = x.outcome
      BY <1>1 DEF CallType
    <3>3. y \in CallType
      <4>1. base \in SUBSET Nat /\ loses \in BOOLEAN
        BY <1>1
      <4> HIDE DEF loses
      <4> QED
        BY <1>1, <4>1 DEF CallType
    <3>4. y.loses = loses
      <4>1. "loses" \in DOMAIN x /\ "loses" \in DOMAIN [x EXCEPT !.at = "read", !.base = base]
        BY <1>1 DEF CallType
      <4> QED
        BY <4>1, Zenon
    <3> HIDE DEF y
    <3>5. CallGoesOn(c, y)
      BY <1>1, <2>1, <3>1, <3>2, <3>3, CallMoves
    <3>6. workspace' \in SUBSET Nat /\ diffs' \in Seq(DiffType) /\ Numbered(diffs')
      BY <1>1, <1>2, <2>1
    <3>7. y.base = workspace \/ y.loses
      BY <3>2, <3>4
    <3> QED
      BY <2>1, <3>2, <3>5, <3>6, <3>7, GoesOnKeeps
  <2>3. CASE Acp!Settle(c, "error")
    BY <1>3, <2>1, <2>3
  <2> QED
    BY <1>4, <2>2, <2>3 DEF Acp!PatchRead
<1>5. CASE Acp!PatchWrites(c)
  <2>1. /\ calls[c].method = "diff.apply" /\ calls[c].at = "read" /\ UNCHANGED <<diffs, open>>
    BY <1>5 DEF Acp!PatchWrites
  <2>2. CASE workspace' = calls[c].base \cup {c} /\ calls' = [calls EXCEPT ![c].at = "written"]
    <3> DEFINE x == calls[c]
               y == [x EXCEPT !.at = "written"]
    <3>1. calls' = [calls EXCEPT ![c] = y]
      BY <2>2
    <3>2. /\ y \in CallType /\ y.method = x.method /\ y.overlapped = x.overlapped
          /\ y.at = "written" /\ y.base = x.base /\ y.outcome = x.outcome /\ y.loses = x.loses
      BY <1>1 DEF CallType
    <3> HIDE DEF y
    <3>3. CallGoesOn(c, y)
      BY <1>1, <3>1, <3>2, CallMoves
    <3>4. workspace' \in SUBSET Nat /\ diffs' \in Seq(DiffType) /\ Numbered(diffs')
      BY <1>1, <1>2, <2>1, <2>2
    <3> QED
      BY <2>1, <2>2, <3>2, <3>3, <3>4, GoesOnKeeps
  <2>3. CASE Acp!WriteFails(c)
    <3> DEFINE x == calls[c]
               loses == x.loses \/ workspace' # workspace
               y == [x EXCEPT !.at = "answered", !.outcome = "error", !.loses = loses]
    <3>1. calls' = [calls EXCEPT ![c] = y] /\ workspace' \in {workspace, {}}
      BY <2>3 DEF Acp!WriteFails
    <3>2. /\ y.method = x.method /\ y.overlapped = x.overlapped
          /\ y.at = "answered" /\ y.base = x.base /\ y.outcome = "error"
      BY <1>1 DEF CallType
    <3>3. y \in CallType
      <4>1. loses \in BOOLEAN
        OBVIOUS
      <4> HIDE DEF loses
      <4> QED
        BY <1>1, <4>1 DEF CallType
    <3>4. y.loses = loses
      <4>1. /\ "loses" \in DOMAIN x
            /\ "loses" \in DOMAIN [x EXCEPT !.at = "answered", !.outcome = "error"]
        BY <1>1 DEF CallType
      <4> QED
        BY <4>1, Zenon
    <3> HIDE DEF y
    <3>5. CallGoesOn(c, y)
      BY <1>1, <3>1, <3>2, <3>3, <3>4, CallMoves
    <3>6. workspace' \in SUBSET Nat /\ diffs' \in Seq(DiffType) /\ Numbered(diffs')
      BY <1>1, <1>2, <2>1, <3>1
    <3>7. workspace' = workspace \/ y.loses
      BY <3>4
    <3> QED
      BY <2>1, <3>2, <3>5, <3>6, <3>7, GoesOnKeeps
  <2> QED
    BY <1>5, <2>2, <2>3 DEF Acp!PatchWrites
<1>6. CASE Acp!PatchRecords(c)
  <2> DEFINE new == [before |-> calls[c].base, after |-> calls[c].base \cup {c}, call |-> c]
  <2>1. /\ calls[c].method = "diff.apply" /\ calls[c].at = "written" /\ UNCHANGED <<workspace, open>>
        /\ IF open THEN diffs' = Append(diffs, new) /\ Acp!Settle(c, "result")
           ELSE Acp!Settle(c, "error") /\ UNCHANGED diffs
    BY <1>6 DEF Acp!PatchRecords
  <2>2. new \in DiffType /\ new.call = c
    BY <1>1 DEF DiffType
  <2>3. CASE open
    <3>1. diffs' = Append(diffs, new) /\ Acp!Settle(c, "result")
      BY <2>1, <2>3
    <3>2. PICK y : CallGoesOn(c, y) /\ y.at = "answered" /\ y.outcome = "result"
      BY <1>1, <3>1, CallSettles
    <3>3. diffs' \in Seq(DiffType) /\ workspace' \in SUBSET Nat /\ Numbered(diffs')
      <4> HIDE DEF new
      <4> QED
        BY <1>1, <1>2, <2>1, <2>2, <3>1
    <3> QED
      BY <2>1, <3>1, <3>2, <3>3, GoesOnKeeps
  <2>4. CASE ~open
    BY <1>3, <2>1, <2>4
  <2> QED
    BY <2>3, <2>4
<1>7. CASE Acp!CommandEnds(c)
  <2>1. /\ calls[c].method = "command.run" /\ calls[c].at = "begun" /\ Acp!Settle(c, "result")
        /\ UNCHANGED <<workspace, diffs, open>>
    BY <1>7 DEF Acp!CommandEnds
  <2> QED
    BY <1>3, <2>1
<1> QED
  BY <1>4, <1>5, <1>6, <1>7 DEF Acp!Awaited

LEMMA AcpStep ==
    ASSUME AcpInv, [Acp!AcpNext]_acpVars
    PROVE  AcpInv'
<1>1. PagesInv /\ PatchInv /\ SessionsTyped
  BY DEF AcpInv, PagesInv
<1>2. CASE UNCHANGED acpVars
  BY <1>1, <1>2, PagesKept, PatchesKept DEF acpVars, AcpInv
<1>3. ASSUME NEW mode \in Acp!Modes, Acp!CreateSession(mode)
      PROVE  AcpInv'
  <2>1. /\ Acp!Answer("result") /\ Acp!Insert(Acp!NextSession, mode, 0)
        /\ UNCHANGED <<workspace, diffs, open>>
    BY <1>3 DEF Acp!CreateSession, Acp!NoParent
  <2>2. PagesInv'
    BY <1>1, <2>1, InsertKeeps
  <2> QED
    BY <1>1, <2>1, <2>2, AnswerKeeps DEF AcpInv
<1>4. ASSUME NEW id \in Acp!Known, NEW row \in RowType, row.id = id, Acp!Touch(row),
             Acp!Answer("result"), UNCHANGED <<workspace, diffs, open>>
      PROVE  AcpInv'
  <2>1. PagesInv'
    BY <1>1, <1>4, TouchKeeps
  <2> QED
    BY <1>1, <1>4, <2>1, AnswerKeeps DEF AcpInv
<1>5. ASSUME NEW id \in Acp!Known
      PROVE  /\ \A role \in DOMAIN Roles : Acp!CreateChildSession(id, role) => AcpInv'
             /\ \A status \in {"active", "idle", "completed"} : Acp!SetStatus(id, status) => AcpInv'
             /\ \A mode \in Acp!Modes : Acp!SetMode(id, mode) => AcpInv'
             /\ Acp!Attach(id) => AcpInv'
             /\ \A n \in 1..2 : Acp!CreatePlan(id, n) => AcpInv'
             /\ Acp!ApplyPatch(id) => AcpInv'
             /\ Acp!RunCommand(id) => AcpInv'
  <2> DEFINE row == Acp!Row(id)
  <2>1. row \in RowType /\ row.id = id /\ id \in Nat
    <3>1. row \in RowType /\ row.id = id
      BY <1>1, PlaceIs
    <3> QED
      BY <3>1 DEF RowType
  <2> HIDE DEF row
  <2>2. ASSUME NEW role \in DOMAIN Roles, Acp!CreateChildSession(id, role)
        PROVE  AcpInv'
    <3>1. /\ Acp!Answer("result") /\ Acp!Insert(Acp!NextSession, Roles[role], id)
          /\ UNCHANGED <<workspace, diffs, open>>
      BY <2>2 DEF Acp!CreateChildSession
    <3>2. PagesInv'
      BY <1>1, <2>1, <3>1, InsertKeeps
    <3> QED
      BY <1>1, <3>1, <3>2, AnswerKeeps DEF AcpInv
  <2>3. ASSUME NEW status \in {"active", "idle", "completed"}, Acp!SetStatus(id, status)
        PROVE  AcpInv'
    <3> DEFINE new == [row EXCEPT !.status = status]
    <3>1. /\ Acp!Touch(new) /\ Acp!Answer("result") /\ UNCHANGED <<workspace, diffs, open>>
      BY <2>3 DEF Acp!SetStatus, row
    <3>2. new \in RowType /\ new.id = id
      BY <2>1 DEF RowType
    <3> HIDE DEF new
    <3> QED
      BY <1>4, <3>1, <3>2
  <2>4. ASSUME NEW mode \in Acp!Modes, Acp!SetMode(id, mode)
        PROVE  AcpInv'
    <3> DEFINE new == [row EXCEPT !.mode = mode]
    <3>1. /\ Acp!Touch(new) /\ Acp!Answer("result") /\ UNCHANGED <<workspace, diffs, open>>
      BY <2>4 DEF Acp!SetMode, row
    <3>2. new \in RowType /\ new.id = id
      BY <2>1 DEF RowType
    <3> HIDE DEF new
    <3> QED
      BY <1>4, <3>1, <3>2
  <2>5. Acp!Attach(id) => AcpInv'
    <3>1. Acp!Attach(id) => /\ Acp!Touch(row) /\ Acp!Answer("result")
                            /\ UNCHANGED <<workspace, diffs, open>>
      BY DEF Acp!Attach, row
    <3> QED
      BY <1>4, <2>1, <3>1
  <2>6. ASSUME NEW n \in 1..2, Acp!CreatePlan(id, n)
        PROVE  AcpInv'
    BY <1>1, <2>6, AnswerKeeps, PagesKept DEF Acp!CreatePlan, AcpInv
  <2>7. Acp!ApplyPatch(id) => AcpInv'
    BY <1>1, ArrivalKeeps, PagesKept DEF Acp!ApplyPatch, AcpInv
  <2>8. Acp!RunCommand(id) => AcpInv'
    BY <1>1, ArrivalKeeps, PagesKept DEF Acp!RunCommand, AcpInv
  <2> QED
    BY <2>2, <2>3, <2>4, <2>5, <2>6, <2>7, <2>8
<1>6. ASSUME NEW plan, NEW step, NEW status, Acp!UpdatePlanStep(plan, step, status)
      PROVE  AcpInv'
  BY <1>1, <1>6, AnswerKeeps, PagesKept DEF Acp!UpdatePlanStep, AcpInv
<1>7. CASE Acp!Refuse
  BY <1>1, <1>7, AnswerKeeps, PagesKept DEF Acp!Refuse, AcpInv
<1>8. CASE Acp!FirstPage
  <2>1. UNCHANGED <<calls, workspace, diffs, open>>
    BY <1>8 DEF Acp!FirstPage
  <2> QED
    BY <1>1, <1>8, <2>1, FirstPageKeeps, PatchesKept DEF AcpInv
<1>9. CASE Acp!NextPage
  <2>1. UNCHANGED <<calls, workspace, diffs, open>>
    BY <1>9 DEF Acp!NextPage
  <2> QED
    BY <1>1, <1>9, <2>1, NextPageKeeps, PatchesKept DEF AcpInv
<1>10. CASE Acp!Close
  BY <1>1, <1>10, PagesKept, PatchesKept DEF Acp!Close, AcpInv
<1>11. ASSUME NEW c \in DOMAIN calls, Acp!Awaited(c)
       PROVE  AcpInv'
  <2>1. UNCHANGED <<sessions, pager>>
    BY <1>11 DEF Acp!Awaited, Acp!PatchRead, Acp!PatchWrites, Acp!PatchRecords, Acp!CommandEnds
  <2> QED
    BY <1>1, <1>11, <2>1, AwaitedKeeps, PagesKept DEF AcpInv
<1> QED
  BY <1>2, <1>3, <1>5, <1>6, <1>7, <1>8, <1>9, <1>10, <1>11 DEF Acp!AcpNext

LEMMA AcpHolds ==
    ASSUME AcpInv
    PROVE  Acp!PagesMissOnlyTouched /\ Acp!DiffsTellTheFile
<1>1. Acp!PagesMissOnlyTouched
  BY DEF AcpInv, PagesInv, PagesAhead
<1>2. Acp!DiffsTellTheFile
  <2>1. PatchesAlone
    BY DEF AcpInv, PatchInv
  <2> QED
    BY <2>1 DEF PatchesAlone, AppliedStay, DiffsChain, Reached, LostIn, LastTold, Acp!DiffsTellTheFile
<1> QED
  BY <1>1, <1>2

-----------------------------------------------------------------------------
(***************************************************************************)
(* What holds in every behaviour.                                          *)
(***************************************************************************)

\* The invariants of the parts.
PartsInv == RefreshInv /\ BrokerInv /\ PlanInv /\ DebuggerInv /\ AcpInv

\* They hold in every behaviour, whatever the other parts do.
THEOREM PartsStayRight == Spec => []PartsInv
<1>1. Init => PartsInv
  BY RefreshStarts, BrokerStarts, PlanStarts, DebuggerStarts, AcpStarts DEF Init, PartsInv
<1>2. PartsInv /\ [Next]_vars => PartsInv'
  <2>1. ASSUME PartsInv, [Next]_vars
        PROVE  PartsInv'
    <3>1. RefreshInv'
      BY <2>1, PartSteps, RefreshStep DEF PartsInv
    <3>2. BrokerInv'
      BY <2>1, PartSteps, BrokerStep DEF PartsInv
    <3>3. PlanInv'
      BY <2>1, PartSteps, PlanStep DEF PartsInv
    <3>4. DebuggerInv'
      BY <2>1, PartSteps, DebuggerStep DEF PartsInv
    <3>5. AcpInv'
      BY <2>1, PartSteps, AcpStep DEF PartsInv
    <3> QED
      BY <3>1, <3>2, <3>3, <3>4, <3>5 DEF PartsInv
  <2> QED
    BY <2>1
<1> QED
  BY <1>1, <1>2, PTL DEF Spec

\* Every lock that is taken from a living launcher lets one more of them at the refresh token, and
\* none is taken before a launcher crashed or was slow; while none was taken a token is presented
\* again only where a failing keyring, a lost answer or a crash stranded it.
THEOREM LaunchersKeepTurns == Spec => []LaunchersTakeTurns
<1>1. PartsInv => LaunchersTakeTurns
  BY RotationHolds DEF PartsInv, LaunchersTakeTurns
<1> QED
  BY <1>1, PartsStayRight, PTL

\* The broker presents a token again only when the first answer to it was lost or a failing store
\* left it there, and a request that is sent again after a refusal carries another token. The last
\* needs that a client which does not withdraw the token of the environment runs only without one.
THEOREM CredentialsStayCurrent ==
    ASSUME EnvKey => OtherClients = {}
    PROVE  Spec => []CredentialsAreCurrent
<1>1. PartsInv => CredentialsAreCurrent
  BY BrokerHolds DEF PartsInv, CredentialsAreCurrent
<1> QED
  BY <1>1, PartsStayRight, PTL

\* Without that: the broker replays no other token, and the providers, which withdraw the one of
\* the environment, retry with another.
THEOREM ProvidersRetryFresh ==
    Spec => [](/\ Broker!NoReplay
               /\ \A c \in Providers : clients[c].at = "resent" => clients[c].token # clients[c].refused)
<1>1. PartsInv =>
          /\ Broker!NoReplay
          /\ \A c \in Providers : clients[c].at = "resent" => clients[c].token # clients[c].refused
  BY BrokerHolds DEF PartsInv
<1> QED
  BY <1>1, PartsStayRight, PTL

\* When nothing executes the current plan any more, its steps have results and its status is
\* theirs; a pause that was answered does not wait, and a replay shows the fold of the events
\* before its cursor; a list read page by page misses only sessions updated meanwhile, however
\* many and whatever the size of a page; and the diffs of a session lead to the file as it is, but
\* for what an unreadable file or a torn write lost.
THEOREM OperatorsSeeTheWork == Spec => []OperatorSeesTheWork
<1>1. PartsInv => OperatorSeesTheWork
  BY SettledHolds, DebuggerHolds, AcpHolds DEF PartsInv, OperatorSeesTheWork
<1> QED
  BY <1>1, PartsStayRight, PTL

\* A step of a plan changes only as one of its own executions goes on.
THEOREM ExecutionsKeepToTheirPlan == Spec => OnlyItsPlan
<1>1. PartsInv /\ [Next]_vars => [PlanMoves]_planVars
  BY PartSteps, PlanStep DEF PartsInv
<1>2. Spec => [][PlanMoves]_planVars
  BY <1>1, PartsStayRight, PTL DEF Spec
<1> QED
  BY <1>2 DEF OnlyItsPlan, Plan!OnlyItsPlan, PlanMoves, Plan!planVars, planVars
==============================================================================
