---------------------------- MODULE PrivateModels ----------------------------
(***************************************************************************)
(* Trainer of planner/train.ts and PrivateModelManager of                  *)
(* planner/private-llm.ts: fine-tuning jobs, and private instances of      *)
(* catalog models, followed by polling until they are usable.              *)
(*                                                                         *)
(* A poll is one step; one that fails changes nothing. Datasets, prices    *)
(* and receipts are left out. A private model is named by the instance     *)
(* that serves it, and Public stands for every model of the catalog.       *)
(***************************************************************************)
EXTENDS Integers, Sequences, FiniteSets

CONSTANTS
    MaxModelCalls,  \* bound: calls of train and of deploy
    MaxCheckpoints  \* bound: checkpoints of a job

VARIABLES
    modelCalls, \* every call: what it does, where it is, its job or instance, what it told
    jobs,       \* the training jobs of the service: status and checkpoints
    instances   \* the private instances at the gateway: state, and whether the catalog lists it

modelVars == <<modelCalls, jobs, instances>>

Public == 0
TrainingTerminal == {"ready", "failed", "cancelled"}
InstanceTerminal == {"running", "failed", "destroyed"}

ModelInit ==
    /\ modelCalls = <<>>
    /\ jobs = <<>>
    /\ instances = <<>>

ModelCall(kind, base, at) ==
    /\ Len(modelCalls) < MaxModelCalls
    /\ modelCalls' = Append(modelCalls, [kind |-> kind, base |-> base, at |-> at, id |-> 0,
                                         told |-> <<>>, model |-> Public])
    /\ UNCHANGED <<jobs, instances>>

Reaches(c, at) == [modelCalls EXCEPT ![c].at = at]

-----------------------------------------------------------------------------
\* Training.

\* The dataset is readable; an unreadable one makes no call.
Train == ModelCall("train", Public, "covenant")

\* fineTune: a private base model is looked up in the catalog first.
FineTune(i) == ModelCall("train", i, "resolving")

\* resolveForInference and the catalog of deploy: the model is listed, or the call fails.
ResolveModel(c) ==
    /\ modelCalls[c].at = "resolving"
    /\ \/ /\ modelCalls[c].base # Public => instances[modelCalls[c].base].listed
          /\ modelCalls' = Reaches(c, "covenant")
       \/ modelCalls' = Reaches(c, "failed")
    /\ UNCHANGED <<jobs, instances>>

\* The covenant does not deny it, or it does, or cannot be asked.
AskCovenant(c) ==
    /\ modelCalls[c].at = "covenant"
    /\ \E at \in {"submitting", "failed"} : modelCalls' = Reaches(c, at)
    /\ UNCHANGED <<jobs, instances>>

NewJob == [status |-> "queued", checkpoints |-> 0]  \* queued: not terminal
NewInstance == [state |-> "provisioning", listed |-> FALSE]

\* The job or the instance is made, and the answer names it or is lost.
Submit(c, answered) ==
    LET trains == modelCalls[c].kind = "train" IN
    /\ modelCalls[c].at = "submitting"
    /\ jobs' = IF trains THEN Append(jobs, NewJob) ELSE jobs
    /\ instances' = IF trains THEN instances ELSE Append(instances, NewInstance)
    /\ modelCalls' = IF answered
                     THEN [modelCalls EXCEPT ![c].at = "monitoring",
                                             ![c].id = Len(IF trains THEN jobs ELSE instances) + 1]
                     ELSE Reaches(c, "failed")

SubmitFails(c) ==
    /\ modelCalls[c].at = "submitting"
    /\ modelCalls' = Reaches(c, "failed")
    /\ UNCHANGED <<jobs, instances>>

\* Checkpoints that were not seen by an earlier poll, in the order of the job.
TellNew(told, checkpoints) ==
    LET new == {k \in 1..checkpoints : \A j \in DOMAIN told : told[j] # k}
        nth(n) == CHOOSE k \in new : Cardinality({j \in new : j <= k}) = n
    IN  told \o [n \in 1..Cardinality(new) |-> nth(n)]

\* monitor of the trainer.
PollJob(c) ==
    LET job == jobs[modelCalls[c].id] IN
    /\ modelCalls[c].kind = "train"
    /\ modelCalls[c].at = "monitoring"
    /\ modelCalls' = [modelCalls EXCEPT
                          ![c].told = TellNew(@, job.checkpoints),
                          ![c].at = IF job.status \in TrainingTerminal THEN job.status ELSE @]
    /\ UNCHANGED <<jobs, instances>>

\* The time is up or the caller aborts; the job or the instance is left as it is.
WatchFails(c) ==
    /\ modelCalls[c].at \in {"monitoring", "listing"}
    /\ modelCalls' = Reaches(c, "failed")
    /\ UNCHANGED <<jobs, instances>>

-----------------------------------------------------------------------------
\* Private instances.

DeployModel == ModelCall("deploy", Public, "resolving")

\* monitor of the manager.
PollInstance(c) ==
    LET state == instances[modelCalls[c].id].state IN
    /\ modelCalls[c].kind = "deploy"
    /\ modelCalls[c].at = "monitoring"
    /\ state \in InstanceTerminal
    /\ modelCalls' = Reaches(c, IF state = "running" THEN "listing" ELSE "failed")
    /\ UNCHANGED <<jobs, instances>>

\* Mutant: any private entry of the catalog will do.
AnyEntry(c) == {i \in DOMAIN instances : instances[i].listed}

\* awaitCatalogEntry: the private entry bound to the instance.
CatalogEntry(c) == {i \in DOMAIN instances : instances[i].listed /\ i = modelCalls[c].id}

PollCatalog(c) ==
    /\ modelCalls[c].at = "listing"
    /\ \E i \in CatalogEntry(c) :
          modelCalls' = [modelCalls EXCEPT ![c].at = "deployed", ![c].model = i]
    /\ UNCHANGED <<jobs, instances>>

-----------------------------------------------------------------------------
\* The service.

JobMoves(j, status) ==
    /\ jobs[j].status \notin TrainingTerminal
    /\ jobs' = [jobs EXCEPT ![j].status = status]
    /\ UNCHANGED <<modelCalls, instances>>

JobCheckpoint(j) ==
    /\ jobs[j].status = "queued"
    /\ jobs[j].checkpoints < MaxCheckpoints
    /\ jobs' = [jobs EXCEPT ![j].checkpoints = @ + 1]
    /\ UNCHANGED <<modelCalls, instances>>

InstanceMoves(i, state) ==
    /\ instances[i].state = "provisioning"
    /\ instances' = [instances EXCEPT ![i].state = state]
    /\ UNCHANGED <<modelCalls, jobs>>

\* The catalog lists an instance that runs, in its own time.
InstanceListed(i) ==
    /\ instances[i].state = "running"
    /\ ~instances[i].listed
    /\ instances' = [instances EXCEPT ![i].listed = TRUE]
    /\ UNCHANGED <<modelCalls, jobs>>

ModelNext ==
    \/ Train \/ DeployModel
    \/ \E i \in DOMAIN instances : FineTune(i) \/ InstanceListed(i)
    \/ \E i \in DOMAIN instances, state \in InstanceTerminal : InstanceMoves(i, state)
    \/ \E j \in DOMAIN jobs : JobCheckpoint(j) \/ \E status \in TrainingTerminal : JobMoves(j, status)
    \/ \E c \in DOMAIN modelCalls :
          \/ ResolveModel(c) \/ AskCovenant(c) \/ SubmitFails(c) \/ PollJob(c) \/ WatchFails(c)
          \/ PollInstance(c) \/ PollCatalog(c)
          \/ \E answered \in BOOLEAN : Submit(c, answered)

ModelSpec == ModelInit /\ [][ModelNext]_modelVars

-----------------------------------------------------------------------------
(***************************************************************************)
(* Properties.                                                             *)
(***************************************************************************)

\* However polls fall between the checkpoints of a job, each is told once and in order, and
\* a training that ends, well or not, with the last word of the job has told all of them; a
\* deploy hands out the private model of the very instance it made, whatever else of the
\* owner's comes up meanwhile.
FollowedToTheEnd ==
    \A c \in DOMAIN modelCalls :
        LET call == modelCalls[c] IN
        /\ call.kind = "train" /\ call.id # 0 =>
              /\ \A k \in DOMAIN call.told : call.told[k] = k
              /\ Len(call.told) <= jobs[call.id].checkpoints
              /\ call.at \in {"ready", "cancelled"} => Len(call.told) = jobs[call.id].checkpoints
        /\ call.at = "deployed" => call.model = call.id /\ instances[call.model].state = "running"
===============================================================================
