------------------------------- MODULE Sandbox -------------------------------
(***************************************************************************)
(* The sandbox service: git clones of a project cluster's repository, each *)
(* a row of the sandboxes table and a directory named by the row's id      *)
(* (internal/service/sandbox.go, cleanup.go, internal/store/store.go).     *)
(*                                                                         *)
(* A gRPC handler is a sequence of single statements and directory         *)
(* operations: there are no transactions and no locks, and every UPDATE    *)
(* names the row by id alone.  Clones run in goroutines that outlive the   *)
(* request, as many as the semaphore has places, with a context that       *)
(* shutdown cancels.                                                       *)
(***************************************************************************)
EXTENDS Naturals, FiniteSets

CONSTANTS
  Clusters,
  Ids,              \* ids of sandboxes, each used once
  NoId,
  Requests,         \* gRPC handlers at work at the same time
  Cleaner,          \* the goroutine of CleanupScheduler
  Places,           \* places of the semaphore: MaxConcurrentClones of them
  MaxCount,         \* Config.MaxCount
  MaxOps,           \* bound on the requests of a behaviour
  MaxStops          \* bound on the times the process ends

ASSUME SandboxAssumption ==
  /\ NoId \notin Ids
  /\ Cleaner \notin Requests
  /\ Clusters # {}
  /\ MaxCount \in Nat /\ MaxOps \in Nat /\ MaxStops \in Nat

VARIABLES
  rows,             \* the sandboxes table; status "none" is no row
  dirs,             \* what is on disk under each id
  actors,           \* where each handler, and the cleanup, stands
  clones,           \* the goroutine holding each place of the semaphore
  up,               \* FALSE once shutdownCtx is cancelled
  ops, stops,       \* requests served, times the process ended
  lost,             \* ids for which a statement or a deletion failed, or the process ended
  tangled           \* ids that two operations have worked on at the same time

vars == <<rows, dirs, actors, clones, up, ops, stops, lost, tangled>>
counters == <<up, ops, stops>>

Actors == Requests \cup {Cleaner}

Rows == [cluster : Clusters, status : {"none", "cloning", "active", "error", "terminating"},
         path : BOOLEAN, fresh : BOOLEAN]

(* id is the sandbox an actor has read or inserted, path whether the row    *)
(* had its path then, todo the sandboxes a list operation still has to do.  *)
ActorStates ==
  [op : {"none", "provision", "terminate", "retry", "brain", "use", "cleanup"},
   at : {"insert", "path", "start", "mark", "rmdir", "clear", "touch", "list", "delete"},
   id : Ids \cup {NoId}, cluster : Clusters, path : BOOLEAN, todo : SUBSET Ids]

CloneStates ==
  [at : {"free", "begun", "git", "cloned", "nodir", "failed", "tidy"}, id : Ids \cup {NoId}]

SomeCluster == CHOOSE c \in Clusters : TRUE
NoRow == [cluster |-> SomeCluster, status |-> "none", path |-> FALSE, fresh |-> FALSE]
NoActor == [op |-> "none", at |-> "insert", id |-> NoId, cluster |-> SomeCluster,
            path |-> FALSE, todo |-> {}]
NoClone == [at |-> "free", id |-> NoId]

Exists(i) == rows[i].status # "none"
Counted == {i \in Ids : rows[i].status \in {"cloning", "active"}}

(* TerminateByBrain works on every sandbox of the brain, listed or not.     *)
ActorOn(a, i) ==
  \/ actors[a].id = i
  \/ i \in actors[a].todo
  \/ actors[a].op = "brain"
CloneOn(s, i) == clones[s].at # "free" /\ clones[s].id = i
WorkedOn(i) == (\E a \in Actors : ActorOn(a, i)) \/ (\E s \in Places : CloneOn(s, i))

Init ==
  /\ rows = [i \in Ids |-> NoRow]
  /\ dirs = [i \in Ids |-> "none"]
  /\ actors = [a \in Actors |-> NoActor]
  /\ clones = [s \in Places |-> NoClone]
  /\ up = TRUE
  /\ ops = 0
  /\ stops = 0
  /\ lost = {}
  /\ tangled = {}

-----------------------------------------------------------------------------
(* Requests begin with what they read.  One whose check fails changes       *)
(* nothing.                                                                 *)

Begin(r, state, worked) ==
  /\ up
  /\ actors[r].op = "none"
  /\ ops < MaxOps
  /\ ops' = ops + 1
  /\ actors' = [actors EXCEPT ![r] = state]
  /\ tangled' = tangled \cup {i \in worked : WorkedOn(i)}
  /\ UNCHANGED <<rows, dirs, clones, up, stops, lost>>

(* No sandbox of the cluster, and the quota is not used up. *)
Provision(r, c) ==
  /\ \A i \in Ids : Exists(i) => rows[i].cluster # c
  /\ Cardinality(Counted) < MaxCount
  /\ Begin(r, [NoActor EXCEPT !.op = "provision", !.cluster = c], {})

(* Mutant: Terminate leaves the directory to somebody else.                 *)
TerminateRowOnly(r, i) ==
  /\ Exists(i)
  /\ Begin(r, [NoActor EXCEPT !.op = "terminate", !.at = "delete", !.id = i,
                              !.path = rows[i].path], {i})

Terminate(r, i) ==
  /\ Exists(i)
  /\ Begin(r, [NoActor EXCEPT !.op = "terminate", !.at = "mark", !.id = i,
                              !.path = rows[i].path], {i})

Retry(r, i) ==
  /\ rows[i].status = "error"
  /\ Begin(r, [NoActor EXCEPT !.op = "retry", !.at = "rmdir", !.id = i,
                              !.path = rows[i].path], {i})

TerminateByBrain(r) ==
  Begin(r, [NoActor EXCEPT !.op = "brain", !.at = "list",
                           !.todo = {i \in Ids : Exists(i) /\ rows[i].path}], Ids)

(* Pull, Checkout and the reading requests: RequireActive. *)
Use(r, i) ==
  /\ rows[i].status = "active"
  /\ Begin(r, [NoActor EXCEPT !.op = "use", !.at = "touch", !.id = i], {})

-----------------------------------------------------------------------------
(* One statement or directory operation at a time. *)

Done(a) == actors' = [actors EXCEPT ![a] = NoActor]
Goto(a, at) == actors' = [actors EXCEPT ![a].at = at]
At(a, at) == actors[a].op # "none" /\ actors[a].at = at

(* UPDATE ... WHERE id: nothing happens to a row that is gone. *)
SetStatus(i, status) ==
  rows' = IF Exists(i) THEN [rows EXCEPT ![i].status = status] ELSE rows

(* A status written with shutdownCtx; a failure is only logged. *)
Record(i, status) ==
  \/ up /\ SetStatus(i, status) /\ UNCHANGED lost
  \/ lost' = lost \cup {i} /\ UNCHANGED rows

(* deleteDirectoryQuietly: a failure is only logged. *)
DeleteQuietly(i) ==
  \/ dirs' = [dirs EXCEPT ![i] = "none"] /\ UNCHANGED lost
  \/ lost' = lost \cup {i} /\ UNCHANGED dirs

(* INSERT; cluster_id is unique.  The row counts as the handler's from here.*)
Insert(a) ==
  /\ At(a, "insert")
  /\ \A j \in Ids : Exists(j) => rows[j].cluster # actors[a].cluster
  /\ \E i \in Ids :
       /\ ~Exists(i) /\ dirs[i] = "none" /\ ~(\E s \in Places : CloneOn(s, i))
       /\ i \notin lost \cup tangled /\ \A b \in Actors : actors[b].id # i
       /\ rows' = [rows EXCEPT ![i] = [cluster |-> actors[a].cluster, status |-> "cloning",
                                       path |-> FALSE, fresh |-> TRUE]]
       /\ actors' = [actors EXCEPT ![a].at = "path", ![a].id = i]
       /\ tangled' = IF \E b \in Actors : actors[b].op = "brain" THEN tangled \cup {i}
                     ELSE tangled
  /\ UNCHANGED <<dirs, clones, counters, lost>>

UpdateSandboxPath(a) ==
  /\ At(a, "path")
  /\ rows' = IF Exists(actors[a].id) THEN [rows EXCEPT ![actors[a].id].path = TRUE] ELSE rows
  /\ Goto(a, "start")
  /\ UNCHANGED <<dirs, clones, counters, lost, tangled>>

(* Mutant: no error is recorded when the semaphore is full.                 *)
StartCloneIfPlace(a) ==
  LET i == actors[a].id IN
  /\ At(a, "start")
  /\ \/ \E s \in Places :
          /\ clones[s].at = "free"
          /\ clones' = [clones EXCEPT ![s] = [at |-> "begun", id |-> i]]
     \/ (\A s \in Places : clones[s].at # "free") /\ UNCHANGED clones
  /\ Done(a)
  /\ UNCHANGED <<rows, dirs, counters, lost, tangled>>

(* startClone: a goroutine if the semaphore has a place, else an error.     *)
StartClone(a) ==
  LET i == actors[a].id IN
  /\ At(a, "start")
  /\ \/ \E s \in Places :
          /\ clones[s].at = "free"
          /\ clones' = [clones EXCEPT ![s] = [at |-> "begun", id |-> i]]
          /\ UNCHANGED <<rows, lost>>
     \/ /\ \A s \in Places : clones[s].at # "free"
        /\ Record(i, "error")
        /\ UNCHANGED clones
  /\ Done(a)
  /\ UNCHANGED <<dirs, counters, tangled>>

(* UpdateStatus, whose error Terminate ignores. *)
MarkTerminating(a) ==
  /\ At(a, "mark")
  /\ SetStatus(actors[a].id, "terminating") \/ UNCHANGED rows
  /\ Goto(a, "rmdir")
  /\ UNCHANGED <<dirs, clones, counters, lost, tangled>>

DeleteDirectory(a) ==
  /\ At(a, "rmdir")
  /\ IF actors[a].path THEN DeleteQuietly(actors[a].id) ELSE UNCHANGED <<dirs, lost>>
  /\ Goto(a, IF actors[a].op = "retry" THEN "clear" ELSE "delete")
  /\ UNCHANGED <<rows, clones, counters, tangled>>

ClearErrorAndSetCloning(a) ==
  /\ At(a, "clear")
  /\ SetStatus(actors[a].id, "cloning")
  /\ Goto(a, "start")
  /\ UNCHANGED <<dirs, clones, counters, lost, tangled>>

(* The end of Terminate, and of one round of the cleanup. *)
Delete(a) ==
  /\ At(a, "delete")
  /\ actors[a].op = "cleanup" => up
  /\ rows' = [rows EXCEPT ![actors[a].id] = NoRow]
  /\ IF actors[a].op = "cleanup"
       THEN actors' = [actors EXCEPT ![a].at = "list", ![a].id = NoId]
       ELSE Done(a)
  /\ UNCHANGED <<dirs, clones, counters, lost, tangled>>

(* UpdateAfterPull, UpdateAfterCheckout, UpdateLastAccessed. *)
Touch(a) ==
  /\ At(a, "touch")
  /\ rows' = IF Exists(actors[a].id) THEN [rows EXCEPT ![actors[a].id].fresh = TRUE] ELSE rows
  /\ Done(a)
  /\ UNCHANGED <<dirs, clones, counters, lost, tangled>>

(* The loop of TerminateByBrain, then DeleteByBrainID. *)
BrainLoop(a) ==
  /\ At(a, "list") /\ actors[a].op = "brain"
  /\ \/ \E i \in actors[a].todo :
          /\ DeleteQuietly(i)
          /\ actors' = [actors EXCEPT ![a].todo = @ \ {i}]
          /\ UNCHANGED rows
     \/ /\ actors[a].todo = {}
        /\ rows' = [i \in Ids |-> NoRow]
        /\ Done(a)
        /\ UNCHANGED <<dirs, lost>>
  /\ UNCHANGED <<clones, counters, tangled>>

(* A statement fails: the database, or a client that is gone.  The request  *)
(* ends, the cleanup goes on with the next sandbox.                         *)
FailStatement(a) ==
  /\ actors[a].op # "none" /\ actors[a].at \notin {"start", "rmdir", "mark"}
  /\ actors[a].op = "cleanup" => actors[a].at = "delete"
  /\ actors[a].op = "brain" => actors[a].todo = {}
  /\ lost' = lost \cup {i \in Ids : actors[a].id = i \/ actors[a].op = "brain"}
  /\ IF actors[a].op = "cleanup"
       THEN actors' = [actors EXCEPT ![a].at = "list", ![a].id = NoId]
       ELSE Done(a)
  /\ UNCHANGED <<rows, dirs, clones, counters, tangled>>

-----------------------------------------------------------------------------
(* doClone *)

CloneGoto(s, at) == clones' = [clones EXCEPT ![s].at = at]
CloneDone(s) == clones' = [clones EXCEPT ![s] = NoClone]

(* git refuses a target that is there already. *)
BeginGit(s) ==
  /\ clones[s].at = "begun"
  /\ \/ dirs[clones[s].id] = "none" /\ CloneGoto(s, "git")
        /\ dirs' = [dirs EXCEPT ![clones[s].id] = "partial"]
     \/ dirs[clones[s].id] # "none" /\ CloneGoto(s, "failed") /\ UNCHANGED dirs
     \/ CloneGoto(s, "nodir") /\ UNCHANGED dirs
  /\ UNCHANGED <<rows, actors, counters, lost, tangled>>

(* Mutant: the error of git.Clone is not looked at.                         *)
EndGitUnchecked(s) ==
  /\ clones[s].at = "git"
  /\ CloneGoto(s, "cloned")
  /\ \/ dirs[clones[s].id] = "partial" /\ dirs' = [dirs EXCEPT ![clones[s].id] = "repo"]
     \/ UNCHANGED dirs
  /\ UNCHANGED <<rows, actors, counters, lost, tangled>>

(* The clone ends within CloneTimeoutSec; a repository over the size limit  *)
(* is treated like a failure.                                               *)
EndGit(s) ==
  /\ clones[s].at = "git"
  /\ \/ /\ dirs[clones[s].id] = "partial"
        /\ dirs' = [dirs EXCEPT ![clones[s].id] = "repo"]
        /\ CloneGoto(s, "cloned")
     \/ CloneGoto(s, "failed") /\ UNCHANGED dirs
  /\ UNCHANGED <<rows, actors, counters, lost, tangled>>

(* UpdateAfterClone *)
RecordActive(s) ==
  /\ clones[s].at = "cloned"
  /\ Record(clones[s].id, "active")
  /\ CloneDone(s)
  /\ UNCHANGED <<dirs, actors, counters, tangled>>

(* Mutant: a directory that could not be made is only logged.               *)
RecordCloneError(s) ==
  /\ clones[s].at \in {"failed", "nodir"}
  /\ IF clones[s].at = "failed"
       THEN Record(clones[s].id, "error") /\ CloneGoto(s, "tidy")
       ELSE UNCHANGED <<rows, lost>> /\ CloneDone(s)
  /\ UNCHANGED <<dirs, actors, counters, tangled>>

(* UpdateStatusWithError *)
RecordError(s) ==
  /\ clones[s].at \in {"failed", "nodir"}
  /\ Record(clones[s].id, "error")
  /\ IF clones[s].at = "failed" THEN CloneGoto(s, "tidy") ELSE CloneDone(s)
  /\ UNCHANGED <<dirs, actors, counters, tangled>>

TidyUp(s) ==
  /\ clones[s].at = "tidy"
  /\ DeleteQuietly(clones[s].id)
  /\ CloneDone(s)
  /\ UNCHANGED <<rows, actors, counters, tangled>>

-----------------------------------------------------------------------------
(* CleanupScheduler *)

(* StaleDays pass without a touch. *)
Age(i) ==
  /\ rows[i].status = "active" /\ rows[i].fresh
  /\ rows' = [rows EXCEPT ![i].fresh = FALSE]
  /\ UNCHANGED <<dirs, actors, clones, counters, lost, tangled>>

FindStale ==
  LET stale == {i \in Ids : rows[i].status = "active" /\ ~rows[i].fresh} IN
  /\ up
  /\ actors[Cleaner].op = "none"
  /\ stale # {}
  /\ actors' = [actors EXCEPT ![Cleaner] =
                  [NoActor EXCEPT !.op = "cleanup", !.at = "list", !.path = TRUE, !.todo = stale]]
  /\ tangled' = tangled \cup {i \in stale : WorkedOn(i)}
  /\ UNCHANGED <<rows, dirs, clones, counters, lost>>

CleanupLoop ==
  /\ At(Cleaner, "list")
  /\ \/ \E i \in actors[Cleaner].todo :
          actors' = [actors EXCEPT ![Cleaner].at = "rmdir", ![Cleaner].id = i,
                                   ![Cleaner].todo = @ \ {i}]
     \/ actors[Cleaner].todo = {} /\ Done(Cleaner)
  /\ UNCHANGED <<rows, dirs, clones, counters, lost, tangled>>

-----------------------------------------------------------------------------
(* SIGTERM cancels shutdownCtx and lets the handlers finish. *)
Shutdown ==
  /\ up /\ stops < MaxStops
  /\ up' = FALSE
  /\ UNCHANGED <<rows, dirs, actors, clones, ops, stops, lost, tangled>>

(* The process ends, whatever it was doing, and starts again.  main starts  *)
(* neither clones nor deletions anew.                                       *)
Restart ==
  /\ stops < MaxStops
  /\ stops' = stops + 1
  /\ up' = TRUE
  /\ actors' = [a \in Actors |-> NoActor]
  /\ clones' = [s \in Places |-> NoClone]
  /\ lost' = lost \cup {i \in Ids : WorkedOn(i)}
  /\ UNCHANGED <<rows, dirs, ops, tangled>>

Serve(r) ==
  \/ \E c \in Clusters : Provision(r, c)
  \/ \E i \in Ids : Terminate(r, i)
  \/ \E i \in Ids : Retry(r, i)
  \/ TerminateByBrain(r)
  \/ \E i \in Ids : Use(r, i)

Step(a) ==
  \/ Insert(a) \/ UpdateSandboxPath(a) \/ StartClone(a)
  \/ MarkTerminating(a) \/ DeleteDirectory(a) \/ ClearErrorAndSetCloning(a) \/ Delete(a)
  \/ Touch(a) \/ BrainLoop(a) \/ FailStatement(a)

Clone(s) == BeginGit(s) \/ EndGit(s) \/ RecordActive(s) \/ RecordError(s) \/ TidyUp(s)

Next ==
  \/ \E r \in Requests : Serve(r)
  \/ \E a \in Actors : Step(a)
  \/ \E s \in Places : Clone(s)
  \/ \E i \in Ids : Age(i)
  \/ FindStale
  \/ CleanupLoop
  \/ Shutdown
  \/ Restart

Spec == Init /\ [][Next]_vars

(* Handlers run, statements return, git ends by its timeout. *)
FairSpec ==
  /\ Spec
  /\ \A a \in Actors : WF_vars(Step(a))
  /\ \A s \in Places : WF_vars(Clone(s))
  /\ WF_vars(CleanupLoop)

-----------------------------------------------------------------------------
TypeOK ==
  /\ rows \in [Ids -> Rows]
  /\ dirs \in [Ids -> {"none", "partial", "repo"}]
  /\ actors \in [Actors -> ActorStates]
  /\ clones \in [Places -> CloneStates]
  /\ up \in BOOLEAN
  /\ ops \in Nat /\ stops \in Nat
  /\ lost \in SUBSET Ids /\ tangled \in SUBSET Ids

(* A handler that will start the clone, and a goroutine that has yet to     *)
(* record how it ended.                                                     *)
HandlerOwns(a, i) ==
  /\ actors[a].id = i
  /\ actors[a].op \in {"provision", "retry"} /\ actors[a].at \in {"path", "start"}
CloneOwns(s, i) ==
  clones[s].id = i /\ clones[s].at \in {"begun", "git", "cloned", "nodir", "failed"}
Owner(i) == (\E a \in Actors : HandlerOwns(a, i)) \/ (\E s \in Places : CloneOwns(s, i))

(* A sandbox is never left in "cloning" with nobody to take it out, however *)
(* requests for it race, unless a statement about it failed or the process  *)
(* ended.  Nothing else can: Retry wants "error", the cleanup "active".     *)
CloningOwned == \A i \in Ids : rows[i].status = "cloning" /\ i \notin lost => Owner(i)

(* Somebody is about to delete the sandbox. *)
Deleting(i) ==
  \E a \in Actors : ActorOn(a, i) /\ actors[a].op \in {"terminate", "brain", "cleanup"}

(* Unless two operations have worked on a sandbox at the same time, an      *)
(* active one has its repository on disk...                                 *)
ActiveHasRepo ==
  \A i \in Ids \ (lost \cup tangled) :
    rows[i].status = "active" => dirs[i] = "repo" \/ Deleting(i)

(* ... and a directory has its row: nothing else ever finds and deletes it. *)
NoOrphans ==
  \A i \in Ids \ (lost \cup tangled) :
    dirs[i] # "none" => Exists(i) \/ WorkedOn(i)

(* Rows and directories match, though nothing but the order of statements   *)
(* and directory operations keeps them together.                            *)
DirsMatchRows == ActiveHasRepo /\ NoOrphans

(* A clone ends one way or another. *)
CloneSettles ==
  \A i \in Ids : rows[i].status = "cloning" ~> rows[i].status # "cloning" \/ i \in lost

=============================================================================
