--------------------------- MODULE SandboxProofs ---------------------------
(***************************************************************************)
(* Theorems of Sandbox, for any number of clusters, handlers and places of *)
(* the semaphore: the types, that a sandbox in "cloning" has somebody who  *)
(* will take it out, that an active one has its clone on disk, and that no *)
(* clone on disk is without its row.                                       *)
(***************************************************************************)
EXTENDS Sandbox, TLAPS

USE SandboxAssumption

(* CloningOwned leans on which operation stands where: only Provision and   *)
(* Retry ever reach startClone, and only they set a status of "cloning".    *)
(* TypeOK leans on ids being known wherever one is used.                    *)
HandlersPlaced ==
  \A a \in Actors : actors[a].op # "none" =>
    /\ actors[a].at \in {"insert", "path"} => actors[a].op = "provision"
    /\ actors[a].at = "clear" => actors[a].op = "retry"
    /\ actors[a].at \notin {"insert", "list"} => actors[a].id \in Ids
ClonesPlaced == \A s \in Places : clones[s].at # "free" => clones[s].id \in Ids
TypeInv == TypeOK /\ HandlersPlaced /\ ClonesPlaced

-----------------------------------------------------------------------------
(* Null records. *)

LEMMA NullTypes ==
  /\ SomeCluster \in Clusters /\ NoRow \in Rows
  /\ NoActor \in ActorStates /\ NoClone \in CloneStates
<1>1. SomeCluster \in Clusters
  BY DEF SomeCluster
<1> QED
  BY <1>1 DEF NoRow, Rows, NoActor, ActorStates, NoClone, CloneStates

(* The stages a goroutine steps to. *)
GoroutineStages == {"git", "cloned", "nodir", "failed", "tidy"}

(* Changes to one row, one actor or one place that keep the types. *)
LEMMA RowType ==
  ASSUME TypeOK, NEW i, NEW r \in Rows
  PROVE  [rows EXCEPT ![i] = r] \in [Ids -> Rows]
BY DEF TypeOK

LEMMA StatusType ==
  ASSUME TypeOK, NEW i, NEW status \in {"cloning", "active", "error", "terminating"},
         SetStatus(i, status)
  PROVE  rows' \in [Ids -> Rows]
BY DEF TypeOK, SetStatus, Rows

LEMMA ActorType ==
  ASSUME TypeOK, NEW a, NEW x \in ActorStates
  PROVE  [actors EXCEPT ![a] = x] \in [Actors -> ActorStates]
BY DEF TypeOK

LEMMA GotoType ==
  ASSUME TypeOK, NEW a \in Actors,
         NEW at \in {"path", "start", "mark", "rmdir", "clear", "touch", "list", "delete"},
         Goto(a, at)
  PROVE  actors' \in [Actors -> ActorStates]
BY DEF TypeOK, Goto, ActorStates

LEMMA DoneType ==
  ASSUME TypeOK, NEW a \in Actors, Done(a)
  PROVE  actors' \in [Actors -> ActorStates]
BY NullTypes, ActorType DEF Done

LEMMA ClonesType ==
  ASSUME TypeOK, NEW s \in Places,
         \/ \E at \in GoroutineStages : CloneGoto(s, at)
         \/ CloneDone(s)
  PROVE  clones' \in [Places -> CloneStates]
BY NullTypes DEF TypeOK, CloneGoto, CloneDone, CloneStates, GoroutineStages

LEMMA RecordType ==
  ASSUME TypeOK, NEW i \in Ids, NEW status \in {"active", "error"},
         Record(i, status)
  PROVE  rows' \in [Ids -> Rows] /\ lost' \in SUBSET Ids
BY StatusType DEF TypeOK, Record


LEMMA QuietlyType ==
  ASSUME TypeOK, NEW i \in Ids, DeleteQuietly(i)
  PROVE  dirs' \in [Ids -> {"none", "partial", "repo"}] /\ lost' \in SUBSET Ids
BY DEF TypeOK, DeleteQuietly

(* The end of a handler, or of one round of the cleanup. *)
LEMMA RoundType ==
  ASSUME TypeInv, NEW a \in Actors,
         IF actors[a].op = "cleanup"
           THEN actors' = [actors EXCEPT ![a].at = "list", ![a].id = NoId]
           ELSE Done(a)
  PROVE  actors' \in [Actors -> ActorStates] /\ HandlersPlaced'
<1> USE DEF TypeInv
<1>1. CASE Done(a)
  <2>1. actors' \in [Actors -> ActorStates]
    BY <1>1, DoneType
  <2> QED
    BY <1>1, <2>1 DEF Done, NoActor, TypeOK, HandlersPlaced
<1>2. CASE actors' = [actors EXCEPT ![a].at = "list", ![a].id = NoId]
  <2> DEFINE x == [actors[a] EXCEPT !.at = "list", !.id = NoId]
  <2>1. x \in ActorStates /\ x.at = "list"
    BY DEF TypeOK, ActorStates
  <2>2. actors' = [actors EXCEPT ![a] = x]
    BY <1>2
  <2> HIDE DEF x
  <2>3. actors' \in [Actors -> ActorStates]
    BY <2>1, <2>2, ActorType
  <2> QED
    BY <2>1, <2>2 DEF TypeOK, HandlersPlaced
<1> QED
  BY <1>1, <1>2

LEMMA BeginType ==
  ASSUME TypeInv, NEW r \in Requests, NEW state \in ActorStates, NEW worked \in SUBSET Ids,
         Begin(r, state, worked),
         /\ state.at \in {"insert", "path"} => state.op = "provision"
         /\ state.at = "clear" => state.op = "retry"
         /\ state.at \notin {"insert", "list"} => state.id \in Ids
  PROVE  TypeInv'
<1> USE DEF Begin, TypeInv, Actors
<1>1. actors' \in [Actors -> ActorStates]
  BY ActorType
<1>2. TypeOK'
  BY <1>1 DEF TypeOK
<1>3. HandlersPlaced' /\ ClonesPlaced'
  BY DEF TypeOK, HandlersPlaced, ClonesPlaced
<1> QED
  BY <1>2, <1>3

LEMMA ServeType ==
  ASSUME TypeInv, NEW r \in Requests, Serve(r)
  PROVE  TypeInv'
<1> USE NullTypes
<1>1. ASSUME NEW c \in Clusters, Provision(r, c) PROVE TypeInv'
  <2> DEFINE x == [NoActor EXCEPT !.op = "provision", !.cluster = c]
  <2>1. x \in ActorStates /\ x.op = "provision" /\ x.at = "insert"
    BY DEF ActorStates, NoActor
  <2>2. Begin(r, x, {})
    BY <1>1 DEF Provision
  <2> HIDE DEF x
  <2> QED
    BY <2>1, <2>2, BeginType
<1>2. ASSUME NEW i \in Ids, Terminate(r, i) PROVE TypeInv'
  <2> DEFINE x == [NoActor EXCEPT !.op = "terminate", !.at = "mark", !.id = i,
                                  !.path = rows[i].path]
  <2>1. x \in ActorStates /\ x.at = "mark" /\ x.id = i
    BY DEF ActorStates, NoActor, TypeInv, TypeOK, Rows
  <2>2. Begin(r, x, {i})
    BY <1>2 DEF Terminate
  <2> HIDE DEF x
  <2> QED
    BY <2>1, <2>2, BeginType
<1>3. ASSUME NEW i \in Ids, Retry(r, i) PROVE TypeInv'
  <2> DEFINE x == [NoActor EXCEPT !.op = "retry", !.at = "rmdir", !.id = i,
                                  !.path = rows[i].path]
  <2>1. x \in ActorStates /\ x.at = "rmdir" /\ x.id = i
    BY DEF ActorStates, NoActor, TypeInv, TypeOK, Rows
  <2>2. Begin(r, x, {i})
    BY <1>3 DEF Retry
  <2> HIDE DEF x
  <2> QED
    BY <2>1, <2>2, BeginType
<1>4. ASSUME TerminateByBrain(r) PROVE TypeInv'
  <2> DEFINE x == [NoActor EXCEPT !.op = "brain", !.at = "list",
                                  !.todo = {i \in Ids : Exists(i) /\ rows[i].path}]
  <2>1. x \in ActorStates /\ x.at = "list"
    BY DEF ActorStates, NoActor
  <2>2. Begin(r, x, Ids)
    BY <1>4 DEF TerminateByBrain
  <2> HIDE DEF x
  <2> QED
    BY <2>1, <2>2, BeginType
<1>5. ASSUME NEW i \in Ids, Use(r, i) PROVE TypeInv'
  <2> DEFINE x == [NoActor EXCEPT !.op = "use", !.at = "touch", !.id = i]
  <2>1. x \in ActorStates /\ x.at = "touch" /\ x.id = i
    BY DEF ActorStates, NoActor
  <2>2. Begin(r, x, {})
    BY <1>5 DEF Use
  <2> HIDE DEF x
  <2> QED
    BY <2>1, <2>2, BeginType
<1> QED
  BY <1>1, <1>2, <1>3, <1>4, <1>5 DEF Serve

LEMMA StepType ==
  ASSUME TypeInv, NEW a \in Actors, Step(a)
  PROVE  TypeInv'
<1> USE DEF TypeInv, At, counters
<1>1. ASSUME Insert(a) PROVE TypeInv'
  <2>1. PICK i \in Ids :
          /\ rows' = [rows EXCEPT ![i] = [cluster |-> actors[a].cluster, status |-> "cloning",
                                          path |-> FALSE, fresh |-> TRUE]]
          /\ actors' = [actors EXCEPT ![a].at = "path", ![a].id = i]
          /\ tangled' = tangled \cup {i} \/ tangled' = tangled
    BY <1>1 DEF Insert
  <2> DEFINE x == [actors[a] EXCEPT !.at = "path", !.id = i]
  <2>x. x \in ActorStates /\ x.at = "path" /\ x.id = i /\ x.op = actors[a].op
    BY DEF TypeOK, ActorStates
  <2>y. actors' = [actors EXCEPT ![a] = x]
    BY <2>1
  <2> HIDE DEF x
  <2>2. [cluster |-> actors[a].cluster, status |-> "cloning", path |-> FALSE, fresh |-> TRUE]
          \in Rows
    BY DEF TypeOK, ActorStates, Rows
  <2>3. rows' \in [Ids -> Rows]
    BY <2>1, <2>2, RowType
  <2>4. actors' \in [Actors -> ActorStates]
    BY <2>x, <2>y, ActorType
  <2>5. TypeOK'
    BY <1>1, <2>1, <2>3, <2>4 DEF Insert, TypeOK
  <2>6. HandlersPlaced' /\ ClonesPlaced'
    BY <1>1, <2>x, <2>y DEF Insert, TypeOK, HandlersPlaced, ClonesPlaced
  <2> QED
    BY <2>5, <2>6
<1>2. ASSUME UpdateSandboxPath(a) PROVE TypeInv'
  <2>1. rows' \in [Ids -> Rows]
    BY <1>2 DEF UpdateSandboxPath, TypeOK, Rows
  <2>2. actors' \in [Actors -> ActorStates]
    BY <1>2, GotoType DEF UpdateSandboxPath
  <2>3. TypeOK'
    BY <1>2, <2>1, <2>2 DEF UpdateSandboxPath, TypeOK
  <2>4. HandlersPlaced' /\ ClonesPlaced'
    BY <1>2 DEF UpdateSandboxPath, Goto, TypeOK, HandlersPlaced, ClonesPlaced
  <2> QED
    BY <2>3, <2>4
<1>3. ASSUME StartClone(a) PROVE TypeInv'
  <2>1. actors[a].id \in Ids
    BY <1>3 DEF StartClone, HandlersPlaced
  <2>2. actors' \in [Actors -> ActorStates]
    BY <1>3, DoneType DEF StartClone
  <2>3. CASE \E s \in Places :
               /\ clones[s].at = "free"
               /\ clones' = [clones EXCEPT ![s] = [at |-> "begun", id |-> actors[a].id]]
               /\ UNCHANGED <<rows, lost>>
    <3>1. clones' \in [Places -> CloneStates]
      BY <2>1, <2>3 DEF TypeOK, CloneStates
    <3>2. TypeOK'
      BY <1>3, <2>2, <2>3, <3>1 DEF StartClone, TypeOK
    <3>3. ClonesPlaced'
      BY <2>1, <2>3 DEF TypeOK, ClonesPlaced
    <3> QED
      BY <1>3, <3>2, <3>3 DEF StartClone, Done, NoActor, TypeOK, HandlersPlaced
  <2>4. CASE Record(actors[a].id, "error") /\ UNCHANGED clones
    <3>1. rows' \in [Ids -> Rows] /\ lost' \in SUBSET Ids
      BY <2>1, <2>4, RecordType
    <3>2. TypeOK'
      BY <1>3, <2>2, <2>4, <3>1 DEF StartClone, TypeOK
    <3> QED
      BY <1>3, <2>4, <3>2 DEF StartClone, Done, NoActor, TypeOK, HandlersPlaced, ClonesPlaced
  <2> QED
    BY <1>3, <2>3, <2>4 DEF StartClone
<1>4. ASSUME MarkTerminating(a) PROVE TypeInv'
  <2>1. rows' \in [Ids -> Rows]
    BY <1>4, StatusType DEF MarkTerminating, TypeOK
  <2>2. actors' \in [Actors -> ActorStates]
    BY <1>4, GotoType DEF MarkTerminating
  <2>3. TypeOK'
    BY <1>4, <2>1, <2>2 DEF MarkTerminating, TypeOK
  <2>4. HandlersPlaced' /\ ClonesPlaced'
    BY <1>4 DEF MarkTerminating, Goto, TypeOK, HandlersPlaced, ClonesPlaced
  <2> QED
    BY <2>3, <2>4
<1>5. ASSUME DeleteDirectory(a) PROVE TypeInv'
  <2>1. actors[a].id \in Ids
    BY <1>5 DEF DeleteDirectory, HandlersPlaced
  <2>2. dirs' \in [Ids -> {"none", "partial", "repo"}] /\ lost' \in SUBSET Ids
    BY <1>5, <2>1, QuietlyType DEF DeleteDirectory, TypeOK
  <2>3. actors' \in [Actors -> ActorStates]
    BY <1>5, GotoType DEF DeleteDirectory
  <2>4. TypeOK'
    BY <1>5, <2>2, <2>3 DEF DeleteDirectory, TypeOK
  <2>5. HandlersPlaced' /\ ClonesPlaced'
    BY <1>5, <2>1 DEF DeleteDirectory, Goto, TypeOK, HandlersPlaced, ClonesPlaced
  <2> QED
    BY <2>4, <2>5
<1>6. ASSUME ClearErrorAndSetCloning(a) PROVE TypeInv'
  <2>1. rows' \in [Ids -> Rows]
    BY <1>6, StatusType DEF ClearErrorAndSetCloning
  <2>2. actors' \in [Actors -> ActorStates]
    BY <1>6, GotoType DEF ClearErrorAndSetCloning
  <2>3. TypeOK'
    BY <1>6, <2>1, <2>2 DEF ClearErrorAndSetCloning, TypeOK
  <2>4. HandlersPlaced' /\ ClonesPlaced'
    BY <1>6 DEF ClearErrorAndSetCloning, Goto, TypeOK, HandlersPlaced, ClonesPlaced
  <2> QED
    BY <2>3, <2>4
<1>7. ASSUME Delete(a) PROVE TypeInv'
  <2>1. rows' \in [Ids -> Rows]
    BY <1>7, NullTypes, RowType DEF Delete
  <2>2. actors' \in [Actors -> ActorStates] /\ HandlersPlaced'
    BY <1>7, RoundType DEF Delete
  <2>3. TypeOK'
    BY <1>7, <2>1, <2>2 DEF Delete, TypeOK
  <2>4. ClonesPlaced'
    BY <1>7 DEF Delete, ClonesPlaced
  <2> QED
    BY <2>2, <2>3, <2>4
<1>8. ASSUME Touch(a) PROVE TypeInv'
  <2>1. rows' \in [Ids -> Rows]
    BY <1>8 DEF Touch, TypeOK, Rows
  <2>2. actors' \in [Actors -> ActorStates]
    BY <1>8, DoneType DEF Touch
  <2>3. TypeOK'
    BY <1>8, <2>1, <2>2 DEF Touch, TypeOK
  <2>4. HandlersPlaced' /\ ClonesPlaced'
    BY <1>8 DEF Touch, Done, NoActor, TypeOK, HandlersPlaced, ClonesPlaced
  <2> QED
    BY <2>3, <2>4
<1>9. ASSUME BrainLoop(a) PROVE TypeInv'
  <2>1. CASE \E i \in actors[a].todo :
               /\ DeleteQuietly(i)
               /\ actors' = [actors EXCEPT ![a].todo = @ \ {i}]
               /\ UNCHANGED rows
    <3>1. PICK i \in actors[a].todo :
            /\ DeleteQuietly(i)
            /\ actors' = [actors EXCEPT ![a].todo = @ \ {i}]
            /\ UNCHANGED rows
      BY <2>1
    <3>2. i \in Ids
      BY DEF TypeOK, ActorStates
    <3>3. dirs' \in [Ids -> {"none", "partial", "repo"}] /\ lost' \in SUBSET Ids
      BY <3>1, <3>2, QuietlyType
    <3>4. actors' \in [Actors -> ActorStates]
      BY <3>1 DEF TypeOK, ActorStates
    <3>5. TypeOK'
      BY <1>9, <3>1, <3>3, <3>4 DEF BrainLoop, TypeOK
    <3>6. HandlersPlaced' /\ ClonesPlaced'
      BY <1>9, <3>1 DEF BrainLoop, TypeOK, HandlersPlaced, ClonesPlaced
    <3> QED
      BY <3>5, <3>6
  <2>2. CASE rows' = [i \in Ids |-> NoRow] /\ Done(a) /\ UNCHANGED <<dirs, lost>>
    <3>1. rows' \in [Ids -> Rows]
      BY <2>2, NullTypes
    <3>2. actors' \in [Actors -> ActorStates]
      BY <2>2, DoneType
    <3>3. TypeOK'
      BY <1>9, <2>2, <3>1, <3>2 DEF BrainLoop, TypeOK
    <3>4. HandlersPlaced' /\ ClonesPlaced'
      BY <1>9, <2>2 DEF BrainLoop, Done, NoActor, TypeOK, HandlersPlaced, ClonesPlaced
    <3> QED
      BY <3>3, <3>4
  <2> QED
    BY <1>9, <2>1, <2>2 DEF BrainLoop
<1>10. ASSUME FailStatement(a) PROVE TypeInv'
  <2>1. actors' \in [Actors -> ActorStates] /\ HandlersPlaced'
    BY <1>10, RoundType DEF FailStatement
  <2>2. TypeOK'
    BY <1>10, <2>1 DEF FailStatement, TypeOK
  <2>3. ClonesPlaced'
    BY <1>10 DEF FailStatement, ClonesPlaced
  <2> QED
    BY <2>1, <2>2, <2>3
<1> QED
  BY <1>1, <1>2, <1>3, <1>4, <1>5, <1>6, <1>7, <1>8, <1>9, <1>10 DEF Step

LEMMA CloneType ==
  ASSUME TypeInv, NEW s \in Places, Clone(s)
  PROVE  TypeInv'
<1> USE DEF TypeInv, counters
<1>1. clones[s].id \in Ids /\ clones[s].at # "free"
  BY DEF Clone, BeginGit, EndGit, RecordActive, RecordError, TidyUp, ClonesPlaced
<1>c. (\E at \in GoroutineStages : CloneGoto(s, at)) \/ CloneDone(s)
  <2>1. CASE BeginGit(s)
    BY <2>1 DEF BeginGit, GoroutineStages
  <2>2. CASE EndGit(s)
    BY <2>2 DEF EndGit, GoroutineStages
  <2>3. CASE RecordActive(s) \/ TidyUp(s)
    BY <2>3 DEF RecordActive, TidyUp
  <2>4. CASE RecordError(s)
    BY <2>4 DEF RecordError, GoroutineStages
  <2> QED
    BY <2>1, <2>2, <2>3, <2>4 DEF Clone
<1>2. clones' \in [Places -> CloneStates]
  BY <1>c, ClonesType
<1>3. ClonesPlaced'
  BY <1>1, <1>c DEF CloneGoto, CloneDone, GoroutineStages, NoClone, ClonesPlaced, TypeOK,
                    CloneStates
<1>4. UNCHANGED <<actors, tangled, counters>>
  BY DEF Clone, BeginGit, EndGit, RecordActive, RecordError, TidyUp
<1>5. CASE BeginGit(s) \/ EndGit(s)
  BY <1>2, <1>3, <1>4, <1>5 DEF BeginGit, EndGit, TypeOK, HandlersPlaced
<1>6. CASE RecordActive(s) \/ RecordError(s)
  <2>1. rows' \in [Ids -> Rows] /\ lost' \in SUBSET Ids
    BY <1>1, <1>6, RecordType DEF RecordActive, RecordError
  <2> QED
    BY <1>2, <1>3, <1>4, <1>6, <2>1 DEF RecordActive, RecordError, TypeOK, HandlersPlaced
<1>7. CASE TidyUp(s)
  <2>1. dirs' \in [Ids -> {"none", "partial", "repo"}] /\ lost' \in SUBSET Ids
    BY <1>1, <1>7, QuietlyType DEF TidyUp
  <2> QED
    BY <1>2, <1>3, <1>4, <1>7, <2>1 DEF TidyUp, TypeOK, HandlersPlaced
<1> QED
  BY <1>5, <1>6, <1>7 DEF Clone

LEMMA TypeStep == TypeInv /\ [Next]_vars => TypeInv'
<1> SUFFICES ASSUME TypeInv, [Next]_vars PROVE TypeInv'
  OBVIOUS
<1> USE DEF TypeInv, counters
<1>1. ASSUME NEW r \in Requests, Serve(r) PROVE TypeInv'
  BY <1>1, ServeType
<1>2. ASSUME NEW a \in Actors, Step(a) PROVE TypeInv'
  BY <1>2, StepType
<1>3. ASSUME NEW s \in Places, Clone(s) PROVE TypeInv'
  BY <1>3, CloneType
<1>4. ASSUME NEW i \in Ids, Age(i) PROVE TypeInv'
  <2>1. rows' \in [Ids -> Rows]
    BY <1>4 DEF Age, TypeOK, Rows
  <2> QED
    BY <1>4, <2>1 DEF Age, TypeOK, HandlersPlaced, ClonesPlaced
<1>5. CASE FindStale
  <2> DEFINE stale == {i \in Ids : rows[i].status = "active" /\ ~rows[i].fresh}
             x == [NoActor EXCEPT !.op = "cleanup", !.at = "list", !.path = TRUE, !.todo = stale]
  <2>1. x \in ActorStates /\ x.at = "list"
    BY NullTypes DEF ActorStates, NoActor
  <2>2. actors' = [actors EXCEPT ![Cleaner] = x]
    BY <1>5 DEF FindStale
  <2> HIDE DEF x
  <2>3. actors' \in [Actors -> ActorStates]
    BY <2>1, <2>2, ActorType
  <2>4. TypeOK'
    BY <1>5, <2>3 DEF FindStale, TypeOK
  <2> QED
    BY <1>5, <2>1, <2>2, <2>4 DEF FindStale, TypeOK, HandlersPlaced, ClonesPlaced
<1>6. CASE CleanupLoop
  <2>1. CASE \E i \in actors[Cleaner].todo :
               actors' = [actors EXCEPT ![Cleaner].at = "rmdir", ![Cleaner].id = i,
                                        ![Cleaner].todo = @ \ {i}]
    <3>1. PICK i \in actors[Cleaner].todo :
            actors' = [actors EXCEPT ![Cleaner].at = "rmdir", ![Cleaner].id = i,
                                     ![Cleaner].todo = @ \ {i}]
      BY <2>1
    <3> DEFINE x == [actors[Cleaner] EXCEPT !.at = "rmdir", !.id = i, !.todo = @ \ {i}]
    <3>2. actors[Cleaner] \in ActorStates /\ i \in Ids
      BY DEF TypeOK, ActorStates, Actors
    <3>3. x \in ActorStates /\ x.at = "rmdir" /\ x.id \in Ids
      BY <3>2 DEF ActorStates
    <3>4. actors' = [actors EXCEPT ![Cleaner] = x]
      BY <3>1
    <3> HIDE DEF x
    <3>5. actors' \in [Actors -> ActorStates]
      BY <3>3, <3>4, ActorType
    <3>6. TypeOK'
      BY <1>6, <3>5 DEF CleanupLoop, TypeOK
    <3> QED
      BY <1>6, <3>3, <3>4, <3>6 DEF CleanupLoop, TypeOK, HandlersPlaced, ClonesPlaced
  <2>2. CASE Done(Cleaner)
    <3>1. actors' \in [Actors -> ActorStates]
      BY <2>2, DoneType DEF Actors
    <3>2. TypeOK'
      BY <1>6, <3>1 DEF CleanupLoop, TypeOK
    <3> QED
      BY <1>6, <2>2, <3>2 DEF CleanupLoop, Done, NoActor, TypeOK, HandlersPlaced, ClonesPlaced
  <2> QED
    BY <1>6, <2>1, <2>2 DEF CleanupLoop
<1>7. CASE Shutdown
  BY <1>7 DEF Shutdown, TypeOK, HandlersPlaced, ClonesPlaced
<1>8. CASE Restart
  <2>1. TypeOK'
    BY <1>8, NullTypes DEF Restart, TypeOK
  <2> QED
    BY <1>8, <2>1 DEF Restart, NoActor, NoClone, HandlersPlaced, ClonesPlaced
<1>9. CASE UNCHANGED vars
  BY <1>9 DEF vars, TypeOK, HandlersPlaced, ClonesPlaced
<1> QED
  BY <1>1, <1>2, <1>3, <1>4, <1>5, <1>6, <1>7, <1>8, <1>9 DEF Next

LEMMA TypeInit == Init => TypeInv
<1> SUFFICES ASSUME Init PROVE TypeInv
  OBVIOUS
<1>1. TypeOK
  BY NullTypes DEF Init, TypeOK
<1>2. HandlersPlaced /\ ClonesPlaced
  BY DEF Init, HandlersPlaced, ClonesPlaced, NoActor, NoClone
<1> QED
  BY <1>1, <1>2 DEF TypeInv

(* The variables keep their types, and every statement names a sandbox id,  *)
(* whatever the handlers, clones and the cleanup of sandbox.go and          *)
(* cleanup.go do between each other's statements.                           *)
THEOREM SandboxTypeCorrect == Spec => []TypeOK
<1>1. TypeInv => TypeOK
  BY DEF TypeInv
<1> QED
  BY <1>1, TypeInit, TypeStep, PTL DEF Spec

-----------------------------------------------------------------------------
(* CloningOwned.  An actor, or a goroutine, that takes a step may stop      *)
(* being the owner of a sandbox only by recording a status, or by failing   *)
(* to; nobody else's ownership is touched.                                  *)
OwnInv == TypeInv /\ CloningOwned

OwnsAs(x, i) == x.id = i /\ x.op \in {"provision", "retry"} /\ x.at \in {"path", "start"}
ClonesAs(y, i) == y.id = i /\ y.at \in {"begun", "git", "cloned", "nodir", "failed"}
Settled(i) == rows'[i].status # "cloning" \/ i \in lost'

LEMMA HandlerStep ==
  ASSUME OwnInv, NEW a \in Actors, NEW x, actors' = [actors EXCEPT ![a] = x],
         UNCHANGED clones, lost \subseteq lost',
         \A i \in Ids : HandlerOwns(a, i) => OwnsAs(x, i) \/ Settled(i),
         \A i \in Ids : rows'[i].status = "cloning" => rows[i].status = "cloning" \/ OwnsAs(x, i)
  PROVE  CloningOwned'
<1> SUFFICES ASSUME NEW i \in Ids, ~Settled(i) PROVE Owner(i)'
  BY DEF CloningOwned, Settled
<1> USE DEF OwnInv, TypeInv, TypeOK
<1>1. CASE OwnsAs(x, i)
  BY <1>1 DEF OwnsAs, Owner, HandlerOwns
<1>2. CASE ~OwnsAs(x, i)
  <2>1. Owner(i) /\ ~HandlerOwns(a, i)
    BY <1>2 DEF Settled, CloningOwned
  <2>2. CASE \E b \in Actors : HandlerOwns(b, i)
    BY <2>1, <2>2 DEF Owner, HandlerOwns
  <2>3. CASE \E s \in Places : CloneOwns(s, i)
    BY <2>3 DEF Owner, CloneOwns
  <2> QED
    BY <2>1, <2>2, <2>3 DEF Owner
<1> QED
  BY <1>1, <1>2

LEMMA CloneStep ==
  ASSUME OwnInv, NEW s \in Places, NEW y, clones' = [clones EXCEPT ![s] = y],
         UNCHANGED actors, lost \subseteq lost',
         \A i \in Ids : CloneOwns(s, i) => ClonesAs(y, i) \/ Settled(i),
         \A i \in Ids : rows'[i].status = "cloning" => rows[i].status = "cloning"
  PROVE  CloningOwned'
<1> SUFFICES ASSUME NEW i \in Ids, ~Settled(i) PROVE Owner(i)'
  BY DEF CloningOwned, Settled
<1> USE DEF OwnInv, TypeInv, TypeOK
<1>1. CASE ClonesAs(y, i)
  BY <1>1 DEF ClonesAs, Owner, CloneOwns
<1>2. CASE ~ClonesAs(y, i)
  <2>1. Owner(i) /\ ~CloneOwns(s, i)
    BY <1>2 DEF Settled, CloningOwned
  <2>2. CASE \E b \in Actors : HandlerOwns(b, i)
    BY <2>2 DEF Owner, HandlerOwns
  <2>3. CASE \E t \in Places : CloneOwns(t, i)
    BY <2>1, <2>3 DEF Owner, CloneOwns
  <2> QED
    BY <2>1, <2>2, <2>3 DEF Owner
<1> QED
  BY <1>1, <1>2

(* What a status written does to the sandbox it is about, and to others.    *)
LEMMA Recorded ==
  ASSUME TypeInv, NEW i \in Ids, NEW status \in {"active", "error"}, Record(i, status)
  PROVE  /\ Settled(i) /\ lost \subseteq lost'
         /\ \A j \in Ids : rows'[j].status = "cloning" => rows[j].status = "cloning"
BY DEF Record, SetStatus, Settled, TypeInv, TypeOK, Rows, Exists

LEMMA OwnedStep ==
  ASSUME OwnInv, NEW a \in Actors, Step(a)
  PROVE  CloningOwned'
<1> USE DEF OwnInv, TypeInv, At, counters
<1>1. ASSUME Insert(a) PROVE CloningOwned'
  <2>1. PICK i \in Ids :
          /\ rows' = [rows EXCEPT ![i] = [cluster |-> actors[a].cluster, status |-> "cloning",
                                          path |-> FALSE, fresh |-> TRUE]]
          /\ actors' = [actors EXCEPT ![a].at = "path", ![a].id = i]
    BY <1>1 DEF Insert
  <2> DEFINE x == [actors[a] EXCEPT !.at = "path", !.id = i]
  <2>2. OwnsAs(x, i)
    BY <1>1 DEF Insert, HandlersPlaced, OwnsAs, TypeOK, ActorStates
  <2>3. actors' = [actors EXCEPT ![a] = x]
    BY <2>1
  <2>4. \A j \in Ids : ~HandlerOwns(a, j)
    BY <1>1 DEF Insert, HandlerOwns
  <2> HIDE DEF x
  <2>5. \A j \in Ids : rows'[j].status = "cloning" => rows[j].status = "cloning" \/ OwnsAs(x, j)
    BY <2>1, <2>2 DEF TypeOK
  <2> QED
    BY <1>1, <2>3, <2>4, <2>5, HandlerStep DEF Insert
<1>2. ASSUME UpdateSandboxPath(a) PROVE CloningOwned'
  <2> DEFINE x == [actors[a] EXCEPT !.at = "start"]
  <2>1. actors' = [actors EXCEPT ![a] = x]
    BY <1>2 DEF UpdateSandboxPath, Goto
  <2>2. \A i \in Ids : HandlerOwns(a, i) => OwnsAs(x, i)
    BY DEF HandlerOwns, OwnsAs, TypeOK, ActorStates
  <2>3. \A i \in Ids : rows'[i].status = rows[i].status
    BY <1>2 DEF UpdateSandboxPath, TypeOK, Rows
  <2> HIDE DEF x
  <2> QED
    BY <1>2, <2>1, <2>2, <2>3, HandlerStep DEF UpdateSandboxPath
<1>3. ASSUME StartClone(a) PROVE CloningOwned'
  <2>1. actors[a].id \in Ids /\ actors' = [actors EXCEPT ![a] = NoActor]
    BY <1>3 DEF StartClone, HandlersPlaced, Done
  <2>2. CASE \E s \in Places :
               /\ clones[s].at = "free"
               /\ clones' = [clones EXCEPT ![s] = [at |-> "begun", id |-> actors[a].id]]
               /\ UNCHANGED <<rows, lost>>
    <3>1. PICK s \in Places :
            /\ clones[s].at = "free"
            /\ clones' = [clones EXCEPT ![s] = [at |-> "begun", id |-> actors[a].id]]
            /\ UNCHANGED <<rows, lost>>
      BY <2>2
    <3> SUFFICES ASSUME NEW i \in Ids, ~Settled(i) PROVE Owner(i)'
      BY DEF CloningOwned, Settled
    <3>2. CASE i = actors[a].id
      BY <3>1, <3>2 DEF Owner, CloneOwns, TypeOK
    <3>3. CASE i # actors[a].id
      <4>1. Owner(i)
        BY <3>1 DEF Settled, CloningOwned
      <4>2. CASE \E b \in Actors : HandlerOwns(b, i)
        BY <2>1, <3>3, <4>2 DEF Owner, HandlerOwns, TypeOK
      <4>3. CASE \E t \in Places : CloneOwns(t, i)
        BY <3>1, <4>3 DEF Owner, CloneOwns, TypeOK
      <4> QED
        BY <4>1, <4>2, <4>3 DEF Owner
    <3> QED
      BY <3>2, <3>3
  <2>3. CASE Record(actors[a].id, "error") /\ UNCHANGED clones
    <3>1. /\ Settled(actors[a].id) /\ lost \subseteq lost'
          /\ \A j \in Ids : rows'[j].status = "cloning" => rows[j].status = "cloning"
      BY <2>1, <2>3, Recorded
    <3>2. \A i \in Ids : HandlerOwns(a, i) => Settled(i)
      BY <3>1 DEF HandlerOwns
    <3> QED
      BY <2>1, <2>3, <3>1, <3>2, HandlerStep
  <2> QED
    BY <1>3, <2>2, <2>3 DEF StartClone
<1>4. ASSUME MarkTerminating(a) \/ DeleteDirectory(a) PROVE CloningOwned'
  <2>1. PICK at : actors' = [actors EXCEPT ![a].at = at]
    BY <1>4 DEF MarkTerminating, DeleteDirectory, Goto
  <2>2. \A i \in Ids : ~HandlerOwns(a, i)
    BY <1>4 DEF MarkTerminating, DeleteDirectory, HandlerOwns
  <2>3. \A i \in Ids : rows'[i].status = "cloning" => rows[i].status = "cloning"
    BY <1>4 DEF MarkTerminating, DeleteDirectory, SetStatus, TypeOK, Rows
  <2>4. lost \subseteq lost' /\ UNCHANGED clones
    BY <1>4 DEF MarkTerminating, DeleteDirectory, DeleteQuietly
  <2> QED
    BY <2>1, <2>2, <2>3, <2>4, HandlerStep
<1>5. ASSUME ClearErrorAndSetCloning(a) PROVE CloningOwned'
  <2> DEFINE x == [actors[a] EXCEPT !.at = "start"]
  <2>1. actors' = [actors EXCEPT ![a] = x]
    BY <1>5 DEF ClearErrorAndSetCloning, Goto
  <2>2. OwnsAs(x, actors[a].id)
    BY <1>5 DEF ClearErrorAndSetCloning, HandlersPlaced, OwnsAs, TypeOK, ActorStates
  <2>3. \A i \in Ids : ~HandlerOwns(a, i)
    BY <1>5 DEF ClearErrorAndSetCloning, HandlerOwns
  <2> HIDE DEF x
  <2>4. \A i \in Ids : rows'[i].status = "cloning" => rows[i].status = "cloning" \/ OwnsAs(x, i)
    BY <1>5, <2>2 DEF ClearErrorAndSetCloning, SetStatus, TypeOK, Rows
  <2> QED
    BY <1>5, <2>1, <2>3, <2>4, HandlerStep DEF ClearErrorAndSetCloning
<1>6. ASSUME Delete(a) \/ FailStatement(a) PROVE CloningOwned'
  <2> DEFINE x == [actors[a] EXCEPT !.at = "list", !.id = NoId]
  <2>1. actors' = [actors EXCEPT ![a] = x] \/ actors' = [actors EXCEPT ![a] = NoActor]
    BY <1>6 DEF Delete, FailStatement, Done
  <2>2. \A i \in Ids : HandlerOwns(a, i) => i \in lost'
    BY <1>6 DEF Delete, FailStatement, HandlerOwns
  <2>3. \A i \in Ids : rows'[i].status = "cloning" => rows[i].status = "cloning"
    BY <1>6 DEF Delete, FailStatement, NoRow, TypeOK, Rows
  <2>4. lost \subseteq lost' /\ UNCHANGED clones
    BY <1>6 DEF Delete, FailStatement
  <2> HIDE DEF x
  <2> QED
    BY <2>1, <2>2, <2>3, <2>4, HandlerStep DEF Settled
<1>7. ASSUME Touch(a) PROVE CloningOwned'
  <2>1. \A i \in Ids : rows'[i].status = rows[i].status
    BY <1>7 DEF Touch, TypeOK, Rows
  <2>2. \A i \in Ids : ~HandlerOwns(a, i)
    BY <1>7 DEF Touch, HandlerOwns
  <2> QED
    BY <1>7, <2>1, <2>2, HandlerStep DEF Touch, Done
<1>8. ASSUME BrainLoop(a) PROVE CloningOwned'
  <2> DEFINE x(i) == [actors[a] EXCEPT !.todo = @ \ {i}]
  <2>1. PICK y : actors' = [actors EXCEPT ![a] = y]
    <3>1. \/ \E i \in actors[a].todo : actors' = [actors EXCEPT ![a].todo = @ \ {i}]
          \/ actors' = [actors EXCEPT ![a] = NoActor]
      BY <1>8 DEF BrainLoop, Done
    <3>2. ASSUME NEW i, actors' = [actors EXCEPT ![a].todo = @ \ {i}]
          PROVE  actors' = [actors EXCEPT ![a] = x(i)]
      BY <3>2
    <3> HIDE DEF x
    <3> QED
      BY <3>1, <3>2
  <2>2. \A i \in Ids : ~HandlerOwns(a, i)
    BY <1>8 DEF BrainLoop, HandlerOwns
  <2>3. \A i \in Ids : rows'[i].status = "cloning" => rows[i].status = "cloning"
    BY <1>8 DEF BrainLoop, NoRow
  <2>4. lost \subseteq lost' /\ UNCHANGED clones
    BY <1>8 DEF BrainLoop, DeleteQuietly
  <2> QED
    BY <2>1, <2>2, <2>3, <2>4, HandlerStep
<1> QED
  BY <1>1, <1>2, <1>3, <1>4, <1>5, <1>6, <1>7, <1>8 DEF Step

LEMMA OwnedClone ==
  ASSUME OwnInv, NEW s \in Places, Clone(s)
  PROVE  CloningOwned'
<1> USE DEF OwnInv, TypeInv, counters
<1>1. clones[s].id \in Ids
  BY DEF Clone, BeginGit, EndGit, RecordActive, RecordError, TidyUp, ClonesPlaced
<1>2. CASE BeginGit(s) \/ EndGit(s)
  <2>1. PICK at \in {"git", "nodir", "cloned", "failed"} : clones' = [clones EXCEPT ![s].at = at]
    <3>1. CASE BeginGit(s)
      BY <3>1 DEF BeginGit, CloneGoto
    <3>2. CASE EndGit(s)
      BY <3>2 DEF EndGit, CloneGoto
    <3> QED
      BY <1>2, <3>1, <3>2
  <2> DEFINE y == [clones[s] EXCEPT !.at = at]
  <2>2. clones' = [clones EXCEPT ![s] = y]
    BY <2>1
  <2>3. \A i \in Ids : CloneOwns(s, i) => ClonesAs(y, i)
    BY <2>1 DEF CloneOwns, ClonesAs, TypeOK, CloneStates
  <2>4. UNCHANGED <<rows, actors, lost>>
    BY <1>2 DEF BeginGit, EndGit
  <2> HIDE DEF y
  <2> QED
    BY <2>2, <2>3, <2>4, CloneStep
<1>3. CASE RecordActive(s) \/ RecordError(s)
  <2>1. /\ Settled(clones[s].id) /\ lost \subseteq lost'
        /\ \A j \in Ids : rows'[j].status = "cloning" => rows[j].status = "cloning"
    BY <1>1, <1>3, Recorded DEF RecordActive, RecordError
  <2>2. \A i \in Ids : CloneOwns(s, i) => Settled(i)
    BY <2>1 DEF CloneOwns
  <2> DEFINE y == [clones[s] EXCEPT !.at = "tidy"]
  <2>3. clones' = [clones EXCEPT ![s] = y] \/ clones' = [clones EXCEPT ![s] = NoClone]
    BY <1>3 DEF RecordActive, RecordError, CloneGoto, CloneDone
  <2>4. UNCHANGED actors
    BY <1>3 DEF RecordActive, RecordError
  <2> HIDE DEF y
  <2> QED
    BY <2>1, <2>2, <2>3, <2>4, CloneStep
<1>4. CASE TidyUp(s)
  <2>1. \A i \in Ids : ~CloneOwns(s, i)
    BY <1>4 DEF TidyUp, CloneOwns
  <2>2. lost \subseteq lost' /\ UNCHANGED <<rows, actors>> /\ clones' = [clones EXCEPT ![s] = NoClone]
    BY <1>4 DEF TidyUp, DeleteQuietly, CloneDone
  <2> QED
    BY <2>1, <2>2, CloneStep
<1> QED
  BY <1>2, <1>3, <1>4 DEF Clone

LEMMA OwnedNext == OwnInv /\ [Next]_vars => CloningOwned'
<1> SUFFICES ASSUME OwnInv, [Next]_vars PROVE CloningOwned'
  OBVIOUS
<1> USE DEF OwnInv, TypeInv, counters
<1>1. ASSUME NEW r \in Requests, Serve(r) PROVE CloningOwned'
  <2>1. PICK x : actors' = [actors EXCEPT ![r] = x]
    BY <1>1 DEF Serve, Provision, Terminate, Retry, TerminateByBrain, Use, Begin
  <2>2. actors[r].op = "none" /\ UNCHANGED <<rows, clones, lost>>
    BY <1>1 DEF Serve, Provision, Terminate, Retry, TerminateByBrain, Use, Begin
  <2>3. r \in Actors /\ \A i \in Ids : ~HandlerOwns(r, i)
    BY <2>2 DEF Actors, HandlerOwns
  <2> QED
    BY <2>1, <2>2, <2>3, HandlerStep
<1>2. ASSUME NEW a \in Actors, Step(a) PROVE CloningOwned'
  BY <1>2, OwnedStep
<1>3. ASSUME NEW s \in Places, Clone(s) PROVE CloningOwned'
  BY <1>3, OwnedClone
<1>4. ASSUME NEW i \in Ids, Age(i) PROVE CloningOwned'
  <2>1. \A j \in Ids : rows'[j].status = rows[j].status
    BY <1>4 DEF Age, TypeOK, Rows
  <2> QED
    BY <1>4, <2>1 DEF Age, CloningOwned, Owner, HandlerOwns, CloneOwns
<1>5. CASE FindStale \/ CleanupLoop
  <2>1. Cleaner \in Actors /\ \A i \in Ids : ~HandlerOwns(Cleaner, i)
    BY <1>5 DEF FindStale, CleanupLoop, At, Actors, HandlerOwns
  <2>2. PICK x : actors' = [actors EXCEPT ![Cleaner] = x]
    <3>1. CASE FindStale
      BY <3>1 DEF FindStale
    <3>2. CASE CleanupLoop
      <4> DEFINE y(i) == [actors[Cleaner] EXCEPT !.at = "rmdir", !.id = i, !.todo = @ \ {i}]
      <4>1. ASSUME NEW i, actors' = [actors EXCEPT ![Cleaner].at = "rmdir", ![Cleaner].id = i,
                                                   ![Cleaner].todo = @ \ {i}]
            PROVE  actors' = [actors EXCEPT ![Cleaner] = y(i)]
        BY <4>1
      <4>2. \/ \E i : actors' = [actors EXCEPT ![Cleaner].at = "rmdir", ![Cleaner].id = i,
                                                ![Cleaner].todo = @ \ {i}]
            \/ actors' = [actors EXCEPT ![Cleaner] = NoActor]
        BY <3>2 DEF CleanupLoop, Done
      <4> HIDE DEF y
      <4> QED
        BY <4>1, <4>2
    <3> QED
      BY <1>5, <3>1, <3>2
  <2>3. UNCHANGED <<rows, clones, lost>>
    BY <1>5 DEF FindStale, CleanupLoop
  <2> QED
    BY <2>1, <2>2, <2>3, HandlerStep
<1>6. CASE Restart
  <2> SUFFICES ASSUME NEW i \in Ids, rows[i].status = "cloning", i \notin lost' PROVE FALSE
    BY <1>6 DEF Restart, CloningOwned
  <2>1. Owner(i) /\ ~WorkedOn(i)
    BY <1>6 DEF Restart, CloningOwned
  <2> QED
    BY <2>1 DEF Owner, HandlerOwns, CloneOwns, WorkedOn, ActorOn, CloneOn
<1>7. CASE Shutdown \/ UNCHANGED vars
  BY <1>7 DEF Shutdown, vars, CloningOwned, Owner, HandlerOwns, CloneOwns
<1> QED
  BY <1>1, <1>2, <1>3, <1>4, <1>5, <1>6, <1>7 DEF Next

(* However Provision, Retry, Terminate, TerminateByBrain, the cleanup and   *)
(* the clone goroutines interleave, a sandbox is in "cloning" only while a  *)
(* handler will call startClone for it or a goroutine has yet to record how *)
(* its clone ended, unless a statement about it failed or the process       *)
(* ended.                                                                   *)
THEOREM CloningSandboxIsOwned == Spec => []CloningOwned
<1>1. Init => OwnInv
  BY TypeInit DEF Init, OwnInv, CloningOwned, NoRow
<1>2. OwnInv /\ [Next]_vars => OwnInv'
  BY TypeStep, OwnedNext DEF OwnInv
<1>3. OwnInv => CloningOwned
  BY DEF OwnInv
<1> QED
  BY <1>1, <1>2, <1>3, PTL DEF Spec

-----------------------------------------------------------------------------
(* ActiveHasRepo and NoOrphans.  Both follow from what a sandbox looks like *)
(* at every stage of the one operation that works on it, as long as there   *)
(* is only one: the row and the directory are never described apart.        *)

(* The stages of each operation, and which sandboxes it holds there.        *)
Placed(a, x) ==
  /\ a = Cleaner => x.op \in {"none", "cleanup"}
  /\ \/ x = NoActor
     \/ x.op = "provision" /\ x.at = "insert" /\ x.id = NoId /\ x.todo = {}
     \/ x.op = "provision" /\ x.at \in {"path", "start"} /\ x.id \in Ids /\ x.todo = {}
     \/ x.op = "terminate" /\ x.at \in {"mark", "rmdir", "delete"} /\ x.id \in Ids /\ x.todo = {}
     \/ x.op = "retry" /\ x.at \in {"rmdir", "clear", "start"} /\ x.id \in Ids /\ x.todo = {}
     \/ x.op = "brain" /\ x.at = "list" /\ x.id = NoId
     \/ x.op = "use" /\ x.at = "touch" /\ x.id \in Ids /\ x.todo = {}
     \/ x.op = "cleanup" /\ x.at = "list" /\ x.id = NoId /\ x.path
     \/ x.op = "cleanup" /\ x.at \in {"rmdir", "delete"} /\ x.id \in Ids \ x.todo /\ x.path
AllPlaced == \A a \in Actors : Placed(a, actors[a])

(* Pull and Checkout leave the status, the path and the directory alone.    *)
Works(x, i) == x.op # "use" /\ (x.id = i \/ i \in x.todo \/ x.op = "brain")
Clones(y, i) == y.at # "free" /\ y.id = i

(* A sandbox nobody works on, one an actor works on and one a goroutine     *)
(* clones: its row r and its directory d.                                   *)
Rests(r, d) ==
  \/ r.status = "none" /\ d = "none"
  \/ r.status = "active" /\ r.path /\ d = "repo"
  \/ r.status = "error" /\ r.path /\ d = "none"

Fits(x, i, r, d) ==
  \/ x.op = "provision" /\ x.at = "path" /\ r.status = "cloning" /\ d = "none"
  \/ x.op \in {"provision", "retry"} /\ x.at = "start"
       /\ r.status = "cloning" /\ r.path /\ d = "none"
  \/ x.op = "retry" /\ x.at \in {"rmdir", "clear"} /\ r.status = "error" /\ r.path /\ d = "none"
  \/ x.op = "terminate" /\ x.at = "mark" /\ x.path /\ r.status # "none" /\ Rests(r, d)
  \/ x.op = "terminate" /\ x.at = "rmdir" /\ x.path /\ r.status \notin {"none", "cloning"}
  \/ x.op \in {"terminate", "cleanup"} /\ x.at = "delete" /\ i \notin x.todo
       /\ r.status \notin {"none", "cloning"} /\ d = "none"
  \/ x.op = "brain" /\ i \in x.todo /\ r.status # "none" /\ Rests(r, d)
  \/ x.op = "brain" /\ i \notin x.todo /\ r.status # "cloning" /\ d = "none"
  \/ x.op = "cleanup" /\ (i \in x.todo \/ x.at = "rmdir")
       /\ r.status = "active" /\ r.path /\ d = "repo"

CloneFits(y, r, d) ==
  \/ y.at \in {"begun", "nodir"} /\ r.status = "cloning" /\ r.path /\ d = "none"
  \/ y.at \in {"git", "failed"} /\ r.status = "cloning" /\ r.path /\ d = "partial"
  \/ y.at = "cloned" /\ r.status = "cloning" /\ r.path /\ d = "repo"
  \/ y.at = "tidy" /\ r.status = "error" /\ r.path /\ d = "partial"

(* No two operations work on i, and i looks as the one there is leaves it.  *)
Sound(i) ==
  /\ \A a, b \in Actors : Works(actors[a], i) /\ Works(actors[b], i) => a = b
  /\ \A s, t \in Places : Clones(clones[s], i) /\ Clones(clones[t], i) => s = t
  /\ \A a \in Actors, s \in Places : ~(Works(actors[a], i) /\ Clones(clones[s], i))
  /\ \A a \in Actors : Works(actors[a], i) => Fits(actors[a], i, rows[i], dirs[i])
  /\ \A s \in Places : Clones(clones[s], i) => CloneFits(clones[s], rows[i], dirs[i])
  /\ (\A a \in Actors : ~Works(actors[a], i)) /\ (\A s \in Places : ~Clones(clones[s], i))
       => Rests(rows[i], dirs[i])

Clean == Ids \ (lost \cup tangled)
SoundInv ==
  /\ TypeInv
  /\ AllPlaced
  /\ \A i \in Clean : Sound(i)

(* What is left of a sandbox when only a timestamp of its row has changed.  *)
Kept(i) ==
  rows'[i].status = rows[i].status /\ rows'[i].path = rows[i].path /\ dirs'[i] = dirs[i]
Unworked(i) ==
  (\A a \in Actors : ~Works(actors[a], i)) /\ (\A s \in Places : ~Clones(clones[s], i))

(* An actor that goes from actors[a] to x does nothing to i, or is the one  *)
(* that works on i, or begins to.                                           *)
After(x, i) ==
  IF Works(x, i) THEN Fits(x, i, rows'[i], dirs'[i]) ELSE Rests(rows'[i], dirs'[i])
Moves(a, x, i) ==
  \/ Kept(i) /\ ~Works(actors[a], i) /\ ~Works(x, i)
  \/ (Works(actors[a], i) \/ Unworked(i)) /\ After(x, i)

LEMMA KeptFits ==
  ASSUME NEW i, NEW r, NEW d, NEW q, r.status = q.status, r.path = q.path
  PROVE  /\ Rests(r, d) => Rests(q, d)
         /\ \A x : Fits(x, i, r, d) => Fits(x, i, q, d)
         /\ \A y : CloneFits(y, r, d) => CloneFits(y, q, d)
BY DEF Rests, Fits, CloneFits

LEMMA ActorMoves ==
  ASSUME SoundInv, NEW a \in Actors, NEW x, Placed(a, x), actors' = [actors EXCEPT ![a] = x],
         UNCHANGED clones, lost \subseteq lost', tangled \subseteq tangled',
         \A i \in Clean' : Moves(a, x, i)
  PROVE  AllPlaced' /\ \A i \in Clean' : Sound(i)'
<1>1. /\ \A b \in Actors : actors'[b] = IF b = a THEN x ELSE actors[b]
      /\ \A b \in Actors : Placed(b, actors[b])
  BY DEF SoundInv, TypeInv, TypeOK, AllPlaced
<1>2. AllPlaced'
  BY <1>1 DEF AllPlaced, Placed
<1>3. ASSUME NEW i \in Clean' PROVE Sound(i)'
  <2>1. Sound(i) /\ i \in Ids
    BY DEF SoundInv, Clean
  <2>2. Moves(a, x, i)
    OBVIOUS
  <2>3. CASE Kept(i) /\ ~Works(actors[a], i) /\ ~Works(x, i)
    <3>1. \A b \in Actors : Works(actors'[b], i) <=> Works(actors[b], i)
      BY <1>1, <2>3
    <3>2. \A b \in Actors : Works(actors'[b], i) => actors'[b] = actors[b]
      BY <1>1, <2>3
    <3>3. /\ Rests(rows[i], dirs[i]) => Rests(rows'[i], dirs'[i])
          /\ \A z : Fits(z, i, rows[i], dirs[i]) => Fits(z, i, rows'[i], dirs'[i])
          /\ \A y : CloneFits(y, rows[i], dirs[i]) => CloneFits(y, rows'[i], dirs'[i])
      BY <2>3, KeptFits DEF Kept
    <3> QED
      BY <2>1, <3>1, <3>2, <3>3 DEF Sound
  <2>4. CASE (Works(actors[a], i) \/ Unworked(i)) /\ After(x, i)
    <3>1. \A b \in Actors \ {a} : ~Works(actors'[b], i)
      BY <1>1, <2>1, <2>4 DEF Sound, Unworked
    <3>2. \A s \in Places : ~Clones(clones'[s], i)
      BY <2>1, <2>4 DEF Sound, Unworked
    <3>3. actors'[a] = x
      BY <1>1
    <3> QED
      BY <2>4, <3>1, <3>2, <3>3 DEF Sound, After
  <2> QED
    BY <2>2, <2>3, <2>4 DEF Moves
<1> QED
  BY <1>2, <1>3

CloneAfter(y, i) ==
  IF Clones(y, i) THEN CloneFits(y, rows'[i], dirs'[i]) ELSE Rests(rows'[i], dirs'[i])

LEMMA CloneMoves ==
  ASSUME SoundInv, NEW s \in Places, NEW y, clones' = [clones EXCEPT ![s] = y],
         UNCHANGED <<actors, tangled>>, lost \subseteq lost',
         \A i \in Clean' : \/ Kept(i) /\ ~Clones(clones[s], i) /\ ~Clones(y, i)
                           \/ Clones(clones[s], i) /\ CloneAfter(y, i)
  PROVE  AllPlaced' /\ \A i \in Clean' : Sound(i)'
<1>1. \A t \in Places : clones'[t] = IF t = s THEN y ELSE clones[t]
  BY DEF SoundInv, TypeInv, TypeOK
<1>2. AllPlaced'
  BY DEF SoundInv, AllPlaced, Placed
<1>3. ASSUME NEW i \in Clean' PROVE Sound(i)'
  <2>1. Sound(i) /\ i \in Ids
    BY DEF SoundInv, Clean
  <2>3. CASE Kept(i) /\ ~Clones(clones[s], i) /\ ~Clones(y, i)
    <3>1. \A t \in Places : Clones(clones'[t], i) <=> Clones(clones[t], i)
      BY <1>1, <2>3
    <3>2. \A t \in Places : Clones(clones'[t], i) => clones'[t] = clones[t]
      BY <1>1, <2>3
    <3>3. /\ Rests(rows[i], dirs[i]) => Rests(rows'[i], dirs'[i])
          /\ \A z : Fits(z, i, rows[i], dirs[i]) => Fits(z, i, rows'[i], dirs'[i])
          /\ \A z : CloneFits(z, rows[i], dirs[i]) => CloneFits(z, rows'[i], dirs'[i])
      BY <2>3, KeptFits DEF Kept
    <3> QED
      BY <2>1, <3>1, <3>2, <3>3 DEF Sound
  <2>4. CASE Clones(clones[s], i) /\ CloneAfter(y, i)
    <3>1. \A t \in Places \ {s} : ~Clones(clones'[t], i)
      BY <1>1, <2>1, <2>4 DEF Sound
    <3>2. \A a \in Actors : ~Works(actors'[a], i)
      BY <2>1, <2>4 DEF Sound
    <3>3. clones'[s] = y
      BY <1>1
    <3> QED
      BY <2>4, <3>1, <3>2, <3>3 DEF Sound, CloneAfter
  <2> QED
    BY <2>3, <2>4
<1> QED
  BY <1>2, <1>3

LEMMA NobodyWorks == (\A a : Placed(a, NoActor)) /\ \A i \in Ids : ~Works(NoActor, i)
BY DEF Placed, Works, NoActor

(* A request begins: the sandboxes it will work on have nobody yet.         *)
LEMMA BeginSound ==
  ASSUME SoundInv, NEW r \in Requests, NEW x, NEW worked, Begin(r, x, worked), Placed(r, x),
         \A i \in Ids : Works(x, i) =>
           i \in worked /\ (Rests(rows[i], dirs[i]) => Fits(x, i, rows[i], dirs[i]))
  PROVE  AllPlaced' /\ \A i \in Clean' : Sound(i)'
<1>1. r \in Actors /\ actors' = [actors EXCEPT ![r] = x]
  BY DEF Actors, Begin
<1>2. tangled' = tangled \cup {i \in worked : WorkedOn(i)} /\ UNCHANGED <<rows, dirs, clones, lost>>
  BY DEF Begin
<1>3. ASSUME NEW i \in Clean' PROVE Moves(r, x, i)
  <2>1. i \in Ids /\ Sound(i) /\ (i \in worked => ~WorkedOn(i))
    BY <1>2 DEF Clean, SoundInv
  <2>2. ~Works(actors[r], i)
    BY <1>1, <2>1 DEF Begin, SoundInv, AllPlaced, Placed, Works, NoActor
  <2>3. CASE Works(x, i)
    <3>1. ~WorkedOn(i)
      BY <2>1, <2>3
    <3>2. Unworked(i)
      BY <3>1 DEF WorkedOn, ActorOn, CloneOn, Unworked, Works, Clones
    <3>3. Rests(rows[i], dirs[i])
      BY <2>1, <3>2 DEF Sound, Unworked
    <3> QED
      BY <1>2, <2>1, <2>3, <3>2, <3>3 DEF Moves, After
  <2>4. CASE ~Works(x, i)
    BY <1>2, <2>2, <2>4 DEF Moves, Kept
  <2> QED
    BY <2>3, <2>4
<1> QED
  BY <1>1, <1>2, <1>3, ActorMoves

LEMMA ServeSound ==
  ASSUME SoundInv, NEW r \in Requests, Serve(r)
  PROVE  AllPlaced' /\ \A i \in Clean' : Sound(i)'
<1>r. r # Cleaner
  OBVIOUS
<1>1. ASSUME NEW c \in Clusters, Provision(r, c) PROVE AllPlaced' /\ \A i \in Clean' : Sound(i)'
  <2> DEFINE x == [NoActor EXCEPT !.op = "provision", !.cluster = c]
  <2>1. /\ Begin(r, x, {}) /\ x.op = "provision" /\ x.at = "insert" /\ x.id = NoId /\ x.todo = {}
    BY <1>1 DEF Provision, NoActor
  <2> HIDE DEF x
  <2> QED
    BY <1>r, <2>1, BeginSound DEF Placed, Works
<1>2. ASSUME NEW i \in Ids, Terminate(r, i) PROVE AllPlaced' /\ \A j \in Clean' : Sound(j)'
  <2> DEFINE x == [NoActor EXCEPT !.op = "terminate", !.at = "mark", !.id = i,
                                  !.path = rows[i].path]
  <2>1. /\ Begin(r, x, {i}) /\ x.op = "terminate" /\ x.at = "mark" /\ x.id = i
        /\ x.path = rows[i].path /\ x.todo = {} /\ rows[i].status # "none"
    BY <1>2 DEF Terminate, NoActor, Exists
  <2> HIDE DEF x
  <2>2. Rests(rows[i], dirs[i]) => Fits(x, i, rows[i], dirs[i])
    BY <2>1 DEF Rests, Fits
  <2> QED
    BY <1>r, <2>1, <2>2, BeginSound DEF Placed, Works
<1>3. ASSUME NEW i \in Ids, Retry(r, i) PROVE AllPlaced' /\ \A j \in Clean' : Sound(j)'
  <2> DEFINE x == [NoActor EXCEPT !.op = "retry", !.at = "rmdir", !.id = i,
                                  !.path = rows[i].path]
  <2>1. /\ Begin(r, x, {i}) /\ x.op = "retry" /\ x.at = "rmdir" /\ x.id = i
        /\ x.todo = {} /\ rows[i].status = "error"
    BY <1>3 DEF Retry, NoActor
  <2> HIDE DEF x
  <2>2. Rests(rows[i], dirs[i]) => Fits(x, i, rows[i], dirs[i])
    BY <2>1 DEF Rests, Fits
  <2> QED
    BY <1>r, <2>1, <2>2, BeginSound DEF Placed, Works
<1>4. ASSUME TerminateByBrain(r) PROVE AllPlaced' /\ \A j \in Clean' : Sound(j)'
  <2> DEFINE x == [NoActor EXCEPT !.op = "brain", !.at = "list",
                                  !.todo = {i \in Ids : Exists(i) /\ rows[i].path}]
  <2>1. /\ Begin(r, x, Ids) /\ x.op = "brain" /\ x.at = "list" /\ x.id = NoId
        /\ x.todo = {i \in Ids : Exists(i) /\ rows[i].path}
    BY <1>4 DEF TerminateByBrain, NoActor
  <2> HIDE DEF x
  <2>2. ASSUME NEW i \in Ids, Rests(rows[i], dirs[i]) PROVE Fits(x, i, rows[i], dirs[i])
    <3>1. CASE i \in x.todo
      BY <2>1, <2>2, <3>1 DEF Fits, Exists
    <3>2. CASE i \notin x.todo
      BY <2>1, <2>2, <3>2 DEF Fits, Rests, Exists
    <3> QED
      BY <3>1, <3>2
  <2> QED
    BY <1>r, <2>1, <2>2, BeginSound DEF Placed
<1>5. ASSUME NEW i \in Ids, Use(r, i) PROVE AllPlaced' /\ \A j \in Clean' : Sound(j)'
  <2> DEFINE x == [NoActor EXCEPT !.op = "use", !.at = "touch", !.id = i]
  <2>1. Begin(r, x, {}) /\ x.op = "use" /\ x.at = "touch" /\ x.id = i /\ x.todo = {}
    BY <1>5 DEF Use, NoActor
  <2> HIDE DEF x
  <2> QED
    BY <1>r, <2>1, BeginSound DEF Placed, Works
<1> QED
  BY <1>1, <1>2, <1>3, <1>4, <1>5 DEF Serve

(* A statement about one sandbox, j, by the actor that works on it.  The    *)
(* sandboxes a cleanup has still to come to are not touched.                *)
LEMMA OneMoves ==
  ASSUME SoundInv, NEW a \in Actors, NEW x, NEW j \in Ids,
         actors[a].op \notin {"none", "use", "brain"}, actors[a].id = j,
         x.op # "brain", x.id \in {j, NoId}, x.todo = actors[a].todo,
         actors[a].op = "cleanup" => x.op = "cleanup",
         \A i \in Ids \ {j} : rows'[i] = rows[i] /\ dirs'[i] = dirs[i],
         j \in Clean' => After(x, j), lost \subseteq lost', tangled \subseteq tangled'
  PROVE  \A i \in Clean' : Moves(a, x, i)
<1> SUFFICES ASSUME NEW i \in Clean' PROVE Moves(a, x, i)
  OBVIOUS
<1>1. i \in Ids /\ Sound(i) /\ Placed(a, actors[a])
  BY DEF SoundInv, AllPlaced, Clean
<1>2. CASE i = j
  BY <1>2 DEF Moves, Works
<1>3. CASE i # j /\ i \in x.todo
  <2>1. actors[a].op = "cleanup" /\ Works(actors[a], i) /\ x.op = "cleanup"
    BY <1>1, <1>3 DEF Placed, Works, NoActor
  <2>2. Fits(actors[a], i, rows[i], dirs[i])
    BY <1>1, <2>1 DEF Sound
  <2>3. Fits(x, i, rows'[i], dirs'[i])
    BY <1>1, <1>3, <2>1, <2>2 DEF Fits
  <2> QED
    BY <1>3, <2>1, <2>3 DEF Moves, After, Works
<1>4. CASE i # j /\ i \notin x.todo
  BY <1>1, <1>4 DEF Moves, Kept, Works
<1> QED
  BY <1>2, <1>3, <1>4

(* Who stands where, and what the sandbox a statement is about looks like.  *)
LEMMA AtStage ==
  ASSUME SoundInv, NEW a \in Actors
  PROVE  /\ Placed(a, actors[a]) /\ actors[a].todo \subseteq Ids
         /\ \A i \in Clean : Works(actors[a], i) => Fits(actors[a], i, rows[i], dirs[i])
         /\ \A i \in Ids : rows[i] \in Rows
         /\ rows \in [Ids -> Rows] /\ dirs \in [Ids -> {"none", "partial", "repo"}]
         /\ actors[a] \in ActorStates
BY DEF SoundInv, AllPlaced, Sound, TypeInv, TypeOK, ActorStates

LEMMA InsertSound ==
  ASSUME SoundInv, NEW a \in Actors, Insert(a)
  PROVE  AllPlaced' /\ \A i \in Clean' : Sound(i)'
<1>1. PICK i \in Ids :
        /\ ~Exists(i) /\ dirs[i] = "none" /\ ~(\E s \in Places : CloneOn(s, i))
        /\ i \notin lost \cup tangled /\ \A b \in Actors : actors[b].id # i
        /\ rows' = [rows EXCEPT ![i] = [cluster |-> actors[a].cluster, status |-> "cloning",
                                        path |-> FALSE, fresh |-> TRUE]]
        /\ actors' = [actors EXCEPT ![a].at = "path", ![a].id = i]
        /\ tangled' = IF \E b \in Actors : actors[b].op = "brain" THEN tangled \cup {i}
                      ELSE tangled
  BY DEF Insert
<1> DEFINE x == [actors[a] EXCEPT !.at = "path", !.id = i]
<1>2. /\ actors' = [actors EXCEPT ![a] = x]
      /\ x.at = "path" /\ x.id = i /\ x.op = actors[a].op /\ x.todo = actors[a].todo
  BY <1>1, AtStage DEF ActorStates
<1> HIDE DEF x
<1>3. /\ actors[a].op = "provision" /\ actors[a].id = NoId /\ actors[a].todo = {}
      /\ Placed(a, actors[a])
  BY AtStage DEF Insert, At, Placed, NoActor
<1>4. Placed(a, x)
  BY <1>2, <1>3 DEF Placed
<1>5. ASSUME NEW j \in Clean' PROVE Moves(a, x, j)
  <2>1. ~Works(actors[a], j) /\ j \in Ids
    BY <1>3 DEF Works, Clean
  <2>2. CASE j = i
    <3>1. \A b \in Actors : actors[b].op # "brain"
      BY <1>1, <2>2 DEF Clean
    <3>2. ASSUME NEW b \in Actors, Works(actors[b], i) PROVE FALSE
      <4>1. i \in actors[b].todo /\ actors[b].op = "cleanup"
        BY <1>1, <3>1, <3>2, AtStage DEF Works, Placed, NoActor
      <4>2. Fits(actors[b], i, rows[i], dirs[i])
        BY <1>1, <3>2, AtStage DEF Clean
      <4> QED
        BY <1>1, <4>1, <4>2 DEF Fits, Exists
    <3>3. Unworked(j)
      BY <1>1, <2>2, <3>2 DEF Unworked, CloneOn, Clones
    <3>4. rows'[i].status = "cloning" /\ dirs'[i] = "none"
      BY <1>1, AtStage DEF Insert
    <3>5. After(x, j)
      BY <1>2, <1>3, <2>2, <3>4 DEF After, Works, Fits
    <3> QED
      BY <3>3, <3>5 DEF Moves
  <2>3. CASE j # i
    <3>1. ~Works(x, j)
      BY <1>2, <1>3, <2>3 DEF Works
    <3>2. Kept(j)
      BY <1>1, <2>1, <2>3, AtStage DEF Insert, Kept
    <3> QED
      BY <2>1, <3>1, <3>2 DEF Moves
  <2> QED
    BY <2>2, <2>3
<1>6. lost' = lost /\ clones' = clones /\ tangled \subseteq tangled'
  BY <1>1 DEF Insert
<1> QED
  BY <1>2, <1>4, <1>5, <1>6, ActorMoves

LEMMA UpdateSandboxPathSound ==
  ASSUME SoundInv, NEW a \in Actors, UpdateSandboxPath(a)
  PROVE  AllPlaced' /\ \A i \in Clean' : Sound(i)'
<1> DEFINE x == [actors[a] EXCEPT !.at = "start"]
           j == actors[a].id
<1>1. /\ actors' = [actors EXCEPT ![a] = x]
      /\ x.at = "start" /\ x.id = j /\ x.op = actors[a].op /\ x.todo = actors[a].todo
  BY AtStage DEF UpdateSandboxPath, Goto, ActorStates
<1>2. /\ actors[a].op = "provision" /\ actors[a].at = "path" /\ j \in Ids
      /\ actors[a].todo = {} /\ Placed(a, x)
  BY <1>1, AtStage DEF UpdateSandboxPath, At, Placed, NoActor
<1> HIDE DEF x
<1>3. /\ rows' = IF Exists(j) THEN [rows EXCEPT ![j].path = TRUE] ELSE rows
      /\ UNCHANGED <<dirs, clones, lost, tangled>>
  BY DEF UpdateSandboxPath
<1>4. ASSUME j \in Clean' PROVE After(x, j)
  <2>1. rows[j].status = "cloning" /\ dirs[j] = "none"
    BY <1>2, <1>3, <1>4, AtStage DEF Clean, Works, Fits
  <2>2. rows'[j].status = "cloning" /\ rows'[j].path
    BY <1>2, <1>3, <2>1, AtStage DEF Exists, Rows
  <2> QED
    BY <1>1, <1>2, <1>3, <2>1, <2>2 DEF After, Works, Fits
<1>5. \A i \in Ids \ {j} : rows'[i] = rows[i] /\ dirs'[i] = dirs[i]
  BY <1>2, <1>3, AtStage
<1>6. \A i \in Clean' : Moves(a, x, i)
  BY <1>1, <1>2, <1>3, <1>4, <1>5, OneMoves
<1> QED
  BY <1>1, <1>2, <1>3, <1>6, ActorMoves

(* startClone with a place: the goroutine takes over from the handler.      *)
LEMMA HandOver ==
  ASSUME SoundInv, NEW a \in Actors, NEW s \in Places,
         At(a, "start"), clones[s].at = "free",
         clones' = [clones EXCEPT ![s] = [at |-> "begun", id |-> actors[a].id]],
         Done(a), UNCHANGED <<rows, dirs, lost, tangled>>
  PROVE  AllPlaced' /\ \A i \in Clean' : Sound(i)'
<1> DEFINE j == actors[a].id
           y == [at |-> "begun", id |-> j]
<1>1. /\ actors[a].op \in {"provision", "retry"} /\ actors[a].at = "start" /\ j \in Ids
      /\ actors[a].todo = {}
  BY AtStage DEF At, Placed, NoActor
<1>2. /\ \A b \in Actors : actors'[b] = IF b = a THEN NoActor ELSE actors[b]
      /\ \A t \in Places : clones'[t] = IF t = s THEN y ELSE clones[t]
  BY DEF SoundInv, TypeInv, TypeOK, Done
<1>3. AllPlaced'
  BY <1>2, NobodyWorks DEF SoundInv, AllPlaced
<1>4. ASSUME NEW i \in Clean' PROVE Sound(i)'
  <2>1. i \in Ids /\ Sound(i)
    BY <1>4 DEF SoundInv, Clean
  <2>2. ~Works(NoActor, i) /\ ~Clones(clones[s], i)
    BY <2>1, NobodyWorks DEF Clones
  <2>3. CASE i = j
    <3>1. Works(actors[a], i)
      BY <1>1, <2>3 DEF Works
    <3>2. rows[i].status = "cloning" /\ rows[i].path /\ dirs[i] = "none"
      BY <1>1, <2>1, <3>1 DEF Sound, Fits
    <3>3. \A b \in Actors : ~Works(actors'[b], i)
      BY <1>2, <2>1, <2>2, <3>1 DEF Sound
    <3>4. \A t \in Places : Clones(clones'[t], i) <=> t = s
      BY <1>2, <2>1, <2>3, <3>1 DEF Sound, Clones
    <3>5. CloneFits(y, rows[i], dirs[i])
      BY <3>2 DEF CloneFits
    <3> QED
      BY <1>2, <3>3, <3>4, <3>5 DEF Sound
  <2>4. CASE i # j
    <3>1. ~Works(actors[a], i) /\ ~Clones(y, i)
      BY <1>1, <2>4 DEF Works, Clones
    <3>2. \A b \in Actors : Works(actors'[b], i) <=> Works(actors[b], i)
      BY <1>2, <2>2, <3>1
    <3>3. \A b \in Actors : Works(actors'[b], i) => actors'[b] = actors[b]
      BY <1>2, <2>2, <3>1
    <3>4. \A t \in Places : Clones(clones'[t], i) <=> Clones(clones[t], i)
      BY <1>2, <2>2, <3>1
    <3>5. \A t \in Places : Clones(clones'[t], i) => clones'[t] = clones[t]
      BY <1>2, <2>2, <3>1
    <3> HIDE DEF j, y
    <3> QED
      BY <2>1, <3>2, <3>3, <3>4, <3>5 DEF Sound
  <2> QED
    BY <2>3, <2>4
<1> QED
  BY <1>3, <1>4

LEMMA StartCloneSound ==
  ASSUME SoundInv, NEW a \in Actors, StartClone(a)
  PROVE  AllPlaced' /\ \A i \in Clean' : Sound(i)'
<1>1. CASE \E s \in Places :
             /\ clones[s].at = "free"
             /\ clones' = [clones EXCEPT ![s] = [at |-> "begun", id |-> actors[a].id]]
             /\ UNCHANGED <<rows, lost>>
  BY <1>1, HandOver DEF StartClone
<1>2. CASE Record(actors[a].id, "error") /\ UNCHANGED clones
  <2> DEFINE j == actors[a].id
  <2>1. /\ actors[a].op \in {"provision", "retry"} /\ actors[a].at = "start" /\ j \in Ids
        /\ actors[a].todo = {}
    BY AtStage DEF StartClone, At, Placed, NoActor
  <2>2. actors' = [actors EXCEPT ![a] = NoActor] /\ UNCHANGED <<dirs, tangled>>
    BY DEF StartClone, Done
  <2>3. \/ /\ rows' = IF Exists(j) THEN [rows EXCEPT ![j].status = "error"] ELSE rows
           /\ lost' = lost
        \/ lost' = lost \cup {j} /\ rows' = rows
    BY <1>2 DEF Record, SetStatus
  <2>4. ASSUME j \in Clean' PROVE After(NoActor, j)
    <3>1. rows[j].status = "cloning" /\ rows[j].path /\ dirs[j] = "none"
      BY <2>1, <2>2, <2>3, <2>4, AtStage DEF Clean, Works, Fits
    <3>2. rows'[j].status = "error" /\ rows'[j].path
      BY <2>1, <2>3, <2>4, <3>1, AtStage DEF Clean, Exists, Rows
    <3> QED
      BY <2>1, <2>2, <3>1, <3>2, NobodyWorks DEF After, Rests
  <2>5. \A i \in Ids \ {j} : rows'[i] = rows[i] /\ dirs'[i] = dirs[i]
    BY <2>1, <2>2, <2>3, AtStage
  <2>6. Placed(a, NoActor) /\ NoActor.id = NoId /\ NoActor.todo = {} /\ NoActor.op = "none"
    BY DEF Placed, NoActor
  <2>7. lost \subseteq lost'
    BY <2>3
  <2>8. \A i \in Clean' : Moves(a, NoActor, i)
    BY <2>1, <2>2, <2>4, <2>5, <2>6, <2>7, OneMoves
  <2> QED
    BY <1>2, <2>2, <2>6, <2>7, <2>8, ActorMoves
<1> QED
  BY <1>1, <1>2 DEF StartClone

LEMMA MarkTerminatingSound ==
  ASSUME SoundInv, NEW a \in Actors, MarkTerminating(a)
  PROVE  AllPlaced' /\ \A i \in Clean' : Sound(i)'
<1> DEFINE x == [actors[a] EXCEPT !.at = "rmdir"]
           j == actors[a].id
<1>1. /\ actors' = [actors EXCEPT ![a] = x] /\ x.path = actors[a].path
      /\ x.at = "rmdir" /\ x.id = j /\ x.op = actors[a].op /\ x.todo = actors[a].todo
  BY AtStage DEF MarkTerminating, Goto, ActorStates
<1>2. /\ actors[a].op = "terminate" /\ actors[a].at = "mark" /\ j \in Ids
      /\ actors[a].todo = {} /\ Placed(a, x)
  BY <1>1, AtStage DEF MarkTerminating, At, Placed, NoActor
<1> HIDE DEF x
<1>3. /\ rows' = [rows EXCEPT ![j].status = "terminating"] \/ rows' = rows
      /\ UNCHANGED <<dirs, clones, lost, tangled>>
  BY DEF MarkTerminating, SetStatus
<1>4. ASSUME j \in Clean' PROVE After(x, j)
  <2>1. actors[a].path /\ rows[j].status \notin {"none", "cloning"}
    BY <1>2, <1>3, <1>4, AtStage DEF Clean, Works, Fits, Rests
  <2>2. rows'[j].status \notin {"none", "cloning"}
    BY <1>2, <1>3, <2>1, AtStage DEF Rows
  <2> QED
    BY <1>1, <1>2, <2>1, <2>2 DEF After, Works, Fits
<1>5. \A i \in Ids \ {j} : rows'[i] = rows[i] /\ dirs'[i] = dirs[i]
  BY <1>2, <1>3, AtStage
<1>6. \A i \in Clean' : Moves(a, x, i)
  BY <1>1, <1>2, <1>3, <1>4, <1>5, OneMoves
<1> QED
  BY <1>1, <1>2, <1>3, <1>6, ActorMoves

LEMMA DeleteDirectorySound ==
  ASSUME SoundInv, NEW a \in Actors, DeleteDirectory(a)
  PROVE  AllPlaced' /\ \A i \in Clean' : Sound(i)'
<1> DEFINE to == IF actors[a].op = "retry" THEN "clear" ELSE "delete"
           x == [actors[a] EXCEPT !.at = to]
           j == actors[a].id
<1>1. /\ actors' = [actors EXCEPT ![a] = x] /\ x.path = actors[a].path
      /\ x.at = to /\ x.id = j /\ x.op = actors[a].op /\ x.todo = actors[a].todo
  BY AtStage DEF DeleteDirectory, Goto, ActorStates
<1>2. /\ actors[a].op \in {"terminate", "retry", "cleanup"} /\ actors[a].at = "rmdir"
      /\ j \in Ids /\ j \notin actors[a].todo /\ Placed(a, x)
      /\ actors[a].op = "cleanup" => actors[a].path
  BY <1>1, AtStage DEF DeleteDirectory, At, Placed, NoActor
<1> HIDE DEF x
<1>3. /\ \/ actors[a].path /\ dirs' = [dirs EXCEPT ![j] = "none"] /\ lost' = lost
         \/ actors[a].path /\ lost' = lost \cup {j} /\ dirs' = dirs
         \/ ~actors[a].path /\ dirs' = dirs /\ lost' = lost
      /\ UNCHANGED <<rows, clones, tangled>>
  BY DEF DeleteDirectory, DeleteQuietly
<1>4. ASSUME j \in Clean' PROVE After(x, j)
  <2>1. /\ Works(actors[a], j) /\ Fits(actors[a], j, rows[j], dirs[j])
    BY <1>2, <1>3, <1>4, AtStage DEF Clean, Works
  <2>2. CASE actors[a].op = "retry"
    <3>1. rows[j].status = "error" /\ rows[j].path /\ dirs[j] = "none"
      BY <1>2, <2>1, <2>2 DEF Fits
    <3>2. dirs'[j] = "none"
      BY <1>2, <1>3, <3>1, AtStage
    <3> QED
      BY <1>1, <1>2, <1>3, <2>2, <3>1, <3>2 DEF After, Works, Fits
  <2>3. CASE actors[a].op # "retry"
    <3>1. rows[j].status \notin {"none", "cloning"} /\ actors[a].path
      BY <1>2, <2>1, <2>3 DEF Fits
    <3>2. dirs'[j] = "none"
      BY <1>2, <1>3, <1>4, <3>1, AtStage DEF Clean
    <3> QED
      BY <1>1, <1>2, <1>3, <2>3, <3>1, <3>2 DEF After, Works, Fits
  <2> QED
    BY <2>2, <2>3
<1>5. \A i \in Ids \ {j} : rows'[i] = rows[i] /\ dirs'[i] = dirs[i]
  BY <1>2, <1>3, AtStage
<1>6. lost \subseteq lost'
  BY <1>3
<1>7. \A i \in Clean' : Moves(a, x, i)
  BY <1>1, <1>2, <1>3, <1>4, <1>5, <1>6, OneMoves
<1> QED
  BY <1>1, <1>2, <1>3, <1>6, <1>7, ActorMoves

LEMMA ClearErrorSound ==
  ASSUME SoundInv, NEW a \in Actors, ClearErrorAndSetCloning(a)
  PROVE  AllPlaced' /\ \A i \in Clean' : Sound(i)'
<1> DEFINE x == [actors[a] EXCEPT !.at = "start"]
           j == actors[a].id
<1>1. /\ actors' = [actors EXCEPT ![a] = x]
      /\ x.at = "start" /\ x.id = j /\ x.op = actors[a].op /\ x.todo = actors[a].todo
  BY AtStage DEF ClearErrorAndSetCloning, Goto, ActorStates
<1>2. /\ actors[a].op = "retry" /\ actors[a].at = "clear" /\ j \in Ids
      /\ actors[a].todo = {} /\ Placed(a, x)
  BY <1>1, AtStage DEF ClearErrorAndSetCloning, At, Placed, NoActor
<1> HIDE DEF x
<1>3. /\ rows' = IF Exists(j) THEN [rows EXCEPT ![j].status = "cloning"] ELSE rows
      /\ UNCHANGED <<dirs, clones, lost, tangled>>
  BY DEF ClearErrorAndSetCloning, SetStatus
<1>4. ASSUME j \in Clean' PROVE After(x, j)
  <2>1. rows[j].status = "error" /\ rows[j].path /\ dirs[j] = "none"
    BY <1>2, <1>3, <1>4, AtStage DEF Clean, Works, Fits
  <2>2. rows'[j].status = "cloning" /\ rows'[j].path
    BY <1>2, <1>3, <2>1, AtStage DEF Exists, Rows
  <2> QED
    BY <1>1, <1>2, <1>3, <2>1, <2>2 DEF After, Works, Fits
<1>5. \A i \in Ids \ {j} : rows'[i] = rows[i] /\ dirs'[i] = dirs[i]
  BY <1>2, <1>3, AtStage
<1>6. \A i \in Clean' : Moves(a, x, i)
  BY <1>1, <1>2, <1>3, <1>4, <1>5, OneMoves
<1> QED
  BY <1>1, <1>2, <1>3, <1>6, ActorMoves

(* The end of a request or of one round of the cleanup, after a statement   *)
(* about j: nobody works on j any more.                                     *)
LEMMA RoundSound ==
  ASSUME SoundInv, NEW a \in Actors, NEW j \in Ids,
         actors[a].op \notin {"none", "use", "brain"}, actors[a].id = j,
         IF actors[a].op = "cleanup"
           THEN actors' = [actors EXCEPT ![a].at = "list", ![a].id = NoId]
           ELSE Done(a),
         UNCHANGED <<clones, tangled>>, lost \subseteq lost',
         \A i \in Ids \ {j} : rows'[i] = rows[i] /\ dirs'[i] = dirs[i],
         j \in Clean' => Rests(rows'[j], dirs'[j])
  PROVE  AllPlaced' /\ \A i \in Clean' : Sound(i)'
<1> DEFINE y == [actors[a] EXCEPT !.at = "list", !.id = NoId]
           x == IF actors[a].op = "cleanup" THEN y ELSE NoActor
<1>1. /\ y.op = actors[a].op /\ y.at = "list" /\ y.id = NoId /\ y.todo = actors[a].todo
      /\ y.path = actors[a].path
  BY AtStage DEF ActorStates
<1>2. actors' = [actors EXCEPT ![a] = x]
  BY DEF Done
<1>3. /\ Placed(a, actors[a]) /\ j \notin actors[a].todo
      /\ actors[a].op # "cleanup" => actors[a].todo = {}
      /\ actors[a].op = "cleanup" => actors[a].path
  BY AtStage DEF Placed, NoActor
<1> HIDE DEF y
<1>4. /\ x.op # "brain" /\ x.id = NoId /\ x.todo = actors[a].todo
      /\ actors[a].op = "cleanup" => x.op = "cleanup"
  BY <1>1, <1>3 DEF NoActor
<1>5. Placed(a, x)
  BY <1>1, <1>3, NobodyWorks DEF Placed
<1> HIDE DEF x
<1>6. ~Works(x, j)
  BY <1>3, <1>4 DEF Works
<1>7. j \in Clean' => After(x, j)
  BY <1>6 DEF After
<1>8. \A i \in Clean' : Moves(a, x, i)
  BY <1>4, <1>7, OneMoves
<1> QED
  BY <1>2, <1>5, <1>8, ActorMoves

LEMMA DeleteSound ==
  ASSUME SoundInv, NEW a \in Actors, Delete(a)
  PROVE  AllPlaced' /\ \A i \in Clean' : Sound(i)'
<1> DEFINE j == actors[a].id
<1>1. /\ actors[a].op \in {"terminate", "cleanup"} /\ actors[a].at = "delete" /\ j \in Ids
      /\ j \notin actors[a].todo
  BY AtStage DEF Delete, At, Placed, NoActor
<1>2. rows' = [rows EXCEPT ![j] = NoRow] /\ UNCHANGED <<dirs, clones, lost, tangled>>
  BY DEF Delete
<1>3. ASSUME j \in Clean' PROVE Rests(rows'[j], dirs'[j])
  <2>1. dirs[j] = "none"
    BY <1>1, <1>2, <1>3, AtStage DEF Clean, Works, Fits
  <2> QED
    BY <1>1, <1>2, <2>1, AtStage DEF Rests, NoRow
<1>4. \A i \in Ids \ {j} : rows'[i] = rows[i] /\ dirs'[i] = dirs[i]
  BY <1>1, <1>2, AtStage
<1> QED
  BY <1>1, <1>2, <1>3, <1>4, RoundSound DEF Delete

(* A request that only reads, or touches the row, says nothing new of it.   *)
LEMMA UseSound ==
  ASSUME SoundInv, NEW a \in Actors, actors[a].op = "use", Done(a),
         UNCHANGED <<dirs, clones, tangled>>, lost \subseteq lost',
         \A i \in Ids : rows'[i].status = rows[i].status /\ rows'[i].path = rows[i].path
  PROVE  AllPlaced' /\ \A i \in Clean' : Sound(i)'
<1>1. \A i \in Clean' : Moves(a, NoActor, i)
  BY NobodyWorks DEF Moves, Kept, Works, Clean
<1> QED
  BY <1>1, NobodyWorks, ActorMoves DEF Done

LEMMA TouchSound ==
  ASSUME SoundInv, NEW a \in Actors, Touch(a)
  PROVE  AllPlaced' /\ \A i \in Clean' : Sound(i)'
<1>1. actors[a].op = "use"
  BY AtStage DEF Touch, At, Placed, NoActor
<1>2. \A i \in Ids : rows'[i].status = rows[i].status /\ rows'[i].path = rows[i].path
  BY AtStage DEF Touch, Rows
<1> QED
  BY <1>1, <1>2, UseSound DEF Touch

LEMMA BrainLoopSound ==
  ASSUME SoundInv, NEW a \in Actors, BrainLoop(a)
  PROVE  AllPlaced' /\ \A i \in Clean' : Sound(i)'
<1>1. actors[a].op = "brain" /\ actors[a].at = "list" /\ actors[a].id = NoId /\ a # Cleaner
  BY AtStage DEF BrainLoop, At, Placed, NoActor
<1>2. CASE \E i \in actors[a].todo :
             DeleteQuietly(i) /\ actors' = [actors EXCEPT ![a].todo = @ \ {i}] /\ UNCHANGED rows
  <2>1. PICK j \in actors[a].todo :
          DeleteQuietly(j) /\ actors' = [actors EXCEPT ![a].todo = @ \ {j}] /\ UNCHANGED rows
    BY <1>2
  <2> DEFINE x == [actors[a] EXCEPT !.todo = @ \ {j}]
  <2>2. /\ actors' = [actors EXCEPT ![a] = x] /\ x.todo = actors[a].todo \ {j}
        /\ x.op = "brain" /\ x.at = "list" /\ x.id = NoId /\ j \in Ids
    BY <1>1, <2>1, AtStage DEF ActorStates
  <2> HIDE DEF x
  <2>3. ASSUME NEW i \in Clean' PROVE Moves(a, x, i)
    <3>1. Works(actors[a], i) /\ Works(x, i) /\ i \in Clean /\ i \in Ids
      BY <1>1, <2>1, <2>2 DEF Works, Clean, DeleteQuietly, BrainLoop
    <3>2. Fits(actors[a], i, rows[i], dirs[i])
      BY <3>1, AtStage
    <3>3. CASE i = j
      <4>1. dirs'[i] = "none" /\ rows[i].status # "cloning"
        BY <1>1, <2>1, <2>2, <3>2, <3>3, AtStage DEF DeleteQuietly, Clean, Fits, Rests
      <4> QED
        BY <2>1, <2>2, <3>1, <3>3, <4>1 DEF Moves, After, Fits
    <3>4. CASE i # j
      <4>1. dirs'[i] = dirs[i]
        BY <2>1, <2>2, <3>1, <3>4, AtStage DEF DeleteQuietly
      <4>2. Fits(x, i, rows[i], dirs[i])
        BY <1>1, <2>2, <3>2, <3>4 DEF Fits
      <4> QED
        BY <2>1, <3>1, <4>1, <4>2 DEF Moves, After
    <3> QED
      BY <3>3, <3>4
  <2>4. Placed(a, x)
    BY <1>1, <2>2 DEF Placed
  <2>5. lost \subseteq lost' /\ UNCHANGED <<clones, tangled>>
    BY <2>1 DEF DeleteQuietly, BrainLoop
  <2> QED
    BY <2>2, <2>3, <2>4, <2>5, ActorMoves
<1>3. CASE actors[a].todo = {} /\ rows' = [i \in Ids |-> NoRow] /\ Done(a) /\ UNCHANGED <<dirs, lost>>
  <2>1. ASSUME NEW i \in Clean' PROVE Moves(a, NoActor, i)
    <3>1. Works(actors[a], i) /\ i \in Clean /\ i \in Ids
      BY <1>1, <1>3 DEF Works, Clean, BrainLoop
    <3>2. dirs'[i] = "none"
      BY <1>1, <1>3, <3>1, AtStage DEF Fits
    <3> QED
      BY <1>3, <3>1, <3>2, NobodyWorks DEF Moves, After, Rests, NoRow
  <2> QED
    BY <1>3, <2>1, NobodyWorks, ActorMoves DEF Done, BrainLoop
<1> QED
  BY <1>2, <1>3 DEF BrainLoop

LEMMA FailStatementSound ==
  ASSUME SoundInv, NEW a \in Actors, FailStatement(a)
  PROVE  AllPlaced' /\ \A i \in Clean' : Sound(i)'
<1> DEFINE j == actors[a].id
<1>1. /\ lost' = lost \cup {i \in Ids : j = i \/ actors[a].op = "brain"}
      /\ UNCHANGED <<rows, dirs, clones, tangled>> /\ actors[a].op # "none"
      /\ Placed(a, actors[a])
  BY AtStage DEF FailStatement
<1>2. CASE actors[a].op = "use"
  BY <1>1, <1>2, UseSound DEF FailStatement
<1>3. CASE actors[a].op = "brain"
  <2>1. Clean' = {}
    BY <1>1, <1>3 DEF Clean
  <2> QED
    BY <1>1, <1>3, <2>1, NobodyWorks, ActorMoves DEF FailStatement, Done
<1>4. CASE actors[a].op \notin {"use", "brain"} /\ j \in Ids
  <2>1. j \notin Clean'
    BY <1>1, <1>4 DEF Clean
  <2> QED
    BY <1>1, <1>4, <2>1, RoundSound DEF FailStatement
<1>5. CASE actors[a].op \notin {"use", "brain"} /\ j \notin Ids
  <2>1. actors[a].op = "provision" /\ actors[a].todo = {} /\ \A i \in Ids : ~Works(actors[a], i)
    BY <1>1, <1>5 DEF FailStatement, Placed, NoActor, Works
  <2>2. \A i \in Clean' : Moves(a, NoActor, i)
    BY <1>1, <2>1, NobodyWorks DEF Moves, Kept, Clean
  <2> QED
    BY <1>1, <2>1, <2>2, NobodyWorks, ActorMoves DEF FailStatement, Done
<1> QED
  BY <1>2, <1>3, <1>4, <1>5

LEMMA CloneSound ==
  ASSUME SoundInv, NEW s \in Places, Clone(s)
  PROVE  AllPlaced' /\ \A i \in Clean' : Sound(i)'
<1> DEFINE j == clones[s].id
           y(at) == [clones[s] EXCEPT !.at = at]
<1>1. /\ j \in Ids /\ clones[s].at # "free" /\ Clones(clones[s], j) /\ clones[s] \in CloneStates
      /\ rows \in [Ids -> Rows] /\ dirs \in [Ids -> {"none", "partial", "repo"}]
      /\ \A i \in Ids : rows[i] \in Rows
  BY DEF Clone, BeginGit, EndGit, RecordActive, RecordError, TidyUp, SoundInv, TypeInv, TypeOK,
         ClonesPlaced, Clones
<1>2. UNCHANGED <<actors, tangled>> /\ lost \subseteq lost'
  BY DEF Clone, BeginGit, EndGit, RecordActive, RecordError, TidyUp, Record, DeleteQuietly
<1>3. j \in Clean' => CloneFits(clones[s], rows[j], dirs[j])
  BY <1>1, <1>2 DEF SoundInv, Sound, Clean
<1>4. \A i \in Ids \ {j} : rows'[i] = rows[i] /\ dirs'[i] = dirs[i]
  BY <1>1 DEF Clone, BeginGit, EndGit, RecordActive, RecordError, TidyUp, Record, SetStatus,
              DeleteQuietly
<1>5. ASSUME NEW z, clones' = [clones EXCEPT ![s] = z], z = NoClone \/ z.id = j,
             j \in Clean' => CloneAfter(z, j)
      PROVE  AllPlaced' /\ \A i \in Clean' : Sound(i)'
  <2>1. ASSUME NEW i \in Clean'
        PROVE  \/ Kept(i) /\ ~Clones(clones[s], i) /\ ~Clones(z, i)
               \/ Clones(clones[s], i) /\ CloneAfter(z, i)
    BY <1>1, <1>4, <1>5 DEF Kept, Clones, NoClone, Clean
  <2> QED
    BY <1>2, <1>5, <2>1, CloneMoves
<1>6. ASSUME NEW at PROVE y(at).id = j /\ y(at).at = at
  BY <1>1 DEF CloneStates
<1>7. ASSUME NEW at, CloneGoto(s, at), at # "free",
             j \in Clean' => CloneFits(y(at), rows'[j], dirs'[j])
      PROVE  AllPlaced' /\ \A i \in Clean' : Sound(i)'
  <2>1. clones' = [clones EXCEPT ![s] = y(at)]
    BY <1>7 DEF CloneGoto
  <2>2. Clones(y(at), j)
    BY <1>6, <1>7 DEF Clones
  <2> HIDE DEF y
  <2> QED
    BY <1>5, <1>6, <1>7, <2>1, <2>2 DEF CloneAfter
<1>8. ASSUME CloneDone(s), j \in Clean' => Rests(rows'[j], dirs'[j])
      PROVE  AllPlaced' /\ \A i \in Clean' : Sound(i)'
  BY <1>5, <1>8 DEF CloneDone, CloneAfter, Clones, NoClone
<1> HIDE DEF y
<1>9. CASE BeginGit(s)
  <2>1. j \in Clean' => /\ rows'[j].status = "cloning" /\ rows'[j].path /\ dirs[j] = "none"
    BY <1>3, <1>9 DEF BeginGit, CloneFits
  <2>2. CASE dirs[j] = "none" /\ CloneGoto(s, "git") /\ dirs' = [dirs EXCEPT ![j] = "partial"]
    BY <1>1, <1>6, <1>7, <2>1, <2>2 DEF CloneFits
  <2>3. CASE dirs[j] # "none" /\ CloneGoto(s, "failed")
    BY <1>6, <1>7, <2>1, <2>3
  <2>4. CASE CloneGoto(s, "nodir") /\ UNCHANGED dirs
    BY <1>6, <1>7, <2>1, <2>4 DEF CloneFits
  <2> QED
    BY <1>9, <2>2, <2>3, <2>4 DEF BeginGit
<1>10. CASE EndGit(s)
  <2>1. j \in Clean' => /\ rows'[j].status = "cloning" /\ rows'[j].path /\ dirs[j] = "partial"
    BY <1>3, <1>10 DEF EndGit, CloneFits
  <2>2. CASE dirs' = [dirs EXCEPT ![j] = "repo"] /\ CloneGoto(s, "cloned")
    BY <1>1, <1>6, <1>7, <2>1, <2>2 DEF CloneFits
  <2>3. CASE CloneGoto(s, "failed") /\ UNCHANGED dirs
    BY <1>6, <1>7, <2>1, <2>3 DEF CloneFits
  <2> QED
    BY <1>10, <2>2, <2>3 DEF EndGit
<1>11. ASSUME NEW status \in {"active", "error"}, Record(j, status), j \in Clean',
              rows[j].status = "cloning", rows[j].path
       PROVE  rows'[j].status = status /\ rows'[j].path
  BY <1>1, <1>11 DEF Record, SetStatus, Clean, Exists, Rows
<1>12. CASE RecordActive(s)
  <2>1. j \in Clean' => rows[j].status = "cloning" /\ rows[j].path /\ dirs'[j] = "repo"
    BY <1>3, <1>12 DEF RecordActive, CloneFits
  <2>2. j \in Clean' => Rests(rows'[j], dirs'[j])
    BY <1>11, <1>12, <2>1 DEF RecordActive, Rests
  <2> QED
    BY <1>8, <1>12, <2>2 DEF RecordActive
<1>13. CASE RecordError(s)
  <2>1. CASE clones[s].at = "failed" /\ CloneGoto(s, "tidy")
    <3>1. j \in Clean' => rows[j].status = "cloning" /\ rows[j].path /\ dirs'[j] = "partial"
      BY <1>3, <1>13, <2>1 DEF RecordError, CloneFits
    <3>2. j \in Clean' => CloneFits(y("tidy"), rows'[j], dirs'[j])
      BY <1>6, <1>11, <1>13, <3>1 DEF RecordError, CloneFits
    <3> QED
      BY <1>7, <2>1, <3>2
  <2>2. CASE clones[s].at = "nodir" /\ CloneDone(s)
    <3>1. j \in Clean' => rows[j].status = "cloning" /\ rows[j].path /\ dirs'[j] = "none"
      BY <1>3, <1>13, <2>2 DEF RecordError, CloneFits
    <3>2. j \in Clean' => Rests(rows'[j], dirs'[j])
      BY <1>11, <1>13, <3>1 DEF RecordError, Rests
    <3> QED
      BY <1>8, <2>2, <3>2
  <2> QED
    BY <1>13, <2>1, <2>2 DEF RecordError
<1>14. CASE TidyUp(s)
  <2>1. j \in Clean' => rows'[j].status = "error" /\ rows'[j].path
    BY <1>3, <1>14 DEF TidyUp, CloneFits
  <2>2. j \in Clean' => dirs'[j] = "none"
    BY <1>1, <1>14 DEF TidyUp, DeleteQuietly, Clean
  <2> QED
    BY <1>8, <1>14, <2>1, <2>2 DEF TidyUp, Rests
<1> QED
  BY <1>9, <1>10, <1>12, <1>13, <1>14 DEF Clone

LEMMA CleanupSound ==
  ASSUME SoundInv, FindStale \/ CleanupLoop
  PROVE  AllPlaced' /\ \A i \in Clean' : Sound(i)'
<1>c. Cleaner \in Actors /\ Placed(Cleaner, actors[Cleaner])
  BY AtStage DEF Actors
<1>1. CASE FindStale
  <2> DEFINE stale == {i \in Ids : rows[i].status = "active" /\ ~rows[i].fresh}
             x == [NoActor EXCEPT !.op = "cleanup", !.at = "list", !.path = TRUE, !.todo = stale]
  <2>1. /\ x.op = "cleanup" /\ x.at = "list" /\ x.path /\ x.todo = stale /\ x.id = NoId
        /\ actors' = [actors EXCEPT ![Cleaner] = x]
        /\ tangled' = tangled \cup {i \in stale : WorkedOn(i)}
        /\ UNCHANGED <<rows, dirs, clones, lost>> /\ actors[Cleaner].op = "none"
    BY <1>1 DEF FindStale, NoActor
  <2> HIDE DEF x
  <2>2. ASSUME NEW i \in Clean' PROVE Moves(Cleaner, x, i)
    <3>1. i \in Ids /\ Sound(i) /\ (i \in stale => ~WorkedOn(i))
      BY <2>1 DEF Clean, SoundInv
    <3>2. ~Works(actors[Cleaner], i)
      BY <1>c, <2>1, <3>1 DEF Placed, Works, NoActor
    <3>3. CASE i \in stale
      <4>1. Unworked(i)
        BY <3>1, <3>3 DEF WorkedOn, ActorOn, CloneOn, Unworked, Works, Clones
      <4>2. Rests(rows[i], dirs[i]) /\ rows[i].status = "active"
        BY <3>1, <3>3, <4>1 DEF Sound, Unworked
      <4> QED
        BY <2>1, <3>3, <4>1, <4>2 DEF Moves, After, Works, Rests, Fits
    <3>4. CASE i \notin stale
      BY <2>1, <3>1, <3>2, <3>4 DEF Moves, Kept, Works
    <3> QED
      BY <3>3, <3>4
  <2>3. Placed(Cleaner, x)
    BY <2>1 DEF Placed
  <2> HIDE DEF stale
  <2> QED
    BY <1>c, <2>1, <2>2, <2>3, ActorMoves
<1>2. CASE CleanupLoop
  <2>a. actors[Cleaner].op # "none" /\ actors[Cleaner].at = "list"
    BY <1>2 DEF CleanupLoop, At
  <2>b. /\ actors[Cleaner].op = "cleanup" /\ actors[Cleaner].at = "list" /\ actors[Cleaner].path
        /\ actors[Cleaner].id = NoId
    BY <1>c, <2>a DEF Placed, NoActor
  <2>c. UNCHANGED <<rows, dirs, clones, lost, tangled>>
    BY <1>2 DEF CleanupLoop
  <2>1. /\ actors[Cleaner].op = "cleanup" /\ actors[Cleaner].at = "list" /\ actors[Cleaner].path
        /\ actors[Cleaner].id = NoId
        /\ UNCHANGED <<rows, dirs, clones, lost, tangled>>
    BY <2>b, <2>c
  <2>2. CASE \E i \in actors[Cleaner].todo :
               actors' = [actors EXCEPT ![Cleaner].at = "rmdir", ![Cleaner].id = i,
                                        ![Cleaner].todo = @ \ {i}]
    <3>1. PICK j \in actors[Cleaner].todo :
            actors' = [actors EXCEPT ![Cleaner].at = "rmdir", ![Cleaner].id = j,
                                     ![Cleaner].todo = @ \ {j}]
      BY <2>2
    <3> DEFINE x == [actors[Cleaner] EXCEPT !.at = "rmdir", !.id = j, !.todo = @ \ {j}]
    <3>2. /\ actors' = [actors EXCEPT ![Cleaner] = x] /\ x.op = "cleanup" /\ x.at = "rmdir"
          /\ x.id = j /\ x.path /\ x.todo = actors[Cleaner].todo \ {j} /\ j \in Ids
      BY <1>c, <2>1, <3>1, AtStage DEF ActorStates
    <3> HIDE DEF x
    <3>3. ASSUME NEW i \in Clean' PROVE Moves(Cleaner, x, i)
      <4>1. i \in Clean /\ i \in Ids /\ (Works(x, i) <=> Works(actors[Cleaner], i))
        BY <2>1, <3>1, <3>2, <3>3 DEF Works, Clean
      <4>2. Works(x, i) => Fits(actors[Cleaner], i, rows[i], dirs[i]) /\ i \in actors[Cleaner].todo
        BY <1>c, <2>1, <4>1, AtStage DEF Works
      <4>3. Works(x, i) => Fits(x, i, rows[i], dirs[i])
        BY <2>1, <3>2, <4>2 DEF Fits
      <4> QED
        BY <2>1, <4>1, <4>3 DEF Moves, After, Kept
    <3>4. Placed(Cleaner, x)
      BY <3>2 DEF Placed
    <3> QED
      BY <1>c, <2>1, <3>2, <3>3, <3>4, ActorMoves
  <2>3. CASE actors[Cleaner].todo = {} /\ Done(Cleaner)
    <3>1. \A i \in Clean' : Moves(Cleaner, NoActor, i)
      BY <2>1, <2>3, NobodyWorks DEF Moves, Kept, Works, Clean
    <3> QED
      BY <1>c, <2>1, <2>3, <3>1, NobodyWorks, ActorMoves DEF Done
  <2> QED
    BY <1>2, <2>2, <2>3 DEF CleanupLoop
<1> QED
  BY <1>1, <1>2

LEMMA SoundStep == SoundInv /\ [Next]_vars => SoundInv'
<1> SUFFICES ASSUME SoundInv, [Next]_vars PROVE AllPlaced' /\ \A i \in Clean' : Sound(i)'
  BY TypeStep DEF SoundInv
<1>1. ASSUME NEW r \in Requests, Serve(r) PROVE AllPlaced' /\ \A i \in Clean' : Sound(i)'
  BY <1>1, ServeSound
<1>2. ASSUME NEW a \in Actors, Step(a) PROVE AllPlaced' /\ \A i \in Clean' : Sound(i)'
  BY <1>2, InsertSound, UpdateSandboxPathSound, StartCloneSound, MarkTerminatingSound,
     DeleteDirectorySound, ClearErrorSound, DeleteSound, TouchSound, BrainLoopSound,
     FailStatementSound DEF Step
<1>3. ASSUME NEW s \in Places, Clone(s) PROVE AllPlaced' /\ \A i \in Clean' : Sound(i)'
  BY <1>3, CloneSound
<1>4. ASSUME UNCHANGED <<dirs, actors, clones, tangled>>, lost' = lost,
             \A i \in Ids : rows'[i].status = rows[i].status /\ rows'[i].path = rows[i].path
      PROVE  AllPlaced' /\ \A i \in Clean' : Sound(i)'
  <2>1. ASSUME NEW i \in Clean' PROVE Sound(i)'
    <3>1. i \in Ids /\ Sound(i)
      BY <1>4 DEF Clean, SoundInv
    <3>2. /\ Rests(rows[i], dirs[i]) => Rests(rows'[i], dirs'[i])
          /\ \A z : Fits(z, i, rows[i], dirs[i]) => Fits(z, i, rows'[i], dirs'[i])
          /\ \A y : CloneFits(y, rows[i], dirs[i]) => CloneFits(y, rows'[i], dirs'[i])
      BY <1>4, <3>1, KeptFits
    <3> QED
      BY <1>4, <3>1, <3>2 DEF Sound
  <2> QED
    BY <1>4, <2>1 DEF SoundInv, AllPlaced
<1>5. ASSUME NEW i \in Ids, Age(i) PROVE AllPlaced' /\ \A j \in Clean' : Sound(j)'
  <2>1. \A j \in Ids : rows'[j].status = rows[j].status /\ rows'[j].path = rows[j].path
    BY <1>5 DEF Age, SoundInv, TypeInv, TypeOK, Rows
  <2> QED
    BY <1>4, <1>5, <2>1 DEF Age
<1>6. CASE FindStale \/ CleanupLoop
  BY <1>6, CleanupSound
<1>7. CASE Shutdown \/ UNCHANGED vars
  BY <1>4, <1>7 DEF Shutdown, vars
<1>8. CASE Restart
  <2>1. ASSUME NEW i \in Clean' PROVE Sound(i)'
    <3>1. i \in Ids /\ Sound(i) /\ ~WorkedOn(i)
      BY <1>8 DEF Restart, Clean, SoundInv
    <3>2. Rests(rows[i], dirs[i])
      BY <3>1 DEF WorkedOn, ActorOn, CloneOn, Works, Clones, Sound
    <3>3. /\ \A a \in Actors : ~Works(actors'[a], i)
          /\ \A s \in Places : ~Clones(clones'[s], i)
      BY <1>8, <3>1, NobodyWorks DEF Restart, Clones, NoClone
    <3> QED
      BY <1>8, <3>2, <3>3 DEF Restart, Sound
  <2> QED
    BY <1>8, <2>1, NobodyWorks DEF Restart, AllPlaced
<1> QED
  BY <1>1, <1>2, <1>3, <1>5, <1>6, <1>7, <1>8 DEF Next

LEMMA SoundInit == Init => SoundInv
<1> SUFFICES ASSUME Init PROVE AllPlaced /\ \A i \in Clean : Sound(i)
  BY TypeInit DEF SoundInv
<1>1. AllPlaced
  BY NobodyWorks DEF Init, AllPlaced
<1>2. ASSUME NEW i \in Clean PROVE Sound(i)
  BY <1>2, NobodyWorks DEF Init, Sound, Clean, Clones, NoClone, Rests, NoRow
<1> QED
  BY <1>1, <1>2

(* An active sandbox has its clone on disk, whatever Provision, Retry,      *)
(* Terminate, TerminateByBrain, the cleanup and the goroutines did before,  *)
(* unless somebody is just deleting it, a statement or a deletion for it    *)
(* failed, or two operations worked on it at the same time.                 *)
THEOREM ActiveSandboxHasRepo == Spec => []ActiveHasRepo
<1>1. SoundInv => ActiveHasRepo
  <2> SUFFICES ASSUME SoundInv, NEW i \in Clean, rows[i].status = "active"
               PROVE  dirs[i] = "repo" \/ Deleting(i)
    BY DEF ActiveHasRepo, Clean
  <2>1. Sound(i)
    BY DEF SoundInv
  <2>2. CASE Unworked(i)
    BY <2>1, <2>2 DEF Sound, Unworked, Rests
  <2>3. ASSUME NEW a \in Actors, Works(actors[a], i) PROVE dirs[i] = "repo" \/ Deleting(i)
    BY <2>1, <2>3 DEF Sound, Fits, Works, Deleting, ActorOn
  <2>4. ASSUME NEW s \in Places, Clones(clones[s], i) PROVE FALSE
    BY <2>1, <2>4 DEF Sound, CloneFits
  <2> QED
    BY <2>2, <2>3, <2>4 DEF Unworked
<1> QED
  BY <1>1, SoundInit, SoundStep, PTL DEF Spec

(* No clone is left on disk without the row that lets the cleanup or a      *)
(* request find and delete it, under the same exceptions.                   *)
THEOREM NoDirectoryIsOrphaned == Spec => []NoOrphans
<1>1. SoundInv => NoOrphans
  <2> SUFFICES ASSUME SoundInv, NEW i \in Clean, dirs[i] # "none", ~WorkedOn(i)
               PROVE  Exists(i)
    BY DEF NoOrphans, Clean
  <2>1. Rests(rows[i], dirs[i])
    BY DEF SoundInv, Sound, WorkedOn, ActorOn, CloneOn, Works, Clones
  <2> QED
    BY <2>1 DEF Rests, Exists
<1> QED
  BY <1>1, SoundInit, SoundStep, PTL DEF Spec

(* Rows and directories match: both of the above, for every operation of    *)
(* the service and every place at which one may stop.                       *)
THEOREM DirectoriesMatchRows == Spec => []DirsMatchRows
<1>1. ActiveHasRepo /\ NoOrphans => DirsMatchRows
  BY DEF DirsMatchRows
<1> QED
  BY <1>1, ActiveSandboxHasRepo, NoDirectoryIsOrphaned, PTL

=============================================================================
