---------------------------- MODULE NeuronStore ----------------------------
(***************************************************************************)
(* One neuron of the Spring backend: its row, its revisions and the        *)
(* automatic snapshots of it (NeuronService, RevisionService,              *)
(* NeuronSnapshotSchedulerService).                                        *)
(*                                                                         *)
(* Every request runs in one PostgreSQL READ COMMITTED transaction: it     *)
(* reads the row, decides on what it has read, and its commit writes the   *)
(* row back.  The entity has no @Version and no @DynamicUpdate, so the     *)
(* UPDATE names the row by id alone and sets every column to the value     *)
(* read or assigned, and it is skipped when nothing was changed.  Requests *)
(* of different server threads interleave between the statements.          *)
(*                                                                         *)
(* The row's columns are content (contentJson and contentText), version,   *)
(* and a set of marks: "archived", "deleted" and the columns in Marks, of  *)
(* which the model keeps one bit each (title, favorite, pinned, ...).      *)
(***************************************************************************)
EXTENDS Naturals, FiniteSets

CONSTANTS
  Workers,          \* threads that serve HTTP requests
  Scheduler,        \* the thread of the @Scheduled jobs
  Contents,         \* contents a client may save
  PatchContents,    \* contents a PATCH request carries beside its metadata
  Marks,            \* columns the content requests leave alone
  RevIds,           \* identities of revisions: naturals, handed out smallest first
  NoRev,
  MaxRevisions,     \* RevisionService.MAX_REVISIONS_PER_NEURON
  Overlap,          \* may transactions of different threads overlap?
  MaxRequests,      \* bound on the requests of a behaviour
  MaxRestarts       \* bound on the server restarts of a behaviour

ASSUME StoreAssumption ==
  /\ Scheduler \notin Workers
  /\ IsFiniteSet(Workers)
  /\ Contents # {}
  /\ PatchContents \subseteq Contents
  /\ RevIds \subseteq Nat
  /\ NoRev \notin RevIds
  /\ MaxRevisions \in Nat \ {0}
  /\ Overlap \in BOOLEAN
  /\ MaxRequests \in Nat
  /\ MaxRestarts \in Nat

VARIABLES
  row,              \* the committed row of the neuron
  present,          \* FALSE once the row is permanently deleted
  revs,             \* the committed revisions of the neuron
  tx,               \* the transaction each thread is in
  pending,          \* pendingSnapshots: the neuron's entry, by the age of its timestamp
  sched,            \* where processIdleNeurons stands
  requests,         \* number of requests begun
  restarts,         \* number of restarts
  owed,             \* the row's content was saved and is in no revision taken since
  dropped           \* the entry that owed a snapshot is gone with no snapshot taken

vars == <<row, present, revs, tx, pending, sched, requests, restarts, owed, dropped>>
store == <<row, present, revs>>
ghosts == <<owed, dropped>>

Threads == Workers \cup {Scheduler}
Rows == [content : Contents, version : Nat, marks : SUBSET (Marks \cup {"archived", "deleted"})]
Revisions == [id : RevIds, number : Nat, content : Contents]

(* op is what the transaction does, at the statement it has reached, seen   *)
(* the row as it read it, want the row it is going to write; rev is the     *)
(* revision a deletion names, or the one a snapshot evicts, and number the  *)
(* one a snapshot has computed.                                             *)
Txs == [op : {"none", "write", "save", "remove", "unrevise", "snapshot"},
        at : {"begun", "recorded", "full", "room", "picked", "numbered"},
        seen : Rows, want : Rows, rev : RevIds \cup {NoRev}, number : Nat]

BlankRow == [content |-> CHOOSE c \in Contents : TRUE, version |-> 0, marks |-> {}]
NoTx == [op |-> "none", at |-> "begun", seen |-> BlankRow, want |-> BlankRow,
         rev |-> NoRev, number |-> 0]

Idle(w) == tx[w].op = "none"
Live == {r.id : r \in revs}

(* A snapshot that has reached the number query has flushed its DELETE: it  *)
(* holds the lock of the revision it evicts until it commits.               *)
Locked(w, i) ==
  \E o \in Threads \ {w} : tx[o].op = "snapshot" /\ tx[o].at = "numbered" /\ tx[o].rev = i

-----------------------------------------------------------------------------
(* A neuron as NeuronService.create leaves it. *)
Init ==
  /\ row \in [content : Contents, version : {1}, marks : {{}}]
  /\ present = TRUE
  /\ revs = {}
  /\ tx = [w \in Threads |-> NoTx]
  /\ pending = "none"
  /\ sched = "waiting"
  /\ requests = 0
  /\ restarts = 0
  /\ owed = FALSE
  /\ dropped = FALSE

(* A thread opens a transaction whose first statements found the neuron. *)
Open(w, op, want, rev) ==
  /\ Idle(w)
  /\ present
  /\ Overlap \/ \A o \in Threads : Idle(o)
  /\ tx' = [tx EXCEPT ![w] = [op |-> op, at |-> "begun", seen |-> row, want |-> want,
                              rev |-> rev, number |-> 0]]

Request(w, op, want, rev) ==
  /\ w \in Workers
  /\ requests < MaxRequests
  /\ Open(w, op, want, rev)
  /\ requests' = requests + 1
  /\ UNCHANGED <<store, pending, sched, restarts, ghosts>>

Write(w, want) == Request(w, "write", want, NoRev)

(* requireNotDeletedOrArchived *)
Editable == row.marks \cap {"deleted", "archived"} = {}

Marked(r, m) == [r EXCEPT !.marks = @ \cup {m}]
Unmarked(r, m) == [r EXCEPT !.marks = @ \ {m}]
Toggled(r, m) == IF m \in r.marks THEN Unmarked(r, m) ELSE Marked(r, m)

-----------------------------------------------------------------------------
(* NeuronService: the statements up to the write.  A request whose check    *)
(* fails answers 404 or 409 and changes nothing.                            *)

(* PATCH: other columns, and the content too when the request carries one.  *)
Update(w, m) ==
  /\ Editable
  /\ \E c \in PatchContents \cup {row.content} :
       Write(w, Toggled([row EXCEPT !.content = c], m))

(* PUT content: clientVersion is the version of the row the client knows.   *)
UpdateContent(w, clientVersion, c) ==
  /\ Editable
  /\ row.version = clientVersion
  /\ Request(w, "save", [row EXCEPT !.content = c, !.version = @ + 1], NoRev)

Delete(w) == Write(w, Marked(row, "deleted"))

Archive(w) ==
  /\ "deleted" \notin row.marks
  /\ Write(w, Marked(row, "archived"))

Restore(w) == Write(w, Unmarked(row, "archived"))

RestoreFromTrash(w) == Write(w, Unmarked(row, "deleted"))

(* toggleFavorite, togglePin *)
Toggle(w, m) ==
  /\ Editable
  /\ Write(w, Toggled(row, m))

(* move, reorder: another column, whatever the neuron's state. *)
Arrange(w, m) == Write(w, Toggled(row, m))

PermanentDelete(w) == Request(w, "remove", row, NoRev)

-----------------------------------------------------------------------------
(* RevisionService *)

(* Mutant: restoring keeps the version. *)
RestoreRevisionUnversioned(w) ==
  \E r \in revs : Write(w, [row EXCEPT !.content = r.content])

RestoreRevision(w) ==
  \E r \in revs : Write(w, [row EXCEPT !.content = r.content, !.version = @ + 1])

DeleteRevision(w) ==
  \E r \in revs : Request(w, "unrevise", row, r.id)

(* createRevision on behalf of a request: the read of the neuron. *)
CreateRevision(w) == Request(w, "snapshot", row, NoRev)

(* Mutant: the limit is off by one. *)
AtLimitLate == Cardinality(revs) > MaxRevisions

AtLimit == Cardinality(revs) >= MaxRevisions

(* countByNeuronId *)
CountRevisions(w) ==
  /\ tx[w].op = "snapshot" /\ tx[w].at = "begun"
  /\ tx' = [tx EXCEPT ![w].at = IF AtLimit THEN "full" ELSE "room"]
  /\ UNCHANGED <<store, pending, sched, requests, restarts, ghosts>>

(* findTopByNeuronIdOrderByRevisionNumberAsc, and delete if there is one. *)
PickOldest(w) ==
  /\ tx[w].op = "snapshot" /\ tx[w].at = "full"
  /\ \/ /\ revs = {}
        /\ tx' = [tx EXCEPT ![w].at = "picked"]
     \/ \E r \in revs :
          /\ \A s \in revs : r.number <= s.number
          /\ tx' = [tx EXCEPT ![w].at = "picked", ![w].rev = r.id]
  /\ UNCHANGED <<store, pending, sched, requests, restarts, ghosts>>

(* Mutant: the number is taken from the count. *)
NumbersByCount(rs) == {Cardinality(rs) + 1}

(* nextRevisionNumber: one more than the highest number, or 1. *)
Numbers(rs) ==
  IF rs = {} THEN {1}
  ELSE {r.number + 1 : r \in {q \in rs : \A s \in rs : s.number <= q.number}}

(* findTopByNeuronIdOrderByRevisionNumberDesc, before which Hibernate       *)
(* flushes the DELETE: it waits for the row's lock.                         *)
TakeNumber(w) ==
  /\ tx[w].op = "snapshot" /\ tx[w].at \in {"room", "picked"}
  /\ tx[w].rev # NoRev => tx[w].rev \in Live /\ ~Locked(w, tx[w].rev)
  /\ LET others == {r \in revs : r.id # tx[w].rev} IN
     \E n \in Numbers(others) :
       tx' = [tx EXCEPT ![w].at = "numbered", ![w].number = n]
  /\ UNCHANGED <<store, pending, sched, requests, restarts, ghosts>>

-----------------------------------------------------------------------------
(* The ends of a transaction. *)

Close(w) == tx' = [tx EXCEPT ![w] = NoTx]

(* Mutant: an entry that is there already is not refreshed. *)
RecordUpdateOnce(w) ==
  /\ tx[w].op = "save" /\ tx[w].at = "begun"
  /\ pending' = IF pending = "none" THEN "fresh" ELSE pending
  /\ tx' = [tx EXCEPT ![w].at = "recorded"]
  /\ UNCHANGED <<store, sched, requests, restarts, ghosts>>

(* updateContent calls recordUpdate before its transaction commits. *)
RecordUpdate(w) ==
  /\ tx[w].op = "save" /\ tx[w].at = "begun"
  /\ pending' = "fresh"
  /\ tx' = [tx EXCEPT ![w].at = "recorded"]
  /\ UNCHANGED <<store, sched, requests, restarts, ghosts>>

(* The UPDATE and the commit.  It writes the row this transaction has read, *)
(* whatever was committed since; a row that is gone fails it.               *)
CommitWrite(w) ==
  LET t == tx[w] IN
  /\ t.op = "write" \/ (t.op = "save" /\ t.at = "recorded")
  /\ IF t.want = t.seen
       THEN UNCHANGED <<row, ghosts>>
       ELSE /\ present
            /\ row' = t.want
            /\ owed' = (t.op = "save" \/ (owed /\ t.want.content = row.content))
            /\ dropped' = (dropped /\ t.op # "save")
  /\ Close(w)
  /\ UNCHANGED <<present, revs, pending, sched, requests, restarts>>

(* DELETE of the row; the foreign key cascades to its revisions. *)
CommitRemove(w) ==
  /\ tx[w].op = "remove"
  /\ present
  /\ \A i \in Live : ~Locked(w, i)
  /\ present' = FALSE
  /\ revs' = {}
  /\ owed' = FALSE
  /\ Close(w)
  /\ UNCHANGED <<row, pending, sched, requests, restarts, dropped>>

CommitDeleteRevision(w) ==
  /\ tx[w].op = "unrevise"
  /\ tx[w].rev \in Live /\ ~Locked(w, tx[w].rev)
  /\ revs' = {r \in revs : r.id # tx[w].rev}
  /\ Close(w)
  /\ UNCHANGED <<row, present, pending, sched, requests, restarts, ghosts>>

UsedIds == Live \cup {tx[w].rev : w \in Threads}

(* The INSERT, which needs the neuron it refers to, and the commit. *)
CommitSnapshot(w) ==
  /\ tx[w].op = "snapshot" /\ tx[w].at = "numbered"
  /\ present
  /\ \E i \in RevIds \ UsedIds :
       /\ \A j \in RevIds \ UsedIds : i <= j
       /\ revs' = {r \in revs : r.id # tx[w].rev}
                    \cup {[id |-> i, number |-> tx[w].number, content |-> tx[w].seen.content]}
  /\ owed' = (owed /\ tx[w].seen.content # row.content)
  /\ sched' = IF w = Scheduler THEN "waiting" ELSE sched
  /\ Close(w)
  /\ UNCHANGED <<row, present, pending, requests, restarts, dropped>>

(* The database refuses a statement (the row is gone, a lock cycle, a lost  *)
(* connection) and the transaction is rolled back.  processIdleNeurons logs *)
(* the exception and forgets the neuron.                                    *)
Abort(w) ==
  /\ ~Idle(w)
  /\ sched' = IF w = Scheduler THEN "waiting" ELSE sched
  /\ dropped' = (dropped \/ (w = Scheduler /\ owed /\ pending = "none"))
  /\ Close(w)
  /\ UNCHANGED <<store, pending, requests, restarts, owed>>

-----------------------------------------------------------------------------
(* NeuronSnapshotSchedulerService.processIdleNeurons *)

(* idleMinutes pass without an update.  A transaction takes far less, and   *)
(* so does one round of the scheduler.                                      *)
IdleTime ==
  /\ pending = "fresh"
  /\ \A w \in Workers : tx[w].at # "recorded"
  /\ sched # "looked"
  /\ pending' = "aged"
  /\ UNCHANGED <<store, tx, sched, requests, restarts, ghosts>>

(* The loop meets an entry that is idle long enough... *)
FindIdle ==
  /\ sched = "waiting"
  /\ pending = "aged"
  /\ sched' = "looked"
  /\ UNCHANGED <<store, tx, pending, requests, restarts, ghosts>>

(* Mutant: the removal does not compare timestamps. *)
RemoveIdleAlways ==
  /\ sched = "looked"
  /\ pending' = "none" /\ sched' = "removed"
  /\ UNCHANGED <<store, tx, requests, restarts, ghosts>>

(* ... and removes it unless its timestamp has changed since. *)
RemoveIdle ==
  /\ sched = "looked"
  /\ IF pending = "aged"
       THEN pending' = "none" /\ sched' = "removed"
       ELSE sched' = "waiting" /\ UNCHANGED pending
  /\ UNCHANGED <<store, tx, requests, restarts, ghosts>>

AutoSnapshot ==
  /\ sched = "removed"
  /\ IF present
       THEN Open(Scheduler, "snapshot", row, NoRev) /\ sched' = "snapshotting"
       ELSE sched' = "waiting" /\ UNCHANGED tx
  /\ UNCHANGED <<store, pending, requests, restarts, ghosts>>

(* The process stops and starts again: what was in memory is gone, the open *)
(* transactions are rolled back.                                            *)
Restart ==
  /\ restarts < MaxRestarts
  /\ restarts' = restarts + 1
  /\ tx' = [w \in Threads |-> NoTx]
  /\ pending' = "none"
  /\ sched' = "waiting"
  /\ dropped' = (dropped \/ owed)
  /\ UNCHANGED <<store, requests, owed>>

-----------------------------------------------------------------------------
Begin(w) ==
  \/ \E m \in Marks : Update(w, m)
  \/ \E v \in 1 .. MaxRequests + 1, c \in Contents : UpdateContent(w, v, c)
  \/ Delete(w)
  \/ Archive(w)
  \/ Restore(w)
  \/ RestoreFromTrash(w)
  \/ \E m \in Marks : Toggle(w, m)
  \/ \E m \in Marks : Arrange(w, m)
  \/ PermanentDelete(w)
  \/ RestoreRevision(w)
  \/ DeleteRevision(w)
  \/ CreateRevision(w)

Proceed(w) ==
  \/ RecordUpdate(w)
  \/ CountRevisions(w)
  \/ PickOldest(w)
  \/ TakeNumber(w)
  \/ CommitWrite(w)
  \/ CommitRemove(w)
  \/ CommitDeleteRevision(w)
  \/ CommitSnapshot(w)
  \/ Abort(w)

RunScheduler == FindIdle \/ RemoveIdle \/ AutoSnapshot

Next ==
  \/ \E w \in Workers : Begin(w)
  \/ \E w \in Threads : Proceed(w)
  \/ IdleTime
  \/ RunScheduler
  \/ Restart

Spec == Init /\ [][Next]_vars

(* Transactions end, the clock runs and the job fires every minute; nobody  *)
(* has to send a request.                                                   *)
Fairness ==
  /\ \A w \in Threads : WF_vars(Proceed(w))
  /\ WF_vars(IdleTime)
  /\ WF_vars(RunScheduler)

FairSpec == Spec /\ Fairness

-----------------------------------------------------------------------------
(* Every variable has its type, and only a snapshot or a save gets past the *)
(* first statement.                                                         *)
TypeOK ==
  /\ row \in Rows
  /\ present \in BOOLEAN
  /\ revs \in SUBSET Revisions
  /\ tx \in [Threads -> Txs]
  /\ pending \in {"none", "fresh", "aged"}
  /\ sched \in {"waiting", "looked", "removed", "snapshotting"}
  /\ requests \in Nat
  /\ restarts \in Nat
  /\ owed \in BOOLEAN
  /\ dropped \in BOOLEAN

(* How many transactions can be open at once. *)
Concurrency == IF Overlap THEN Cardinality(Threads) ELSE 1

(* createRevision's count and its insert are statements apart, and nothing  *)
(* in the schema limits the rows.  The cap of MAX_REVISIONS_PER_NEURON is   *)
(* exceeded by at most the other transactions that can be open meanwhile,   *)
(* however long the service runs, and not at all when snapshots of a neuron *)
(* never overlap.                                                           *)
RevisionsBounded == Cardinality(revs) <= MaxRevisions + Concurrency - 1

(* Two snapshots that overlap may take the same revision number; no number  *)
(* is ever shared by more revisions than transactions can be open at once,  *)
(* so numbers are unique when snapshots of a neuron never overlap.          *)
NumberShared ==
  \A r \in revs : Cardinality({s \in revs : s.number = r.number}) <= Concurrency

(* The revisions of a neuron stay within their limit, and their numbers are *)
(* told apart, whatever evictions, deletions and snapshots come between.    *)
RevisionsKept == RevisionsBounded /\ NumberShared

(* An entry or a snapshot under way still accounts for the saved content.   *)
SnapshotComing ==
  \/ pending # "none"
  \/ sched = "removed"
  \/ sched = "snapshotting" /\ tx[Scheduler].seen.content = row.content

(* Content that a client has saved and no snapshot has captured since has   *)
(* an entry in pendingSnapshots, or the job is on its way to capture that   *)
(* content.  Only a restart and a snapshot that fails lose the obligation.  *)
(* The job may race with a save anywhere between its look at the entry, its *)
(* removal and the read of the row.                                         *)
SnapshotOwed == owed /\ ~dropped => SnapshotComing

(* Once clients stop, saved content gets captured in a revision.            *)
SnapshotTaken == owed ~> (~owed \/ dropped)

(* Optimistic locking as the clients see it. *)
Cell == INSTANCE VersionedCell WITH content <- row.content, version <- row.version

(* With requests served one at a time the row is the versioned cell: every  *)
(* save and every restore moves the version on by one, a save only from the *)
(* version its client knows, and no other operation of either service       *)
(* touches content or version, except that NeuronService.update, the PATCH, *)
(* sets a content it carries and leaves the version alone.                  *)
ImplementsCell == Cell!Spec

(* The claim that optimistic locking prevents concurrent edit data loss: a  *)
(* save that is acknowledged has replaced the content of the version its    *)
(* client knew.                                                             *)
NoLostSave ==
  [][\A w \in Workers :
        CommitWrite(w) /\ tx[w].op = "save" => row.version = tx[w].seen.version]_vars

=============================================================================
