------------------------- MODULE NeuronStoreProofs -------------------------
(***************************************************************************)
(* Theorems about NeuronStore, for every number of threads and revisions.  *)
(***************************************************************************)
EXTENDS NeuronStore, FiniteSetTheorems, TLAPS

LEMMA BlankRowType == BlankRow \in Rows /\ NoTx \in Txs
<1>1. (CHOOSE c \in Contents : TRUE) \in Contents
  BY StoreAssumption
<1> QED
  BY <1>1 DEF BlankRow, Rows, NoTx, Txs

LEMMA NewVersionType ==
  ASSUME row \in Rows, NEW c \in Contents
  PROVE  /\ [row EXCEPT !.content = c, !.version = @ + 1] \in Rows
         /\ [row EXCEPT !.content = c, !.version = @ + 1].version = row.version + 1
         /\ [row EXCEPT !.content = c, !.version = @ + 1].content = c
<1>1. row.version + 1 \in Nat
  BY DEF Rows
<1> QED
  BY <1>1 DEF Rows

(* Every request of a client, by the transaction it opens. *)
LEMMA BeginOpens ==
  ASSUME TypeOK, NEW w \in Workers, Begin(w)
  PROVE  \E op \in {"write", "save", "remove", "unrevise", "snapshot"},
            want \in Rows, rev \in RevIds \cup {NoRev} :
           /\ Request(w, op, want, rev)
           /\ op = "snapshot" => rev = NoRev
           /\ op = "save" => want.version = row.version + 1
           /\ op = "write" => \/ want.version = row.version /\
                                 (want.content = row.content \/ want.content \in PatchContents)
                              \/ want.version = row.version + 1
<1> USE StoreAssumption DEF TypeOK, Rows
<1> DEFINE Goal(op, want, rev) ==
      /\ Request(w, op, want, rev)
      /\ op = "snapshot" => rev = NoRev
      /\ op = "save" => want.version = row.version + 1
      /\ op = "write" => \/ want.version = row.version /\
                            (want.content = row.content \/ want.content \in PatchContents)
                         \/ want.version = row.version + 1
<1>1. ASSUME NEW m \in Marks, Update(w, m) PROVE \E want \in Rows : Goal("write", want, NoRev)
  <2>1. PICK c \in PatchContents \cup {row.content} :
          Write(w, Toggled([row EXCEPT !.content = c], m))
    BY <1>1 DEF Update
  <2>2. /\ Toggled([row EXCEPT !.content = c], m) \in Rows
        /\ Toggled([row EXCEPT !.content = c], m).version = row.version
        /\ Toggled([row EXCEPT !.content = c], m).content = c
    BY <1>1 DEF Toggled, Marked, Unmarked
  <2> QED
    BY <2>1, <2>2 DEF Write
<1>2. ASSUME NEW v \in Nat, NEW c \in Contents, UpdateContent(w, v, c)
      PROVE  \E want \in Rows : Goal("save", want, NoRev)
  <2> DEFINE want == [row EXCEPT !.content = c, !.version = @ + 1]
  <2>1. want \in Rows /\ want.version = row.version + 1
    BY NewVersionType
  <2>2. Request(w, "save", want, NoRev)
    BY <1>2 DEF UpdateContent
  <2> QED
    BY <2>1, <2>2
<1>3. ASSUME Delete(w) PROVE \E want \in Rows : Goal("write", want, NoRev)
  BY <1>3 DEF Delete, Write, Marked
<1>4. ASSUME Archive(w) PROVE \E want \in Rows : Goal("write", want, NoRev)
  BY <1>4 DEF Archive, Write, Marked
<1>5. ASSUME Restore(w) PROVE \E want \in Rows : Goal("write", want, NoRev)
  BY <1>5 DEF Restore, Write, Unmarked
<1>6. ASSUME RestoreFromTrash(w) PROVE \E want \in Rows : Goal("write", want, NoRev)
  BY <1>6 DEF RestoreFromTrash, Write, Unmarked
<1>7. ASSUME NEW m \in Marks, Toggle(w, m) \/ Arrange(w, m)
      PROVE  \E want \in Rows : Goal("write", want, NoRev)
  <2>1. /\ Toggled(row, m) \in Rows
        /\ Toggled(row, m).version = row.version
        /\ Toggled(row, m).content = row.content
    BY <1>7 DEF Toggled, Marked, Unmarked
  <2> QED
    BY <1>7, <2>1 DEF Toggle, Arrange, Write
<1>8. ASSUME PermanentDelete(w) PROVE \E want \in Rows : Goal("remove", want, NoRev)
  BY <1>8 DEF PermanentDelete
<1>9. ASSUME RestoreRevision(w) PROVE \E want \in Rows : Goal("write", want, NoRev)
  <2>1. PICK r \in revs : Write(w, [row EXCEPT !.content = r.content, !.version = @ + 1])
    BY <1>9 DEF RestoreRevision
  <2> DEFINE want == [row EXCEPT !.content = r.content, !.version = @ + 1]
  <2>2. want \in Rows /\ want.version = row.version + 1
    BY NewVersionType DEF Revisions
  <2>3. Request(w, "write", want, NoRev)
    BY <2>1 DEF Write
  <2> QED
    BY <2>2, <2>3
<1>10. ASSUME DeleteRevision(w)
       PROVE  \E want \in Rows, rev \in RevIds : Goal("unrevise", want, rev)
  BY <1>10 DEF DeleteRevision, Revisions
<1>11. ASSUME CreateRevision(w) PROVE \E want \in Rows : Goal("snapshot", want, NoRev)
  BY <1>11 DEF CreateRevision
<1> DEFINE SomeGoal == \E op \in {"write", "save", "remove", "unrevise", "snapshot"},
                        want \in Rows, rev \in RevIds \cup {NoRev} : Goal(op, want, rev)
<1> HIDE DEF Goal
<1>12. SomeGoal
  <2>1. ASSUME NEW op \in {"write", "save", "remove", "unrevise", "snapshot"},
               NEW rev \in RevIds \cup {NoRev}, \E want \in Rows : Goal(op, want, rev)
        PROVE  SomeGoal
    BY <2>1
  <2>2. 1 .. MaxRequests + 1 \subseteq Nat
    OBVIOUS
  <2> HIDE DEF SomeGoal
  <2> QED
    BY <1>1, <1>2, <1>3, <1>4, <1>5, <1>6, <1>7, <1>8, <1>9, <1>10, <1>11, <2>1, <2>2 DEF Begin
<1> QED
  BY <1>12 DEF Goal

-----------------------------------------------------------------------------
(* Every variable keeps its type: the fields of an open transaction are     *)
(* read from typed rows and revisions, and the number of a new revision is  *)
(* computed from those of typed ones.                                       *)
THEOREM TypeCorrect == Spec => []TypeOK
<1> USE StoreAssumption DEF TypeOK
<1>1. Init => TypeOK
  <2> SUFFICES ASSUME Init PROVE TypeOK
    OBVIOUS
  <2>1. row \in Rows
    BY DEF Init, Rows
  <2>2. tx \in [Threads -> Txs]
    BY BlankRowType DEF Init
  <2> QED
    BY <2>1, <2>2 DEF Init
<1>2. TypeOK /\ [Next]_vars => TypeOK'
  <2> SUFFICES ASSUME TypeOK, [Next]_vars PROVE TypeOK'
    OBVIOUS
  <2> USE DEF store, ghosts
  <2>1. ASSUME NEW w \in Workers, Begin(w) PROVE TypeOK'
    <3>1. PICK op \in {"write", "save", "remove", "unrevise", "snapshot"},
               want \in Rows, rev \in RevIds \cup {NoRev} : Request(w, op, want, rev)
      BY <2>1, BeginOpens
    <3> DEFINE t == [op |-> op, at |-> "begun", seen |-> row, want |-> want,
                     rev |-> rev, number |-> 0]
    <3>2. t \in Txs
      BY DEF Txs
    <3>3. tx' = [tx EXCEPT ![w] = t]
      BY <3>1 DEF Request, Open
    <3> HIDE DEF t
    <3>4. tx' \in [Threads -> Txs]
      BY <3>2, <3>3
    <3> QED
      BY <3>1, <3>4 DEF Request
  <2>2. ASSUME NEW w \in Threads, RecordUpdate(w) PROVE TypeOK'
    BY <2>2 DEF RecordUpdate, Txs
  <2>3. ASSUME NEW w \in Threads, CountRevisions(w) PROVE TypeOK'
    BY <2>3 DEF CountRevisions, Txs
  <2>4. ASSUME NEW w \in Threads, PickOldest(w) PROVE TypeOK'
    BY <2>4 DEF PickOldest, Txs, Revisions
  <2>5. ASSUME NEW w \in Threads, TakeNumber(w) PROVE TypeOK'
    <3>1. \A rs \in SUBSET Revisions : Numbers(rs) \subseteq Nat
      BY DEF Numbers, Revisions
    <3>2. PICK n \in Nat : tx' = [tx EXCEPT ![w].at = "numbered", ![w].number = n]
      BY <2>5, <3>1 DEF TakeNumber
    <3>3. [tx[w] EXCEPT !.at = "numbered", !.number = n] \in Txs
      BY DEF Txs
    <3>4. tx' \in [Threads -> Txs]
      BY <3>2, <3>3
    <3> QED
      BY <2>5, <3>4 DEF TakeNumber
  <2>6. ASSUME NEW w \in Threads, CommitWrite(w) PROVE TypeOK'
    BY <2>6, BlankRowType DEF CommitWrite, Close, Txs
  <2>7. ASSUME NEW w \in Threads, CommitRemove(w) PROVE TypeOK'
    BY <2>7, BlankRowType DEF CommitRemove, Close
  <2>8. ASSUME NEW w \in Threads, CommitDeleteRevision(w) PROVE TypeOK'
    BY <2>8, BlankRowType DEF CommitDeleteRevision, Close
  <2>9. ASSUME NEW w \in Threads, CommitSnapshot(w) PROVE TypeOK'
    BY <2>9, BlankRowType DEF CommitSnapshot, Close, Txs, Rows, Revisions
  <2>10. ASSUME NEW w \in Threads, Abort(w) PROVE TypeOK'
    BY <2>10, BlankRowType DEF Abort, Close
  <2>11. ASSUME IdleTime \/ FindIdle \/ RemoveIdle PROVE TypeOK'
    BY <2>11 DEF IdleTime, FindIdle, RemoveIdle
  <2>12. ASSUME AutoSnapshot PROVE TypeOK'
    BY <2>12 DEF AutoSnapshot, Open, Txs, Threads
  <2>13. ASSUME Restart PROVE TypeOK'
    BY <2>13, BlankRowType DEF Restart
  <2>14. CASE UNCHANGED vars
    BY <2>14 DEF vars
  <2> QED
    BY <2>1, <2>2, <2>3, <2>4, <2>5, <2>6, <2>7, <2>8, <2>9, <2>10, <2>11, <2>12, <2>13, <2>14
    DEF Next, Proceed, RunScheduler
<1> QED
  BY <1>1, <1>2, PTL DEF Spec

-----------------------------------------------------------------------------
(* Why the revisions stay bounded.  A snapshot that has seen room for one   *)
(* more revision, or nothing to evict, is going to add one: Inserting.  The *)
(* revisions and these additions together never exceed the bound, because a *)
(* snapshot joins Inserting only while there are fewer than MaxRevisions;   *)
(* every other snapshot removes a revision with the one it adds, which is   *)
(* still there because its lock is held: EvictedLive.                       *)
Busy == {w \in Threads : ~Idle(w)}

Numbered(w) == tx[w].op = "snapshot" /\ tx[w].at = "numbered"

Inserting ==
  {w \in Threads : /\ tx[w].op = "snapshot"
                   /\ tx[w].at \in {"room", "picked", "numbered"}
                   /\ tx[w].rev = NoRev}

EvictedLive ==
  \A w \in Threads :
    Numbered(w) /\ tx[w].rev # NoRev => tx[w].rev \in Live /\ ~Locked(w, tx[w].rev)

BoundInv ==
  /\ Cardinality(Busy) <= Concurrency
  /\ IsFiniteSet(revs)
  /\ Cardinality(revs) + Cardinality(Inserting) <= MaxRevisions + Concurrency - 1
  /\ EvictedLive

LEMMA ThreadsFinite ==
  /\ IsFiniteSet(Threads)
  /\ Concurrency \in Nat \ {0}
  /\ Concurrency <= Cardinality(Threads)
  /\ \A S \in SUBSET Threads : IsFiniteSet(S) /\ Cardinality(S) \in Nat
<1>1. IsFiniteSet(Threads)
  BY FS_AddElement, StoreAssumption DEF Threads
<1>2. Cardinality(Threads) \in Nat \ {0}
  BY <1>1, FS_CardinalityType, FS_EmptySet DEF Threads
<1>3. \A S \in SUBSET Threads : IsFiniteSet(S) /\ Cardinality(S) \in Nat
  BY <1>1, FS_Subset, FS_CardinalityType
<1> QED
  BY <1>1, <1>2, <1>3 DEF Concurrency

(* At most Concurrency transactions are open after any step. *)
LEMMA BusyStep ==
  ASSUME TypeOK, Cardinality(Busy) <= Concurrency, [Next]_vars
  PROVE  Cardinality(Busy') <= Concurrency
<1> USE ThreadsFinite
<1>1. CASE Busy' \subseteq Busy
  <2>1. Cardinality(Busy') <= Cardinality(Busy)
    BY <1>1, FS_Subset DEF Busy
  <2>2. Cardinality(Busy) \in Nat /\ Cardinality(Busy') \in Nat
    BY DEF Busy
  <2> QED
    BY <2>1, <2>2
<1>2. ASSUME NEW w \in Threads, NEW op, NEW want, NEW rev, Open(w, op, want, rev)
      PROVE  Cardinality(Busy') <= Concurrency
  <2>1. CASE Overlap
    BY <2>1, FS_Subset DEF Busy, Concurrency
  <2>2. CASE ~Overlap
    <3>1. Busy' \subseteq {w}
      BY <2>2, <1>2 DEF Open, Busy, Idle, TypeOK
    <3>2. Cardinality({w}) = 1 /\ IsFiniteSet({w})
      BY FS_Singleton
    <3> QED
      BY <2>2, <3>1, <3>2, FS_Subset DEF Concurrency
  <2> QED
    BY <2>1, <2>2
<1>3. ASSUME NEW w \in Workers, Begin(w) PROVE Cardinality(Busy') <= Concurrency
  BY <1>2, <1>3, BeginOpens DEF Request, Threads
<1>4. CASE AutoSnapshot
  <2>1. CASE present
    BY <1>2, <1>4, <2>1 DEF AutoSnapshot, Threads
  <2>2. CASE ~present
    BY <1>1, <1>4, <2>2 DEF AutoSnapshot, Busy, Idle
  <2> QED
    BY <2>1, <2>2
<1>5. ASSUME NEW w \in Threads, Proceed(w) PROVE Busy' \subseteq Busy
  <2>1. \A o \in Threads : o # w => tx'[o] = tx[o]
    BY <1>5 DEF Proceed, RecordUpdate, CountRevisions, PickOldest, TakeNumber, CommitWrite,
                CommitRemove, CommitDeleteRevision, CommitSnapshot, Abort, Close, TypeOK
  <2>2. ~Idle(w)
    BY <1>5 DEF Proceed, RecordUpdate, CountRevisions, PickOldest, TakeNumber, CommitWrite,
                CommitRemove, CommitDeleteRevision, CommitSnapshot, Abort, Idle
  <2> QED
    BY <2>1, <2>2 DEF Busy, Idle
<1>6. CASE Restart
  BY <1>1, <1>6 DEF Restart, Busy, Idle, NoTx
<1>7. CASE IdleTime \/ FindIdle \/ RemoveIdle \/ UNCHANGED vars
  BY <1>1, <1>7 DEF IdleTime, FindIdle, RemoveIdle, vars, Busy, Idle
<1> QED
  BY <1>1, <1>3, <1>4, <1>5, <1>6, <1>7 DEF Next, RunScheduler

(* A step that adds no revision and lets no snapshot join Inserting keeps   *)
(* the count.                                                               *)
LEMMA CountStep ==
  ASSUME IsFiniteSet(revs), Inserting' \subseteq Inserting, revs' \subseteq revs,
         Cardinality(revs) + Cardinality(Inserting) <= MaxRevisions + Concurrency - 1
  PROVE  /\ IsFiniteSet(revs')
         /\ Cardinality(revs') + Cardinality(Inserting') <= MaxRevisions + Concurrency - 1
<1>1. Inserting \in SUBSET Threads
  BY DEF Inserting
<1>2. Cardinality(Inserting') <= Cardinality(Inserting)
  BY <1>1, ThreadsFinite, FS_Subset
<1>3. IsFiniteSet(revs') /\ Cardinality(revs') <= Cardinality(revs)
  BY FS_Subset
<1>4. /\ Cardinality(revs) \in Nat /\ Cardinality(revs') \in Nat
      /\ Cardinality(Inserting) \in Nat /\ Cardinality(Inserting') \in Nat
  BY <1>1, <1>3, FS_CardinalityType, ThreadsFinite
<1> QED
  BY <1>2, <1>3, <1>4, ThreadsFinite, StoreAssumption

(* A transaction that begins: it is at its first statement. *)
LEMMA OpenStep ==
  ASSUME TypeOK, BoundInv, NEW w \in Threads, NEW op, NEW want, NEW rev,
         Open(w, op, want, rev), UNCHANGED revs
  PROVE  Inserting' \subseteq Inserting /\ EvictedLive'
<1>1. \A o \in Threads : o # w => tx'[o] = tx[o]
  BY DEF Open, TypeOK
<1>2. tx'[w].at = "begun"
  BY DEF Open, TypeOK
<1> QED
  BY <1>1, <1>2 DEF Inserting, EvictedLive, BoundInv, Numbered, Locked, Live

(* A transaction that ends without touching a revision another one evicts. *)
LEMMA CloseStep ==
  ASSUME TypeOK, BoundInv, NEW w \in Threads, Close(w),
         \A o \in Threads \ {w} :
           Numbered(o) /\ tx[o].rev # NoRev /\ tx[o].rev \in Live => tx[o].rev \in Live'
  PROVE  Inserting' = Inserting \ {w} /\ EvictedLive'
<1>1. \A o \in Threads : o # w => tx'[o] = tx[o]
  BY DEF Close, TypeOK
<1>2. tx'[w].op = "none"
  BY DEF Close, TypeOK, NoTx
<1> QED
  BY <1>1, <1>2 DEF Inserting, EvictedLive, BoundInv, Numbered, Locked

LEMMA BoundStep ==
  ASSUME TypeOK, BoundInv, [Next]_vars
  PROVE  BoundInv'
<1> USE StoreAssumption
<1> DEFINE Sum == Cardinality(revs) + Cardinality(Inserting)
           Bound == MaxRevisions + Concurrency - 1
<1>1. Cardinality(Busy') <= Concurrency
  BY BusyStep DEF BoundInv
<1>2. ASSUME Inserting' \subseteq Inserting, revs' \subseteq revs, EvictedLive' PROVE BoundInv'
  BY <1>1, <1>2, CountStep DEF BoundInv
<1>3. ASSUME NEW w \in Threads, Close(w), UNCHANGED revs PROVE BoundInv'
  BY <1>2, <1>3, CloseStep DEF Live
<1>4. ASSUME NEW w \in Workers, Begin(w) PROVE BoundInv'
  BY <1>2, <1>4, BeginOpens, OpenStep DEF Request, store, Threads
<1>5. ASSUME NEW w \in Threads, RecordUpdate(w) PROVE BoundInv'
  BY <1>2, <1>5 DEF RecordUpdate, store, TypeOK, Inserting, EvictedLive, BoundInv, Numbered,
                    Locked, Live
<1>6. ASSUME NEW w \in Threads, CountRevisions(w) PROVE BoundInv'
  <2>1. \A o \in Threads : o # w => tx'[o] = tx[o]
    BY <1>6 DEF CountRevisions, TypeOK
  <2>2. tx'[w].at \in {"full", "room"} /\ UNCHANGED revs
    BY <1>6 DEF CountRevisions, TypeOK, Txs, store
  <2>3. EvictedLive'
    BY <2>1, <2>2 DEF EvictedLive, BoundInv, Numbered, Locked, Live
  <2>4. CASE Cardinality(revs) >= MaxRevisions
    <3>1. tx'[w].at = "full"
      BY <1>6, <2>4 DEF CountRevisions, AtLimit, TypeOK, Txs
    <3> QED
      BY <1>2, <2>1, <2>2, <2>3, <3>1 DEF Inserting
  <2>5. CASE ~(Cardinality(revs) >= MaxRevisions)
    <3>1. Inserting' \subseteq Busy'
      BY DEF Inserting, Busy, Idle
    <3>2. Cardinality(Inserting') <= Cardinality(Busy')
      BY <3>1, ThreadsFinite, FS_Subset DEF Busy
    <3>3. /\ Cardinality(Inserting') \in Nat /\ Cardinality(Busy') \in Nat
          /\ Cardinality(revs) \in Nat
      BY ThreadsFinite, FS_CardinalityType DEF Inserting, Busy, BoundInv
    <3>4. Cardinality(revs) + Cardinality(Inserting') <= MaxRevisions + Concurrency - 1
      BY <1>1, <2>5, <3>2, <3>3, ThreadsFinite
    <3> QED
      BY <1>1, <2>2, <2>3, <3>4 DEF BoundInv
  <2> QED
    BY <2>4, <2>5
<1>7. ASSUME NEW w \in Threads, PickOldest(w) PROVE BoundInv'
  <2>1. \A o \in Threads : o # w => tx'[o] = tx[o]
    BY <1>7 DEF PickOldest, TypeOK
  <2>2. tx'[w].at = "picked" /\ UNCHANGED revs
    BY <1>7 DEF PickOldest, TypeOK, Txs, store
  <2>3. EvictedLive'
    BY <2>1, <2>2 DEF EvictedLive, BoundInv, Numbered, Locked, Live
  <2>4. CASE revs = {}
    <3>1. Inserting' \subseteq Busy'
      BY DEF Inserting, Busy, Idle
    <3>2. Cardinality(Inserting') <= Cardinality(Busy')
      BY <3>1, ThreadsFinite, FS_Subset DEF Busy
    <3>3. Cardinality(Inserting') \in Nat /\ Cardinality(Busy') \in Nat
      BY ThreadsFinite DEF Inserting, Busy
    <3>4. Cardinality(revs') = 0
      BY <2>2, <2>4, FS_EmptySet
    <3> QED
      BY <1>1, <2>2, <2>3, <3>2, <3>3, <3>4, ThreadsFinite DEF BoundInv
  <2>5. CASE revs # {}
    <3>1. tx'[w].rev # NoRev
      BY <1>7, <2>5 DEF PickOldest, TypeOK, Revisions, Txs
    <3> QED
      BY <1>2, <2>1, <2>2, <2>3, <3>1 DEF Inserting
  <2> QED
    BY <2>4, <2>5
<1>8. ASSUME NEW w \in Threads, TakeNumber(w) PROVE BoundInv'
  <2>1. \A o \in Threads : o # w => tx'[o] = tx[o]
    BY <1>8 DEF TakeNumber, TypeOK
  <2>2. /\ tx[w].op = "snapshot" /\ tx[w].at \in {"room", "picked"}
        /\ tx'[w].op = tx[w].op /\ tx'[w].rev = tx[w].rev
        /\ UNCHANGED revs
    BY <1>8 DEF TakeNumber, TypeOK, Txs, store
  <2>3. tx[w].rev # NoRev => tx[w].rev \in Live /\ ~Locked(w, tx[w].rev)
    BY <1>8 DEF TakeNumber
  <2>4. Inserting' \subseteq Inserting
    BY <2>1, <2>2 DEF Inserting
  <2>5. EvictedLive'
    BY <2>1, <2>2, <2>3 DEF EvictedLive, BoundInv, Numbered, Locked, Live
  <2> QED
    BY <1>2, <2>2, <2>4, <2>5
<1>9. ASSUME NEW w \in Threads, CommitWrite(w) PROVE BoundInv'
  BY <1>3, <1>9 DEF CommitWrite
<1>10. ASSUME NEW w \in Threads, CommitRemove(w) PROVE BoundInv'
  <2>1. \A o \in Threads \ {w} : Numbered(o) /\ tx[o].rev # NoRev => tx[o].rev \notin Live
    BY <1>10 DEF CommitRemove, Locked, Numbered
  <2>2. revs' = {}
    BY <1>10 DEF CommitRemove
  <2> QED
    BY <1>2, <1>10, <2>1, <2>2, CloseStep DEF CommitRemove
<1>11. ASSUME NEW w \in Threads, CommitDeleteRevision(w) PROVE BoundInv'
  <2>1. \A o \in Threads \ {w} : Numbered(o) => tx[o].rev # tx[w].rev
    BY <1>11 DEF CommitDeleteRevision, Locked, Numbered
  <2>2. revs' = {r \in revs : r.id # tx[w].rev} /\ Close(w)
    BY <1>11 DEF CommitDeleteRevision
  <2>3. \A i \in Live : i # tx[w].rev => i \in Live'
    BY <2>2 DEF Live
  <2> QED
    BY <1>2, <2>1, <2>2, <2>3, CloseStep
<1>12. ASSUME NEW w \in Threads, CommitSnapshot(w) PROVE BoundInv'
  <2> DEFINE kept == {r \in revs : r.id # tx[w].rev}
  <2>1. PICK new : revs' = kept \cup {new}
    BY <1>12 DEF CommitSnapshot
  <2>2. Close(w) /\ Numbered(w)
    BY <1>12 DEF CommitSnapshot, Numbered
  <2>3. Inserting' = Inserting \ {w} /\ EvictedLive'
    <3>1. \A o \in Threads \ {w} :
            Numbered(o) /\ tx[o].rev # NoRev => tx[o].rev # tx[w].rev
      BY <2>2 DEF BoundInv, EvictedLive, Locked, Numbered
    <3>2. \A i \in Live : i # tx[w].rev => i \in Live'
      BY <2>1 DEF Live
    <3> QED
      BY <2>2, <3>1, <3>2, CloseStep
  <2>4. /\ IsFiniteSet(revs) /\ IsFiniteSet(kept) /\ Cardinality(kept) <= Cardinality(revs)
        /\ Cardinality(revs) \in Nat /\ Cardinality(kept) \in Nat
    BY FS_Subset, FS_CardinalityType DEF BoundInv
  <2>5. /\ IsFiniteSet(revs') /\ Cardinality(revs') <= Cardinality(kept) + 1
        /\ Cardinality(revs') \in Nat
    <3> HIDE DEF kept
    <3>1. /\ IsFiniteSet(kept \cup {new})
          /\ Cardinality(kept \cup {new}) = IF new \in kept THEN Cardinality(kept)
                                            ELSE Cardinality(kept) + 1
      BY <2>4, FS_AddElement
    <3> QED
      BY <2>1, <2>4, <3>1
  <2>6. /\ IsFiniteSet(Inserting) /\ Cardinality(Inserting) \in Nat
        /\ Cardinality(Inserting') \in Nat /\ Cardinality(Inserting') <= Cardinality(Inserting)
    BY <2>3, ThreadsFinite, FS_Subset DEF Inserting
  <2>7. CASE tx[w].rev = NoRev
    <3>1. w \in Inserting
      BY <2>2, <2>7 DEF Inserting, Numbered
    <3>2. Cardinality(Inserting') = Cardinality(Inserting) - 1
      BY <2>3, <2>6, <3>1, FS_RemoveElement
    <3> QED
      BY <1>1, <2>3, <2>4, <2>5, <2>6, <3>2, ThreadsFinite DEF BoundInv
  <2>8. CASE tx[w].rev # NoRev
    <3>1. PICK old \in revs : old.id = tx[w].rev
      BY <2>2, <2>8 DEF BoundInv, EvictedLive, Live
    <3>2. kept \subseteq revs \ {old}
      BY <3>1
    <3>3. IsFiniteSet(revs \ {old}) /\ Cardinality(revs \ {old}) = Cardinality(revs) - 1
      BY <2>4, <3>1, FS_RemoveElement
    <3>4. Cardinality(kept) <= Cardinality(revs) - 1
      BY <3>2, <3>3, FS_Subset
    <3> QED
      BY <1>1, <2>3, <2>4, <2>5, <2>6, <3>4, ThreadsFinite DEF BoundInv
  <2> QED
    BY <2>7, <2>8
<1>13. ASSUME NEW w \in Threads, Abort(w) PROVE BoundInv'
  BY <1>3, <1>13 DEF Abort, store
<1>14. CASE AutoSnapshot
  <2>1. CASE present
    BY <1>2, <1>14, <2>1, OpenStep DEF AutoSnapshot, store, Threads
  <2>2. CASE ~present
    BY <1>2, <1>14, <2>2 DEF AutoSnapshot, store, Inserting, EvictedLive, BoundInv, Numbered,
                             Locked, Live
  <2> QED
    BY <2>1, <2>2
<1>15. CASE Restart
  BY <1>2, <1>15 DEF Restart, store, NoTx, Inserting, EvictedLive, Numbered
<1>16. CASE IdleTime \/ FindIdle \/ RemoveIdle \/ UNCHANGED vars
  BY <1>2, <1>16 DEF IdleTime, FindIdle, RemoveIdle, vars, store, Inserting, EvictedLive,
                     BoundInv, Numbered, Locked, Live
<1> QED
  BY <1>4, <1>5, <1>6, <1>7, <1>8, <1>9, <1>10, <1>11, <1>12, <1>13, <1>14, <1>15, <1>16
  DEF Next, Proceed, RunScheduler

LEMMA BoundInit == Init => BoundInv
<1> SUFFICES ASSUME Init PROVE BoundInv
  OBVIOUS
<1>1. \A w \in Threads : tx[w].op = "none"
  BY DEF Init, NoTx
<1>2. Busy = {} /\ Inserting = {} /\ revs = {}
  BY <1>1 DEF Init, Busy, Inserting, Idle
<1>3. EvictedLive
  BY <1>1 DEF EvictedLive, Numbered
<1> QED
  BY <1>2, <1>3, ThreadsFinite, FS_EmptySet, StoreAssumption DEF BoundInv

(* The revisions of a neuron exceed MAX_REVISIONS_PER_NEURON by no more     *)
(* than the transactions that can be open beside one another.               *)
THEOREM RevisionsStayBounded == Spec => []RevisionsBounded
<1>1. Init => BoundInv
  BY BoundInit
<1>2. TypeOK /\ BoundInv /\ [Next]_vars => BoundInv'
  BY BoundStep
<1>3. BoundInv => RevisionsBounded
  <2> SUFFICES ASSUME BoundInv PROVE RevisionsBounded
    OBVIOUS
  <2>1. Cardinality(revs) \in Nat /\ Cardinality(Inserting) \in Nat
    BY FS_CardinalityType, ThreadsFinite DEF BoundInv, Inserting
  <2> QED
    BY <2>1, ThreadsFinite, StoreAssumption DEF BoundInv, RevisionsBounded
<1> QED
  BY <1>1, <1>2, <1>3, TypeCorrect, PTL DEF Spec

-----------------------------------------------------------------------------
(* Why few revisions share a number.  A snapshot that has taken number n    *)
(* will add a revision numbered n, and takes one away when the one it       *)
(* evicts has that number too: Adding are those that do not.  When a        *)
(* snapshot takes n, no revision has it except the one it evicts; later     *)
(* ones join Adding only while they are open.                               *)
Having(n) == {r \in revs : r.number = n}

Adding(n) ==
  {w \in Threads : Numbered(w) /\ tx[w].number = n /\ \A r \in Having(n) : r.id # tx[w].rev}

Few(n) == Cardinality(Having(n)) + Cardinality(Adding(n)) <= Concurrency

OwnIds == \A r, s \in revs : r.id = s.id => r = s

NumberInv == OwnIds /\ \A n \in Nat : Few(n)

LEMMA FewMono ==
  ASSUME IsFiniteSet(revs), NEW n, Few(n),
         Having(n)' \subseteq Having(n), Adding(n)' \subseteq Adding(n)
  PROVE  Few(n)'
<1>1. IsFiniteSet(Having(n))
  BY FS_Subset DEF Having
<1>2. IsFiniteSet(Having(n)') /\ Cardinality(Having(n)') <= Cardinality(Having(n))
  BY <1>1, FS_Subset
<1>3. Adding(n) \in SUBSET Threads
  BY DEF Adding
<1>4. Cardinality(Adding(n)') <= Cardinality(Adding(n)) /\ Adding(n)' \in SUBSET Threads
  BY <1>3, ThreadsFinite, FS_Subset
<1>5. /\ Cardinality(Having(n)) \in Nat /\ Cardinality(Having(n)') \in Nat
      /\ Cardinality(Adding(n)) \in Nat /\ Cardinality(Adding(n)') \in Nat
  BY <1>1, <1>2, <1>3, <1>4, ThreadsFinite, FS_CardinalityType
<1>6. Concurrency' = Concurrency /\ Concurrency \in Nat
  BY ThreadsFinite DEF Concurrency
<1> QED BY <1>2, <1>4, <1>5, <1>6 DEF Few

(* Revisions go, but none that a numbered snapshot evicts, and no snapshot  *)
(* takes a number.                                                          *)
LEMMA FewGone ==
  ASSUME IsFiniteSet(revs), NEW n, Few(n), revs' \subseteq revs,
         \A w \in Threads : Numbered(w)' => Numbered(w) /\ tx'[w] = tx[w],
         \A w \in Threads, r \in revs \ revs' : Numbered(w)' => r.id # tx[w].rev
  PROVE  Few(n)'
<1>1. Having(n)' \subseteq Having(n)
  BY DEF Having
<1>2. ASSUME NEW w \in Adding(n)' PROVE w \in Adding(n)
  BY <1>2 DEF Adding, Having
<1> QED BY <1>1, <1>2, FewMono

(* A snapshot takes a number.                                               *)
LEMMA FewTaken ==
  ASSUME TypeOK, BoundInv, OwnIds, Cardinality(Busy') <= Concurrency, NEW n \in Nat, Few(n),
         NEW w \in Threads, TakeNumber(w)
  PROVE  Few(n)'
<1>1. /\ revs' = revs /\ tx'[w].op = "snapshot" /\ tx'[w].at = "numbered"
      /\ tx'[w].rev = tx[w].rev /\ ~Numbered(w)
      /\ \A o \in Threads : o # w => tx'[o] = tx[o]
  BY DEF TakeNumber, store, TypeOK, Txs, Numbered
<1>2. tx'[w].number \in Numbers({r \in revs : r.id # tx[w].rev})
  BY DEF TakeNumber, TypeOK, Txs
<1>3. CASE tx'[w].number # n
  <2>1. Having(n)' = Having(n)
    BY <1>1 DEF Having
  <2>2. ASSUME NEW o \in Adding(n)' PROVE o \in Adding(n)
    BY <1>1, <1>3, <2>1, <2>2 DEF Adding, Numbered
  <2> QED BY <2>1, <2>2, FewMono DEF BoundInv
<1>4. CASE tx'[w].number = n
  <2>1. \A r \in revs : r.number \in Nat
    BY DEF TypeOK, Revisions
  <2>2. \A r \in Having(n)' : r.id = tx[w].rev
    BY <1>1, <1>2, <1>4, <2>1 DEF Having, Numbers
  <2>3. \A r \in Having(n)' : w \notin Adding(n)'
    BY <1>1, <2>2 DEF Adding
  <2>4. Adding(n)' \subseteq Busy' /\ Busy' \in SUBSET Threads
    BY DEF Adding, Numbered, Busy, Idle
  <2>5. Cardinality(Adding(n)') <= Cardinality(Busy') /\ Cardinality(Busy') \in Nat
        /\ Cardinality(Adding(n)') \in Nat /\ IsFiniteSet(Busy')
    BY <2>4, ThreadsFinite, FS_Subset
  <2>6. Concurrency' = Concurrency /\ Concurrency \in Nat
    BY ThreadsFinite DEF Concurrency
  <2>7. CASE Having(n)' = {}
    BY <2>5, <2>6, <2>7, FS_EmptySet DEF Few
  <2>8. ASSUME NEW a \in Having(n)' PROVE Few(n)'
    <3>1. Having(n)' = {a}
      BY <1>1, <2>2, <2>8 DEF Having, OwnIds
    <3>2. Adding(n)' \subseteq Busy' \ {w}
      BY <2>3, <2>4, <2>8
    <3>3. w \in Busy'
      BY <1>1 DEF Busy, Idle
    <3>4. IsFiniteSet(Busy' \ {w}) /\ Cardinality(Busy' \ {w}) = Cardinality(Busy') - 1
      BY <2>5, <3>3, FS_RemoveElement
    <3>5. Cardinality(Adding(n)') <= Cardinality(Busy') - 1
      BY <3>2, <3>4, FS_Subset
    <3>6. Cardinality(Having(n)') = 1
      BY <3>1, FS_Singleton
    <3> QED BY <2>5, <2>6, <3>5, <3>6 DEF Few
  <2> QED BY <2>7, <2>8
<1> QED BY <1>3, <1>4

(* A snapshot commits.                                                      *)
LEMMA FewCommitted ==
  ASSUME TypeOK, BoundInv, NEW n \in Nat, Few(n), NEW w \in Threads, CommitSnapshot(w)
  PROVE  Few(n)'
<1> DEFINE m == tx[w].number
           kept == {r \in revs : r.id # tx[w].rev}
<1>1. PICK i \in RevIds :
        revs' = kept \cup {[id |-> i, number |-> m, content |-> tx[w].seen.content]}
  BY DEF CommitSnapshot
<1> DEFINE new == [id |-> i, number |-> m, content |-> tx[w].seen.content]
<1>2. revs' = kept \cup {new} /\ new.number = m
  BY <1>1
<1> HIDE DEF new, kept
<1>3. Numbered(w) /\ ~Numbered(w)' /\ \A o \in Threads : o # w => tx'[o] = tx[o]
  BY DEF CommitSnapshot, Numbered, Close, TypeOK, NoTx
<1>4. \A o \in Threads \ {w} : Numbered(o) => tx[o].rev # tx[w].rev \/ tx[o].rev = NoRev
  BY <1>3 DEF BoundInv, EvictedLive, Locked, Numbered
<1>5. \A r \in revs : r.id # NoRev
  BY StoreAssumption DEF TypeOK, Revisions
<1>6. Adding(n)' \subseteq Adding(n) \ {w}
  <2> SUFFICES ASSUME NEW o \in Adding(n)' PROVE o \in Adding(n) /\ o # w
    OBVIOUS
  <2>1. o \in Threads \ {w} /\ Numbered(o) /\ tx'[o] = tx[o] /\ tx[o].number = n
    BY <1>3 DEF Adding, Numbered
  <2>2. ASSUME NEW r \in Having(n) PROVE r.id # tx[o].rev
    <3>1. CASE r \in kept
      <4>1. r \in Having(n)'
        BY <1>2, <3>1 DEF Having
      <4> QED BY <4>1, <2>1 DEF Adding
    <3>2. CASE r \notin kept
      <4>1. r.id = tx[w].rev
        BY <3>2 DEF kept, Having
      <4> QED BY <4>1, <1>4, <1>5, <2>1 DEF Having
    <3> QED BY <3>1, <3>2
  <2> QED BY <2>1, <2>2 DEF Adding
<1>7. CASE m # n
  <2>1. Having(n)' \subseteq Having(n)
    BY <1>2, <1>7 DEF Having, kept
  <2> QED BY <1>6, <2>1, FewMono DEF BoundInv
<1>8. CASE m = n
  <2> DEFINE old == Having(n) \cap kept
  <2>1. /\ IsFiniteSet(Having(n)) /\ Cardinality(Having(n)) \in Nat
        /\ IsFiniteSet(old) /\ Cardinality(old) \in Nat
        /\ Cardinality(old) <= Cardinality(Having(n))
    BY FS_Subset, FS_CardinalityType DEF Having, BoundInv
  <2>2. Having(n)' = old \cup {new}
    BY <1>2, <1>8 DEF Having, kept
  <2> HIDE DEF old
  <2>3. Cardinality(Having(n)') <= Cardinality(old) + 1 /\ Cardinality(Having(n)') \in Nat
    <3>1. /\ IsFiniteSet(old \cup {new})
          /\ Cardinality(old \cup {new}) = IF new \in old THEN Cardinality(old)
                                            ELSE Cardinality(old) + 1
      BY <2>1, FS_AddElement
    <3>2. Cardinality(old \cup {new}) \in Nat
      BY <3>1, FS_CardinalityType
    <3> QED BY <2>1, <2>2, <3>1, <3>2
  <2>4. /\ IsFiniteSet(Adding(n)) /\ Cardinality(Adding(n)) \in Nat
        /\ Cardinality(Adding(n)') \in Nat
        /\ IsFiniteSet(Adding(n) \ {w}) /\ Cardinality(Adding(n)') <= Cardinality(Adding(n) \ {w})
    <3>1. Adding(n) \in SUBSET Threads
      BY DEF Adding
    <3> QED BY <1>6, <3>1, ThreadsFinite, FS_Subset
  <2>5. Concurrency' = Concurrency /\ Concurrency \in Nat
    BY ThreadsFinite DEF Concurrency
  <2>6. CASE w \in Adding(n)
    <3>1. Cardinality(Adding(n) \ {w}) = Cardinality(Adding(n)) - 1
      BY <2>4, <2>6, FS_RemoveElement
    <3> QED BY <2>1, <2>3, <2>4, <2>5, <3>1 DEF Few
  <2>7. CASE w \notin Adding(n)
    <3>1. PICK r \in Having(n) : r.id = tx[w].rev
      BY <1>3, <1>8, <2>7 DEF Adding
    <3>2. old \subseteq Having(n) \ {r}
      BY <3>1 DEF old, kept
    <3>3. /\ IsFiniteSet(Having(n) \ {r})
          /\ Cardinality(Having(n) \ {r}) = Cardinality(Having(n)) - 1
      BY <2>1, FS_RemoveElement
    <3>4. Cardinality(old) <= Cardinality(Having(n)) - 1
      BY <3>2, <3>3, FS_Subset
    <3>5. Cardinality(Adding(n) \ {w}) <= Cardinality(Adding(n))
          /\ Cardinality(Adding(n) \ {w}) \in Nat
      BY <2>4, FS_Subset, FS_CardinalityType
    <3> QED BY <2>1, <2>3, <2>4, <2>5, <3>4, <3>5 DEF Few
  <2> QED BY <2>6, <2>7
<1> QED BY <1>7, <1>8

LEMMA NumberStep ==
  ASSUME TypeOK, BoundInv, NumberInv, [Next]_vars
  PROVE  NumberInv'
<1>0. IsFiniteSet(revs)
  BY DEF BoundInv
<1>a. ASSUME UNCHANGED revs,
             \A w \in Threads : Numbered(w)' => Numbered(w) /\ tx'[w] = tx[w]
      PROVE  NumberInv'
  <2>1. \A n \in Nat : Few(n)'
    BY <1>0, <1>a, FewGone DEF NumberInv
  <2> QED BY <1>a, <2>1 DEF NumberInv, OwnIds
<1>b. ASSUME NEW w \in Threads, NEW op, NEW want, NEW rev, Open(w, op, want, rev)
      PROVE  \A o \in Threads : Numbered(o)' => Numbered(o) /\ tx'[o] = tx[o]
  BY <1>b DEF Open, TypeOK, Numbered
<1>c. ASSUME NEW w \in Threads, Close(w)
      PROVE  \A o \in Threads : Numbered(o)' => o # w /\ Numbered(o) /\ tx'[o] = tx[o]
  BY <1>c DEF Close, TypeOK, Numbered, NoTx
<1>1. ASSUME NEW w \in Workers, Begin(w) PROVE NumberInv'
  <2>1. PICK op \in {"write", "save", "remove", "unrevise", "snapshot"},
             want \in Rows, rev \in RevIds \cup {NoRev} : Request(w, op, want, rev)
    BY <1>1, BeginOpens
  <2>2. UNCHANGED revs /\ Open(w, op, want, rev) /\ w \in Threads
    BY <2>1 DEF Request, store, Threads
  <2> QED BY <1>a, <1>b, <2>2
<1>2. ASSUME NEW w \in Threads, RecordUpdate(w) \/ CountRevisions(w) \/ PickOldest(w)
      PROVE  NumberInv'
  <2>1. UNCHANGED revs
    BY <1>2 DEF RecordUpdate, CountRevisions, PickOldest, store
  <2>2. \A o \in Threads : o # w => tx'[o] = tx[o]
    BY <1>2 DEF RecordUpdate, CountRevisions, PickOldest, TypeOK
  <2>3. tx'[w].at \in {"recorded", "full", "room", "picked"}
    BY <1>2 DEF RecordUpdate, CountRevisions, PickOldest, TypeOK, Txs
  <2> QED BY <1>a, <2>1, <2>2, <2>3 DEF Numbered
<1>3. ASSUME NEW w \in Threads, TakeNumber(w) PROVE NumberInv'
  <2>1. \A n \in Nat : Few(n)'
    BY <1>3, FewTaken, BusyStep DEF NumberInv, BoundInv
  <2> QED BY <1>3, <2>1 DEF NumberInv, OwnIds, TakeNumber, store
<1>4. ASSUME NEW w \in Threads, CommitWrite(w) \/ Abort(w) PROVE NumberInv'
  BY <1>4, <1>a, <1>c DEF CommitWrite, Abort, store
<1>5. ASSUME NEW w \in Threads, CommitRemove(w) PROVE NumberInv'
  <2>1. revs' = {} /\ Close(w) /\ \A i \in Live : ~Locked(w, i)
    BY <1>5 DEF CommitRemove
  <2>2. ASSUME NEW o \in Threads, NEW r \in revs, Numbered(o)' PROVE r.id # tx[o].rev
    <3>1. o # w /\ Numbered(o)
      BY <1>c, <2>1, <2>2
    <3> QED BY <2>1, <3>1 DEF Locked, Live, Numbered
  <2>3. \A n \in Nat : Few(n)'
    BY <1>0, <1>c, <2>1, <2>2, FewGone DEF NumberInv
  <2> QED BY <2>1, <2>3 DEF NumberInv, OwnIds
<1>6. ASSUME NEW w \in Threads, CommitDeleteRevision(w) PROVE NumberInv'
  <2>1. /\ revs' = {r \in revs : r.id # tx[w].rev} /\ Close(w)
        /\ ~Locked(w, tx[w].rev)
    BY <1>6 DEF CommitDeleteRevision
  <2>2. ASSUME NEW o \in Threads, NEW r \in revs \ revs', Numbered(o)' PROVE r.id # tx[o].rev
    <3>1. o # w /\ Numbered(o) /\ r.id = tx[w].rev
      BY <1>c, <2>1, <2>2
    <3> QED BY <2>1, <3>1 DEF Locked, Numbered
  <2>3. revs' \subseteq revs
    BY <2>1
  <2>4. \A n \in Nat : Few(n)'
    BY <1>0, <1>c, <2>1, <2>2, <2>3, FewGone DEF NumberInv
  <2> QED BY <2>3, <2>4 DEF NumberInv, OwnIds
<1>7. ASSUME NEW w \in Threads, CommitSnapshot(w) PROVE NumberInv'
  <2>1. \A n \in Nat : Few(n)'
    BY <1>7, FewCommitted DEF NumberInv
  <2>2. PICK i \in RevIds \ UsedIds :
          revs' = {r \in revs : r.id # tx[w].rev}
                    \cup {[id |-> i, number |-> tx[w].number, content |-> tx[w].seen.content]}
    BY <1>7 DEF CommitSnapshot
  <2>3. \A r \in revs : r.id # i
    BY DEF UsedIds, Live
  <2>4. OwnIds'
    BY <2>2, <2>3 DEF NumberInv, OwnIds
  <2> QED BY <2>1, <2>4 DEF NumberInv
<1>8. CASE AutoSnapshot
  <2>1. CASE present
    BY <1>8, <2>1, <1>a, <1>b DEF AutoSnapshot, store, Threads
  <2>2. CASE ~present
    BY <1>8, <2>2, <1>a DEF AutoSnapshot, store, Numbered
  <2> QED BY <2>1, <2>2
<1>9. CASE Restart
  <2>1. \A w \in Threads : ~Numbered(w)'
    BY <1>9 DEF Restart, NoTx, Numbered
  <2> QED BY <1>9, <1>a, <2>1 DEF Restart, store
<1>10. CASE IdleTime \/ FindIdle \/ RemoveIdle \/ UNCHANGED vars
  BY <1>10, <1>a DEF IdleTime, FindIdle, RemoveIdle, vars, store, Numbered
<1> QED
  BY <1>1, <1>2, <1>3, <1>4, <1>5, <1>6, <1>7, <1>8, <1>9, <1>10
  DEF Next, Proceed, RunScheduler

(* No revision number is shared by more revisions than transactions can be  *)
(* open beside one another, whatever is evicted, deleted or rolled back in  *)
(* between; so none is shared when requests are served one at a time.       *)
THEOREM FewShareANumber == Spec => []NumberShared
<1>1. Init => BoundInv /\ NumberInv
  <2> SUFFICES ASSUME Init PROVE NumberInv
    BY BoundInit
  <2>1. revs = {} /\ \A w \in Threads : ~Numbered(w)
    BY DEF Init, NoTx, Numbered
  <2>2. \A n \in Nat : Having(n) = {} /\ Adding(n) = {}
    BY <2>1 DEF Having, Adding
  <2> QED BY <2>1, <2>2, ThreadsFinite, FS_EmptySet DEF NumberInv, OwnIds, Few
<1>2. TypeOK /\ BoundInv /\ NumberInv /\ [Next]_vars => (BoundInv /\ NumberInv)'
  BY BoundStep, NumberStep
<1>3. TypeOK /\ BoundInv /\ NumberInv => NumberShared
  <2> SUFFICES ASSUME TypeOK, BoundInv, NumberInv, NEW r \in revs
               PROVE  Cardinality(Having(r.number)) <= Concurrency
    BY DEF NumberShared, Having
  <2>1. r.number \in Nat
    BY DEF TypeOK, Revisions
  <2>2. Adding(r.number) \in SUBSET Threads /\ IsFiniteSet(Having(r.number))
    BY FS_Subset DEF Adding, Having, BoundInv
  <2>3. Cardinality(Adding(r.number)) \in Nat /\ Cardinality(Having(r.number)) \in Nat
    BY <2>2, ThreadsFinite, FS_CardinalityType
  <2> QED BY <2>1, <2>3, ThreadsFinite DEF NumberInv, Few
<1> QED BY <1>1, <1>2, <1>3, TypeCorrect, PTL DEF Spec

(* Both: an eviction too few or a number taken twice would break it.        *)
THEOREM RevisionsAreKept == Spec => []RevisionsKept
<1>1. RevisionsBounded /\ NumberShared => RevisionsKept
  BY DEF RevisionsKept
<1> QED BY <1>1, RevisionsStayBounded, FewShareANumber, PTL

-----------------------------------------------------------------------------
(* Why saved content is not forgotten.  recordUpdate comes before the       *)
(* commit, so a save about to commit has a fresh entry; the scheduler       *)
(* removes an entry only while it is idle and reads the row after that.     *)
OwedInv ==
  /\ SnapshotOwed
  /\ tx[Scheduler].op \in {"none", "snapshot"}
  /\ sched = "snapshotting" <=> tx[Scheduler].op = "snapshot"
  /\ \A w \in Workers : tx[w].op = "save" /\ tx[w].at = "recorded" => pending = "fresh"
  /\ ~present => ~owed

LEMMA OwedStep ==
  ASSUME TypeOK, OwedInv, [Next]_vars
  PROVE  OwedInv'
<1> USE StoreAssumption DEF OwedInv, SnapshotOwed, SnapshotComing, Threads
<1>1. ASSUME NEW w \in Workers, Begin(w) PROVE OwedInv'
  <2>1. PICK op \in {"write", "save", "remove", "unrevise", "snapshot"},
             want \in Rows, rev \in RevIds \cup {NoRev} : Request(w, op, want, rev)
    BY <1>1, BeginOpens
  <2>2. \A o \in Threads : o # w => tx'[o] = tx[o]
    BY <2>1 DEF Request, Open, TypeOK
  <2>3. tx'[w].at = "begun"
    BY <2>1 DEF Request, Open, TypeOK
  <2>4. UNCHANGED <<row, present, pending, sched, owed, dropped>>
    BY <2>1 DEF Request, store, ghosts
  <2> QED
    BY <2>2, <2>3, <2>4
<1>2. ASSUME NEW w \in Threads, RecordUpdate(w) PROVE OwedInv'
  <2>1. w \in Workers /\ \A o \in Threads : o # w => tx'[o] = tx[o]
    BY <1>2 DEF RecordUpdate, TypeOK
  <2> QED
    BY <1>2, <2>1 DEF RecordUpdate, store, ghosts
<1>3. ASSUME NEW w \in Threads, CountRevisions(w) \/ PickOldest(w) \/ TakeNumber(w)
      PROVE  OwedInv'
  <2>1. \A o \in Threads : tx'[o].op = tx[o].op /\ tx'[o].seen = tx[o].seen
    <3>1. CASE CountRevisions(w)
      BY <3>1 DEF CountRevisions, TypeOK, Txs
    <3>2. CASE PickOldest(w)
      BY <3>2 DEF PickOldest, TypeOK, Txs
    <3>3. CASE TakeNumber(w)
      BY <3>3 DEF TakeNumber, TypeOK, Txs
    <3> QED
      BY <1>3, <3>1, <3>2, <3>3
  <2>2. tx[w].op = "snapshot" /\ \A o \in Threads : o # w => tx'[o] = tx[o]
    BY <1>3 DEF CountRevisions, PickOldest, TakeNumber, TypeOK
  <2>3. UNCHANGED <<row, present, pending, sched, owed, dropped>>
    BY <1>3 DEF CountRevisions, PickOldest, TakeNumber, store, ghosts
  <2> QED
    BY <2>1, <2>2, <2>3
<1>4. ASSUME NEW w \in Threads, Close(w)
      PROVE  tx'[w].op = "none" /\ \A o \in Threads : o # w => tx'[o] = tx[o]
  BY <1>4 DEF Close, TypeOK, NoTx
<1>5. ASSUME NEW w \in Threads, CommitWrite(w) PROVE OwedInv'
  <2>1. w \in Workers /\ tx[w].op \in {"write", "save"}
    BY <1>5 DEF CommitWrite
  <2>2. tx[w].op = "save" => pending = "fresh"
    BY <1>5, <2>1 DEF CommitWrite
  <2>3. \/ UNCHANGED <<row, owed, dropped>>
        \/ /\ present
           /\ row' = tx[w].want
           /\ owed' = (tx[w].op = "save" \/ (owed /\ tx[w].want.content = row.content))
           /\ dropped' = (dropped /\ tx[w].op # "save")
    BY <1>5 DEF CommitWrite, ghosts
  <2>4. UNCHANGED <<present, pending, sched>>
    BY <1>5 DEF CommitWrite
  <2>5. tx'[w].op = "none" /\ \A o \in Threads : o # w => tx'[o] = tx[o]
    BY <1>4, <1>5 DEF CommitWrite
  <2> QED
    BY <2>1, <2>2, <2>3, <2>4, <2>5
<1>6. ASSUME NEW w \in Threads, CommitRemove(w) PROVE OwedInv'
  BY <1>4, <1>6 DEF CommitRemove
<1>7. ASSUME NEW w \in Threads, CommitDeleteRevision(w) PROVE OwedInv'
  BY <1>4, <1>7 DEF CommitDeleteRevision, ghosts
<1>8. ASSUME NEW w \in Threads, CommitSnapshot(w) PROVE OwedInv'
  <2>1. /\ owed' = (owed /\ tx[w].seen.content # row.content)
        /\ sched' = IF w = Scheduler THEN "waiting" ELSE sched
        /\ UNCHANGED <<row, present, pending, dropped>>
        /\ tx[w].op = "snapshot"
    BY <1>8 DEF CommitSnapshot
  <2>2. tx'[w].op = "none" /\ \A o \in Threads : o # w => tx'[o] = tx[o]
    BY <1>4, <1>8 DEF CommitSnapshot
  <2> QED
    BY <2>1, <2>2
<1>9. ASSUME NEW w \in Threads, Abort(w) PROVE OwedInv'
  BY <1>4, <1>9 DEF Abort, store, Idle
<1>10. CASE IdleTime
  BY <1>10 DEF IdleTime, store, ghosts
<1>11. CASE FindIdle \/ RemoveIdle
  BY <1>11 DEF FindIdle, RemoveIdle, store, ghosts
<1>12. CASE AutoSnapshot
  <2>1. CASE present
    BY <1>12, <2>1 DEF AutoSnapshot, Open, TypeOK, store, ghosts
  <2>2. CASE ~present
    BY <1>12, <2>2 DEF AutoSnapshot, store, ghosts
  <2> QED
    BY <2>1, <2>2
<1>13. CASE Restart
  BY <1>13 DEF Restart, NoTx, store
<1>14. CASE UNCHANGED vars
  BY <1>14 DEF vars
<1> QED
  BY <1>1, <1>2, <1>3, <1>5, <1>6, <1>7, <1>8, <1>9, <1>10, <1>11, <1>12, <1>13, <1>14
  DEF Next, Proceed, RunScheduler

(* Saved content that no snapshot has captured has one coming, whatever the *)
(* interleaving of saves, snapshots and the job, unless a restart or a      *)
(* failed snapshot dropped it.                                              *)
THEOREM SnapshotsStayOwed == Spec => []SnapshotOwed
<1>1. Init => OwedInv
  BY StoreAssumption DEF Init, OwedInv, SnapshotOwed, NoTx, Threads
<1>2. TypeOK /\ OwedInv /\ [Next]_vars => OwedInv'
  BY OwedStep
<1>3. OwedInv => SnapshotOwed
  BY DEF OwedInv
<1> QED
  BY <1>1, <1>2, <1>3, TypeCorrect, PTL DEF Spec

-----------------------------------------------------------------------------
(* Why the row is a versioned cell when requests are served one at a time:  *)
(* the open transaction is alone, so the row it has read is the committed   *)
(* one, and what it is going to write either moves the version on by one or *)
(* keeps it, with the content that is there or one that a PATCH carries.    *)
NextVersion(new) ==
  \/ new.version = row.version /\ (new.content = row.content \/ new.content \in PatchContents)
  \/ new.version = row.version + 1

SerialInv ==
  \A w \in Threads :
    ~Idle(w) => /\ \A o \in Threads \ {w} : Idle(o)
                /\ tx[w].seen = row
                /\ tx[w].op \in {"write", "save"} => NextVersion(tx[w].want)
                /\ tx[w].op = "save" => tx[w].want.version = row.version + 1

LEMMA SerialStep ==
  ASSUME ~Overlap, TypeOK, SerialInv, [Next]_vars
  PROVE  SerialInv'
<1> USE DEF SerialInv, NextVersion, Idle
<1>1. ASSUME NEW w \in Workers, Begin(w) PROVE SerialInv'
  <2>1. PICK op \in {"write", "save", "remove", "unrevise", "snapshot"},
             want \in Rows, rev \in RevIds \cup {NoRev} :
               /\ Request(w, op, want, rev)
               /\ op = "save" => want.version = row.version + 1
               /\ op = "write" => NextVersion(want)
    BY <1>1, BeginOpens
  <2>2. \A o \in Threads : Idle(o) /\ (o # w => tx'[o] = tx[o])
    BY <2>1 DEF Request, Open, TypeOK
  <2>3. tx'[w].op = op /\ tx'[w].seen = row /\ tx'[w].want = want
    BY <2>1 DEF Request, Open, TypeOK, Threads
  <2>4. UNCHANGED row
    BY <2>1 DEF Request, store
  <2> QED
    BY <2>1, <2>2, <2>3, <2>4
<1>2. ASSUME NEW w \in Threads, Close(w), ~Idle(w) PROVE SerialInv'
  BY <1>2 DEF Close, TypeOK, NoTx
<1>3. ASSUME NEW w \in Threads,
             RecordUpdate(w) \/ CountRevisions(w) \/ PickOldest(w) \/ TakeNumber(w)
      PROVE  SerialInv'
  <2>1. UNCHANGED row
    BY <1>3 DEF RecordUpdate, CountRevisions, PickOldest, TakeNumber, store
  <2>2. \A o \in Threads : /\ tx'[o].op = tx[o].op /\ tx'[o].seen = tx[o].seen
                            /\ tx'[o].want = tx[o].want
    <3>1. CASE RecordUpdate(w)
      BY <3>1 DEF RecordUpdate, TypeOK, Txs
    <3>2. CASE CountRevisions(w)
      BY <3>2 DEF CountRevisions, TypeOK, Txs
    <3>3. CASE PickOldest(w)
      BY <3>3 DEF PickOldest, TypeOK, Txs
    <3>4. CASE TakeNumber(w)
      BY <3>4 DEF TakeNumber, TypeOK, Txs
    <3> QED
      BY <1>3, <3>1, <3>2, <3>3, <3>4
  <2> QED
    BY <2>1, <2>2
<1>4. ASSUME NEW w \in Threads,
             \/ CommitWrite(w) \/ CommitRemove(w) \/ CommitDeleteRevision(w)
             \/ CommitSnapshot(w) \/ Abort(w)
      PROVE  SerialInv'
  <2>1. Close(w) /\ ~Idle(w)
    BY <1>4 DEF CommitWrite, CommitRemove, CommitDeleteRevision, CommitSnapshot, Abort
  <2> QED
    BY <1>2, <2>1
<1>5. CASE AutoSnapshot
  <2>1. CASE present
    <3>1. \A o \in Threads : Idle(o) /\ (o # Scheduler => tx'[o] = tx[o])
      BY <1>5, <2>1 DEF AutoSnapshot, Open, TypeOK
    <3>2. tx'[Scheduler].op = "snapshot" /\ tx'[Scheduler].seen = row
      BY <1>5, <2>1 DEF AutoSnapshot, Open, TypeOK, Threads
    <3> QED
      BY <1>5, <3>1, <3>2 DEF AutoSnapshot, store
  <2>2. CASE ~present
    BY <1>5, <2>2 DEF AutoSnapshot, store
  <2> QED
    BY <2>1, <2>2
<1>6. CASE Restart
  BY <1>6 DEF Restart, NoTx
<1>7. CASE IdleTime \/ FindIdle \/ RemoveIdle \/ UNCHANGED vars
  BY <1>7 DEF IdleTime, FindIdle, RemoveIdle, vars, store
<1> QED
  BY <1>1, <1>3, <1>4, <1>5, <1>6, <1>7 DEF Next, Proceed, RunScheduler

(* Requests served one at a time, a PATCH that carries a content among      *)
(* them: every step of the store is a step of the versioned cell, or leaves *)
(* it alone.                                                                *)
LEMMA CellStep ==
  ASSUME TypeOK, SerialInv, [Next]_vars
  PROVE  [Cell!Next]_(Cell!cell)
<1> USE DEF Cell!Next, Cell!cell, Cell!RestoreContent, Cell!Replace, Cell!Overwrite,
          Cell!Remove
<1>1. ASSUME NEW w \in Threads, CommitWrite(w) PROVE [Cell!Next]_(Cell!cell)
  <2>1. NextVersion(tx[w].want) /\ tx[w].want.content \in Contents
    BY <1>1 DEF CommitWrite, SerialInv, Idle, TypeOK, Txs, Rows
  <2> QED
    BY <1>1, <2>1 DEF CommitWrite, NextVersion
<1>2. ASSUME NEW w \in Threads, CommitRemove(w) PROVE [Cell!Next]_(Cell!cell)
  BY <1>2 DEF CommitRemove
<1>3. CASE UNCHANGED <<row, present>>
  BY <1>3
<1>4. ASSUME NEW w \in Workers, Begin(w) PROVE UNCHANGED <<row, present>>
  BY <1>4, BeginOpens DEF Request, store
<1>5. ASSUME NEW w \in Threads,
             \/ RecordUpdate(w) \/ CountRevisions(w) \/ PickOldest(w) \/ TakeNumber(w)
             \/ CommitDeleteRevision(w) \/ CommitSnapshot(w) \/ Abort(w)
      PROVE  UNCHANGED <<row, present>>
  BY <1>5 DEF RecordUpdate, CountRevisions, PickOldest, TakeNumber, CommitDeleteRevision,
              CommitSnapshot, Abort, store
<1>6. CASE IdleTime \/ RunScheduler \/ Restart \/ UNCHANGED vars
  BY <1>3, <1>6 DEF IdleTime, RunScheduler, FindIdle, RemoveIdle, AutoSnapshot, Restart, vars,
                    store
<1> QED
  BY <1>1, <1>2, <1>3, <1>4, <1>5, <1>6 DEF Next, Proceed

THEOREM SerialStoreIsCell ==
  ASSUME ~Overlap
  PROVE  Spec => ImplementsCell
<1>1. Init => SerialInv
  BY DEF Init, SerialInv, Idle, NoTx
<1>2. TypeOK /\ SerialInv /\ [Next]_vars => SerialInv'
  BY SerialStep
<1>3. Init => Cell!Init
  BY DEF Init, Cell!Init
<1>4. TypeOK /\ SerialInv /\ [Next]_vars => [Cell!Next]_(Cell!cell)
  BY CellStep
<1> QED
  BY <1>1, <1>2, <1>3, <1>4, TypeCorrect, PTL DEF Spec, ImplementsCell, Cell!Spec

=============================================================================
