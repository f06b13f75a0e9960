-------------------------- MODULE LinkSuggestions --------------------------
(***************************************************************************)
(* The link suggestions and the embedding of a note.  After its commit a   *)
(* save hands a task to the pool, with the content it saved; the task      *)
(* stores the references of that content, then reads the text of the row,  *)
(* has its embedding computed outside of any transaction, and stores it    *)
(* with the suggestions that follow from it.                               *)
(***************************************************************************)
EXTENDS ContentSaves

CONSTANTS
    Targets,       \* notes that contents link to
    Links,         \* content -> the notes it links to
    Blank,         \* contents that have no text
    CoreSize, MaxSize, QueueCapacity  \* of the pool

ASSUME LinksAssumption ==
    /\ Links \in [Contents -> SUBSET Targets] /\ Blank \subseteq Contents
    /\ CoreSize \in Nat /\ MaxSize \in Nat /\ QueueCapacity \in Nat

VARIABLES
    task,       \* number of a save -> its task
    waiting,    \* the pool's queue
    threads,    \* threads of the pool
    references, \* note -> the rows of link_suggestions with type "references"
    embedding,  \* note -> the text its embedding and its related suggestions are of, or none
    refused,    \* notes whose latest save was answered by an error, as the pool had refused its task
    unlinked,   \* history: notes whose latest content came by a restore or PATCH, or while an earlier save or task was
                \* unfinished, or whose task died or failed to store the references
    unembedded  \* history: the same for the embedding, which a task is longer about and may fail to compute

linkVars == <<task, waiting, threads, references, embedding, refused, unlinked, unembedded>>

Numbers == 1 .. MaxSaves
Rows == [to: Targets, by: Numbers]
TaskStates == [at: {"none", "queued", "started", "linking", "linked", "asking", "storing", "done"},
               note: Notes, content: Contents, seen: SUBSET Rows, text: Contents]
NoTask == [at |-> "none", note |-> CHOOSE n \in Notes : TRUE, content |-> FirstContent, seen |-> {}, text |-> FirstContent]

LinksInit ==
    /\ task = [k \in Numbers |-> NoTask] /\ waiting = <<>> /\ threads = 0
    /\ references = [n \in Notes |-> {}] /\ embedding = [n \in Notes |-> {}]
    /\ refused = {} /\ unlinked = Notes /\ unembedded = Notes

Live == {"queued", "started", "linking", "linked", "asking", "storing"}
ToLink == {"queued", "started", "linking"}
Running == {k \in Numbers : task[k].at \in Live \ {"queued"}}

\* An earlier save of the note has still to hand over its task, or a task of it is under way.
HandingOver(n) == \E w \in Requests : saves[w].at = "committed" /\ saves[w].note = n
Linking(n) == HandingOver(n) \/ \E k \in Numbers : task[k].note = n /\ task[k].at \in ToLink
Working(n) == HandingOver(n) \/ \E k \in Numbers : task[k].note = n /\ task[k].at \in Live

-----------------------------------------------------------------------------
(* What writes of the content mean for the suggestions.                    *)

\* A save's commit.
CommitLinks(w) ==
    LET n == saves[w].note IN
    /\ unlinked' = IF Linking(n) THEN unlinked \cup {n} ELSE unlinked \ {n}
    /\ unembedded' = IF Working(n) THEN unembedded \cup {n} ELSE unembedded \ {n}
    /\ refused' = refused \ {n}
    /\ UNCHANGED <<task, waiting, threads, references, embedding>>

\* A restore or a PATCH hands over nothing.
PassLinks(n) ==
    /\ unlinked' = unlinked \cup {n} /\ unembedded' = unembedded \cup {n}
    /\ UNCHANGED <<task, waiting, threads, references, embedding, refused>>

-----------------------------------------------------------------------------
(* The pool.                                                               *)

Accepts == threads < CoreSize \/ Len(waiting) < QueueCapacity \/ threads < MaxSize

\* afterCommit: threads up to the core size, then the queue, then threads up to the maximum.
HandOver(w) ==
    LET k == saves[w].no
        runs == threads < CoreSize \/ Len(waiting) >= QueueCapacity IN
    /\ Accepts
    /\ task' = [task EXCEPT ![k] = [NoTask EXCEPT !.at = IF runs THEN "started" ELSE "queued",
                                                  !.note = saves[w].note, !.content = saves[w].content]]
    /\ threads' = IF runs THEN threads + 1 ELSE threads
    /\ waiting' = IF runs THEN waiting ELSE Append(waiting, k)
    /\ UNCHANGED <<references, embedding, refused, unlinked, unembedded>>

\* The pool refuses the task, and what has committed is answered by an error.
Refuse(w) ==
    /\ ~Accepts
    /\ refused' = refused \cup {saves[w].note}
    /\ UNCHANGED <<task, waiting, threads, references, embedding, unlinked, unembedded>>

Take ==
    /\ waiting # <<>> /\ Cardinality(Running) < threads
    /\ task' = [task EXCEPT ![Head(waiting)].at = "started"]
    /\ waiting' = Tail(waiting)
    /\ UNCHANGED <<threads, references, embedding, refused, unlinked, unembedded>>

-----------------------------------------------------------------------------
(* recomputeAllSuggestions                                                 *)

\* Phase 1 reads the rows there are.
ReadReferences(k) ==
    /\ task[k].at = "started"
    /\ task' = [task EXCEPT ![k].at = "linking", ![k].seen = references[task[k].note]]
    /\ UNCHANGED <<waiting, threads, references, embedding, refused, unlinked, unembedded>>

\* Mutant: rows are only added.
OutdatedNone(rows, targets) == {}

\* Rows of targets that the content does not link to any more, and rows for those it links to by now.
Outdated(rows, targets) == {r \in rows : r.to \notin targets}
Added(rows, targets, k) == {[to |-> t, by |-> k] : t \in targets \ {r.to : r \in rows}}

\* Its commit.  A row to delete that is gone, or a target that another task has inserted, rolls it back.
WriteReferences(k) ==
    LET n == task[k].note
        targets == Links[task[k].content] \ {n}
        old == Outdated(task[k].seen, targets)
        new == Added(task[k].seen, targets, k)
        conflict == ~(old \subseteq references[n]) \/ \E r \in references[n] \ old, s \in new : r.to = s.to IN
    /\ task[k].at = "linking"
    /\ references' = IF conflict THEN references ELSE [references EXCEPT ![n] = (@ \ old) \cup new]
    /\ task' = [task EXCEPT ![k].at = "linked", ![k].seen = {}]
    /\ UNCHANGED <<waiting, threads, embedding, refused, unlinked, unembedded>>

\* Whatever else fails in phase 1 is logged, and the task goes on.
LinkingFails(k) ==
    /\ task[k].at \in {"started", "linking"}
    /\ task' = [task EXCEPT ![k].at = "linked", ![k].seen = {}]
    /\ unlinked' = unlinked \cup {task[k].note}
    /\ UNCHANGED <<waiting, threads, references, embedding, refused, unembedded>>

\* Phase 2 reads the row as it is by now, and is over when there is no text.
ReadText(k) ==
    LET c == content[task[k].note] IN
    /\ task[k].at = "linked"
    /\ task' = [task EXCEPT ![k].at = IF c \in Blank THEN "done" ELSE "asking", ![k].text = c]
    /\ UNCHANGED <<waiting, threads, references, embedding, refused, unlinked, unembedded>>

Embedded(k) ==
    /\ task[k].at = "asking"
    /\ task' = [task EXCEPT ![k].at = "storing"]
    /\ UNCHANGED <<waiting, threads, references, embedding, refused, unlinked, unembedded>>

\* The task is over when the row cannot be read, the intelligence service fails, or the embedding cannot be stored.
EmbeddingFails(k) ==
    /\ task[k].at \in {"linked", "asking", "storing"}
    /\ task' = [task EXCEPT ![k].at = "done"]
    /\ unembedded' = unembedded \cup {task[k].note}
    /\ UNCHANGED <<waiting, threads, references, embedding, refused, unlinked>>

\* Mutant: a row that is there is left as it is.
StoreEmbeddingOnce(k) ==
    /\ task[k].at = "storing"
    /\ embedding' = [embedding EXCEPT ![task[k].note] = IF @ = {} THEN {task[k].text} ELSE @]
    /\ task' = [task EXCEPT ![k].at = "done"]
    /\ UNCHANGED <<waiting, threads, references, refused, unlinked, unembedded>>

\* Phase 3.  The row of the embedding keeps others out until its commit.
StoreEmbedding(k) ==
    /\ task[k].at = "storing"
    /\ embedding' = [embedding EXCEPT ![task[k].note] = {task[k].text}]
    /\ task' = [task EXCEPT ![k].at = "done"]
    /\ UNCHANGED <<waiting, threads, references, refused, unlinked, unembedded>>

\* The pool lives in memory.
ForgetTasks ==
    /\ task' = [k \in Numbers |-> IF task[k].at \in Live THEN [task[k] EXCEPT !.at = "done", !.seen = {}] ELSE task[k]]
    /\ waiting' = <<>> /\ threads' = 0
    /\ unlinked' = unlinked \cup {n \in Notes : Linking(n)}
    /\ unembedded' = unembedded \cup {n \in Notes : Working(n)}
    /\ UNCHANGED <<references, embedding, refused>>

LinksTypeOK ==
    /\ task \in [Numbers -> TaskStates] /\ waiting \in Seq(Numbers) /\ threads \in Nat
    /\ references \in [Notes -> SUBSET Rows] /\ embedding \in [Notes -> SUBSET Contents]
    /\ refused \subseteq Notes /\ unlinked \subseteq Notes /\ unembedded \subseteq Notes
=============================================================================
