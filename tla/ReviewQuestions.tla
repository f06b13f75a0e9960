-------------------------- MODULE ReviewQuestions --------------------------
(***************************************************************************)
(* The questions of notes under review.  A scheduler lists the items that  *)
(* have none that are ready, and works on each in three phases: it reads,  *)
(* asks the AI outside of any transaction, and replaces the questions.     *)
(* A save of the note marks those that were made of other content.         *)
(***************************************************************************)
EXTENDS ContentSaves

CONSTANTS
    Substantive,  \* contents long enough to ask about
    MaxItems,     \* items that are added
    MaxReviews    \* reviews, settings and regenerations

ASSUME QuestionsAssumption ==
    Substantive \subseteq Contents /\ MaxItems \in Nat /\ MaxReviews \in Nat

VARIABLES
    item,       \* note -> its item, or NoItem
    items,      \* items that were added, whose numbers are their ids
    questions,  \* the rows of review_questions, a generation of an item as one
    locked,     \* thread -> the questions its open save has marked
    todo,       \* items the scheduler has listed
    gen,        \* the generation under way
    reviewed,   \* reviews, settings and regenerations
    met,        \* history: open saves since whose marks a generation has stored questions of other content
    passed      \* history: notes whose content was replaced with no mark, or by a save that a generation met

questionVars == <<item, items, questions, locked, todo, gen, reviewed, met, passed>>

Ids == 1 .. MaxItems
ItemRows == [id: 0 .. MaxItems, due: BOOLEAN, quiz: BOOLEAN]
NoItem == [id |-> 0, due |-> FALSE, quiz |-> FALSE]
Questions == [item: Ids, note: Notes, hash: Contents, ready: BOOLEAN]
Generations == [at: {"none", "asking", "storing"}, item: 0 .. MaxItems, note: Notes, hash: Contents, made: {0, 1}]
NoGen == [at |-> "none", item |-> 0, note |-> CHOOSE n \in Notes : TRUE, hash |-> FirstContent, made |-> 0]

QuestionsInit ==
    /\ item = [n \in Notes |-> NoItem] /\ items = 0
    /\ questions = {} /\ locked = [w \in Requests |-> {}]
    /\ todo = {} /\ gen = NoGen /\ reviewed = 0 /\ met = {} /\ passed = {}

Of(i) == {q \in questions : q.item = i}
Ready(i) == {q \in Of(i) : q.ready}

\* Rows that an open save has updated wait for its commit.
Free(rows) == \A w \in Requests : rows \cap locked[w] = {}
Stale(q) == [q EXCEPT !.ready = FALSE]

-----------------------------------------------------------------------------
(* markStaleByNeuron, in a save and by itself.                             *)

\* Mutant: the comparison is turned round.
MarkSame(w, n, c) ==
    LET old == {q \in questions : q.note = n /\ q.hash = c} IN
    /\ Free(old)
    /\ locked' = [locked EXCEPT ![w] = old]
    /\ UNCHANGED <<item, items, questions, todo, gen, reviewed, met, passed>>

\* The UPDATE sees the rows there are.
MarkStale(w, n, c) ==
    LET old == {q \in questions : q.note = n /\ q.hash # c} IN
    /\ Free(old)
    /\ locked' = [locked EXCEPT ![w] = old]
    /\ UNCHANGED <<item, items, questions, todo, gen, reviewed, met, passed>>

\* With the commit the marks are seen.
CommitMarks(w) ==
    LET n == saves[w].note
        c == saves[w].content IN
    /\ questions' = (questions \ locked[w]) \cup {Stale(q) : q \in locked[w]}
    /\ locked' = [locked EXCEPT ![w] = {}]
    /\ passed' = IF w \in met \/ (gen.at # "none" /\ gen.note = n /\ gen.hash # c)
                 THEN passed \cup {n} ELSE passed \ {n}
    /\ met' = met \ {w}
    /\ UNCHANGED <<item, items, todo, gen, reviewed>>

\* A restore or a PATCH marks nothing.
PassQuestions(n) ==
    /\ passed' = passed \cup {n}
    /\ UNCHANGED <<item, items, questions, locked, todo, gen, reviewed, met>>

\* regenerateQuestions marks all of them.
Regenerate(n) ==
    LET all == {q \in questions : q.note = n} IN
    /\ item[n] # NoItem /\ Free(all)
    /\ reviewed < MaxReviews /\ reviewed' = reviewed + 1
    /\ questions' = (questions \ all) \cup {Stale(q) : q \in all}
    /\ UNCHANGED <<item, items, locked, todo, gen, met, passed>>

-----------------------------------------------------------------------------
(* The item of a note.                                                     *)

\* addItem returns the one there is; a new one is due.
AddItem(n) ==
    /\ item[n] = NoItem /\ items < MaxItems
    /\ items' = items + 1
    /\ item' = [item EXCEPT ![n] = [id |-> items + 1, due |-> TRUE, quiz |-> TRUE]]
    /\ UNCHANGED <<questions, locked, todo, gen, reviewed, met, passed>>

\* Its questions go with it.
RemoveItem(n) ==
    /\ item[n] # NoItem /\ Free(Of(item[n].id))
    /\ item' = [item EXCEPT ![n] = NoItem]
    /\ questions' = questions \ Of(item[n].id)
    /\ passed' = passed \ {n}
    /\ UNCHANGED <<items, locked, todo, gen, reviewed, met>>

\* submitReview puts it off or not, updateQuizEnabled turns the quiz on or off.
ChangeItem(n, due, quiz) ==
    /\ item[n] # NoItem
    /\ reviewed < MaxReviews /\ reviewed' = reviewed + 1
    /\ due = item[n].due \/ quiz = item[n].quiz
    /\ item' = [item EXCEPT ![n] = [id |-> @.id, due |-> due, quiz |-> quiz]]
    /\ UNCHANGED <<items, questions, locked, todo, gen, met, passed>>

\* Time passes.
FallsDue(n) ==
    /\ item[n] # NoItem /\ ~item[n].due
    /\ item' = [item EXCEPT ![n].due = TRUE]
    /\ UNCHANGED <<items, questions, locked, todo, gen, reviewed, met, passed>>

-----------------------------------------------------------------------------
(* The scheduler.                                                          *)

Pending(n) == item[n] # NoItem /\ item[n].due /\ item[n].quiz /\ Ready(item[n].id) = {}

\* findDueWithoutReadyQuestions
ListPending ==
    /\ todo = {} /\ gen = NoGen
    /\ \E n \in Notes : Pending(n)
    /\ todo' = {[note |-> n, id |-> item[n].id] : n \in {m \in Notes : Pending(m)}}
    /\ UNCHANGED <<item, items, questions, locked, gen, reviewed, met, passed>>

\* Mutant: questions of the content that are stale are up to date.
ReadContextOnce(x) ==
    LET n == x.note IN
    /\ x \in todo /\ gen = NoGen
    /\ todo' = todo \ {x}
    /\ gen' = IF \/ item[n].id # x.id
                 \/ content[n] \notin Substantive
                 \/ \E q \in Of(x.id) : q.hash = content[n]
              THEN NoGen
              ELSE [at |-> "asking", item |-> x.id, note |-> n, hash |-> content[n], made |-> 0]
    /\ UNCHANGED <<item, items, questions, locked, reviewed, met, passed>>

\* Phase 1. An item that is gone, content too short and questions that are up to date end it.
ReadContext(x) ==
    LET n == x.note IN
    /\ x \in todo /\ gen = NoGen
    /\ todo' = todo \ {x}
    /\ gen' = IF \/ item[n].id # x.id
                 \/ content[n] \notin Substantive
                 \/ \E q \in Ready(x.id) : q.hash = content[n]
              THEN NoGen
              ELSE [at |-> "asking", item |-> x.id, note |-> n, hash |-> content[n], made |-> 0]
    /\ UNCHANGED <<item, items, questions, locked, reviewed, met, passed>>

\* Mutant: an answer without questions is stored.
AiAnswersAny(made) ==
    /\ gen.at = "asking"
    /\ gen' = [gen EXCEPT !.at = "storing", !.made = made]
    /\ UNCHANGED <<item, items, questions, locked, todo, reviewed, met, passed>>

\* Phase 2. An exception, no answer, an error and no questions end it as well, and so do questions without a text,
\* which the transaction that stores them rolls back for.
AiAnswers(made) ==
    /\ gen.at = "asking"
    /\ gen' = IF made = 0 THEN NoGen ELSE [gen EXCEPT !.at = "storing", !.made = made]
    /\ UNCHANGED <<item, items, questions, locked, todo, reviewed, met, passed>>

Crossed == {w \in Requests : saves[w].at = "open" /\ saves[w].note = gen.note /\ saves[w].content # gen.hash}

\* Phase 3, in one transaction: for an item that is gone nothing is stored.
StoreQuestions ==
    LET new == {[item |-> gen.item, note |-> gen.note, hash |-> gen.hash, ready |-> TRUE] : k \in 1 .. gen.made}
        there == item[gen.note].id = gen.item IN
    /\ gen.at = "storing" /\ Free(Of(gen.item))
    /\ questions' = (questions \ Of(gen.item)) \cup IF there THEN new ELSE {}
    /\ passed' = IF there /\ gen.hash = content[gen.note] THEN passed \ {gen.note} ELSE passed
    /\ met' = met \cup Crossed
    /\ gen' = NoGen
    /\ UNCHANGED <<item, items, locked, todo, reviewed>>

Schedules == ListPending \/ (\E x \in todo : ReadContext(x)) \/ StoreQuestions

\* The scheduler's list and its generation end with the process, and so do the marks of open saves.
ForgetGeneration ==
    /\ todo' = {} /\ gen' = NoGen
    /\ locked' = [w \in Requests |-> {}] /\ met' = {}
    /\ UNCHANGED <<item, items, questions, reviewed, passed>>

QuestionsTypeOK ==
    /\ item \in [Notes -> ItemRows] /\ items \in 0 .. MaxItems
    /\ questions \subseteq Questions /\ locked \in [Requests -> SUBSET Questions]
    /\ todo \subseteq [note: Notes, id: Ids] /\ gen \in Generations
    /\ reviewed \in 0 .. MaxReviews /\ met \subseteq Requests /\ passed \subseteq Notes
=============================================================================
