---------------------------- MODULE ReviewPanel ----------------------------
(***************************************************************************)
(* The panel that puts a note in the review queue and sets up its quiz,    *)
(* with a review of the same note in another tab.  The backend reads an    *)
(* item and writes the whole of it back, in a transaction that locks       *)
(* nothing.                                                                *)
(***************************************************************************)
EXTENDS Naturals, FiniteSets

CONSTANTS
    FirstRows,    \* the note's item at first, if it has one
    Counts,       \* numbers of questions, the default among them
    MaxRequests,  \* requests of the panel
    MaxReviews    \* reviews in the other tab

DefaultCount == 5

VARIABLES
    rows,       \* the note's item, when it is in the queue
    nextId,     \* ids of items that were given
    item,       \* the item the panel has, if any
    loading,    \* the panel waits for it
    count,      \* questionCount: what the select shows
    quiz,       \* quizEnabled: what the toggle shows
    calls,      \* requests of the panel: what for, and how far they are
    sent,       \* how many there were
    review,     \* the review of the other tab: nothing, or the row it read
    reviews,    \* reviews
    unseen,     \* history: there is an item the panel could not load
    kept,       \* history: settings shown otherwise than those of the item that was added, and not set since
    blind       \* history: two writes overlapped, one failed, or an answer brought an item that is not stored any more

vars == <<rows, nextId, item, loading, count, quiz, calls, sent, review, reviews, unseen, kept, blind>>

Items == [id: Nat, count: Counts, quiz: BOOLEAN, reviews: Nat]
Updates == {"count", "quiz"}
Other == <<review, reviews>>
History == <<unseen, kept, blind>>

Init ==
    /\ rows = FirstRows
    /\ nextId = 1 /\ item = {} /\ loading = TRUE
    /\ count = DefaultCount /\ quiz = TRUE
    /\ calls = {} /\ sent = 0 /\ review = {} /\ reviews = 0
    /\ unseen = FALSE /\ kept = {} /\ blind = FALSE

Row(id) == {r \in rows : r.id = id}
Writing == {c \in calls : c.for \in Updates /\ c.at = "read"}

-----------------------------------------------------------------------------
(* The panel.                                                              *)

\* The answer of the first request fills in the settings.
ItemLoaded ==
    /\ loading /\ loading' = FALSE
    /\ rows # {} /\ item' = rows
    /\ count' = CHOOSE c \in Counts : \E r \in rows : r.count = c
    /\ quiz' = \E r \in rows : r.quiz
    /\ UNCHANGED <<rows, nextId, calls, sent, Other, History>>

\* A note without an item is answered 404, and whatever else fails is taken for that.
LoadFails ==
    /\ loading /\ loading' = FALSE
    /\ item' = {} /\ unseen' = (rows # {})
    /\ UNCHANGED <<rows, nextId, count, quiz, calls, sent, Other, kept, blind>>

Busy(flags) == \E c \in calls : c.for \in flags
Toggling == Busy({"add", "get", "remove"})

\* What the request was for, the item it is about, and what it is to set.
Ask(for, id, val) ==
    /\ sent < MaxRequests /\ sent' = sent + 1
    /\ calls' = calls \cup {[for |-> for, id |-> id, val |-> val, at |-> "asked", row |-> {}]}

handleAdd ==
    /\ ~loading /\ item = {} /\ ~Toggling
    /\ Ask("add", 0, DefaultCount)
    /\ UNCHANGED <<rows, nextId, item, loading, count, quiz, Other, History>>

handleRemove ==
    /\ ~loading /\ item # {} /\ ~Toggling
    /\ Ask("remove", 0, DefaultCount)
    /\ UNCHANGED <<rows, nextId, item, loading, count, quiz, Other, History>>

\* The toggle and the select wait each for its own answer.
onToggleQuiz ==
    /\ \E r \in item : Ask("quiz", r.id, IF quiz THEN 0 ELSE 1)
    /\ ~Busy({"quiz"})
    /\ quiz' = ~quiz
    /\ UNCHANGED <<rows, nextId, item, loading, count, Other, History>>

onSelectCount(n) ==
    /\ quiz /\ n # count /\ ~Busy({"count"})
    /\ \E r \in item : Ask("count", r.id, n)
    /\ count' = n
    /\ UNCHANGED <<rows, nextId, item, loading, quiz, Other, History>>

-----------------------------------------------------------------------------
(* The backend.                                                            *)

Becomes(c, d) == calls' = (calls \ {c}) \cup {d}

\* addItem returns the item there is.
addItem(c) ==
    /\ c.for = "add" /\ c.at = "asked"
    /\ IF rows = {}
       THEN /\ rows' = {[id |-> nextId, count |-> DefaultCount, quiz |-> TRUE, reviews |-> 0]}
            /\ nextId' = nextId + 1
       ELSE UNCHANGED <<rows, nextId>>
    /\ Becomes(c, [c EXCEPT !.at = "done"])
    /\ UNCHANGED <<item, loading, count, quiz, sent, Other, History>>

removeItem(c) ==
    /\ c.for = "remove" /\ c.at = "asked"
    /\ rows' = {}
    /\ Becomes(c, [c EXCEPT !.at = "done"])
    /\ UNCHANGED <<nextId, item, loading, count, quiz, sent, Other, History>>

\* updateQuizEnabled and updateQuestionCount.
ReadItem(c) ==
    /\ c.for \in Updates /\ c.at = "asked"
    /\ Becomes(c, [c EXCEPT !.at = IF Row(c.id) = {} THEN "failed" ELSE "read", !.row = Row(c.id)])
    /\ blind' = (blind \/ Writing # {} \/ review # {} \/ Row(c.id) = {})
    /\ UNCHANGED <<rows, nextId, item, loading, count, quiz, sent, Other, unseen, kept>>

Set(r, c) == IF c.for = "quiz" THEN [r EXCEPT !.quiz = (c.val = 1)] ELSE [r EXCEPT !.count = c.val]

\* A row that was deleted meanwhile is not written.
WriteItem(c) ==
    /\ c.at = "read"
    /\ LET new == {Set(r, c) : r \in c.row} IN
       IF Row(c.id) = {}
       THEN rows' = rows /\ Becomes(c, [c EXCEPT !.at = "failed"]) /\ blind' = TRUE /\ UNCHANGED kept
       ELSE /\ rows' = new /\ Becomes(c, [c EXCEPT !.at = "done", !.row = new])
            /\ kept' = kept \ {c.for} /\ UNCHANGED blind
    /\ UNCHANGED <<nextId, item, loading, count, quiz, sent, Other, unseen>>

-----------------------------------------------------------------------------
(* Answers.                                                                *)

\* What was added is read again.
Added(c) ==
    /\ c.for = "add" /\ c.at = "done"
    /\ Becomes(c, [c EXCEPT !.for = "get", !.at = "asked"])
    /\ UNCHANGED <<rows, nextId, item, loading, count, quiz, sent, Other, History>>

\* The toggle and the select stay as they were for the item before.
setItem(c) ==
    /\ c.for = "get"
    /\ item' = rows /\ calls' = calls \ {c}
    /\ unseen' = FALSE
    /\ kept' = {s \in Updates : \E r \in rows : IF s = "count" THEN r.count # count ELSE r.quiz # quiz}
    /\ UNCHANGED <<rows, nextId, loading, count, quiz, sent, Other, blind>>

\* The item was added and could not be read.
GetFails(c) ==
    /\ c.for = "get"
    /\ calls' = calls \ {c} /\ unseen' = (rows # {})
    /\ UNCHANGED <<rows, nextId, item, loading, count, quiz, sent, Other, kept, blind>>

\* Mutant: the panel keeps the item.
RemovedUnseen(c) ==
    /\ c.for = "remove" /\ c.at = "done"
    /\ calls' = calls \ {c}
    /\ UNCHANGED <<rows, nextId, item, loading, count, quiz, sent, Other, History>>

Removed(c) ==
    /\ c.for = "remove" /\ c.at = "done"
    /\ item' = {} /\ calls' = calls \ {c}
    /\ UNCHANGED <<rows, nextId, loading, count, quiz, sent, Other, History>>

\* The item of an update that is late comes back to a panel that removed it.
Updated(c) ==
    /\ c.for \in Updates /\ c.at = "done"
    /\ item' = c.row /\ calls' = calls \ {c}
    /\ blind' = (blind \/ c.row # rows)
    /\ UNCHANGED <<rows, nextId, loading, count, quiz, sent, Other, unseen, kept>>

\* The toggle goes back, the select does not.
UpdateFails(c) ==
    /\ c.at = "failed"
    /\ calls' = calls \ {c}
    /\ quiz' = IF c.for = "quiz" THEN (c.val = 0) ELSE quiz
    /\ UNCHANGED <<rows, nextId, item, loading, count, sent, Other, History>>

-----------------------------------------------------------------------------
(* submitReview, in the other tab.                                         *)

ReadForReview ==
    /\ reviews < MaxReviews /\ review = {} /\ rows # {}
    /\ review' = rows /\ reviews' = reviews + 1
    /\ blind' = (blind \/ Writing # {})
    /\ UNCHANGED <<rows, nextId, item, loading, count, quiz, calls, sent, unseen, kept>>

submitReview ==
    /\ review # {} /\ review' = {}
    /\ rows' = IF \E r \in review : Row(r.id) # {} THEN {[r EXCEPT !.reviews = @ + 1] : r \in review} ELSE rows
    /\ UNCHANGED <<nextId, item, loading, count, quiz, calls, sent, reviews, History>>

Next ==
    \/ ItemLoaded \/ LoadFails \/ handleAdd \/ handleRemove \/ onToggleQuiz
    \/ \E n \in Counts : onSelectCount(n)
    \/ \E c \in calls : addItem(c) \/ removeItem(c) \/ ReadItem(c) \/ WriteItem(c)
    \/ \E c \in calls : Added(c) \/ setItem(c) \/ GetFails(c) \/ Removed(c) \/ Updated(c) \/ UpdateFails(c)
    \/ ReadForReview \/ submitReview

Spec == Init /\ [][Next]_vars

-----------------------------------------------------------------------------
TypeOK ==
    /\ rows \subseteq Items /\ Cardinality(rows) <= 1 /\ nextId \in Nat
    /\ item \subseteq Items /\ Cardinality(item) <= 1 /\ loading \in BOOLEAN
    /\ count \in Counts /\ quiz \in BOOLEAN
    /\ \A c \in calls : c.for \in Updates \cup {"add", "get", "remove"} /\ c.at \in {"asked", "read", "done", "failed"}
    /\ sent \in 0 .. MaxRequests /\ review \subseteq Items /\ reviews \in 0 .. MaxReviews
    /\ unseen \in BOOLEAN /\ kept \subseteq Updates /\ blind \in BOOLEAN

\* When its requests have ended the panel has the item that is stored, unless it could not be loaded, and its
\* toggle and select each show the setting of it.  One (kept) may not after a note was removed, or not
\* loaded, and added: it shows what it showed before, but only until it is set again.  All this where no
\* two writes of the item overlapped and no update came for an item that was gone (blind).
SettingsShown ==
    ~loading /\ calls = {} /\ ~blind =>
      /\ item # {} => rows # {}
      /\ item = {} => rows = {} \/ unseen
      /\ ~unseen /\ "count" \notin kept => \A r \in rows : r.count = count
      /\ ~unseen /\ "quiz" \notin kept => \A r \in rows : r.quiz = quiz
=============================================================================
