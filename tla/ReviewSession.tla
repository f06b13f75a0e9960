--------------------------- MODULE ReviewSession ---------------------------
(***************************************************************************)
(* The review page: it walks through the cached queue of items that are    *)
(* due, or shows an item picked from the list beside it, loads the item's  *)
(* note, lets the user reveal it and rate the recall.  Rating an item      *)
(* takes it out of the backend's queue, and the cached queue is fetched    *)
(* again.                                                                  *)
(***************************************************************************)
EXTENDS Naturals, Sequences, FiniteSets, SequencesExt

CONSTANTS
    Items,       \* the items in review
    FirstDue,    \* the queue when the page opens
    WithQuiz     \* items that have questions

VARIABLES
    due,       \* the backend's queue
    queue,     \* the cached queue
    dueShown,  \* items that the cached list says are due
    stale,     \* cached queries that are being fetched again
    page,      \* what is reviewed: selected, reviewingNonDue, index, completed
    card,      \* the note on the screen: loaded (a ref), shown, loading, mode, revealed, questions
    loads,     \* notes being loaded
    asking,    \* items whose questions are being loaded
    rating,    \* the review being submitted, with what the handler captured
    seen,      \* history: the item whose note the user revealed last
    crossed    \* history: two notes, or questions and a note, were loading at the same time

vars == <<due, queue, dueShown, stale, page, card, loads, asking, rating, seen, crossed>>

None == "none"
NoRating == [item |-> None, selected |-> FALSE, index |-> 0, length |-> 0]
FreshCard(i) == [loaded |-> i, shown |-> None, loading |-> i # None, mode |-> "choose",
                 revealed |-> FALSE, questions |-> None]

activeIn(p, q) ==
    IF p.selected # None THEN p.selected ELSE IF p.index < Len(q) THEN q[p.index + 1] ELSE None
nonDueInfoIn(p, d) == p.selected # None /\ p.selected \notin d /\ ~p.reviewingNonDue

activeItem == activeIn(page, queue)
showingNonDueInfo == nonDueInfoIn(page, dueShown)

\* All caught up.
noActiveItem == activeItem = None /\ (queue = <<>> \/ page.completed)

Init ==
    /\ due = FirstDue /\ queue = FirstDue /\ dueShown = ToSet(FirstDue) /\ stale = {}
    /\ page = [selected |-> None, reviewingNonDue |-> FALSE, index |-> 0, completed |-> FALSE]
    /\ card = FreshCard(Head(FirstDue)) /\ loads = {Head(FirstDue)}
    /\ asking = {} /\ rating = NoRating /\ seen = None /\ crossed = FALSE

\* Without questions there is nothing to choose.
AutoSelected(c, i, info) ==
    IF i \notin WithQuiz \cup {None} /\ ~c.loading /\ c.shown # None /\ ~info
    THEN [c EXCEPT !.mode = "content"] ELSE c
\* Mutant: the card stays revealed.
RenderKeeping(p, q, d, c) ==
    LET i == activeIn(p, q)
        load == i # None /\ ~nonDueInfoIn(p, d) /\ c.loaded # i IN
    /\ page' = p /\ queue' = q /\ dueShown' = d
    /\ card' = IF load THEN [c EXCEPT !.loaded = i, !.loading = TRUE] ELSE c
    /\ loads' = IF load THEN loads \cup {i} ELSE loads
    /\ UNCHANGED crossed

\* After a handler the page shows p, q, d and c, and its effects run: an item that became active,
\* and is not the one loaded last, is loaded.
Render(p, q, d, c) ==
    LET i == activeIn(p, q)
        info == nonDueInfoIn(p, d)
        load == /\ i # None /\ ~info /\ c.loaded # i
                /\ i # activeItem \/ info # showingNonDueInfo IN
    /\ page' = p /\ queue' = q /\ dueShown' = d
    /\ card' = AutoSelected(IF load THEN FreshCard(i) ELSE c, i, info)
    /\ loads' = IF load THEN loads \cup {i} ELSE loads
    /\ crossed' = (crossed \/ (load /\ loads \cup asking # {}))

Stay(c) == Render(page, queue, dueShown, c)

-----------------------------------------------------------------------------
(* The note and its questions.                                             *)

\* Whatever is active by now.
Loaded(i) ==
    /\ i \in loads
    /\ card' = AutoSelected([card EXCEPT !.shown = i, !.loading = FALSE], activeItem, showingNonDueInfo)
    /\ loads' = loads \ {i}
    /\ UNCHANGED <<due, queue, dueShown, stale, page, asking, rating, seen, crossed>>

LoadFails(i) ==
    /\ i \in loads
    /\ card' = [card EXCEPT !.loaded = None, !.loading = FALSE]
    /\ loads' = loads \ {i}
    /\ UNCHANGED <<due, queue, dueShown, stale, page, asking, rating, seen, crossed>>

CardShown == ~noActiveItem /\ activeItem # None /\ ~showingNonDueInfo
NoteShown == CardShown /\ ~card.loading /\ card.shown # None

chooseContent ==
    /\ NoteShown /\ card.mode = "choose"
    /\ Stay([card EXCEPT !.mode = "content"])
    /\ UNCHANGED <<due, stale, asking, rating, seen>>

handleSelectQuiz ==
    /\ NoteShown /\ card.mode = "choose" /\ activeItem \in WithQuiz
    /\ asking' = asking \cup {activeItem}
    /\ Stay([card EXCEPT !.mode = "quiz"])
    /\ UNCHANGED <<due, stale, rating, seen>>

\* No questions, or an error: the note itself is reviewed.
QuestionsArrive(i, some) ==
    /\ i \in asking
    /\ asking' = asking \ {i}
    /\ card' = IF some THEN [card EXCEPT !.questions = i] ELSE [card EXCEPT !.mode = "content"]
    /\ UNCHANGED <<due, queue, dueShown, stale, page, loads, rating, seen, crossed>>

\* Show Content, or Show Answers.
reveal ==
    /\ NoteShown /\ card.mode # "choose" /\ ~card.revealed
    /\ card.mode = "quiz" => asking = {}
    /\ seen' = activeItem
    /\ Stay([card EXCEPT !.revealed = TRUE])
    /\ UNCHANGED <<due, stale, asking, rating>>

-----------------------------------------------------------------------------
(* Rating.                                                                 *)

showRatingButtons == CardShown /\ card.mode # "choose" /\ card.revealed

handleRate ==
    /\ showRatingButtons /\ rating = NoRating
    /\ rating' = [item |-> activeItem, selected |-> page.selected # None,
                  index |-> page.index, length |-> Len(queue)]
    /\ UNCHANGED <<due, queue, dueShown, stale, page, card, loads, asking, seen, crossed>>

\* Each rating moves the next review by a day or more: the item, which is in the queue once, leaves it.
submitReview == due' = RemoveFirst(due, rating.item) /\ stale' = {"queue", "items"}

Rated ==
    /\ rating.item # None /\ submitReview
    /\ rating' = NoRating
    /\ IF rating.selected
       THEN Render([page EXCEPT !.selected = None, !.reviewingNonDue = FALSE], queue, dueShown,
                   [card EXCEPT !.shown = None, !.loaded = None])
       ELSE IF rating.index + 1 < rating.length
       THEN Render([page EXCEPT !.index = rating.index + 1], queue, dueShown, card)
       ELSE Render([page EXCEPT !.completed = TRUE], queue, dueShown, card)
    /\ UNCHANGED <<asking, seen>>

\* The handler throws, and its buttons stay disabled.
RatingFails ==
    /\ rating.item # None
    /\ rating' = [rating EXCEPT !.item = None, !.length = 1]
    /\ UNCHANGED <<due, queue, dueShown, stale, page, card, loads, asking, seen, crossed>>

QueueFetched ==
    /\ "queue" \in stale /\ stale' = stale \ {"queue"}
    /\ Render(page, due, dueShown, card)
    /\ UNCHANGED <<due, asking, rating, seen>>

ItemsFetched ==
    /\ "items" \in stale /\ stale' = stale \ {"items"}
    /\ Render(page, queue, ToSet(due), card)
    /\ UNCHANGED <<due, asking, rating, seen>>

-----------------------------------------------------------------------------
(* The list beside the card.                                               *)

handleSelectItem(i) ==
    /\ i # activeItem
    /\ Render([page EXCEPT !.selected = i, !.reviewingNonDue = FALSE, !.completed = FALSE], queue, dueShown,
              [card EXCEPT !.revealed = FALSE, !.mode = "choose", !.questions = None])
    /\ UNCHANGED <<due, stale, asking, rating, seen>>

handleReviewNow ==
    /\ showingNonDueInfo
    /\ Render([page EXCEPT !.reviewingNonDue = TRUE], queue, dueShown, card)
    /\ UNCHANGED <<due, stale, asking, rating, seen>>

handleBackToQueue ==
    /\ page.selected # None
    /\ Render([page EXCEPT !.selected = None, !.reviewingNonDue = FALSE], queue, dueShown, card)
    /\ UNCHANGED <<due, stale, asking, rating, seen>>

Next ==
    \/ \E i \in Items :
         \/ Loaded(i) \/ LoadFails(i) \/ handleSelectItem(i)
         \/ \E some \in BOOLEAN : QuestionsArrive(i, some)
    \/ chooseContent \/ handleSelectQuiz \/ reveal
    \/ handleRate \/ Rated \/ RatingFails \/ QueueFetched \/ ItemsFetched
    \/ handleReviewNow \/ handleBackToQueue

Spec == Init /\ [][Next]_vars

-----------------------------------------------------------------------------
TypeOK ==
    /\ due \in Seq(Items) /\ queue \in Seq(Items) /\ dueShown \subseteq Items
    /\ stale \subseteq {"queue", "items"} /\ loads \subseteq Items /\ asking \subseteq Items
    /\ page \in [selected: Items \cup {None}, reviewingNonDue: BOOLEAN, index: 0 .. Cardinality(Items),
                 completed: BOOLEAN]
    /\ card \in [loaded: Items \cup {None}, shown: Items \cup {None}, loading: BOOLEAN,
                 mode: {"choose", "content", "quiz"}, revealed: BOOLEAN, questions: Items \cup {None}]
    /\ seen \in Items \cup {None} /\ crossed \in BOOLEAN

\* What is rated is what was read: however items are picked, rated and fetched again, an item can be rated only
\* after the user revealed that very item, and its note is the one on the card if notes load one at a time.
RatedAfterSeen ==
    showRatingButtons =>
      /\ seen = activeItem
      /\ ~crossed /\ NoteShown => card.shown = activeItem
=============================================================================
