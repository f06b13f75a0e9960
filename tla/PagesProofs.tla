----------------------------- MODULE PagesProofs -----------------------------
(***************************************************************************)
(* Theorems about the pages as Pages puts them together, for every value   *)
(* of the constants.  The invariant of a page speaks of its own variables  *)
(* only: it is preserved by the steps of that page, and the steps of the   *)
(* others leave its variables alone (PageSteps).                           *)
(***************************************************************************)
EXTENDS Pages, Integers, Sequences, FiniteSets, SequenceTheorems, FiniteSetTheorems, TLAPS

\* A step is for each page a step of its own, or none.
LEMMA PageSteps ==
    ASSUME [Next]_vars
    PROVE  /\ [Tree!Next]_treeVars
           /\ [List!Next]_listVars
           /\ [Project!Next]_projectVars
           /\ [Panel!Next]_panelVars
           /\ [Task!Next]_taskVars
           /\ [Review!Next]_reviewVars
           /\ [Research!Next]_researchVars
<1>1. CASE UNCHANGED vars
  BY <1>1 DEF vars
<1>2. CASE Only("tree") /\ Tree!Next
  BY <1>2 DEF Only
<1>3. CASE Only("list") /\ List!Next
  BY <1>3 DEF Only
<1>4. CASE Only("project") /\ Project!Next
  BY <1>4 DEF Only
<1>5. CASE Only("panel") /\ Panel!Next
  BY <1>5 DEF Only
<1>6. CASE Only("task") /\ Task!Next
  BY <1>6 DEF Only
<1>7. CASE Only("review") /\ Review!Next
  BY <1>7 DEF Only
<1>8. CASE Only("research") /\ Research!Next
  BY <1>8 DEF Only
<1> QED
  BY <1>1, <1>2, <1>3, <1>4, <1>5, <1>6, <1>7, <1>8 DEF Next

-----------------------------------------------------------------------------
(* The notes of a project.                                                 *)

\* A note is of the file its code is from, unless a definition led astray.
Anchored(n) == n.code # Panel!None /\ ~n.stray => n.code = n.anchor

\* The selected code is of the selected path, unless a definition led astray; and what holds of the selection
\* holds of the note that is being made of it, and of those that were.
SelectionInv ==
    /\ selection # Panel!None /\ ~strayed => selection = path
    /\ Anchored(newNote)
    /\ Panel!CodeFromAnchor

LEMMA NoNoteAnchored == Anchored(Panel!NoNote)
BY DEF Anchored, Panel!NoNote

LEMMA SelectionInvInit == Panel!Init => SelectionInv
BY NoNoteAnchored DEF Panel!Init, SelectionInv, Panel!CodeFromAnchor

\* Selecting a path, in whichever way, drops the selected code.
LEMMA SelectKeepsInv ==
    ASSUME SelectionInv, NEW p, NEW k, Panel!Select(p, k), UNCHANGED <<newNote, notes>>
    PROVE  SelectionInv'
BY DEF SelectionInv, Panel!Select, Panel!CodeFromAnchor, Anchored

LEMMA NavigateKeepsInv ==
    ASSUME SelectionInv, NEW p, Panel!handleNavigateToAnchor(p), UNCHANGED <<newNote, notes>>
    PROVE  SelectionInv'
BY SelectKeepsInv DEF Panel!handleNavigateToAnchor, Panel!handleSelectFile, Panel!handleSelectFolder

\* Steps that leave the selection, and the notes made of it, alone.
LEMMA NothingSelected ==
    ASSUME SelectionInv, UNCHANGED <<path, selection, strayed, newNote, notes>>
    PROVE  SelectionInv'
BY DEF SelectionInv, Panel!CodeFromAnchor, Anchored

LEMMA SelectionInvStep == SelectionInv /\ [Panel!Next]_panelVars => SelectionInv'
<1> SUFFICES ASSUME SelectionInv, [Panel!Next]_panelVars PROVE SelectionInv'
  OBVIOUS
<1>1. ASSUME NEW p \in Panel!Paths, Panel!ClickRow(p) PROVE SelectionInv'
  BY <1>1, SelectKeepsInv DEF Panel!ClickRow, Panel!handleSelectFile, Panel!handleSelectFolder, Panel!Work
<1>2. ASSUME NEW f \in Files, Panel!DefinitionFound(f) PROVE SelectionInv'
  <2>1. /\ UNCHANGED <<selection, newNote, notes>>
        /\ strayed' = (strayed \/ path # lookup \/ kind # "file" \/ (path' # path /\ selection # Panel!None))
    BY <1>2 DEF Panel!DefinitionFound
  <2>2. ASSUME selection' # Panel!None, ~strayed' PROVE selection' = path'
    BY <2>1, <2>2 DEF SelectionInv
  <2> QED
    BY <2>1, <2>2 DEF SelectionInv, Panel!CodeFromAnchor, Anchored
<1>3. ASSUME NEW f \in Files, Panel!handleSelect(f) PROVE SelectionInv'
  BY <1>3, SelectKeepsInv DEF Panel!handleSelect, Panel!handleSelectFile
<1>4. ASSUME NEW n \in notes, Panel!OpenFromMenu(n) PROVE SelectionInv'
  BY <1>4, NavigateKeepsInv DEF Panel!OpenFromMenu
<1>5. CASE Panel!OpenFromDialog
  BY <1>5, NavigateKeepsInv DEF Panel!OpenFromDialog
<1>6. CASE Panel!onCodeSelection
  <2>1. /\ UNCHANGED <<path, newNote, notes>> /\ shown = path
        /\ selection' \in {shown, Panel!None}
    BY <1>6 DEF Panel!onCodeSelection, Panel!Viewing, Panel!Work
  <2> QED
    BY <2>1 DEF SelectionInv, Panel!CodeFromAnchor, Anchored
<1>7. CASE Panel!handleCreateNeuron
  <2>1. /\ UNCHANGED <<path, selection, strayed, notes>> /\ selection # Panel!None
        /\ newNote' = [anchor |-> path, code |-> selection, stray |-> strayed]
    BY <1>7 DEF Panel!handleCreateNeuron, Panel!Create
  <2>2. Anchored(newNote)'
    BY <2>1 DEF Anchored, SelectionInv
  <2> QED
    BY <2>1, <2>2 DEF SelectionInv, Panel!CodeFromAnchor
<1>8. CASE Panel!handleCreateFolderNeuron
  <2>1. /\ UNCHANGED <<path, selection, strayed, notes>>
        /\ newNote' = [anchor |-> path, code |-> Panel!None, stray |-> strayed]
    BY <1>8 DEF Panel!handleCreateFolderNeuron, Panel!Create
  <2>2. Anchored(newNote)'
    BY <2>1 DEF Anchored
  <2> QED
    BY <2>1, <2>2 DEF SelectionInv, Panel!CodeFromAnchor
<1>9. CASE Panel!NeuronCreated
  <2>1. /\ notes' = notes \cup {newNote} /\ newNote' = Panel!NoNote /\ selection' = Panel!None
    BY <1>9 DEF Panel!NeuronCreated
  <2>2. Anchored(newNote)'
    BY <2>1, NoNoteAnchored DEF Anchored
  <2> QED
    BY <2>1, <2>2 DEF SelectionInv, Panel!CodeFromAnchor, Anchored
<1>10. CASE Panel!NeuronFails
  <2>1. newNote' = Panel!NoNote /\ UNCHANGED <<path, selection, strayed, notes>>
    BY <1>10 DEF Panel!NeuronFails
  <2>2. Anchored(newNote)'
    BY <2>1, NoNoteAnchored DEF Anchored
  <2> QED
    BY <2>1, <2>2 DEF SelectionInv, Panel!CodeFromAnchor
<1>11. CASE Panel!ContentLoaded \/ Panel!ModeChanges
  BY <1>11, NothingSelected DEF Panel!ContentLoaded, Panel!ModeChanges, Panel!Work
<1>12. CASE Panel!handleGoToLine \/ Panel!handleSymbolClick \/ Panel!handleGoToDefinition \/ Panel!DefinitionMissing
  BY <1>12, NothingSelected DEF Panel!handleGoToLine, Panel!handleSymbolClick, Panel!handleGoToDefinition, Panel!DefinitionMissing, Panel!Work
<1>13. ASSUME NEW d \in {"quick", "line"}, Panel!OpenFinder(d) PROVE SelectionInv'
  BY <1>13, NothingSelected DEF Panel!OpenFinder
<1>14. ASSUME NEW t \in {"file", "cluster"}, Panel!setTab(t) PROVE SelectionInv'
  BY <1>14, NothingSelected DEF Panel!setTab
<1>15. ASSUME NEW n \in notes, Panel!OpenNote(n) PROVE SelectionInv'
  BY <1>15, NothingSelected DEF Panel!OpenNote
<1>16. CASE Panel!CloseFinder \/ Panel!CloseNote
  BY <1>16, NothingSelected DEF Panel!CloseFinder, Panel!CloseNote
<1>17. CASE UNCHANGED panelVars
  BY <1>17, NothingSelected DEF panelVars
<1> QED
  BY <1>1, <1>2, <1>3, <1>4, <1>5, <1>6, <1>7, <1>8, <1>9, <1>10, <1>11, <1>12, <1>13, <1>14, <1>15, <1>16, <1>17
     DEF Panel!Next

\* In ProjectClusterView and its NeuronPanel, a note made of selected code is anchored to the file the code was
\* selected in, unless following a definition changed the path.
THEOREM CodeKeepsItsAnchor == Spec => []CodeFromAnchor
<1>1. Init => SelectionInv
  BY SelectionInvInit DEF Init
<1>2. SelectionInv /\ [Next]_vars => SelectionInv'
  BY SelectionInvStep, PageSteps
<1>3. SelectionInv => CodeFromAnchor
  BY DEF SelectionInv, CodeFromAnchor
<1> QED
  BY <1>1, <1>2, <1>3, PTL DEF Spec

-----------------------------------------------------------------------------
(* The review page.                                                        *)

IsCard(c) == DOMAIN c = {"loaded", "shown", "loading", "mode", "revealed", "questions"}

\* The note on the card was loaded for the active item, if it was loaded at all.
LoadedIsActive == Review!CardShown => card.loaded \in {Review!None, Review!activeItem}

\* A card that is revealed was revealed for the item it shows, also when the page turns to that item again.
RevealedIsSeen ==
    card.revealed =>
      /\ card.loaded \in {Review!None, seen}
      /\ Review!CardShown => seen = Review!activeItem

\* As long as notes load one at a time, what is loading or shown is the active item's note, or the one the page
\* turns to when it comes back from an item that is not due.
LoadsOne ==
    /\ Review!CardShown => card.shown \in {Review!None, Review!activeItem} /\ loads \subseteq {Review!activeItem}
    /\ card.loaded # Review!None => card.shown \in {Review!None, card.loaded} /\ loads \subseteq {card.loaded}

SessionInv ==
    /\ IsCard(card)
    /\ LoadedIsActive
    /\ RevealedIsSeen
    /\ ~cardCrossed => LoadsOne

\* The card is there exactly when an item is active and not only its dates are shown.
LEMMA CardShownMeans == Review!CardShown <=> Review!activeItem # Review!None /\ ~Review!showingNonDueInfo
BY DEF Review!CardShown, Review!noActiveItem

\* What handlers do to a card leaves it a card, with the fields they do not name.
LEMMA AutoSelectedKeeps ==
    ASSUME NEW c, IsCard(c), NEW i, NEW info
    PROVE  LET a == Review!AutoSelected(c, i, info) IN
             IsCard(a) /\ a.loaded = c.loaded /\ a.shown = c.shown /\ a.revealed = c.revealed
BY DEF Review!AutoSelected, IsCard

LEMMA FreshCardIs ==
    ASSUME NEW i
    PROVE  /\ IsCard(Review!FreshCard(i))
           /\ Review!FreshCard(i).loaded = i /\ Review!FreshCard(i).shown = Review!None /\ Review!FreshCard(i).revealed = FALSE
BY DEF Review!FreshCard, IsCard

LEMMA SessionInvInit ==
    ASSUME Review!Init
    PROVE  SessionInv
<1>1. /\ IsCard(card) /\ card.loaded = Head(FirstDue) /\ card.shown = Review!None /\ card.revealed = FALSE
      /\ loads = {Head(FirstDue)}
  BY FreshCardIs DEF Review!Init
<1>2. Review!activeItem # Review!None => Review!activeItem = Head(FirstDue)
  BY DEF Review!Init, Review!activeItem, Review!activeIn
<1> QED
  BY <1>1, <1>2, CardShownMeans DEF SessionInv, LoadedIsActive, RevealedIsSeen, LoadsOne

\* A handler that leaves the note on the card, or takes it away, and reveals it for the active item alone, keeps
\* the invariant, whatever the page turns to.
LEMMA RenderKeepsInv ==
    ASSUME SessionInv, NEW p, NEW q, NEW d, NEW c, Review!Render(p, q, d, c), IsCard(c),
           c.loaded \in {card.loaded, Review!None}, c.shown \in {card.shown, Review!None},
           c.revealed => c.loaded \in {Review!None, seen'} /\ (Review!CardShown => seen' = Review!activeItem)
    PROVE  SessionInv'
<1> DEFINE i == Review!activeIn(p, q)
           info == Review!nonDueInfoIn(p, d)
           load == i # Review!None /\ ~info /\ c.loaded # i /\ (i # Review!activeItem \/ info # Review!showingNonDueInfo)
<1>1. Review!activeItem' = i /\ Review!showingNonDueInfo' = info
  BY DEF Review!Render, Review!activeItem, Review!showingNonDueInfo
<1>2. Review!CardShown' <=> i # Review!None /\ ~info
  BY <1>1 DEF Review!CardShown, Review!noActiveItem
<1>3. /\ card' = Review!AutoSelected(IF load THEN Review!FreshCard(i) ELSE c, i, info)
      /\ loads' = IF load THEN loads \cup {i} ELSE loads
      /\ cardCrossed' = (cardCrossed \/ (load /\ loads \cup questions # {}))
  BY DEF Review!Render
<1> HIDE DEF i, info
<1>4. CASE load
  <2>1. /\ IsCard(card') /\ card'.loaded = i /\ card'.shown = Review!None /\ card'.revealed = FALSE
    <3>1. card' = Review!AutoSelected(Review!FreshCard(i), i, info)
      BY <1>3, <1>4
    <3> HIDE DEF load
    <3>2. /\ IsCard(Review!FreshCard(i))
          /\ Review!FreshCard(i).loaded = i /\ Review!FreshCard(i).shown = Review!None /\ Review!FreshCard(i).revealed = FALSE
      BY FreshCardIs
    <3>3. LET a == Review!AutoSelected(Review!FreshCard(i), i, info) IN
            /\ IsCard(a) /\ a.loaded = Review!FreshCard(i).loaded /\ a.shown = Review!FreshCard(i).shown
            /\ a.revealed = Review!FreshCard(i).revealed
      BY <3>2, AutoSelectedKeeps
    <3> QED
      BY <3>1, <3>2, <3>3
  <2>2. ~cardCrossed' => loads' = {i}
    BY <1>3, <1>4
  <2> QED
    BY <1>1, <2>1, <2>2 DEF SessionInv, LoadedIsActive, RevealedIsSeen, LoadsOne
<1>5. CASE ~load
  <2>1. /\ IsCard(card') /\ card'.loaded = c.loaded /\ card'.shown = c.shown /\ card'.revealed = c.revealed
    <3>1. card' = Review!AutoSelected(c, i, info)
      BY <1>3, <1>5
    <3> HIDE DEF load
    <3> QED
      BY <3>1, AutoSelectedKeeps
  <2>2. loads' = loads /\ (cardCrossed' <=> cardCrossed)
    BY <1>3, <1>5
  <2>3. Review!CardShown' => c.loaded = i \/ (i = Review!activeItem /\ Review!CardShown)
    BY <1>2, <1>5, CardShownMeans
  <2>4. LoadedIsActive'
    BY <1>1, <2>1, <2>3 DEF LoadedIsActive, SessionInv
  <2>5. RevealedIsSeen'
    BY <1>1, <1>2, <2>1, <2>3 DEF RevealedIsSeen
  <2>6. ~cardCrossed' => LoadsOne'
    BY <1>1, <2>1, <2>2, <2>3, <1>2 DEF SessionInv, LoadsOne
  <2> QED
    BY <2>1, <2>4, <2>5, <2>6 DEF SessionInv
<1> QED
  BY <1>4, <1>5

\* The page shows the same item after a step that changes only what is loading or shown of its note.
LEMMA SamePage ==
    ASSUME UNCHANGED <<queue, dueShown, reviewed>>
    PROVE  Review!activeItem' = Review!activeItem /\ Review!CardShown' = Review!CardShown
BY DEF Review!activeItem, Review!CardShown, Review!noActiveItem, Review!showingNonDueInfo

LEMMA SessionInvStep == SessionInv /\ [Review!Next]_reviewVars => SessionInv'
<1> SUFFICES ASSUME SessionInv, [Review!Next]_reviewVars PROVE SessionInv'
  OBVIOUS
<1>0. IsCard(card)
  BY DEF SessionInv
<1>1. ASSUME NEW i \in Items, Review!Loaded(i) PROVE SessionInv'
  <2> DEFINE c == [card EXCEPT !.shown = i, !.loading = FALSE]
  <2>1. IsCard(c) /\ c.loaded = card.loaded /\ c.shown = i /\ c.revealed = card.revealed
    BY <1>0 DEF IsCard
  <2>2. /\ IsCard(card') /\ card'.loaded = card.loaded /\ card'.shown = i /\ card'.revealed = card.revealed
    <3>1. card' = Review!AutoSelected(c, Review!activeItem, Review!showingNonDueInfo)
      BY <1>1 DEF Review!Loaded
    <3> HIDE DEF c
    <3> QED
      BY <2>1, <3>1, AutoSelectedKeeps
  <2>3. i \in loads /\ loads' = loads \ {i} /\ UNCHANGED <<seen, cardCrossed, queue, dueShown, reviewed>>
    BY <1>1 DEF Review!Loaded
  <2> QED
    BY <2>2, <2>3, SamePage DEF SessionInv, LoadedIsActive, RevealedIsSeen, LoadsOne
<1>2. ASSUME NEW i \in Items, Review!LoadFails(i) PROVE SessionInv'
  <2>1. /\ IsCard(card') /\ card'.loaded = Review!None /\ card'.shown = card.shown /\ card'.revealed = card.revealed
    BY <1>0, <1>2 DEF Review!LoadFails, IsCard
  <2>2. loads' \subseteq loads /\ UNCHANGED <<seen, cardCrossed, queue, dueShown, reviewed>>
    BY <1>2 DEF Review!LoadFails
  <2> QED
    BY <2>1, <2>2, SamePage DEF SessionInv, LoadedIsActive, RevealedIsSeen, LoadsOne
<1>3. ASSUME NEW i \in Items, NEW some \in BOOLEAN, Review!QuestionsArrive(i, some) PROVE SessionInv'
  <2>1. /\ IsCard(card') /\ card'.loaded = card.loaded /\ card'.shown = card.shown
        /\ card'.revealed = card.revealed
    BY <1>0, <1>3 DEF Review!QuestionsArrive, IsCard
  <2>2. UNCHANGED <<loads, seen, cardCrossed, queue, dueShown, reviewed>>
    BY <1>3 DEF Review!QuestionsArrive
  <2> QED
    BY <2>1, <2>2, SamePage DEF SessionInv, LoadedIsActive, RevealedIsSeen, LoadsOne
<1>4. ASSUME NEW i \in Items, Review!handleSelectItem(i) PROVE SessionInv'
  <2> DEFINE c == [card EXCEPT !.revealed = FALSE, !.mode = "choose", !.questions = Review!None]
  <2>1. IsCard(c) /\ c.loaded = card.loaded /\ c.shown = card.shown /\ c.revealed = FALSE
    BY <1>0 DEF IsCard
  <2>2. Review!Render([reviewed EXCEPT !.selected = i, !.reviewingNonDue = FALSE, !.completed = FALSE], queue, dueShown, c)
    BY <1>4 DEF Review!handleSelectItem
  <2> HIDE DEF c
  <2> QED
    BY <2>1, <2>2, RenderKeepsInv
<1>5. ASSUME NEW p, NEW q, NEW d, Review!Render(p, q, d, card), seen' = seen PROVE SessionInv'
  BY <1>0, <1>5, RenderKeepsInv DEF SessionInv, RevealedIsSeen
<1>6. ASSUME NEW p, NEW q, NEW d, NEW c, Review!Render(p, q, d, c), seen' = seen, IsCard(c),
             c.loaded \in {card.loaded, Review!None}, c.shown \in {card.shown, Review!None}, c.revealed = card.revealed
      PROVE SessionInv'
  BY <1>6, RenderKeepsInv DEF SessionInv, RevealedIsSeen
<1>7. CASE Review!chooseContent
  <2> DEFINE c == [card EXCEPT !.mode = "content"]
  <2>1. IsCard(c) /\ c.loaded = card.loaded /\ c.shown = card.shown /\ c.revealed = card.revealed
    BY <1>0 DEF IsCard
  <2>2. Review!Render(reviewed, queue, dueShown, c) /\ seen' = seen
    BY <1>7 DEF Review!chooseContent, Review!Stay
  <2> HIDE DEF c
  <2> QED
    BY <2>1, <2>2, <1>6
<1>8. CASE Review!handleSelectQuiz
  <2> DEFINE c == [card EXCEPT !.mode = "quiz"]
  <2>1. IsCard(c) /\ c.loaded = card.loaded /\ c.shown = card.shown /\ c.revealed = card.revealed
    BY <1>0 DEF IsCard
  <2>2. Review!Render(reviewed, queue, dueShown, c) /\ seen' = seen
    BY <1>8 DEF Review!handleSelectQuiz, Review!Stay
  <2> HIDE DEF c
  <2> QED
    BY <2>1, <2>2, <1>6
<1>9. CASE Review!reveal
  <2> DEFINE c == [card EXCEPT !.revealed = TRUE]
  <2>1. IsCard(c) /\ c.loaded = card.loaded /\ c.shown = card.shown
    BY <1>0 DEF IsCard
  <2>2. Review!CardShown /\ seen' = Review!activeItem /\ Review!Render(reviewed, queue, dueShown, c)
    BY <1>9 DEF Review!reveal, Review!Stay, Review!NoteShown
  <2>3. c.loaded \in {Review!None, seen'}
    BY <2>1, <2>2 DEF SessionInv, LoadedIsActive
  <2> HIDE DEF c
  <2> QED
    BY <2>1, <2>2, <2>3, RenderKeepsInv
<1>10. CASE Review!Rated
  <2> DEFINE c == [card EXCEPT !.shown = Review!None, !.loaded = Review!None]
  <2>1. IsCard(c) /\ c.loaded = Review!None /\ c.shown = Review!None /\ c.revealed = card.revealed
    BY <1>0 DEF IsCard
  <2>2. seen' = seen
    BY <1>10 DEF Review!Rated
  <2>3. CASE rating.selected
    <3>1. Review!Render([reviewed EXCEPT !.selected = Review!None, !.reviewingNonDue = FALSE], queue, dueShown, c)
      BY <1>10, <2>3 DEF Review!Rated
    <3> HIDE DEF c
    <3> QED
      BY <2>1, <2>2, <3>1, <1>6
  <2>4. CASE ~rating.selected /\ rating.index + 1 < rating.length
    BY <1>10, <2>2, <2>4, <1>5 DEF Review!Rated
  <2>5. CASE ~rating.selected /\ ~(rating.index + 1 < rating.length)
    BY <1>10, <2>2, <2>5, <1>5 DEF Review!Rated
  <2> QED
    BY <2>3, <2>4, <2>5
<1>11. CASE Review!QueueFetched
  BY <1>11, <1>5 DEF Review!QueueFetched
<1>12. CASE Review!ItemsFetched
  BY <1>12, <1>5 DEF Review!ItemsFetched
<1>13. CASE Review!handleReviewNow
  BY <1>13, <1>5 DEF Review!handleReviewNow
<1>14. CASE Review!handleBackToQueue
  BY <1>14, <1>5 DEF Review!handleBackToQueue
<1>15. CASE Review!handleRate \/ Review!RatingFails \/ UNCHANGED reviewVars
  <2>1. UNCHANGED <<card, loads, seen, cardCrossed, queue, dueShown, reviewed>>
    BY <1>15 DEF Review!handleRate, Review!RatingFails, reviewVars
  <2> QED
    BY <2>1, SamePage DEF SessionInv, LoadedIsActive, RevealedIsSeen, LoadsOne
<1> QED
  BY <1>1, <1>2, <1>3, <1>4, <1>7, <1>8, <1>9, <1>10, <1>11, <1>12, <1>13, <1>14, <1>15 DEF Review!Next

\* On the review page an item can be rated only after its own note was revealed, whatever is picked, rated and
\* fetched in between.
THEOREM RatesWhatWasSeen == Spec => []RatedAfterSeen
<1>1. Init => SessionInv
  BY SessionInvInit DEF Init
<1>2. SessionInv /\ [Next]_vars => SessionInv'
  BY SessionInvStep, PageSteps
<1>3. SessionInv => RatedAfterSeen
  <2> SUFFICES ASSUME SessionInv, Review!showRatingButtons
               PROVE  /\ seen = Review!activeItem
                      /\ ~cardCrossed /\ Review!NoteShown => card.shown = Review!activeItem
    BY DEF RatedAfterSeen, Review!RatedAfterSeen
  <2>1. Review!CardShown /\ card.revealed
    BY DEF Review!showRatingButtons
  <2> QED
    BY <2>1 DEF SessionInv, RevealedIsSeen, LoadsOne, Review!NoteShown
<1> QED
  BY <1>1, <1>2, <1>3, PTL DEF Spec

-----------------------------------------------------------------------------
(* The project page: what is cached of the sandbox and of its files.       *)

\* What the page has of the status, or will have when the answer arrives.
Seen == IF asking = "idle" THEN status ELSE asking

\* The status is asked for, or what was read is the backend's, or is one that the page polls, or
\* the answer of a command will have it asked for again.  Before the status is known only a sandbox
\* can have been asked for, and none was provided unnoticed.
StatusInv ==
    /\ box \in Project!Boxes
    /\ commands \subseteq [op: Project!Ops, at: {"sent", "removing", "done", "refused"}]
    /\ asking \in Project!Boxes \cup {"idle", "asked"}
    /\ status = "unknown" => asking # "idle" /\ \A c \in commands : c.op = "provision"
    /\ "status" \notin fileCrossed =>
         /\ status = "unknown" => \A c \in commands : c.at \notin {"done", "removing"}
         /\ \/ asking = "asked"
            \/ Seen = box
            \/ Seen \in {"cloning", "terminating"}
            \/ \E c \in commands : c.at \in {"done", "removing"}

\* The answer of a command will invalidate the cached files.
Told == \E c \in commands : c.at = "done"

\* What is on its way and what is valid is at the revision of the sandbox, unless that is going to
\* be invalidated; what is invalid and shown is on its way.
FileInv(f) ==
    /\ reading[f] >= 0 => reading[f] = rev \/ Told
    /\ content[f] # Project!NotLoaded /\ f \notin stale => content[f] = rev \/ Told
    /\ f \in stale /\ file = f /\ status = "active" => reading[f] # Project!Idle

FilesInv ==
    /\ rev \in Nat /\ reading \in [Files -> Int] /\ content \in [Files -> Int]
    /\ \A c \in commands : "at" \in DOMAIN c
    /\ \A f \in Files \ fileCrossed : FileInv(f)

LEMMA StatusAtFirst == ASSUME Project!Init PROVE StatusInv
<1>1. box = "none" /\ status = "unknown" /\ asking = "asked" /\ commands = {}
  BY DEF Project!Init, Project!None
<1> QED
  BY <1>1 DEF StatusInv, Project!Boxes, Project!None

LEMMA FilesAtFirst == ASSUME Project!Init PROVE FilesInv
<1>1. /\ content = [f \in Files |-> Project!NotLoaded]
      /\ reading = [f \in Files |-> Project!Idle]
      /\ stale = {} /\ rev = 0 /\ commands = {}
  BY DEF Project!Init
<1> QED
  BY <1>1 DEF FilesInv, FileInv, Project!NotLoaded, Project!Idle

\* A command that is in flight moves on, and nothing else of the status does.
LEMMA CommandMoves ==
    ASSUME StatusInv, NEW c \in commands, NEW at \in {"removing", "done", "refused"}, Project!Answer(c, at),
           UNCHANGED <<status, asking>>, box' \in Project!Boxes, fileCrossed \subseteq fileCrossed',
           at = "refused" => box' = box /\ c.at = "sent",
           at # "refused" => c.op # "provision" \/ status # "unknown" \/ "status" \in fileCrossed'
    PROVE  StatusInv'
<1> DEFINE d == [c EXCEPT !.at = at]
<1>1. commands' = (commands \ {c}) \cup {d}
  BY DEF Project!Answer
<1>2. c \in [op: Project!Ops, at: {"sent", "removing", "done", "refused"}]
  BY DEF StatusInv
<1>3. d.op = c.op /\ d.at = at /\ d \in [op: Project!Ops, at: {"sent", "removing", "done", "refused"}]
  BY <1>2
<1> HIDE DEF d
<1>4. commands' \subseteq [op: Project!Ops, at: {"sent", "removing", "done", "refused"}]
  BY <1>1, <1>3 DEF StatusInv
<1>5. status' = "unknown" => asking' # "idle" /\ \A x \in commands' : x.op = "provision"
  BY <1>1, <1>3 DEF StatusInv
<1>6. "status" \notin fileCrossed' => "status" \notin fileCrossed
  OBVIOUS
<1>7. ASSUME "status" \notin fileCrossed'
      PROVE  /\ status' = "unknown" => \A x \in commands' : x.at \notin {"done", "removing"}
             /\ \/ asking' = "asked"
                \/ Seen' = box'
                \/ Seen' \in {"cloning", "terminating"}
                \/ \E x \in commands' : x.at \in {"done", "removing"}
  <2>1. CASE at = "refused"
    <3>1. status' = "unknown" => \A x \in commands' : x.at \notin {"done", "removing"}
      BY <1>1, <1>3, <1>6, <1>7, <2>1 DEF StatusInv
    <3>2. \A x \in commands : x.at \in {"done", "removing"} => x \in commands'
      BY <1>1, <2>1
    <3>3. Seen' = Seen /\ box' = box
      BY <2>1 DEF Seen
    <3> QED
      BY <1>6, <1>7, <3>1, <3>2, <3>3 DEF StatusInv
  <2>2. CASE at # "refused"
    <3>1. d \in commands' /\ d.at \in {"done", "removing"}
      BY <1>1, <1>3, <2>2
    <3>2. status' # "unknown"
      BY <1>7, <2>2 DEF StatusInv
    <3> QED
      BY <3>1, <3>2
  <2> QED
    BY <2>1, <2>2
<1> QED
  BY <1>4, <1>5, <1>7 DEF StatusInv

\* A request that is sent changes nothing yet.
LEMMA CommandSends ==
    ASSUME StatusInv, NEW op \in Project!Ops, Project!Send(op)
    PROVE  StatusInv'
<1> DEFINE d == [op |-> op, at |-> "sent"]
<1>1. commands' = commands \cup {d} /\ UNCHANGED <<box, status, asking, fileCrossed>>
  BY DEF Project!Send, Project!Server, Project!Cached
<1>2. status = "unknown" => op = "provision"
  BY DEF Project!Send, Project!Offered, Project!isSandboxActive, Project!Ops, Project!None
<1> QED
  BY <1>1, <1>2 DEF StatusInv, Seen

LEMMA StatusStep ==
    ASSUME StatusInv, [Project!Next]_projectVars
    PROVE  StatusInv'
<1>1. CASE \/ UNCHANGED projectVars
           \/ \E f \in Files : \/ Project!FileRead(f) \/ Project!FileFetched(f)
                               \/ Project!handleSelectFile(f)
           \/ Project!handleSelectFolder
  <2>1. UNCHANGED <<box, commands, status, asking, fileCrossed>>
    BY <1>1 DEF projectVars, Project!FileRead, Project!FileFetched, Project!handleSelectFile,
                Project!handleSelectFolder, Project!Select, Project!Show, Project!Server
  <2> QED
    BY <2>1 DEF StatusInv, Seen
<1>2. ASSUME NEW f \in Files, Project!FileRefused(f) PROVE StatusInv'
  <2>1. UNCHANGED <<box, commands, status, asking>> /\ fileCrossed \subseteq fileCrossed'
    BY <1>2 DEF Project!FileRefused, Project!Server
  <2> QED
    BY <2>1 DEF StatusInv, Seen
<1>3. CASE Project!StatusRead
  <2>1. asking' = box /\ UNCHANGED <<box, commands, status, fileCrossed>>
    BY <1>3 DEF Project!StatusRead, Project!Server
  <2>2. box \notin {"idle", "asked"}
    BY DEF StatusInv, Project!Boxes, Project!None
  <2>3. Seen' = box'
    BY <2>1, <2>2 DEF Seen
  <2> QED
    BY <2>1, <2>2, <2>3 DEF StatusInv
<1>4. CASE Project!StatusFetched
  <2>1. /\ asking \in Project!Boxes /\ status' = asking /\ asking' = "idle"
        /\ UNCHANGED <<box, commands, fileCrossed>>
    BY <1>4 DEF Project!StatusFetched, Project!Show, Project!Server
  <2>2. asking \notin {"idle", "asked", "unknown"}
    BY <2>1 DEF Project!Boxes, Project!None
  <2> QED
    BY <2>1, <2>2 DEF StatusInv, Seen
<1>5. CASE Project!refetchInterval
  <2>1. /\ status # "unknown" /\ asking' = "asked"
        /\ UNCHANGED <<box, commands, status, fileCrossed>>
    BY <1>5 DEF Project!refetchInterval, Project!Server
  <2> QED
    BY <2>1 DEF StatusInv, Seen
<1>6. CASE Project!CloneEnds
  <2>1. /\ box = "cloning" /\ box' \in {"active", "error"}
        /\ UNCHANGED <<commands, status, asking, fileCrossed>>
    BY <1>6 DEF Project!CloneEnds, Project!Cached
  <2> QED
    BY <2>1 DEF StatusInv, Seen, Project!Boxes
<1>7. ASSUME NEW c \in commands, Project!Refuse(c) PROVE StatusInv'
  <2>1. /\ c.at = "sent" /\ Project!Answer(c, "refused")
        /\ UNCHANGED <<box, status, asking, fileCrossed>>
    BY <1>7 DEF Project!Refuse, Project!Server, Project!Cached
  <2> QED
    BY <2>1, CommandMoves DEF StatusInv
<1>8. ASSUME NEW c \in commands, Project!Change(c) PROVE StatusInv'
  <2>1. /\ c.op # "provision" /\ Project!Answer(c, "done")
        /\ UNCHANGED <<box, status, asking, fileCrossed>>
    BY <1>8 DEF Project!Change, Project!Cached
  <2> QED
    BY <2>1, CommandMoves DEF StatusInv
<1>9. ASSUME NEW c \in commands, Project!Provide(c) PROVE StatusInv'
  <2>1. /\ box' = "cloning" /\ Project!Answer(c, "done")
        /\ fileCrossed' = IF status = "unknown" THEN fileCrossed \cup {"status"} ELSE fileCrossed
        /\ UNCHANGED <<status, asking>>
    BY <1>9 DEF Project!Provide, Project!Cached
  <2> QED
    BY <2>1, CommandMoves DEF Project!Boxes
<1>10. ASSUME NEW c \in commands, Project!BeginTerminate(c) PROVE StatusInv'
  <2>1. /\ c.op = "terminate" /\ box' = "terminating" /\ Project!Answer(c, "removing")
        /\ UNCHANGED <<status, asking, fileCrossed>>
    BY <1>10 DEF Project!BeginTerminate, Project!Cached
  <2> QED
    BY <2>1, CommandMoves DEF Project!Boxes
<1>11. ASSUME NEW c \in commands, Project!EndTerminate(c) PROVE StatusInv'
  <2>1. /\ c.at = "removing" /\ box' = "none" /\ Project!Answer(c, "done")
        /\ fileCrossed \subseteq fileCrossed'
        /\ UNCHANGED <<status, asking>>
    BY <1>11 DEF Project!EndTerminate, Project!Cached, Project!None
  <2>2. status # "unknown" \/ "status" \in fileCrossed'
    BY <2>1 DEF StatusInv
  <2> QED
    BY <2>1, <2>2, CommandMoves DEF Project!Boxes, Project!None
<1>12. ASSUME NEW c \in commands, Project!Answered(c) PROVE StatusInv'
  <2>1. /\ c.at = "done" /\ commands' = commands \ {c} /\ UNCHANGED box
        /\ status' = IF c.op = "terminate" THEN "none" ELSE status
        /\ fileCrossed \subseteq fileCrossed'
    BY <1>12 DEF Project!Answered, Project!Server, Project!None, Project!invalidateSandboxQueries
  <2> DEFINE s == IF c.op = "terminate" THEN "none" ELSE status
  <2>2. asking' = IF status = "unknown" /\ asking # "idle" THEN asking ELSE "asked"
    <3>1. Project!invalidateSandboxQueries(s)
      BY <1>12 DEF Project!Answered, Project!None
    <3> QED
      BY <2>1, <3>1 DEF Project!invalidateSandboxQueries
  <2>3. status = "unknown" => c.op = "provision" /\ "status" \in fileCrossed
    BY <2>1 DEF StatusInv
  <2> QED
    BY <2>1, <2>2, <2>3 DEF StatusInv, Seen
<1>13. ASSUME NEW c \in commands, Project!Throws(c) PROVE StatusInv'
  <2>1. /\ commands' = commands \ {c} /\ "status" \in fileCrossed'
        /\ UNCHANGED <<box, status, asking>>
    BY <1>13 DEF Project!Throws, Project!Server, Project!Cached
  <2> QED
    BY <2>1 DEF StatusInv
<1>14. CASE Project!handleProvision \/ Project!handlePull \/ Project!handleSelectBranch \/ Project!handleTerminate
  BY <1>14, CommandSends DEF Project!handleProvision, Project!handlePull, Project!handleSelectBranch,
     Project!handleTerminate, Project!Ops
<1> QED
  BY <1>1, <1>2, <1>3, <1>4, <1>5, <1>6, <1>7, <1>8, <1>9, <1>10, <1>11, <1>12, <1>13, <1>14 DEF Project!Next

\* The status of the sandbox on the page is the backend's, or it is being asked for or polled,
\* whichever commands overlapped with each other and with the fetches of it.
THEOREM StatusIsCurrent == Spec => []StatusFollows
<1>1. Init => StatusInv
  BY StatusAtFirst DEF Init
<1>2. StatusInv /\ [Next]_vars => StatusInv'
  BY StatusStep, PageSteps
<1>3. StatusInv => StatusFollows
  BY DEF StatusInv, Seen, StatusFollows, Project!StatusFollows
<1> QED
  BY <1>1, <1>2, <1>3, PTL DEF Spec

\* A command that moves on to its answer has the cached files told; one that is refused leaves them.
LEMMA AnswersTell ==
    ASSUME FilesInv, NEW c \in commands, NEW at, Project!Answer(c, at), c.at # "done"
    PROVE  /\ \A x \in commands' : "at" \in DOMAIN x
           /\ Told => Told'
           /\ at = "done" => Told'
<1> DEFINE d == [c EXCEPT !.at = at]
<1>1. commands' = (commands \ {c}) \cup {d}
  BY DEF Project!Answer
<1>2. "at" \in DOMAIN c
  BY DEF FilesInv
<1>3. d.at = at /\ "at" \in DOMAIN d
  BY <1>2
<1> HIDE DEF d
<1> QED
  BY <1>1, <1>2, <1>3 DEF FilesInv, Told

\* A change of the selection or of the status asks for the file that is shown now.
LEMMA ShowAsks ==
    ASSUME FilesInv, NEW s, NEW p, Project!Show(s, p),
           UNCHANGED <<rev, content, stale, commands, fileCrossed>>
    PROVE  FilesInv'
<1>1. /\ status' = s /\ file' = p
      /\ reading' = [f \in Files |-> IF Project!Needed(f, s, p) THEN Project!Asked ELSE reading[f]]
  BY DEF Project!Show
<1>2. Told' = Told
  BY DEF Told
<1>3. reading' \in [Files -> Int]
  BY <1>1 DEF FilesInv, Project!Asked
<1>4. ASSUME NEW f \in Files \ fileCrossed PROVE FileInv(f)'
  <2>1. reading'[f] = IF Project!Needed(f, s, p) THEN -2 ELSE reading[f]
    BY <1>1 DEF Project!Asked
  <2>2. FileInv(f) /\ reading[f] \in Int
    BY DEF FilesInv
  <2>3. f \in stale' /\ file' = f /\ status' = "active" => reading'[f] # -1
    BY <1>1, <2>1, <2>2 DEF Project!Needed, Project!Idle
  <2>4. reading'[f] >= 0 => reading'[f] = reading[f]
    BY <2>1
  <2> QED
    BY <1>2, <2>1, <2>2, <2>3, <2>4 DEF FileInv, Project!Idle
<1> QED
  BY <1>3, <1>4 DEF FilesInv

\* The answer of a command invalidates what is cached, and asks again for the file that is shown.
LEMMA AnswerInvalidates ==
    ASSUME FilesInv, NEW c \in commands, Project!Answered(c)
    PROVE  FilesInv'
<1> DEFINE s == IF c.op = "terminate" THEN Project!None ELSE status
           again(f) == s = "active" /\ file = f /\ content[f] # Project!NotLoaded
<1>1. /\ commands' = commands \ {c} /\ status' = s /\ UNCHANGED <<rev, content, file>>
      /\ stale' = {f \in Files : content[f] # Project!NotLoaded}
      /\ reading' = [f \in Files |-> IF again(f) THEN Project!Asked ELSE reading[f]]
      /\ fileCrossed' = fileCrossed \cup {f \in Files : ~again(f) /\ reading[f] >= 0 /\ reading[f] # rev}
  BY DEF Project!Answered, Project!Server, Project!invalidateSandboxQueries
<1>2. reading' \in [Files -> Int]
  BY <1>1 DEF FilesInv, Project!Asked
<1>3. ASSUME NEW f \in Files \ fileCrossed' PROVE FileInv(f)'
  <2>1. reading'[f] = IF again(f) THEN -2 ELSE reading[f]
    BY <1>1 DEF Project!Asked
  <2>2. reading[f] \in Int
    BY DEF FilesInv
  <2>3. reading'[f] >= 0 => reading'[f] = rev
    BY <1>1, <1>3, <2>1, <2>2
  <2>4. content'[f] # Project!NotLoaded => f \in stale'
    BY <1>1
  <2>5. f \in stale' /\ file' = f /\ status' = "active" => reading'[f] = -2
    BY <1>1, <2>1
  <2> QED
    BY <1>1, <2>3, <2>4, <2>5 DEF FileInv, Project!Idle
<1> QED
  BY <1>1, <1>2, <1>3 DEF FilesInv

LEMMA FilesStep ==
    ASSUME FilesInv, [Project!Next]_projectVars
    PROVE  FilesInv'
<1>1. CASE \/ UNCHANGED projectVars
           \/ Project!StatusRead \/ Project!refetchInterval \/ Project!CloneEnds
  <2>1. UNCHANGED <<rev, content, stale, reading, commands, file, fileCrossed, status>>
    BY <1>1 DEF projectVars, Project!StatusRead, Project!refetchInterval, Project!CloneEnds, Project!Server,
                Project!Cached
  <2> QED
    BY <2>1 DEF FilesInv, FileInv, Told
<1>2. CASE Project!StatusFetched
  <2>1. Project!Show(asking, file) /\ UNCHANGED <<rev, content, stale, commands, fileCrossed>>
    BY <1>2 DEF Project!StatusFetched, Project!Server
  <2> QED
    BY <2>1, ShowAsks
<1>3. ASSUME NEW p, Project!Select(p) PROVE FilesInv'
  <2>1. Project!Show(status, p) /\ UNCHANGED <<rev, content, stale, commands, fileCrossed>>
    BY <1>3 DEF Project!Select, Project!Server
  <2> QED
    BY <2>1, ShowAsks
<1>4. ASSUME NEW f \in Files, Project!FileRead(f) PROVE FilesInv'
  <2>1. /\ reading[f] = -2 /\ reading' = [reading EXCEPT ![f] = rev]
        /\ UNCHANGED <<rev, content, stale, commands, file, fileCrossed, status>>
    BY <1>4 DEF Project!FileRead, Project!Server, Project!Asked
  <2>2. reading' \in [Files -> Int] /\ rev \in Nat
    BY <2>1 DEF FilesInv
  <2>3. reading'[f] = rev /\ \A g \in Files : g # f => reading'[g] = reading[g]
    BY <2>1 DEF FilesInv
  <2>4. ASSUME NEW g \in Files \ fileCrossed PROVE FileInv(g)'
    BY <2>1, <2>2, <2>3, <2>4 DEF FilesInv, FileInv, Told, Project!Idle
  <2> QED
    BY <2>1, <2>2, <2>4 DEF FilesInv
<1>5. ASSUME NEW f \in Files, Project!FileFetched(f) PROVE FilesInv'
  <2>1. /\ reading[f] >= 0 /\ content' = [content EXCEPT ![f] = reading[f]] /\ stale' = stale \ {f}
        /\ reading' = [reading EXCEPT ![f] = -1]
        /\ UNCHANGED <<rev, commands, file, fileCrossed, status>>
    BY <1>5 DEF Project!FileFetched, Project!Server, Project!Idle
  <2>2. reading' \in [Files -> Int] /\ content' \in [Files -> Int]
    BY <2>1 DEF FilesInv
  <2>3. reading'[f] = -1 /\ content'[f] = reading[f]
    BY <2>1 DEF FilesInv
  <2>4. \A g \in Files : g # f => reading'[g] = reading[g] /\ content'[g] = content[g]
    BY <2>1 DEF FilesInv
  <2>5. ASSUME NEW g \in Files \ fileCrossed PROVE FileInv(g)'
    <3>1. CASE g = f
      BY <2>1, <2>3, <2>5, <3>1 DEF FilesInv, FileInv, Told
    <3>2. CASE g # f
      BY <2>1, <2>4, <2>5, <3>2 DEF FilesInv, FileInv, Told
    <3> QED
      BY <3>1, <3>2
  <2> QED
    BY <2>1, <2>2, <2>5 DEF FilesInv
<1>6. ASSUME NEW f \in Files, Project!FileRefused(f) PROVE FilesInv'
  <2>1. /\ reading' = [reading EXCEPT ![f] = -1] /\ fileCrossed' = fileCrossed \cup {f}
        /\ UNCHANGED <<rev, content, stale, commands, file, status>>
    BY <1>6 DEF Project!FileRefused, Project!Server, Project!Idle
  <2>2. reading' \in [Files -> Int]
    BY <2>1 DEF FilesInv
  <2>3. ASSUME NEW g \in Files \ fileCrossed' PROVE FileInv(g)'
    <3>1. g # f /\ reading'[g] = reading[g]
      BY <2>1, <2>3 DEF FilesInv
    <3> QED
      BY <2>1, <2>3, <3>1 DEF FilesInv, FileInv, Told
  <2> QED
    BY <2>1, <2>2, <2>3 DEF FilesInv
<1>7. ASSUME NEW c \in commands,
             Project!Refuse(c) \/ Project!Provide(c) \/ Project!BeginTerminate(c) \/ Project!EndTerminate(c)
      PROVE  FilesInv'
  <2>1. PICK at : Project!Answer(c, at)
    BY <1>7 DEF Project!Refuse, Project!Provide, Project!BeginTerminate, Project!EndTerminate
  <2>2. c.at # "done" /\ fileCrossed \subseteq fileCrossed'
    BY <1>7 DEF Project!Refuse, Project!Provide, Project!BeginTerminate, Project!EndTerminate
  <2>3. UNCHANGED <<rev, content, stale, reading, file, status>>
    BY <1>7 DEF Project!Refuse, Project!Provide, Project!BeginTerminate, Project!EndTerminate, Project!Server,
                Project!Cached
  <2>4. (\A x \in commands' : "at" \in DOMAIN x) /\ (Told => Told')
    BY <2>1, <2>2, AnswersTell
  <2> QED
    BY <2>2, <2>3, <2>4 DEF FilesInv, FileInv
<1>8. ASSUME NEW c \in commands, Project!Change(c) PROVE FilesInv'
  <2>1. /\ Project!Answer(c, "done") /\ c.at # "done" /\ rev' = rev + 1
        /\ UNCHANGED <<content, stale, reading, file, status, fileCrossed>>
    BY <1>8 DEF Project!Change, Project!Cached
  <2>2. (\A x \in commands' : "at" \in DOMAIN x) /\ Told'
    BY <2>1, AnswersTell
  <2> QED
    BY <2>1, <2>2 DEF FilesInv, FileInv
<1>9. ASSUME NEW c \in commands, Project!Answered(c) PROVE FilesInv'
  BY <1>9, AnswerInvalidates
<1>10. ASSUME NEW c \in commands, Project!Throws(c) PROVE FilesInv'
  <2>1. /\ commands' = commands \ {c} /\ fileCrossed \subseteq fileCrossed'
        /\ c.at = "done" => Files \subseteq fileCrossed'
        /\ UNCHANGED <<rev, content, stale, reading, file, status>>
    BY <1>10 DEF Project!Throws, Project!Server, Project!Cached
  <2>2. c.at # "done" => Told' = Told
    BY <2>1 DEF Told
  <2> QED
    BY <2>1, <2>2 DEF FilesInv, FileInv
<1>11. CASE Project!handleProvision \/ Project!handlePull \/ Project!handleSelectBranch \/ Project!handleTerminate
  <2>1. PICK op : Project!Send(op)
    BY <1>11 DEF Project!handleProvision, Project!handlePull, Project!handleSelectBranch, Project!handleTerminate
  <2>2. /\ commands' = commands \cup {[op |-> op, at |-> "sent"]}
        /\ UNCHANGED <<rev, content, stale, reading, file, status, fileCrossed>>
    BY <2>1 DEF Project!Send, Project!Server, Project!Cached
  <2>3. Told' = Told
    BY <2>2 DEF Told
  <2> QED
    BY <2>2, <2>3 DEF FilesInv, FileInv
<1> QED
  BY <1>1, <1>2, <1>3, <1>4, <1>5, <1>6, <1>7, <1>8, <1>9, <1>10, <1>11
  DEF Project!Next, Project!handleSelectFile, Project!handleSelectFolder

\* A file that is shown from the sandbox is at the revision of the sandbox, whichever commands
\* overlapped with each other and with the fetches of files.
THEOREM FilesAreCurrent == Spec => []FileIsCurrent
<1>1. Init => FilesInv
  BY FilesAtFirst DEF Init
<1>2. FilesInv /\ [Next]_vars => FilesInv'
  BY FilesStep, PageSteps
<1>3. FilesInv => FileIsCurrent
  BY DEF FilesInv, FileInv, Told, FileIsCurrent, Project!FileIsCurrent, Project!ViewerShows,
         Project!isSandboxActive
<1> QED
  BY <1>1, <1>2, <1>3, PTL DEF Spec

-----------------------------------------------------------------------------
(* The views of tasks.                                                     *)

Patches == {"done", "due", "pri", "setup"}
Changes == [t: Ids, field: Patches \cup {"create", "delete"}, val: {0, 1}, from: Task!Keys, n: Nat,
            got: {"none", "ok", "failed"}, meta: Task!Metas]
Loads == {Task!Idle, Task!Asked} \cup [at: {"read"}, db: [Ids -> Task!Metas]]

TaskType ==
    /\ db \in [Ids -> Task!Metas] /\ linked \subseteq Ids /\ view \in Task!Keys /\ changed \in Nat
    /\ tasks \in [Task!Keys -> [Ids -> Task!Metas] \cup {Task!NotLoaded}]
    /\ taskFetch \in [Task!Keys -> Loads]
    /\ changes \subseteq Changes

\* A task that had never two requests at once has one, whose answer has what is stored.
AloneInv ==
    /\ \A c, d \in changes : c.t = d.t /\ c.t \notin twice => c = d
    /\ \A c \in changes : c.got = "ok" /\ c.field \in Patches /\ c.t \notin twice =>
         c.meta = db[c.t] /\ db[c.t].pri # "none"

\* The tasks whose change the views may not have.
Changing == twice \cup {c.t : c \in {d \in changes : d.got = "ok"}}

\* What a query has, or is about to have, unless it will ask again.
KeyInv(k) ==
    k \notin missed =>
      /\ taskFetch[k].at = "read" => \A t \in Ids \ Changing : taskFetch[k].db[t] = db[t]
      /\ taskFetch[k] = Task!Idle /\ k \notin staleTasks /\ tasks[k] # Task!NotLoaded =>
           \A t \in Ids \ Changing : tasks[k][t] = db[t]

\* The open view has its tasks, or asks for them.
OpenInv == taskFetch[view] = Task!Idle => view \notin staleTasks /\ (Ids # {} => tasks[view] # Task!NotLoaded)

ViewInv == TaskType /\ AloneInv /\ OpenInv /\ \A k \in Task!Keys : KeyInv(k)

LEMMA TaskValues ==
    /\ Task!Absent \in Task!Metas /\ Task!New \in Task!Metas
    /\ Task!Idle.at = "idle" /\ Task!Asked.at = "asked"
    /\ \A f \in [Ids -> Task!Metas] : Ids # {} => f # Task!NotLoaded
<1>1. /\ Task!Absent \in Task!Metas /\ Task!New \in Task!Metas
      /\ Task!Idle.at = "idle" /\ Task!Asked.at = "asked"
  BY DEF Task!Absent, Task!New, Task!Metas, Task!Idle, Task!Asked
<1>2. ASSUME NEW f \in [Ids -> Task!Metas], NEW t \in Ids PROVE f # Task!NotLoaded
  <2>1. Task!NotLoaded[t].pri = "not loaded"
    BY DEF Task!NotLoaded, Task!Absent
  <2>2. f[t].pri # "not loaded"
    BY DEF Task!Metas
  <2> QED
    BY <2>1, <2>2
<1> QED
  BY <1>1, <1>2

LEMMA ViewAtFirst == ASSUME Task!Init PROVE ViewInv
<1>1. TaskType
  <2>1. db \in [Ids -> Task!Metas]
    BY TaskValues DEF Task!Init
  <2>2. tasks = [k \in Task!Keys |-> Task!NotLoaded]
        /\ taskFetch = [k \in Task!Keys |-> IF k = "cluster" THEN Task!Asked ELSE Task!Idle]
        /\ changes = {} /\ changed = 0 /\ view = "cluster" /\ linked = First
    BY DEF Task!Init
  <2>3. tasks \in [Task!Keys -> [Ids -> Task!Metas] \cup {Task!NotLoaded}]
    BY <2>2
  <2>4. taskFetch \in [Task!Keys -> Loads]
    BY <2>2 DEF Loads
  <2> QED
    BY <2>1, <2>2, <2>3, <2>4, TasksAssumption DEF TaskType, Task!Keys
<1>2. AloneInv /\ OpenInv
  BY DEF Task!Init, AloneInv, OpenInv, Task!Keys, Task!Asked, Task!Idle
<1>3. ASSUME NEW k \in Task!Keys PROVE KeyInv(k)
  <2>1. tasks[k] = Task!NotLoaded /\ taskFetch[k] \in {Task!Asked, Task!Idle}
    BY DEF Task!Init
  <2> QED
    BY <2>1, TaskValues DEF KeyInv
<1> QED
  BY <1>1, <1>2, <1>3 DEF ViewInv

\* The views and their queries are as they were, and so is every task that is not being changed.
LEMMA KeysKept ==
    ASSUME ViewInv, UNCHANGED <<view, tasks, staleTasks, taskFetch>>, missed \subseteq missed',
           Changing \subseteq Changing', \A t \in Ids \ Changing' : db'[t] = db[t]
    PROVE  OpenInv' /\ \A k \in Task!Keys : KeyInv(k)'
<1>1. OpenInv'
  BY DEF ViewInv, OpenInv
<1>2. ASSUME NEW k \in Task!Keys PROVE KeyInv(k)'
  BY DEF ViewInv, KeyInv
<1> QED
  BY <1>1, <1>2

\* What a view shows of the tasks, and its request.
LEMMA TaskSends ==
    ASSUME ViewInv, NEW t \in Ids, NEW field \in Patches \cup {"create", "delete"}, NEW val \in {0, 1},
           Task!Send(t, field, val)
    PROVE  ViewInv'
<1> DEFINE new == [t |-> t, field |-> field, val |-> val, from |-> view, n |-> changed, got |-> "none", meta |-> Task!Absent]
<1>1. /\ changes' = changes \cup {new} /\ changed' = changed + 1
      /\ twice' = IF \E c \in changes : c.t = t THEN twice \cup {t} ELSE twice
      /\ UNCHANGED <<db, linked, view, tasks, staleTasks, taskFetch, missed>>
  BY DEF Task!Send, Task!Backend, Task!Cache
<1>2. new \in Changes /\ new.t = t /\ new.got = "none"
  BY TaskValues DEF ViewInv, TaskType, Changes
<1> HIDE DEF new
<1>3. TaskType'
  BY <1>1, <1>2 DEF ViewInv, TaskType
<1>4. AloneInv'
  <2>1. twice \subseteq twice' /\ \A c \in changes : c.t = t => t \in twice'
    BY <1>1
  <2>2. ASSUME NEW c \in changes', NEW d \in changes', c.t = d.t, c.t \notin twice' PROVE c = d
    BY <1>1, <1>2, <2>1, <2>2 DEF ViewInv, AloneInv
  <2>3. ASSUME NEW c \in changes', c.got = "ok", c.field \in Patches, c.t \notin twice'
        PROVE  c.meta = db[c.t] /\ db[c.t].pri # "none"
    BY <1>1, <1>2, <2>1, <2>3 DEF ViewInv, AloneInv
  <2> QED
    BY <1>1, <2>2, <2>3 DEF AloneInv
<1>5. Changing \subseteq Changing'
  BY <1>1 DEF Changing
<1> QED
  BY <1>1, <1>3, <1>4, <1>5, KeysKept DEF ViewInv

LEMMA ViewOpens == ASSUME ViewInv, NEW v \in Task!Keys, Task!OpenView(v) PROVE ViewInv'
<1> DEFINE asks(k) == k = v /\ taskFetch[k] = Task!Idle /\ (tasks[k] = Task!NotLoaded \/ k \in staleTasks)
<1>1. /\ view' = v
      /\ taskFetch' = [k \in Task!Keys |-> IF k = "panel" THEN IF v = k THEN Task!Asked ELSE Task!Idle
                                           ELSE IF asks(k) THEN Task!Asked ELSE taskFetch[k]]
      /\ tasks' = [tasks EXCEPT !["panel"] = Task!NotLoaded]
      /\ missed' = IF v = "panel" THEN missed \ {v} ELSE missed
      /\ UNCHANGED <<db, linked, staleTasks, changes, changed, twice>>
  BY DEF Task!OpenView, Task!Backend
<1>2. "panel" \in Task!Keys /\ tasks'["panel"] = Task!NotLoaded
      /\ \A k \in Task!Keys \ {"panel"} : tasks'[k] = tasks[k]
  BY <1>1 DEF ViewInv, TaskType, Task!Keys
<1>3. TaskType'
  <2>1. tasks' \in [Task!Keys -> [Ids -> Task!Metas] \cup {Task!NotLoaded}]
    BY <1>1 DEF ViewInv, TaskType
  <2>2. taskFetch' \in [Task!Keys -> Loads]
    BY <1>1 DEF ViewInv, TaskType, Loads
  <2> QED
    BY <1>1, <2>1, <2>2 DEF ViewInv, TaskType
<1>4. AloneInv' /\ Changing' = Changing
  BY <1>1 DEF ViewInv, AloneInv, Changing
<1>5. OpenInv'
  BY <1>1, <1>2, TaskValues DEF OpenInv
<1>6. ASSUME NEW k \in Task!Keys PROVE KeyInv(k)'
  <2>1. CASE k = "panel"
    BY <1>1, <1>2, <2>1, TaskValues DEF KeyInv
  <2>2. CASE k # "panel" /\ asks(k)
    BY <1>1, <2>2, TaskValues DEF KeyInv
  <2>3. CASE k # "panel" /\ ~asks(k)
    <3>1. taskFetch'[k] = taskFetch[k] /\ tasks'[k] = tasks[k] /\ (k \notin missed' => k \notin missed)
      BY <1>1, <1>2, <2>3
    <3> QED
      BY <1>1, <1>4, <3>1 DEF ViewInv, KeyInv
  <2> QED
    BY <2>1, <2>2, <2>3
<1> QED
  BY <1>3, <1>4, <1>5, <1>6 DEF ViewInv

LEMMA ViewReads == ASSUME ViewInv, NEW k \in Task!Keys, Task!Read(k) PROVE ViewInv'
<1>1. /\ taskFetch[k] = Task!Asked
      /\ db' = IF k \in Ids /\ db[k].pri = "none" THEN [db EXCEPT ![k].pri = "normal"] ELSE db
      /\ missed' = IF db' = db THEN missed ELSE missed \cup (Task!Keys \ {k})
      /\ taskFetch' = [taskFetch EXCEPT ![k] = [at |-> "read", db |-> db']]
      /\ UNCHANGED <<linked, view, tasks, staleTasks, changes, changed, twice>>
  BY DEF Task!Read
<1>2. db' \in [Ids -> Task!Metas] /\ \A t \in Ids : db[t].pri # "none" => db'[t] = db[t]
  BY <1>1 DEF ViewInv, TaskType, Task!Metas
<1>3. taskFetch' \in [Task!Keys -> Loads]
  BY <1>1, <1>2 DEF ViewInv, TaskType, Loads
<1>4. taskFetch'[k].at = "read" /\ taskFetch'[k].db = db' /\ taskFetch'[k] # Task!Idle
      /\ \A j \in Task!Keys \ {k} : taskFetch'[j] = taskFetch[j]
  BY <1>1, TaskValues DEF ViewInv, TaskType, Task!Idle
<1>5. TaskType'
  BY <1>1, <1>2, <1>3 DEF ViewInv, TaskType
<1>6. AloneInv' /\ Changing' = Changing
  <2>1. ASSUME NEW c \in changes, c.got = "ok", c.field \in Patches, c.t \notin twice
        PROVE  c.meta = db'[c.t] /\ db'[c.t].pri # "none"
    <3>1. c.t \in Ids /\ c.meta = db[c.t] /\ db[c.t].pri # "none"
      BY <2>1 DEF ViewInv, AloneInv, TaskType, Changes
    <3> QED
      BY <1>2, <3>1
  <2> QED
    BY <1>1, <2>1 DEF ViewInv, AloneInv, Changing
<1>7. OpenInv'
  BY <1>1, <1>4 DEF ViewInv, TaskType, OpenInv
<1>8. KeyInv(k)'
  BY <1>4 DEF KeyInv
<1>9. ASSUME NEW j \in Task!Keys \ {k} PROVE KeyInv(j)'
  <2>1. CASE db' = db
    BY <1>1, <1>4, <1>6, <2>1 DEF ViewInv, KeyInv
  <2>2. CASE db' # db
    BY <1>1, <2>2 DEF KeyInv
  <2> QED
    BY <2>1, <2>2
<1> QED
  BY <1>5, <1>6, <1>7, <1>8, <1>9 DEF ViewInv

LEMMA ViewFetched == ASSUME ViewInv, NEW k \in Task!Keys, Task!Fetched(k) PROVE ViewInv'
<1>1. /\ taskFetch[k].at = "read"
      /\ taskFetch' = [taskFetch EXCEPT ![k] = Task!Idle]
      /\ tasks' = [tasks EXCEPT ![k] = taskFetch[k].db]
      /\ staleTasks' = staleTasks \ {k}
      /\ UNCHANGED <<db, linked, view, changes, changed, twice, missed>>
  BY DEF Task!Fetched, Task!Backend
<1>2. taskFetch[k].db \in [Ids -> Task!Metas]
  BY <1>1, TaskValues DEF ViewInv, TaskType, Loads
<1>3. TaskType'
  BY <1>1, <1>2 DEF ViewInv, TaskType, Loads
<1>4. AloneInv' /\ Changing' = Changing
  BY <1>1 DEF ViewInv, AloneInv, Changing
<1>5. /\ taskFetch'[k] = Task!Idle /\ tasks'[k] = taskFetch[k].db
      /\ \A j \in Task!Keys \ {k} : taskFetch'[j] = taskFetch[j] /\ tasks'[j] = tasks[j]
  BY <1>1 DEF ViewInv, TaskType
<1>6. OpenInv'
  <2>1. CASE view = k
    BY <1>1, <1>2, <1>5, <2>1, TaskValues DEF OpenInv
  <2>2. CASE view # k
    BY <1>1, <1>5, <2>2 DEF ViewInv, TaskType, OpenInv
  <2> QED
    BY <2>1, <2>2
<1>7. KeyInv(k)'
  BY <1>1, <1>4, <1>5, TaskValues DEF ViewInv, KeyInv
<1>8. ASSUME NEW j \in Task!Keys \ {k} PROVE KeyInv(j)'
  BY <1>1, <1>4, <1>5 DEF ViewInv, KeyInv
<1> QED
  BY <1>3, <1>4, <1>6, <1>7, <1>8 DEF ViewInv

\* What a patch makes of a task's metadata.
LEMMA PatchedIs ==
    ASSUME NEW m \in Task!Metas, NEW c \in Changes
    PROVE  Task!Patched(m, c) \in Task!Metas /\ Task!Patched(m, c).pri # "none"
<1> DEFINE made == IF m.pri = "none" THEN [m EXCEPT !.pri = "normal"] ELSE m
<1>1. made \in Task!Metas /\ made.pri # "none"
  BY DEF Task!Metas
<1>2. Task!Patched(m, c) =
        CASE c.field = "done" -> [made EXCEPT !.done = (c.val = 1)]
          [] c.field = "due" /\ c.val # 0 -> [made EXCEPT !.due = c.val]
          [] c.field = "pri" -> [made EXCEPT !.pri = IF c.val = 1 THEN "critical" ELSE "normal"]
          [] OTHER -> made
  BY DEF Task!Patched
<1> HIDE DEF made
<1>3. c.val \in {0, 1}
  BY DEF Changes
<1>4. CASE c.field = "done"
  <2>1. Task!Patched(m, c) = [made EXCEPT !.done = (c.val = 1)]
    BY <1>2, <1>4
  <2>2. (c.val = 1) \in BOOLEAN
    OBVIOUS
  <2> QED
    BY <1>1, <2>1, <2>2 DEF Task!Metas
<1>5. CASE c.field = "due" /\ c.val # 0
  <2>1. Task!Patched(m, c) = [made EXCEPT !.due = c.val]
    BY <1>2, <1>5
  <2> QED
    BY <1>1, <1>3, <2>1 DEF Task!Metas
<1>6. CASE c.field = "pri"
  <2>1. Task!Patched(m, c) = [made EXCEPT !.pri = IF c.val = 1 THEN "critical" ELSE "normal"]
    BY <1>2, <1>6
  <2> QED
    BY <1>1, <2>1 DEF Task!Metas
<1>7. CASE c.field \notin {"done", "pri"} /\ ~(c.field = "due" /\ c.val # 0)
  BY <1>1, <1>2, <1>7
<1> QED
  BY <1>4, <1>5, <1>6, <1>7

\* A request goes on as another, about the same task.
LEMMA ChangeBecomes ==
    ASSUME ViewInv, NEW c \in changes, NEW d \in Changes, d.t = c.t, changes' = (changes \ {c}) \cup {d}, twice' = twice,
           \A t \in Ids : t # c.t => db'[t] = db[t],
           d.got = "ok" /\ d.field \in Patches => d.meta = db'[d.t] /\ db'[d.t].pri # "none"
    PROVE  /\ AloneInv' /\ changes' \subseteq Changes
           /\ c.got # "ok" => Changing \subseteq Changing'
           /\ Changing \ {c.t} \subseteq Changing'
           /\ d.got = "ok" => c.t \in Changing'
<1>1. changes \subseteq Changes
  BY DEF ViewInv, TaskType
<1>2. ASSUME NEW e \in changes', NEW f \in changes', e.t = f.t, e.t \notin twice PROVE e = f
  BY <1>2 DEF ViewInv, AloneInv
<1>3. ASSUME NEW e \in changes', e.got = "ok", e.field \in Patches, e.t \notin twice
      PROVE  e.meta = db'[e.t] /\ db'[e.t].pri # "none"
  <2>1. CASE e = d
    BY <1>3, <2>1
  <2>2. CASE e # d
    <3>1. e \in changes /\ e.t # c.t /\ e.t \in Ids
      BY <1>1, <1>3, <2>2 DEF ViewInv, AloneInv, Changes
    <3> QED
      BY <1>3, <3>1 DEF ViewInv, AloneInv
  <2> QED
    BY <2>1, <2>2
<1>4. Changing \ {c.t} \subseteq Changing' /\ (c.got # "ok" => Changing \subseteq Changing') /\ (d.got = "ok" => c.t \in Changing')
  BY DEF Changing
<1> QED
  BY <1>1, <1>2, <1>3, <1>4 DEF AloneInv

LEMMA ChangeFields ==
    ASSUME NEW c \in Changes, NEW m \in Task!Metas
    PROVE  LET ok   == [c EXCEPT !.got = "ok", !.meta = m]
               fine == [c EXCEPT !.got = "ok"]
               no   == [c EXCEPT !.got = "failed"]
               next == [c EXCEPT !.field = "setup", !.got = "none"] IN
           /\ ok \in Changes /\ ok.t = c.t /\ ok.got = "ok" /\ ok.meta = m /\ ok.field = c.field
           /\ fine \in Changes /\ fine.t = c.t /\ fine.got = "ok" /\ fine.field = c.field
           /\ no \in Changes /\ no.t = c.t /\ no.got = "failed"
           /\ next \in Changes /\ next.t = c.t /\ next.got = "none"
<1>1. LET ok == [c EXCEPT !.got = "ok", !.meta = m] IN
      ok \in Changes /\ ok.t = c.t /\ ok.got = "ok" /\ ok.meta = m /\ ok.field = c.field
  BY DEF Changes
<1>2. LET fine == [c EXCEPT !.got = "ok"] IN fine \in Changes /\ fine.t = c.t /\ fine.got = "ok" /\ fine.field = c.field
  BY DEF Changes
<1>3. LET no == [c EXCEPT !.got = "failed"] IN no \in Changes /\ no.t = c.t /\ no.got = "failed"
  BY DEF Changes
<1>4. LET next == [c EXCEPT !.field = "setup", !.got = "none"] IN next \in Changes /\ next.t = c.t /\ next.got = "none"
  BY DEF Changes, Patches
<1> QED
  BY <1>1, <1>2, <1>3, <1>4

LEMMA ViewUpdates == ASSUME ViewInv, NEW c \in changes, Task!Update(c) PROVE ViewInv'
<1>1. c \in Changes /\ c.t \in Ids /\ db[c.t] \in Task!Metas /\ c.got = "none"
      /\ UNCHANGED <<linked, view, tasks, staleTasks, taskFetch, changed, twice, missed>>
  BY DEF ViewInv, TaskType, Changes, Task!Update, Task!Cache
<1>2. PICK m : m = Task!Patched(db[c.t], c)
  OBVIOUS
<1>3. m \in Task!Metas /\ m.pri # "none"
  BY <1>1, <1>2, PatchedIs
<1>4. CASE changes' = (changes \ {c}) \cup {[c EXCEPT !.got = "ok", !.meta = m]} /\ db' = [db EXCEPT ![c.t] = m]
  <2>1. PICK d : d = [c EXCEPT !.got = "ok", !.meta = m]
    OBVIOUS
  <2>2. d \in Changes /\ d.t = c.t /\ d.got = "ok" /\ d.meta = m
    BY <1>1, <1>3, <2>1, ChangeFields
  <2>3. db' \in [Ids -> Task!Metas] /\ db'[c.t] = m /\ \A t \in Ids : t # c.t => db'[t] = db[t]
    BY <1>1, <1>3, <1>4 DEF ViewInv, TaskType
  <2>4. /\ AloneInv' /\ changes' \subseteq Changes /\ Changing \subseteq Changing' /\ c.t \in Changing'
    BY <1>1, <1>3, <1>4, <2>1, <2>2, <2>3, ChangeBecomes
  <2>5. TaskType'
    BY <1>1, <2>3, <2>4 DEF ViewInv, TaskType
  <2> QED
    BY <1>1, <2>3, <2>4, <2>5, KeysKept DEF ViewInv
<1>5. CASE changes' = (changes \ {c}) \cup {[c EXCEPT !.got = "failed"]} /\ db' = db
  <2>1. PICK d : d = [c EXCEPT !.got = "failed"]
    OBVIOUS
  <2>2. d \in Changes /\ d.t = c.t /\ d.got = "failed"
    BY <1>1, <1>3, <2>1, ChangeFields
  <2>3. AloneInv' /\ changes' \subseteq Changes /\ Changing \subseteq Changing'
    BY <1>1, <1>5, <2>1, <2>2, ChangeBecomes
  <2>4. TaskType'
    BY <1>1, <1>5, <2>3 DEF ViewInv, TaskType
  <2> QED
    BY <1>1, <1>5, <2>3, <2>4, KeysKept DEF ViewInv
<1> QED
  BY <1>2, <1>4, <1>5 DEF Task!Update

LEMMA ViewCreatesOrDeletes == ASSUME ViewInv, NEW c \in changes, Task!CreateOrDelete(c) PROVE ViewInv'
<1>1. /\ c \in Changes /\ c.t \in Ids /\ db[c.t] \in Task!Metas /\ c.got = "none" /\ c.field \notin Patches
      /\ UNCHANGED <<view, tasks, staleTasks, taskFetch, changed, twice, missed>>
      /\ linked' \in {linked, linked \cup {c.t}}
      /\ changes' = (changes \ {c}) \cup {[c EXCEPT !.got = "ok"]}
  BY DEF ViewInv, TaskType, Changes, Patches, Task!CreateOrDelete, Task!Cache
<1>2. PICK m \in Task!Metas : db' = [db EXCEPT ![c.t] = m]
  <2>1. [db[c.t] EXCEPT !.there = FALSE] \in Task!Metas /\ [Task!New EXCEPT !.pri = "none"] \in Task!Metas
    BY <1>1 DEF Task!Metas, Task!New
  <2>2. db' = [db EXCEPT ![c.t] = IF c.field = "delete" THEN [db[c.t] EXCEPT !.there = FALSE]
                                  ELSE IF c.from = "panel" THEN Task!New ELSE [Task!New EXCEPT !.pri = "none"]]
    BY <1>1 DEF Task!CreateOrDelete
  <2> QED
    BY <2>1, <2>2, TaskValues
<1>3. PICK d : d = [c EXCEPT !.got = "ok"]
  OBVIOUS
<1>4. d \in Changes /\ d.t = c.t /\ d.got = "ok" /\ d.field = c.field
  BY <1>1, <1>3, ChangeFields, TaskValues
<1>5. db' \in [Ids -> Task!Metas] /\ \A t \in Ids : t # c.t => db'[t] = db[t]
  BY <1>1, <1>2 DEF ViewInv, TaskType
<1>6. AloneInv' /\ changes' \subseteq Changes /\ Changing \subseteq Changing' /\ c.t \in Changing'
  BY <1>1, <1>3, <1>4, <1>5, ChangeBecomes
<1>7. TaskType'
  BY <1>1, <1>5, <1>6 DEF ViewInv, TaskType
<1> QED
  BY <1>1, <1>5, <1>6, <1>7, KeysKept DEF ViewInv

LEMMA ViewFails == ASSUME ViewInv, NEW c \in changes, Task!Failed(c) PROVE ViewInv'
<1>1. /\ c.got = "failed" /\ changes' = changes \ {c}
      /\ UNCHANGED <<db, linked, view, tasks, staleTasks, taskFetch, changed, twice, missed>>
  BY DEF Task!Failed, Task!Cache, Task!Backend
<1>2. TaskType' /\ AloneInv' /\ Changing \subseteq Changing'
  BY <1>1 DEF ViewInv, TaskType, AloneInv, Changing
<1> QED
  BY <1>1, <1>2, KeysKept DEF ViewInv

\* The queries that are told of a change will ask again; the others are marked as missed.
LEMMA TellsKeys ==
    ASSUME ViewInv, NEW set, Task!invalidateQueries(set), view' = view,
           NEW k \in Task!Keys, k \notin Task!Untold(set)
    PROVE  taskFetch'[k].at # "read" /\ ~(taskFetch'[k] = Task!Idle /\ k \notin staleTasks')
<1>1. k \in set /\ (taskFetch[k] = Task!Idle \/ (k = view /\ tasks[k] # Task!NotLoaded))
  BY DEF Task!Untold
<1>2. CASE k = view
  <2>1. taskFetch' = [taskFetch EXCEPT ![view] = Task!Asked]
    BY <1>1, <1>2 DEF Task!invalidateQueries
  <2>2. taskFetch'[k] = Task!Asked
    BY <1>2, <2>1 DEF ViewInv, TaskType
  <2> QED
    BY <2>2, TaskValues
<1>3. CASE k # view
  <2>1. taskFetch'[k] = taskFetch[k] /\ k \in staleTasks'
    BY <1>1, <1>3 DEF Task!invalidateQueries, ViewInv, TaskType
  <2> QED
    BY <1>1, <1>3, <2>1, TaskValues
<1> QED
  BY <1>2, <1>3

LEMMA TellsView ==
    ASSUME ViewInv, NEW set, Task!invalidateQueries(set), view' = view
    PROVE  /\ taskFetch' \in [Task!Keys -> Loads]
           /\ taskFetch'[view] = Task!Idle => taskFetch[view] = Task!Idle /\ view \notin staleTasks'
           /\ \A k \in Task!Keys : k \notin set => taskFetch'[k] = taskFetch[k] /\ (k \in staleTasks => k \in staleTasks')
<1>1. view \in Task!Keys /\ taskFetch'[view] \in {taskFetch[view], Task!Asked}
  BY DEF ViewInv, TaskType, Task!invalidateQueries
<1>2. taskFetch' \in [Task!Keys -> Loads]
  BY DEF ViewInv, TaskType, Task!invalidateQueries, Loads
<1>3. taskFetch'[view] = Task!Idle => taskFetch[view] = Task!Idle
  BY <1>1, TaskValues
<1>4. taskFetch[view] = Task!Idle => view \notin staleTasks'
  BY DEF ViewInv, OpenInv, Task!invalidateQueries
<1>5. ASSUME NEW k \in Task!Keys, k \notin set PROVE taskFetch'[k] = taskFetch[k] /\ (k \in staleTasks => k \in staleTasks')
  BY <1>5 DEF ViewInv, TaskType, Task!invalidateQueries
<1> QED
  BY <1>2, <1>3, <1>4, <1>5

LEMMA ViewCreated == ASSUME ViewInv, NEW c \in changes, Task!Created(c) PROVE ViewInv'
<1>1. PICK set : /\ Task!invalidateQueries(set) /\ missed' = missed \cup Task!Untold(set)
                 /\ c \in Changes /\ c.got = "ok" /\ UNCHANGED <<db, linked, view, tasks, changed, twice>>
                 /\ changes' = IF c.from = "panel" THEN changes \ {c}
                               ELSE (changes \ {c}) \cup {[c EXCEPT !.field = "setup", !.got = "none"]}
  BY DEF Task!Created, ViewInv, TaskType, Task!Backend
<1>2. AloneInv' /\ changes' \subseteq Changes
  <2>1. CASE changes' = changes \ {c}
    BY <1>1, <2>1 DEF ViewInv, TaskType, AloneInv
  <2>2. CASE changes' = (changes \ {c}) \cup {[c EXCEPT !.field = "setup", !.got = "none"]}
    <3>1. PICK d : d = [c EXCEPT !.field = "setup", !.got = "none"]
      OBVIOUS
    <3>2. d \in Changes /\ d.t = c.t /\ d.got = "none"
      BY <1>1, <3>1, ChangeFields, TaskValues
    <3> QED
      BY <1>1, <2>2, <3>1, <3>2, ChangeBecomes
  <2> QED
    BY <1>1, <2>1, <2>2
<1>3. TaskType' /\ OpenInv'
  BY <1>1, <1>2, TellsView DEF ViewInv, TaskType, OpenInv
<1>4. ASSUME NEW k \in Task!Keys PROVE KeyInv(k)'
  BY <1>1, TellsKeys DEF KeyInv
<1> QED
  BY <1>2, <1>3, <1>4 DEF ViewInv

\* The query that holds the answer is none of those that are told to ask again.
LEMMA HolderIsNotTold ==
    ASSUME NEW c \in Changes, NEW k \in Task!Holder(c)
    PROVE  k \notin Task!Told(c) /\ c.field # "delete"
<1>1. c.field # "delete" /\ (IF c.from = "panel" THEN k = "panel" ELSE k = c.from /\ k = c.t)
  BY DEF Task!Holder
<1>2. CASE c.from = "panel"
  <2>1. Task!Told(c) = {}
    BY <1>2 DEF Task!Told
  <2> QED
    BY <1>1, <2>1
<1>3. CASE c.from # "panel"
  <2>1. k \in Ids /\ k \notin {"cluster", "all", "panel"} /\ c.from = k
    BY <1>1, <1>3, TasksAssumption DEF Changes
  <2>2. Task!Told(c) = {"cluster"}
    BY <2>1 DEF Task!Told
  <2> QED
    BY <1>1, <2>1, <2>2
<1> QED
  BY <1>2, <1>3

LEMMA ViewAnswered == ASSUME ViewInv, NEW c \in changes, Task!Answered(c) PROVE ViewInv'
<1>1. /\ c \in Changes /\ c.t \in Ids /\ c.meta \in Task!Metas /\ c.got = "ok" /\ c.field # "create"
      /\ changes' = changes \ {c} /\ Task!invalidateQueries(Task!Told(c))
      /\ tasks' = [k \in Task!Keys |-> IF k \in Task!Holder(c) /\ tasks[k] # Task!NotLoaded
                                       THEN [tasks[k] EXCEPT ![c.t] = c.meta] ELSE tasks[k]]
      /\ missed' = missed \cup (Task!Untold(Task!Told(c)) \ {k \in Task!Holder(c) : taskFetch[k] = Task!Idle})
      /\ UNCHANGED <<db, linked, view, changed, twice>>
  BY DEF Task!Answered, ViewInv, TaskType, Changes, Task!Backend
<1>2. ASSUME NEW k \in Task!Keys
      PROVE  /\ tasks'[k] \in [Ids -> Task!Metas] \cup {Task!NotLoaded}
             /\ (Ids # {} /\ tasks[k] # Task!NotLoaded) => tasks'[k] # Task!NotLoaded
             /\ tasks[k] = Task!NotLoaded => tasks'[k] = Task!NotLoaded
  <2>1. tasks[k] \in [Ids -> Task!Metas] \cup {Task!NotLoaded}
    BY DEF ViewInv, TaskType
  <2>2. CASE k \in Task!Holder(c) /\ tasks[k] # Task!NotLoaded
    <3>1. tasks'[k] \in [Ids -> Task!Metas]
      BY <1>1, <2>1, <2>2
    <3> QED
      BY <2>2, <3>1, TaskValues
  <2>3. CASE ~(k \in Task!Holder(c) /\ tasks[k] # Task!NotLoaded)
    BY <1>1, <2>1, <2>3
  <2> QED
    BY <2>2, <2>3
<1>3. TaskType'
  <2>1. tasks' \in [Task!Keys -> [Ids -> Task!Metas] \cup {Task!NotLoaded}]
    BY <1>1, <1>2
  <2> QED
    BY <1>1, <2>1, TellsView DEF ViewInv, TaskType
<1>4. AloneInv'
  BY <1>1 DEF ViewInv, AloneInv
<1>5. OpenInv'
  BY <1>1, <1>2, TellsView DEF ViewInv, TaskType, OpenInv
<1>6. Changing \ {c.t} \subseteq Changing' /\ twice \subseteq Changing'
  BY <1>1 DEF Changing
<1>7. ASSUME NEW k \in Task!Keys PROVE KeyInv(k)'
  <2>1. CASE k \notin Task!Untold(Task!Told(c))
    BY <1>1, <2>1, TellsKeys DEF KeyInv
  <2>2. CASE k \in Task!Untold(Task!Told(c))
    <3> SUFFICES ASSUME k \notin missed' PROVE KeyInv(k)'
      BY DEF KeyInv
    <3>1. k \notin missed /\ k \in Task!Holder(c) /\ taskFetch[k] = Task!Idle
      BY <1>1, <2>2
    <3>2. k \notin Task!Told(c) /\ c.field \in Patches
      BY <1>1, <3>1, HolderIsNotTold DEF Changes
    <3>3. taskFetch'[k] = Task!Idle /\ (k \notin staleTasks' => k \notin staleTasks)
      BY <1>1, <3>1, <3>2, TellsView
    <3>4. ASSUME tasks[k] # Task!NotLoaded, k \notin staleTasks, NEW t \in Ids \ Changing' PROVE tasks'[k][t] = db[t]
      <4>1. tasks[k] \in [Ids -> Task!Metas] /\ tasks'[k] = [tasks[k] EXCEPT ![c.t] = c.meta]
        BY <1>1, <3>1, <3>4 DEF ViewInv, TaskType
      <4>2. CASE t = c.t
        BY <1>1, <1>6, <3>2, <4>1, <4>2 DEF ViewInv, AloneInv
      <4>3. CASE t # c.t
        BY <1>6, <3>1, <3>4, <4>1, <4>3 DEF ViewInv, KeyInv
      <4> QED
        BY <4>2, <4>3
    <3> QED
      BY <1>1, <1>2, <3>3, <3>4, TaskValues DEF KeyInv
  <2> QED
    BY <2>1, <2>2
<1> QED
  BY <1>3, <1>4, <1>5, <1>7 DEF ViewInv

LEMMA ViewInvStep == ViewInv /\ [Task!Next]_taskVars => ViewInv'
<1> SUFFICES ASSUME ViewInv, [Task!Next]_taskVars PROVE ViewInv'
  OBVIOUS
<1>1. CASE Task!toggleCompleted \/ UNCHANGED taskVars
  <2>1. UNCHANGED <<db, linked, view, tasks, staleTasks, taskFetch, changes, changed, twice, missed>>
    BY <1>1 DEF Task!toggleCompleted, taskVars, Task!Backend, Task!Cache
  <2>2. TaskType' /\ AloneInv' /\ Changing' = Changing
    BY <2>1 DEF ViewInv, TaskType, AloneInv, Changing
  <2> QED
    BY <2>1, <2>2, KeysKept DEF ViewInv
<1>2. ASSUME NEW t \in Ids, Task!handleToggleComplete(t) PROVE ViewInv'
  BY <1>2, TaskSends DEF Task!handleToggleComplete, Patches
<1>3. ASSUME NEW t \in Ids, Task!onUpdatePriority(t) PROVE ViewInv'
  BY <1>3, TaskSends DEF Task!onUpdatePriority, Patches
<1>4. ASSUME NEW t \in Ids, Task!handleDelete(t) \/ Task!handleQuickAdd(t) PROVE ViewInv'
  BY <1>4, TaskSends DEF Task!handleDelete, Task!handleQuickAdd
<1>5. ASSUME NEW t \in Ids, NEW day \in {0, 1}, Task!onUpdateDue(t, day) PROVE ViewInv'
  BY <1>5, TaskSends DEF Task!onUpdateDue, Patches
<1> QED
  BY <1>1, <1>2, <1>3, <1>4, <1>5, ViewOpens, ViewReads, ViewFetched, ViewUpdates, ViewCreatesOrDeletes, ViewAnswered,
     ViewCreated, ViewFails DEF Task!Next, Task!Views

\* The views of tasks: the open one shows what is stored of its tasks once requests and fetches have ended, wherever
\* the changes were made and in whatever order views were opened meanwhile, for any number of tasks and requests.
THEOREM OpenViewIsCurrent == Spec => []ViewFollows
<1>1. Init => ViewInv
  BY ViewAtFirst DEF Init
<1>2. ViewInv /\ [Next]_vars => ViewInv'
  BY ViewInvStep, PageSteps
<1>3. ViewInv => ViewFollows
  <2> SUFFICES ASSUME ViewInv, changes = {}, taskFetch[view] = Task!Idle, view \notin missed
               PROVE  \A t \in (CASE view = "panel" -> linked [] view \in Ids -> {view} [] OTHER -> Ids) \ twice :
                        Task!Shown(tasks[view][t]) = Task!Shown(db[t])
    BY DEF ViewFollows, Task!ViewFollows
  <2>1. \A t \in Ids \ twice : tasks[view][t] = db[t]
    BY DEF ViewInv, TaskType, OpenInv, KeyInv, Changing
  <2>2. (CASE view = "panel" -> linked [] view \in Ids -> {view} [] OTHER -> Ids) \subseteq Ids
    BY DEF ViewInv, TaskType
  <2> QED
    BY <2>1, <2>2
<1> QED
  BY <1>1, <1>2, <1>3, PTL DEF Spec

-----------------------------------------------------------------------------
(* The tags of a cluster's notes.                                          *)

Answer == {"none", "ok", "failed"}
Deletions == [for: {"delete"}, n: Nat, got: Answer, id: ListedNotes]
Drags == [for: {"reorder"}, n: Nat, got: Answer, previous: Seq(List!Rows), ids: Seq(ListedNotes)]
TagCalls == [for: {"add", "remove", "create"}, n: Nat, got: Answer, id: ListedNotes, tag: List!Tags,
             shown: SUBSET List!Tags]

ListType ==
    /\ there \subseteq ListedNotes /\ tags \in [ListedNotes -> SUBSET List!Tags] /\ listSent \in Nat
    /\ list \in Seq(List!Rows)
    /\ listFetch \in {List!Idle, List!Asked} \cup [at: {"read"}, list: Seq(List!Rows)]
    /\ override \in [ListedNotes -> (SUBSET List!Tags) \cup {List!NoTags}]
    /\ listCalls \subseteq Deletions \cup Drags \cup TagCalls

TagCallsOf(n) == {c \in listCalls \cap TagCalls : c.id = n}

\* The backend made a change of the note's tags that the page has not been told of.
TagsPend(n) == \E c \in TagCallsOf(n) : c.for \in {"add", "remove"} /\ c.got = "ok"

\* The rows that show the note without tags.
BareRows(n) == {r \in List!Rows : r.id = n => r.tags = {}}

\* Whatever lists are shown, on their way, or kept for a drag that fails, a note has the tags the page put in place
\* of the list's, or none; a change of them starts from those it has.
NoteTags(n) ==
    /\ \A c, d \in TagCallsOf(n) : c = d
    /\ ~TagsPend(n) =>
         IF override[n] # List!NoTags THEN override[n] = tags[n]
         ELSE /\ tags[n] = {} /\ list \in Seq(BareRows(n))
              /\ listFetch.at = "read" => listFetch.list \in Seq(BareRows(n))
              /\ \A c \in listCalls \cap Drags : c.previous \in Seq(BareRows(n))
    /\ \A c \in TagCallsOf(n) :
         /\ c.got = "none" \/ c.for = "create" => c.shown = tags[n]
         /\ c.for = "add" /\ c.got = "ok" => tags[n] = c.shown \cup {c.tag}
         /\ c.for = "remove" /\ c.got = "ok" => tags[n] = c.shown \ {c.tag}

TagsInv == ListType /\ \A n \in ListedNotes \ mixed : NoteTags(n)

LEMMA NoTagsIsMarker == \A set \in SUBSET List!Tags : set # List!NoTags
BY ClusterAssumption DEF List!Tags, List!NoTags

LEMMA ListFetches == List!Idle.at = "idle" /\ List!Asked.at = "asked"
BY DEF List!Idle, List!Asked

LEMMA CallsOfTags ==
    /\ \A c \in Deletions \cup Drags : List!About(c) /\ c \notin TagCalls
    /\ \A c \in TagCalls : ~List!About(c)
    /\ \A c \in Deletions : c \notin Drags
BY DEF Deletions, Drags, TagCalls, List!About

\* Where the row at k comes from, when that at i was moved to j.
From(i, j, k) ==
    IF k = j THEN i
    ELSE LET m == IF k < j THEN k ELSE k - 1 IN IF m < i THEN m ELSE m + 1

LEMMA FromPermutes ==
    ASSUME NEW n \in Nat, NEW i \in 1 .. n, NEW j \in 1 .. n
    PROVE  /\ \A k \in 1 .. n : From(i, j, k) \in 1 .. n
           /\ \A k, m \in 1 .. n : From(i, j, k) = From(i, j, m) => k = m
BY DEF From

\* Without its place, each element that is left keeps its order.
LEMMA RemovedAt ==
    ASSUME NEW T, NEW s \in Seq(T), NEW i \in 1 .. Len(s)
    PROVE  LET t == SubSeq(s, 1, i - 1) \o SubSeq(s, i + 1, Len(s)) IN
           /\ t \in Seq(T) /\ Len(t) = Len(s) - 1
           /\ \A k \in 1 .. Len(s) - 1 : t[k] = IF k < i THEN s[k] ELSE s[k + 1]
<1> DEFINE front == SubSeq(s, 1, i - 1)
           back == SubSeq(s, i + 1, Len(s))
           t == front \o back
<1>1. Len(s) \in Nat /\ i \in Nat /\ i >= 1 /\ i <= Len(s)
  OBVIOUS
<1>2. front \in Seq(T) /\ Len(front) = i - 1 /\ \A k \in 1 .. i - 1 : front[k] = s[k]
  BY <1>1, SubSeqProperties, Z3
<1>3. back \in Seq(T) /\ Len(back) = Len(s) - i /\ \A k \in 1 .. Len(s) - i : back[k] = s[i + k]
  <2>1. back \in Seq(T) /\ Len(back) = Len(s) - i /\ \A k \in 1 .. (Len(s) - (i + 1) + 1) : back[k] = s[(i + 1) + k - 1]
    BY <1>1, SubSeqProperties, Z3
  <2> QED
    BY <1>1, <2>1
<1> HIDE DEF front, back
<1>4. /\ t \in Seq(T) /\ Len(t) = Len(front) + Len(back)
      /\ \A k \in 1 .. (Len(front) + Len(back)) : t[k] = IF k <= Len(front) THEN front[k] ELSE back[k - Len(front)]
  BY <1>2, <1>3, ConcatProperties
<1> HIDE DEF t
<1>5. Len(t) = Len(s) - 1
  BY <1>1, <1>2, <1>3, <1>4
<1>6. ASSUME NEW k \in 1 .. Len(s) - 1 PROVE t[k] = IF k < i THEN s[k] ELSE s[k + 1]
  <2>0. k \in 1 .. (Len(front) + Len(back)) /\ k \in Int /\ Len(front) = i - 1
    BY <1>1, <1>2, <1>3
  <2>1. CASE k < i
    <3>1. t[k] = front[k] /\ k \in 1 .. i - 1
      BY <1>1, <1>4, <2>0, <2>1
    <3> QED
      BY <1>2, <2>1, <3>1
  <2>2. CASE ~(k < i)
    <3>1. t[k] = back[k - (i - 1)] /\ k - (i - 1) \in 1 .. Len(s) - i
      BY <1>1, <1>4, <2>0, <2>2
    <3> QED
      BY <1>1, <1>3, <2>2, <3>1
  <2> QED
    BY <2>1, <2>2
<1> QED
  BY <1>4, <1>5, <1>6 DEF front, back, t

LEMMA MovedAt ==
    ASSUME NEW T, NEW s \in Seq(T), NEW i \in 1 .. Len(s), NEW j \in 1 .. Len(s)
    PROVE  LET t == List!InsertAt(List!RemoveAt(s, i), j, s[i]) IN
           /\ t \in Seq(T) /\ Len(t) = Len(s)
           /\ \A k \in 1 .. Len(s) : t[k] = s[From(i, j, k)]
<1> DEFINE rest == SubSeq(s, 1, i - 1) \o SubSeq(s, i + 1, Len(s))
           first == SubSeq(rest, 1, j - 1)
           last == SubSeq(rest, j, Len(rest))
           t == (first \o <<s[i]>>) \o last
<1>1. Len(s) \in Nat /\ i \in Nat /\ j \in Nat /\ i >= 1 /\ i <= Len(s) /\ j >= 1 /\ j <= Len(s) /\ s[i] \in T
  OBVIOUS
<1>2. rest \in Seq(T) /\ Len(rest) = Len(s) - 1
      /\ \A k \in 1 .. Len(s) - 1 : rest[k] = IF k < i THEN s[k] ELSE s[k + 1]
  BY RemovedAt
<1>3. List!RemoveAt(s, i) = rest
  BY DEF List!RemoveAt
<1> HIDE DEF rest
<1>4. first \in Seq(T) /\ Len(first) = j - 1 /\ \A k \in 1 .. j - 1 : first[k] = rest[k]
  BY <1>1, <1>2, SubSeqProperties, Z3
<1>5. last \in Seq(T) /\ Len(last) = Len(s) - j /\ \A k \in 1 .. Len(s) - j : last[k] = rest[j + k - 1]
  BY <1>1, <1>2, SubSeqProperties, Z3
<1>6. List!InsertAt(rest, j, s[i]) = t
  BY DEF List!InsertAt, first, last
<1> HIDE DEF first, last
<1> DEFINE head == first \o <<s[i]>>
<1>7. head \in Seq(T) /\ Len(head) = j /\ \A k \in 1 .. j : head[k] = IF k < j THEN rest[k] ELSE s[i]
  <2>1. <<s[i]>> \in Seq(T) /\ Len(<<s[i]>>) = 1 /\ <<s[i]>>[1] = s[i]
    BY <1>1
  <2>2. /\ head \in Seq(T) /\ Len(head) = Len(first) + Len(<<s[i]>>)
        /\ \A k \in 1 .. (Len(first) + Len(<<s[i]>>)) :
             head[k] = IF k <= Len(first) THEN first[k] ELSE <<s[i]>>[k - Len(first)]
    BY <1>4, <2>1, ConcatProperties
  <2> HIDE DEF head
  <2>3. Len(head) = j
    BY <1>1, <1>4, <2>1, <2>2
  <2>4. ASSUME NEW k \in 1 .. j PROVE head[k] = IF k < j THEN rest[k] ELSE s[i]
    <3>1. CASE k < j
      BY <1>1, <1>4, <2>1, <2>2, <3>1
    <3>2. CASE k = j
      BY <1>1, <1>4, <2>1, <2>2, <3>2
    <3> QED
      BY <1>1, <3>1, <3>2
  <2> QED
    BY <2>2, <2>3, <2>4
<1>8. t = head \o last
  OBVIOUS
<1> HIDE DEF head, t
<1>9. /\ t \in Seq(T) /\ Len(t) = Len(head) + Len(last)
       /\ \A k \in 1 .. (Len(head) + Len(last)) : t[k] = IF k <= Len(head) THEN head[k] ELSE last[k - Len(head)]
  BY <1>5, <1>7, <1>8, ConcatProperties
<1>10. Len(t) = Len(s)
  BY <1>1, <1>5, <1>7, <1>9
<1>11. ASSUME NEW k \in 1 .. Len(s) PROVE t[k] = s[From(i, j, k)]
  <2>1. CASE k <= j
    <3>1. t[k] = IF k < j THEN rest[k] ELSE s[i]
      BY <1>1, <1>5, <1>7, <1>9, <2>1
    <3> QED
      BY <1>1, <1>2, <2>1, <3>1 DEF From
  <2>2. CASE ~(k <= j)
    <3>1. t[k] = last[k - j] /\ k - j \in 1 .. Len(s) - j
      BY <1>1, <1>5, <1>7, <1>9, <2>2
    <3>2. last[k - j] = rest[k - 1]
      BY <1>1, <1>5, <2>2, <3>1
    <3> QED
      BY <1>1, <1>2, <2>2, <3>1, <3>2 DEF From
  <2> QED
    BY <2>1, <2>2
<1> QED
  BY <1>3, <1>6, <1>9, <1>10, <1>11

\* What is read of the notes: rows that have the tags that are stored.
LEMMA ListsAre ==
    ASSUME ListType, NEW l \in List!Lists
    PROVE  /\ l \in Seq(List!Rows)
           /\ \A n \in ListedNotes : tags[n] = {} => l \in Seq(BareRows(n))
<1>1. Cardinality(there) \in Nat
  BY ClusterAssumption, FS_Subset, FS_CardinalityType DEF ListType
<1>2. List!Cardinality(there) = Cardinality(there)
  BY DEF List!Cardinality, Cardinality, List!IsFiniteSet, IsFiniteSet
<1>3. PICK s \in List!SetToSeqs(there) : l = [i \in DOMAIN s |-> [id |-> s[i], tags |-> tags[s[i]]]]
  BY DEF List!Lists
<1>4. s \in [1 .. Cardinality(there) -> there]
  BY <1>2, <1>3 DEF List!SetToSeqs
<1>5. l \in [1 .. Cardinality(there) -> List!Rows]
  BY <1>3, <1>4 DEF ListType, List!Rows
<1>6. ASSUME NEW n \in ListedNotes, tags[n] = {} PROVE l \in [1 .. Cardinality(there) -> BareRows(n)]
  BY <1>3, <1>4, <1>5, <1>6 DEF ListType, List!Rows, BareRows
<1> QED
  BY <1>1, <1>5, <1>6

LEMMA TagsAtFirst == ASSUME List!Init PROVE TagsInv
<1>1. ListType
  BY DEF List!Init, List!NotLoaded, ListType, List!Tags
<1>2. ASSUME NEW n \in ListedNotes PROVE NoteTags(n)
  <2>1. listCalls = {} /\ tags[n] = {} /\ override[n] = List!NoTags /\ list = <<>> /\ listFetch = List!Asked
    BY <1>2 DEF List!Init, List!NotLoaded
  <2>2. list \in Seq(BareRows(n))
    BY <2>1
  <2> QED
    BY <2>1, <2>2, ListFetches DEF NoteTags, TagCallsOf
<1> QED
  BY <1>1, <1>2 DEF TagsInv

\* The tags of the notes, what is shown instead of the lists', and the requests for them are as they were, and the
\* lists are made of rows that were there.
LEMMA TagsKept ==
    ASSUME TagsInv, ListType', UNCHANGED <<tags, override>>, mixed \subseteq mixed',
           listCalls' \cap TagCalls = listCalls \cap TagCalls,
           \A n \in ListedNotes : (tags[n] = {} /\ list \in Seq(BareRows(n))
                                   /\ (listFetch.at = "read" => listFetch.list \in Seq(BareRows(n)))
                                   /\ \A c \in listCalls \cap Drags : c.previous \in Seq(BareRows(n)))
             => /\ list' \in Seq(BareRows(n))
                /\ listFetch'.at = "read" => listFetch'.list \in Seq(BareRows(n))
                /\ \A c \in listCalls' \cap Drags : c.previous \in Seq(BareRows(n))
    PROVE  TagsInv'
<1>1. ASSUME NEW n \in ListedNotes \ mixed' PROVE NoteTags(n)'
  <2>1. NoteTags(n)
    BY DEF TagsInv
  <2>2. TagCallsOf(n)' = TagCallsOf(n) /\ (TagsPend(n)' <=> TagsPend(n))
    BY DEF TagCallsOf, TagsPend
  <2>3. BareRows(n)' = BareRows(n)
    BY DEF BareRows
  <2> QED
    BY <2>1, <2>2, <2>3 DEF NoteTags
<1> QED
  BY <1>1 DEF TagsInv

\* What a request becomes is a request of its kind.
LEMMA GotKeepsKind ==
    ASSUME NEW c, NEW g \in Answer
    PROVE  LET d == [c EXCEPT !.got = g] IN
           /\ c \in Deletions => d \in Deletions
           /\ c \in Drags => d \in Drags /\ d.previous = c.previous
           /\ c \in TagCalls => d \in TagCalls /\ d.id = c.id /\ d.for = c.for /\ d.tag = c.tag /\ d.shown = c.shown
                                /\ d.got = g
<1>1. c \in Deletions => [c EXCEPT !.got = g] \in Deletions
  BY DEF Deletions
<1>2. c \in Drags => [c EXCEPT !.got = g] \in Drags /\ [c EXCEPT !.got = g].previous = c.previous
  BY DEF Drags
<1>3. c \in TagCalls => LET d == [c EXCEPT !.got = g] IN d \in TagCalls /\ d.id = c.id /\ d.for = c.for /\ d.tag = c.tag
                                                         /\ d.shown = c.shown /\ d.got = g
  BY DEF TagCalls
<1> QED
  BY <1>1, <1>2, <1>3

\* The list and its drags.
LEMMA ListTags ==
    ASSUME TagsInv, List!Read \/ List!Fetched
    PROVE  TagsInv'
<1>1. CASE List!Read
  <2>1. PICK l \in List!Lists : listFetch' = [at |-> "read", list |-> l]
    BY <1>1 DEF List!Read
  <2>2. UNCHANGED <<there, tags, list, override, listCalls, listSent, mixed>>
    BY <1>1 DEF List!Read, List!Backend
  <2>3. l \in Seq(List!Rows) /\ \A n \in ListedNotes : tags[n] = {} => l \in Seq(BareRows(n))
    BY <2>1, ListsAre DEF TagsInv
  <2>4. ListType'
    BY <2>1, <2>2, <2>3 DEF TagsInv, ListType
  <2> QED
    BY <2>1, <2>2, <2>3, <2>4, TagsKept
<1>2. CASE List!Fetched
  <2>1. /\ listFetch.at = "read" /\ list' = listFetch.list /\ listFetch' = List!Idle
        /\ UNCHANGED <<there, tags, override, listCalls, listSent, mixed>>
    BY <1>2 DEF List!Fetched, List!Backend
  <2>2. ListType'
    BY <2>1, ListFetches DEF TagsInv, ListType
  <2> QED
    BY <2>1, <2>2, ListFetches, TagsKept
<1> QED
  BY <1>1, <1>2

LEMMA DraggedTags == ASSUME TagsInv, NEW i, NEW j, List!handleDragEnd(i, j) PROVE TagsInv'
<1> DEFINE reordered == List!InsertAt(List!RemoveAt(list, i), j, list[i])
           new == [for |-> "reorder", n |-> listSent, got |-> "none", previous |-> list,
                   ids |-> [k \in DOMAIN reordered |-> reordered[k].id]]
<1>1. /\ i \in 1 .. Len(list) /\ j \in 1 .. Len(list) /\ list \in Seq(List!Rows)
      /\ list' = reordered /\ listCalls' = listCalls \cup {new} /\ listSent' = listSent + 1
      /\ UNCHANGED <<there, tags, listFetch, override, mixed>>
  BY DEF List!handleDragEnd, List!Send, List!Backend, TagsInv, ListType
<1>2. reordered \in Seq(List!Rows) /\ \A n \in ListedNotes : list \in Seq(BareRows(n)) => reordered \in Seq(BareRows(n))
  BY <1>1, MovedAt
<1> HIDE DEF reordered
<1>3. [k \in DOMAIN reordered |-> reordered[k].id] \in Seq(ListedNotes)
  <2>1. \A k \in 1 .. Len(reordered) : reordered[k].id \in ListedNotes
    <3>1. \A k \in 1 .. Len(reordered) : reordered[k] \in List!Rows
      BY <1>2, ElementOfSeq
    <3> QED
      BY <3>1 DEF List!Rows
  <2>2. DOMAIN reordered = 1 .. Len(reordered) /\ Len(reordered) \in Nat
    BY <1>2
  <2> QED
    BY <2>1, <2>2
<1>4. new \in Drags /\ new.previous = list
  BY <1>1, <1>3 DEF TagsInv, ListType, Drags, Answer
<1> HIDE DEF new
<1>5. ListType'
  BY <1>1, <1>2, <1>4 DEF TagsInv, ListType
<1>6. listCalls' \cap TagCalls = listCalls \cap TagCalls
  BY <1>1, <1>4, CallsOfTags
<1> QED
  BY <1>1, <1>2, <1>4, <1>5, <1>6, TagsKept

LEMMA AboutTags ==
    ASSUME TagsInv, \/ \E n \in ListedNotes : List!handleDelete(n)
                    \/ \E c \in listCalls : List!Commit(c) \/ List!Deleted(c) \/ List!Reordered(c)
    PROVE  TagsInv'
<1>1. ASSUME NEW n \in ListedNotes, List!handleDelete(n) PROVE TagsInv'
  <2> DEFINE new == [for |-> "delete", n |-> listSent, got |-> "none", id |-> n]
  <2>1. /\ listCalls' = listCalls \cup {new} /\ listSent' = listSent + 1
        /\ UNCHANGED <<there, tags, list, listFetch, override, mixed>>
    BY <1>1 DEF List!handleDelete, List!Send, List!Backend
  <2>2. new \in Deletions
    BY DEF TagsInv, ListType, Deletions, Answer
  <2> HIDE DEF new
  <2>3. ListType' /\ listCalls' \cap TagCalls = listCalls \cap TagCalls /\ listCalls' \cap Drags = listCalls \cap Drags
    BY <2>1, <2>2, CallsOfTags DEF TagsInv, ListType
  <2> QED
    BY <2>1, <2>3, TagsKept
<1>2. ASSUME NEW c \in listCalls, List!Commit(c) PROVE TagsInv'
  <2>1. PICK g \in {"ok", "failed"} : listCalls' = (listCalls \ {c}) \cup {[c EXCEPT !.got = g]}
    BY <1>2 DEF List!Commit, List!Outcome
  <2>2. PICK d : d = [c EXCEPT !.got = g]
    OBVIOUS
  <2>3. c \in Deletions \cup Drags
    BY <1>2, CallsOfTags DEF List!Commit, TagsInv, ListType
  <2>4. d \in Deletions \cup Drags /\ (d \in Drags => c \in Drags /\ d.previous = c.previous)
    BY <2>2, <2>3, GotKeepsKind, CallsOfTags DEF Answer
  <2>5. there' \subseteq there /\ UNCHANGED <<tags, list, listFetch, override, listSent, mixed>>
    BY <1>2 DEF List!Commit
  <2>6. ListType' /\ listCalls' \cap TagCalls = listCalls \cap TagCalls
    BY <2>1, <2>2, <2>3, <2>4, <2>5, CallsOfTags DEF TagsInv, ListType
  <2> QED
    BY <2>1, <2>2, <2>4, <2>5, <2>6, TagsKept
<1>3. ASSUME NEW c \in listCalls, List!Deleted(c) PROVE TagsInv'
  <2>1. /\ c.for = "delete" /\ listCalls' = listCalls \ {c} /\ listFetch' \in {List!Asked, listFetch}
        /\ UNCHANGED <<there, tags, list, override, listSent, mixed>>
    BY <1>3 DEF List!Deleted, List!Backend
  <2>2. ListType' /\ listCalls' \cap TagCalls = listCalls \cap TagCalls
    BY <2>1 DEF TagsInv, ListType, TagCalls
  <2> QED
    BY <2>1, <2>2, ListFetches, TagsKept
<1>4. ASSUME NEW c \in listCalls, List!Reordered(c) PROVE TagsInv'
  <2>1. /\ c.for = "reorder" /\ listCalls' = listCalls \ {c} /\ list' \in {c.previous, list}
        /\ UNCHANGED <<there, tags, listFetch, override, listSent, mixed>>
    BY <1>4 DEF List!Reordered, List!Backend
  <2>2. c \in Drags /\ c.previous \in Seq(List!Rows)
    BY <2>1 DEF TagsInv, ListType, Deletions, TagCalls, Drags
  <2>3. ListType' /\ listCalls' \cap TagCalls = listCalls \cap TagCalls
    BY <2>1, <2>2, CallsOfTags DEF TagsInv, ListType
  <2> QED
    BY <2>1, <2>2, <2>3, TagsKept
<1> QED
  BY <1>1, <1>2, <1>3, <1>4

\* The tags the page shows of a note, when no change of them is on its way.
LEMMA ShownTags ==
    ASSUME TagsInv, NEW n \in ListedNotes \ mixed, TagCallsOf(n) = {}
    PROVE  List!getTagsForNeuron(n) = tags[n]
<1>1. ~TagsPend(n) /\ NoteTags(n) /\ list \in Seq(List!Rows)
  BY DEF TagsInv, TagsPend, ListType
<1>2. CASE override[n] # List!NoTags
  BY <1>1, <1>2 DEF NoteTags, List!getTagsForNeuron
<1>3. CASE override[n] = List!NoTags
  <2>1. tags[n] = {} /\ list \in Seq(BareRows(n))
    BY <1>1, <1>3 DEF NoteTags
  <2>2. \A i \in DOMAIN list : list[i].id = n => list[i].tags = {}
    <3>1. \A i \in 1 .. Len(list) : list[i] \in BareRows(n)
      BY <2>1, ElementOfSeq
    <3> QED
      BY <1>1, <3>1 DEF BareRows
  <2>3. UNION {list[i].tags : i \in {k \in DOMAIN list : list[k].id = n}} = {}
    BY <2>2
  <2> QED
    BY <1>3, <2>1, <2>3 DEF List!getTagsForNeuron
<1> QED
  BY <1>2, <1>3

\* The other notes.
LEMMA OtherNotes ==
    ASSUME TagsInv, NEW m \in ListedNotes, UNCHANGED <<list, listFetch>>, mixed \subseteq mixed',
           listCalls' \cap Drags = listCalls \cap Drags,
           NEW n \in (ListedNotes \ {m}) \ mixed', TagCallsOf(n)' = TagCallsOf(n), tags'[n] = tags[n], override'[n] = override[n]
    PROVE  NoteTags(n)'
<1>1. NoteTags(n) /\ BareRows(n)' = BareRows(n)
  BY DEF TagsInv, BareRows
<1>2. TagsPend(n)' <=> TagsPend(n)
  BY DEF TagsPend
<1> QED
  BY <1>1, <1>2 DEF NoteTags

LEMMA ChangedTags ==
    ASSUME TagsInv, NEW m \in ListedNotes, NEW tag \in List!Tags, NEW for \in {"add", "remove", "create"},
           List!Change(m, for, tag)
    PROVE  TagsInv'
<1> DEFINE new == [for |-> for, n |-> listSent, got |-> "none", id |-> m, tag |-> tag, shown |-> List!getTagsForNeuron(m)]
<1>1. /\ listCalls' = listCalls \cup {new} /\ listSent' = listSent + 1
      /\ mixed' = IF \E c \in listCalls : ~List!About(c) /\ c.id = m THEN mixed \cup {m} ELSE mixed
      /\ UNCHANGED <<there, tags, list, listFetch, override>>
  BY DEF List!Change, List!Send, List!Backend
<1>2. List!getTagsForNeuron(m) \in SUBSET List!Tags
  <2>1. \A i \in DOMAIN list : list[i].tags \in SUBSET List!Tags
    <3>1. list \in Seq(List!Rows)
      BY DEF TagsInv, ListType
    <3>2. \A i \in 1 .. Len(list) : list[i] \in List!Rows
      BY <3>1, ElementOfSeq
    <3> QED
      BY <3>1, <3>2 DEF List!Rows
  <2>2. override[m] \in (SUBSET List!Tags) \cup {List!NoTags}
    BY DEF TagsInv, ListType
  <2>3. UNION {list[i].tags : i \in {k \in DOMAIN list : list[k].id = m}} \in SUBSET List!Tags
    BY <2>1
  <2> QED
    BY <2>2, <2>3 DEF List!getTagsForNeuron
<1>3. new \in TagCalls /\ new.id = m /\ new.got = "none" /\ new.shown = List!getTagsForNeuron(m)
  BY <1>2 DEF TagsInv, ListType, TagCalls, Answer
<1> HIDE DEF new
<1>4. ListType'
  BY <1>1, <1>3 DEF TagsInv, ListType
<1>5. listCalls' \cap Drags = listCalls \cap Drags /\ mixed \subseteq mixed'
  BY <1>1, <1>3, CallsOfTags
<1>6. ASSUME NEW n \in (ListedNotes \ {m}) \ mixed' PROVE NoteTags(n)'
  <2>1. TagCallsOf(n)' = TagCallsOf(n)
    BY <1>1, <1>3 DEF TagCallsOf
  <2> QED
    BY <1>1, <1>5, <2>1, OtherNotes
<1>7. ASSUME m \notin mixed' PROVE NoteTags(m)'
  <2>1. TagCallsOf(m) = {} /\ m \notin mixed
    BY <1>1, <1>7, CallsOfTags DEF TagCallsOf
  <2>2. NoteTags(m) /\ List!getTagsForNeuron(m) = tags[m] /\ ~TagsPend(m)
    BY <2>1, ShownTags DEF TagsInv, TagsPend
  <2>3. TagCallsOf(m)' = {new}
    BY <1>1, <1>3, <2>1 DEF TagCallsOf
  <2>4. ~TagsPend(m)' /\ BareRows(m)' = BareRows(m)
    BY <1>3, <2>3 DEF TagsPend, BareRows
  <2> QED
    BY <1>1, <1>3, <1>5, <2>2, <2>3, <2>4 DEF NoteTags
<1> QED
  BY <1>4, <1>6, <1>7 DEF TagsInv

\* The backend changes the tags of a note, or refuses to.
LEMMA CommittedTags == ASSUME TagsInv, NEW c \in listCalls, List!CommitTag(c) PROVE TagsInv'
<1>1. c \in TagCalls /\ c.id \in ListedNotes /\ c.tag \in List!Tags /\ c.for \in {"add", "remove", "create"} /\ c.got = "none"
  BY CallsOfTags DEF List!CommitTag, TagsInv, ListType, TagCalls
<1>a. PICK g \in {"ok", "failed"}, done \in {0, 1} :
        /\ listCalls' = (listCalls \ {c}) \cup {[c EXCEPT !.got = g]}
        /\ done = 0 => tags' = tags
        /\ done = 1 => tags' = CASE c.for = "add"    -> [tags EXCEPT ![c.id] = @ \cup {c.tag}]
                                 [] c.for = "remove" -> [tags EXCEPT ![c.id] = @ \ {c.tag}]
                                 [] OTHER            -> tags
        /\ mixed' \in {mixed, mixed \cup {c.id}}
        /\ c.id \notin mixed' => (g = "ok" <=> done = 1)
        /\ UNCHANGED <<there, list, listFetch, override, listSent>>
  BY DEF List!CommitTag, List!Outcome
<1>2. PICK d : d = [c EXCEPT !.got = g]
  OBVIOUS
<1>3. d \in TagCalls /\ d.id = c.id /\ d.for = c.for /\ d.tag = c.tag /\ d.shown = c.shown /\ d.got = g
  <2>1. g \in Answer
    BY DEF Answer
  <2> QED
    BY <1>1, <1>2, <2>1, GotKeepsKind
<1>4. /\ listCalls' = (listCalls \ {c}) \cup {d}
      /\ UNCHANGED <<there, list, listFetch, override, listSent>>
  BY <1>a, <1>2
<1>5. /\ tags' \in [ListedNotes -> SUBSET List!Tags]
      /\ \A n \in ListedNotes \ {c.id} : tags'[n] = tags[n]
      /\ tags'[c.id] = IF done = 1 /\ c.for = "add" THEN tags[c.id] \cup {c.tag}
                       ELSE IF done = 1 /\ c.for = "remove" THEN tags[c.id] \ {c.tag} ELSE tags[c.id]
  <2>1. tags \in [ListedNotes -> SUBSET List!Tags]
    BY DEF TagsInv, ListType
  <2>2. CASE done = 1 /\ c.for = "add"
    BY <1>1, <1>a, <2>1, <2>2
  <2>3. CASE done = 1 /\ c.for = "remove"
    BY <1>1, <1>a, <2>1, <2>3
  <2>4. CASE c.for = "create" \/ done = 0
    <3>1. tags' = tags
      BY <1>1, <1>a, <2>4
    <3> QED
      BY <2>1, <2>4, <3>1
  <2> QED
    BY <1>1, <2>2, <2>3, <2>4
<1>m. mixed \subseteq mixed' /\ mixed' \subseteq mixed \cup {c.id} /\ (c.id \notin mixed' => mixed' = mixed)
  BY <1>a
<1>6. ListType'
  BY <1>1, <1>3, <1>4, <1>5, <1>m DEF TagsInv, ListType
<1>7. listCalls' \cap Drags = listCalls \cap Drags /\ mixed \subseteq mixed'
  BY <1>1, <1>3, <1>4, <1>m, CallsOfTags
<1>8. ASSUME NEW n \in (ListedNotes \ {c.id}) \ mixed' PROVE NoteTags(n)'
  <2>1. TagCallsOf(n)' = TagCallsOf(n)
    BY <1>1, <1>3, <1>4 DEF TagCallsOf
  <2> QED
    BY <1>1, <1>4, <1>5, <1>7, <2>1, OtherNotes
<1> DEFINE m == c.id
<1>9. ASSUME m \notin mixed' PROVE NoteTags(m)'
  <2>1. NoteTags(m) /\ c \in TagCallsOf(m)
    BY <1>1, <1>m, <1>9 DEF TagsInv, TagCallsOf
  <2>a. d.got = "ok" <=> done = 1
    BY <1>a, <1>3, <1>9
  <2>2. TagCallsOf(m) = {c} /\ c.shown = tags[m] /\ ~TagsPend(m)
    BY <1>1, <2>1 DEF NoteTags, TagsPend
  <2>3. TagCallsOf(m)' = {d}
    BY <1>1, <1>3, <1>4, <2>2 DEF TagCallsOf
  <2>4. TagsPend(m)' <=> d.for \in {"add", "remove"} /\ d.got = "ok"
    BY <2>3 DEF TagsPend
  <2>5. CASE d.for \in {"add", "remove"} /\ d.got = "ok"
    <3>1. d.for = "add" => tags'[m] = d.shown \cup {d.tag}
      BY <1>3, <1>5, <2>a, <2>2, <2>5
    <3>2. d.for = "remove" => tags'[m] = d.shown \ {d.tag}
      BY <1>3, <1>5, <2>a, <2>2, <2>5
    <3> QED
      BY <2>3, <2>4, <2>5, <3>1, <3>2 DEF NoteTags
  <2>6. CASE ~(d.for \in {"add", "remove"} /\ d.got = "ok")
    <3>1. tags'[m] = tags[m] /\ d.shown = tags[m] /\ BareRows(m)' = BareRows(m)
      BY <1>1, <1>3, <1>4, <1>5, <2>a, <2>2, <2>6 DEF BareRows
    <3> QED
      BY <1>1, <1>3, <1>4, <1>7, <1>m, <2>1, <2>2, <2>3, <2>4, <2>6, <3>1 DEF NoteTags
  <2> QED
    BY <2>5, <2>6
<1> QED
  BY <1>1, <1>6, <1>8, <1>9 DEF TagsInv

\* What the page shows after an answer.
LEMMA AnsweredTags == ASSUME TagsInv, NEW c \in listCalls, List!onTagsChange(c) PROVE TagsInv'
<1> DEFINE m == c.id
           now == IF c.for = "add" THEN c.shown \cup {c.tag} ELSE c.shown \ {c.tag}
<1>1. c \in TagCalls /\ m \in ListedNotes /\ c.tag \in List!Tags /\ c.shown \in SUBSET List!Tags
      /\ c.for \in {"add", "remove", "create"} /\ c.got \in {"ok", "failed"}
  BY CallsOfTags DEF List!onTagsChange, TagsInv, ListType, TagCalls, Answer
<1>2. UNCHANGED <<there, tags, list, listFetch, listSent, mixed>>
  BY DEF List!onTagsChange, List!Backend
<1>3. now \in SUBSET List!Tags /\ now # List!NoTags
  BY <1>1, NoTagsIsMarker
<1>4. /\ override' = IF c.got = "failed" \/ c.for = "create" THEN override ELSE [override EXCEPT ![m] = now]
      /\ override \in [ListedNotes -> (SUBSET List!Tags) \cup {List!NoTags}]
  BY DEF List!onTagsChange, TagsInv, ListType
<1> HIDE DEF now
<1>5. /\ override' \in [ListedNotes -> (SUBSET List!Tags) \cup {List!NoTags}]
      /\ \A n \in ListedNotes \ {m} : override'[n] = override[n]
      /\ override'[m] = IF c.got = "failed" \/ c.for = "create" THEN override[m] ELSE now
  <2>1. CASE c.got = "failed" \/ c.for = "create"
    BY <1>1, <1>4, <2>1
  <2>2. CASE ~(c.got = "failed" \/ c.for = "create")
    BY <1>1, <1>3, <1>4, <2>2
  <2> QED
    BY <2>1, <2>2
<1>6. PICK d : d = [c EXCEPT !.for = "add", !.got = "none"]
  OBVIOUS
<1>7. d \in TagCalls /\ d.id = m /\ d.got = "none" /\ d.for = "add" /\ d.shown = c.shown
  BY <1>1, <1>6 DEF TagCalls, Answer
<1>8. listCalls' = IF c.for = "create" /\ c.got = "ok" THEN (listCalls \ {c}) \cup {d} ELSE listCalls \ {c}
  BY <1>6 DEF List!onTagsChange
<1>9. ListType'
  BY <1>2, <1>5, <1>7, <1>8 DEF TagsInv, ListType
<1>10. listCalls' \cap Drags = listCalls \cap Drags /\ mixed \subseteq mixed'
  BY <1>1, <1>2, <1>7, <1>8, CallsOfTags
<1>11. ASSUME NEW n \in (ListedNotes \ {m}) \ mixed' PROVE NoteTags(n)'
  <2>1. TagCallsOf(n)' = TagCallsOf(n)
    BY <1>1, <1>7, <1>8 DEF TagCallsOf
  <2> QED
    BY <1>1, <1>2, <1>5, <1>10, <2>1, OtherNotes
<1>12. ASSUME m \notin mixed' PROVE NoteTags(m)'
  <2>1. NoteTags(m) /\ c \in TagCallsOf(m) /\ BareRows(m)' = BareRows(m)
    BY <1>1, <1>2, <1>12 DEF TagsInv, TagCallsOf, BareRows
  <2>2. TagCallsOf(m) = {c} /\ (TagsPend(m) <=> c.for \in {"add", "remove"} /\ c.got = "ok")
    BY <2>1 DEF NoteTags, TagsPend
  <2>3. TagCallsOf(m)' = IF c.for = "create" /\ c.got = "ok" THEN {d} ELSE {}
    BY <1>1, <1>7, <1>8, <2>2 DEF TagCallsOf
  <2>4. ~TagsPend(m)'
    BY <1>7, <2>3 DEF TagsPend
  <2>5. CASE c.got = "ok" /\ c.for # "create"
    <3>1. tags[m] = now
      BY <1>1, <2>1, <2>5 DEF NoteTags, now
    <3>2. TagCallsOf(m)' = {} /\ override'[m] = tags'[m] /\ override'[m] # List!NoTags
      BY <1>2, <1>3, <1>5, <2>3, <2>5, <3>1
    <3> QED
      BY <2>4, <3>2 DEF NoteTags
  <2>6. CASE c.got = "failed" \/ c.for = "create"
    <3>1. ~TagsPend(m) /\ override'[m] = override[m]
      BY <1>5, <2>2, <2>6
    <3>2. \A e \in TagCallsOf(m)' : e = d /\ e.for = "add" /\ e.got = "none" /\ e.shown = tags'[m]
      BY <1>1, <1>2, <1>7, <2>1, <2>3 DEF NoteTags
    <3> QED
      BY <1>2, <1>10, <2>1, <2>4, <3>1, <3>2 DEF NoteTags
  <2> QED
    BY <1>1, <2>5, <2>6
<1> QED
  BY <1>9, <1>11, <1>12 DEF TagsInv

LEMMA TagsInvStep == ASSUME TagsInv, [List!Next]_listVars PROVE TagsInv'
<1>1. CASE List!Read \/ List!Fetched
  BY <1>1, ListTags
<1>2. ASSUME NEW n \in ListedNotes, List!handleDelete(n) PROVE TagsInv'
  BY <1>2, AboutTags
<1>3. ASSUME NEW i, NEW j, List!handleDragEnd(i, j) PROVE TagsInv'
  BY <1>3, DraggedTags
<1>4. ASSUME NEW n \in ListedNotes, NEW tag \in List!Tags,
             List!handleToggleTag(n, tag) \/ List!handleRemoveTag(n, tag) \/ List!handleCreateTag(n, tag)
      PROVE  TagsInv'
  <2>1. PICK for \in {"add", "remove", "create"} : List!Change(n, for, tag)
    BY <1>4 DEF List!handleToggleTag, List!handleRemoveTag, List!handleCreateTag
  <2> QED
    BY <2>1, ChangedTags
<1>5. ASSUME NEW c \in listCalls,
             List!Commit(c) \/ List!Deleted(c) \/ List!Reordered(c) \/ List!CommitTag(c) \/ List!onTagsChange(c)
      PROVE  TagsInv'
  BY <1>5, AboutTags, CommittedTags, AnsweredTags
<1>6. CASE UNCHANGED listVars
  <2>1. ListType' /\ UNCHANGED <<tags, override, list, listFetch, listCalls, mixed>>
    BY <1>6 DEF listVars, TagsInv, ListType
  <2> QED
    BY <2>1, TagsKept
<1> QED
  BY <1>1, <1>2, <1>3, <1>4, <1>5, <1>6 DEF List!Next


\* The page of a cluster shows the tags a note has, whatever drags, deletions and fetches of the list came in
\* between, unless two changes of its tags were on their way at once or an applied one lost its answer.
THEOREM ShownTagsAreCurrent == Spec => []TagsFollow
<1>1. Init => TagsInv
  BY TagsAtFirst DEF Init
<1>2. TagsInv /\ [Next]_vars => TagsInv'
  BY TagsInvStep, PageSteps
<1>3. TagsInv => TagsFollow
  <2>1. SUFFICES ASSUME TagsInv, NEW n \in there \ mixed, \A c \in listCalls : c.for \in {"delete", "reorder"}
                 PROVE  List!getTagsForNeuron(n) = tags[n]
    BY DEF TagsFollow, List!TagsFollow
  <2>2. TagCallsOf(n) = {} /\ n \in ListedNotes
    BY <2>1 DEF TagsInv, ListType, TagCallsOf, TagCalls
  <2> QED
    BY <2>1, <2>2, ShownTags
<1> QED
  BY <1>1, <1>2, <1>3, PTL DEF Spec

-----------------------------------------------------------------------------
(* The order of a cluster's notes.                                         *)

IdsOf(l) == [k \in DOMAIN l |-> l[k].id]

\* A list of the notes, one after the other and so that their ranks ascend.
Ascends(r, s) == \A i, j \in 1 .. Len(s) : i < j => r[s[i]] <= r[s[j]]
InOrder(r, notesThere, l) == IdsOf(l) \in List!SetToSeqs(notesThere) /\ Ascends(r, IdsOf(l))

Abouts == {c \in listCalls : List!About(c)}

\* No answer is coming that changes the list or has it asked for again.
AtRest == \A c \in Abouts : c.for = "delete" /\ c.got # "ok"

\* Unless the history tells of a drag that was crossed or an answer that was lost since the list was read, requests
\* about the list follow one another.  At rest, what is
\* shown or was read has the stored order; while a drag waits, the list is as it was dragged, the backend gets that
\* order, and what would be put back has the stored one.
OrderInv ==
    ~listCrossed =>
      /\ \A c, d \in Abouts : c = d
      /\ AtRest => /\ listFetch = List!Idle => InOrder(rank, there, list)
                   /\ listFetch.at = "read" => InOrder(rank, there, listFetch.list)
      /\ \A c \in Abouts : c.for = "reorder" =>
           /\ listFetch = List!Idle /\ c.ids = IdsOf(list) /\ c.ids \in List!SetToSeqs(there)
           /\ IF c.got = "ok" THEN Ascends(rank, c.ids) ELSE InOrder(rank, there, c.previous)

\* The lists of some notes, one after the other.
LEMMA SeqsOfNotes ==
    ASSUME ListType
    PROVE  /\ Cardinality(there) \in Nat
           /\ \A s : s \in List!SetToSeqs(there) <=>
                /\ s \in [1 .. Cardinality(there) -> there]
                /\ \A i, j \in 1 .. Cardinality(there) : i # j => s[i] # s[j]
           /\ \A s \in List!SetToSeqs(there) : s \in Seq(there) /\ Len(s) = Cardinality(there)
<1>1. Cardinality(there) \in Nat
  BY ClusterAssumption, FS_Subset, FS_CardinalityType DEF ListType
<1>2. List!Cardinality(there) = Cardinality(there)
  BY DEF List!Cardinality, Cardinality, List!IsFiniteSet, IsFiniteSet
<1>3. \A s : s \in List!SetToSeqs(there) <=>
        /\ s \in [1 .. Cardinality(there) -> there]
        /\ \A i, j \in 1 .. Cardinality(there) : i # j => s[i] # s[j]
  BY <1>2 DEF List!SetToSeqs
<1>4. \A s \in [1 .. Cardinality(there) -> there] : s \in Seq(there) /\ Len(s) = Cardinality(there)
  BY <1>1
<1> QED
  BY <1>1, <1>3, <1>4

\* What the backend lists is in order, and whatever is in order it may list.
LEMMA ListsInOrder ==
    ASSUME ListType
    PROVE  /\ \A l \in List!Lists : InOrder(rank, there, l)
           /\ \A l : InOrder(rank, there, l) => IdsOf(l) \in {[i \in DOMAIN m |-> m[i].id] : m \in List!Lists}
<1> DEFINE RowsOf(s) == [i \in DOMAIN s |-> [id |-> s[i], tags |-> tags[s[i]]]]
<1>1. \A s \in List!SetToSeqs(there) : IdsOf(RowsOf(s)) = s
  BY SeqsOfNotes DEF IdsOf
<1>2. \A l : l \in List!Lists <=> \E s \in List!SetToSeqs(there) : Ascends(rank, s) /\ l = RowsOf(s)
  BY DEF List!Lists, Ascends
<1>3. ASSUME NEW l \in List!Lists PROVE InOrder(rank, there, l)
  BY <1>1, <1>2 DEF InOrder
<1>4. ASSUME NEW l, InOrder(rank, there, l) PROVE IdsOf(l) \in {[i \in DOMAIN m |-> m[i].id] : m \in List!Lists}
  <2>1. IdsOf(l) \in List!SetToSeqs(there) /\ Ascends(rank, IdsOf(l))
    BY <1>4 DEF InOrder
  <2>2. RowsOf(IdsOf(l)) \in List!Lists
    BY <1>2, <2>1
  <2>3. IdsOf(l) = [i \in DOMAIN RowsOf(IdsOf(l)) |-> RowsOf(IdsOf(l))[i].id]
    BY <1>1, <2>1 DEF IdsOf
  <2> HIDE DEF RowsOf
  <2> QED
    BY <2>2, <2>3
<1> QED
  BY <1>3, <1>4

\* A row that is moved leaves a list of the same notes.
LEMMA DraggedIsRanking ==
    ASSUME ListType, NEW i \in 1 .. Len(list), NEW j \in 1 .. Len(list), IdsOf(list) \in List!SetToSeqs(there)
    PROVE  IdsOf(List!InsertAt(List!RemoveAt(list, i), j, list[i])) \in List!SetToSeqs(there)
<1> DEFINE t == List!InsertAt(List!RemoveAt(list, i), j, list[i])
           n == Len(list)
<1>1. /\ list \in Seq(List!Rows) /\ n \in Nat /\ t \in Seq(List!Rows) /\ Len(t) = n
      /\ \A k \in 1 .. n : t[k] = list[From(i, j, k)]
  BY MovedAt DEF ListType
<1> HIDE DEF t
<1>2. DOMAIN IdsOf(list) = 1 .. n /\ DOMAIN IdsOf(t) = 1 .. n
  BY <1>1 DEF IdsOf
<1>3. IdsOf(list) \in [1 .. Cardinality(there) -> there]
  BY SeqsOfNotes
<1>4. 1 .. Cardinality(there) = 1 .. n
  BY <1>2, <1>3
<1>5. /\ \A k \in 1 .. n : From(i, j, k) \in 1 .. n
      /\ \A k, m \in 1 .. n : From(i, j, k) = From(i, j, m) => k = m
  BY <1>1, FromPermutes
<1>6. \A k \in 1 .. n : IdsOf(t)[k] = IdsOf(list)[From(i, j, k)]
  BY <1>1, <1>5 DEF IdsOf
<1>7. \A k \in 1 .. n : IdsOf(list)[k] \in there
  BY <1>3, <1>4
<1>8. \A k, m \in 1 .. n : k # m => IdsOf(list)[k] # IdsOf(list)[m]
  BY <1>4, SeqsOfNotes
<1>9. IdsOf(t) = [k \in 1 .. n |-> IdsOf(t)[k]]
  BY <1>1 DEF IdsOf
<1> HIDE DEF n
<1>10. IdsOf(t) \in [1 .. n -> there]
  BY <1>5, <1>6, <1>7, <1>9
<1>11. \A k, m \in 1 .. n : k # m => IdsOf(t)[k] # IdsOf(t)[m]
  BY <1>5, <1>6, <1>8
<1> QED
  BY <1>4, <1>10, <1>11, SeqsOfNotes DEF t

\* ReorderHelper: notes that are given their places are in the order of these.
LEMMA PlacesAscend ==
    ASSUME ListType, NEW ids \in List!SetToSeqs(there), NEW r,
           r = [n \in ListedNotes |-> IF List!Contains(ids, n) THEN CHOOSE k \in DOMAIN ids : ids[k] = n ELSE rank[n]]
    PROVE  Ascends(r, ids)
<1> DEFINE N == Cardinality(there)
<1>1. /\ N \in Nat /\ ids \in [1 .. N -> there] /\ Len(ids) = N /\ there \subseteq ListedNotes
      /\ \A i, j \in 1 .. N : i # j => ids[i] # ids[j]
  BY SeqsOfNotes DEF ListType
<1> HIDE DEF N
<1>2. ASSUME NEW i \in 1 .. N PROVE r[ids[i]] = i
  <2>1. ids[i] \in ListedNotes /\ List!Contains(ids, ids[i])
    BY <1>1 DEF List!Contains
  <2>2. r[ids[i]] = CHOOSE k \in DOMAIN ids : ids[k] = ids[i]
    BY <2>1
  <2>3. \A k \in DOMAIN ids : ids[k] = ids[i] => k = i
    BY <1>1
  <2>4. (CHOOSE k \in DOMAIN ids : ids[k] = ids[i]) = i
    BY <1>1, <2>3
  <2> QED
    BY <2>2, <2>4
<1>3. ASSUME NEW i \in 1 .. Len(ids), NEW j \in 1 .. Len(ids), i < j PROVE r[ids[i]] <= r[ids[j]]
  <2>1. r[ids[i]] = i /\ r[ids[j]] = j
    BY <1>1, <1>2
  <2> QED
    BY <1>1, <1>3, <2>1
<1> QED
  BY <1>3 DEF Ascends

LEMMA OrderAtFirst == ASSUME List!Init PROVE OrderInv
BY ListFetches DEF List!Init, OrderInv, Abouts

\* The list, what is stored of it and the requests about it are as they were.
LEMMA OrderKept ==
    ASSUME OrderInv, UNCHANGED <<rank, there, list, listFetch>>, Abouts' = Abouts, listCrossed => listCrossed'
    PROVE  OrderInv'
BY DEF OrderInv, AtRest

LEMMA ListOrder ==
    ASSUME TagsInv, OrderInv, List!Read \/ List!Fetched
    PROVE  OrderInv'
<1>1. CASE List!Read
  <2>1. PICK l \in List!Lists : listFetch' = [at |-> "read", list |-> l]
    BY <1>1 DEF List!Read
  <2>2. /\ listFetch = List!Asked /\ UNCHANGED <<rank, there, list, listCalls>>
        /\ listCrossed' = (listCrossed /\ \E c \in listCalls : List!About(c))
    BY <1>1 DEF List!Read, List!Backend
  <2>3. InOrder(rank, there, l)
    BY ListsInOrder DEF TagsInv
  <2>4. Abouts' = Abouts
    BY <2>2 DEF Abouts
  <2>5. ~listCrossed' => ~listCrossed \/ Abouts = {}
    BY <2>2 DEF Abouts
  <2> QED
    BY <2>1, <2>2, <2>3, <2>4, <2>5, ListFetches DEF OrderInv, AtRest
<1>2. CASE List!Fetched
  <2>1. /\ listFetch.at = "read" /\ list' = listFetch.list /\ listFetch' = List!Idle
        /\ UNCHANGED <<rank, there, listCalls, listCrossed>>
    BY <1>2 DEF List!Fetched, List!Backend
  <2>2. Abouts' = Abouts
    BY <2>1 DEF Abouts
  <2> QED
    BY <2>1, <2>2, ListFetches DEF OrderInv, AtRest
<1> QED
  BY <1>1, <1>2

LEMMA SentOrder ==
    ASSUME TagsInv, OrderInv,
           \/ \E n \in ListedNotes : List!handleDelete(n)
           \/ \E i, j \in Int : List!handleDragEnd(i, j)
    PROVE  OrderInv'
<1>1. ASSUME NEW n \in ListedNotes, List!handleDelete(n) PROVE OrderInv'
  <2> DEFINE new == [for |-> "delete", n |-> listSent, got |-> "none", id |-> n]
  <2>1. /\ listCalls' = listCalls \cup {new} /\ listCrossed' = (listCrossed \/ Abouts # {})
        /\ UNCHANGED <<rank, there, list, listFetch>>
    BY <1>1 DEF List!handleDelete, List!Send, List!Backend, Abouts
  <2>2. new.for = "delete" /\ new.got = "none"
    OBVIOUS
  <2> HIDE DEF new
  <2>3. Abouts' = Abouts \cup {new}
    BY <2>1, <2>2 DEF Abouts, List!About
  <2> QED
    BY <2>1, <2>2, <2>3 DEF OrderInv, AtRest
<1>2. ASSUME NEW i \in Int, NEW j \in Int, List!handleDragEnd(i, j) PROVE OrderInv'
  <2> DEFINE reordered == List!InsertAt(List!RemoveAt(list, i), j, list[i])
             new == [for |-> "reorder", n |-> listSent, got |-> "none", previous |-> list,
                     ids |-> [k \in DOMAIN reordered |-> reordered[k].id]]
  <2>1. /\ list \in Seq(List!Rows) /\ i \in 1 .. Len(list) /\ j \in 1 .. Len(list)
        /\ list' = reordered /\ listCalls' = listCalls \cup {new}
        /\ listCrossed' = (listCrossed \/ listFetch # List!Idle \/ Abouts # {})
        /\ UNCHANGED <<rank, there, listFetch>>
    BY <1>2 DEF List!handleDragEnd, List!Send, List!Backend, Abouts, TagsInv, ListType
  <2>2. IdsOf(list) \in List!SetToSeqs(there) => IdsOf(reordered) \in List!SetToSeqs(there)
    BY <2>1, DraggedIsRanking DEF TagsInv
  <2> HIDE DEF reordered
  <2>3. new.for = "reorder" /\ new.got = "none" /\ new.previous = list /\ new.ids = IdsOf(reordered)
    BY DEF IdsOf
  <2> HIDE DEF new
  <2>4. Abouts' = Abouts \cup {new}
    BY <2>1, <2>3 DEF Abouts, List!About
  <2>5. SUFFICES ASSUME ~listCrossed' PROVE OrderInv'
    BY DEF OrderInv
  <2>6. ~listCrossed /\ listFetch = List!Idle /\ Abouts = {}
    BY <2>1, <2>5
  <2>7. InOrder(rank, there, list)
    BY <2>6 DEF OrderInv, AtRest
  <2>8. new.ids = IdsOf(list') /\ new.ids \in List!SetToSeqs(there)
    BY <2>1, <2>2, <2>3, <2>7 DEF InOrder
  <2>9. Abouts' = {new}
    BY <2>4, <2>6
  <2> QED
    BY <2>1, <2>3, <2>6, <2>7, <2>8, <2>9 DEF OrderInv, AtRest
<1> QED
  BY <1>1, <1>2

LEMMA CommittedOrder == ASSUME TagsInv, OrderInv, NEW c \in listCalls, List!Commit(c) PROVE OrderInv'
<1>1. c \in Abouts /\ c.got = "none" /\ UNCHANGED <<list, listFetch>> /\ (listCrossed => listCrossed')
  BY DEF List!Commit, Abouts
<1>a. SUFFICES ASSUME ~listCrossed' PROVE OrderInv'
  BY DEF OrderInv
<1>2. c \in Deletions \cup Drags
  BY <1>1, CallsOfTags DEF Abouts, TagsInv, ListType
<1>3. PICK g \in {"ok", "failed"} :
        /\ listCalls' = (listCalls \ {c}) \cup {[c EXCEPT !.got = g]}
        /\ g = "failed" \/ c.for = "reorder" => there' = there
        /\ g = "failed" \/ c.for = "delete" => rank' = rank
        /\ g = "ok" /\ c.for = "reorder" =>
             rank' = [n \in ListedNotes |-> IF List!Contains(c.ids, n) THEN CHOOSE k \in DOMAIN c.ids : c.ids[k] = n
                                            ELSE rank[n]]
  BY <1>a DEF List!Commit, List!Outcome
<1>4. PICK d : d = [c EXCEPT !.got = g]
  OBVIOUS
<1>5. /\ d.for = c.for /\ d.got = g
      /\ c.for = "reorder" => d.ids = c.ids /\ d.previous = c.previous
  BY <1>2, <1>4 DEF Deletions, Drags
<1>6. Abouts' = (Abouts \ {c}) \cup {d} /\ c.for \in {"delete", "reorder"}
  BY <1>1, <1>3, <1>4, <1>5 DEF Abouts, List!About
<1>7. ~listCrossed
  BY <1>1, <1>a
<1>8. Abouts' = {d}
  BY <1>1, <1>6, <1>7 DEF OrderInv
<1>9. CASE c.for = "delete"
  <2>1. CASE g = "ok"
    BY <1>5, <1>8, <1>9, <2>1 DEF OrderInv, AtRest
  <2>2. CASE g = "failed"
    <3>1. AtRest
      BY <1>1, <1>6, <1>7, <1>9 DEF OrderInv, AtRest
    <3> QED
      BY <1>1, <1>3, <1>5, <1>7, <1>8, <1>9, <2>2, <3>1 DEF OrderInv, AtRest
  <2> QED
    BY <2>1, <2>2
<1>10. CASE c.for = "reorder"
  <2>1. /\ listFetch = List!Idle /\ c.ids = IdsOf(list) /\ c.ids \in List!SetToSeqs(there)
        /\ InOrder(rank, there, c.previous)
    BY <1>1, <1>7, <1>10 DEF OrderInv
  <2>2. IF d.got = "ok" THEN Ascends(rank', d.ids) ELSE InOrder(rank', there', d.previous)
    <3>1. CASE g = "ok"
      BY <1>3, <1>5, <1>10, <2>1, <3>1, PlacesAscend DEF TagsInv
    <3>2. CASE g = "failed"
      BY <1>3, <1>5, <1>10, <2>1, <3>2
    <3> QED
      BY <3>1, <3>2
  <2>3. there' = there
    BY <1>3, <1>10
  <2> QED
    BY <1>1, <1>5, <1>8, <1>10, <2>1, <2>2, <2>3 DEF OrderInv, AtRest
<1> QED
  BY <1>6, <1>9, <1>10

LEMMA AnsweredOrder ==
    ASSUME TagsInv, OrderInv, NEW c \in listCalls, List!Deleted(c) \/ List!Reordered(c)
    PROVE  OrderInv'
<1>1. /\ c \in Abouts /\ c.got # "none" /\ listCalls' = listCalls \ {c} /\ UNCHANGED <<rank, there>>
      /\ listCrossed => listCrossed'
  <2>1. CASE List!Deleted(c)
    BY <2>1 DEF List!Deleted, List!Backend, Abouts, List!About
  <2>2. CASE List!Reordered(c)
    BY <2>2 DEF List!Reordered, List!Backend, Abouts, List!About
  <2> QED
    BY <2>1, <2>2
<1>2. Abouts' = Abouts \ {c}
  BY <1>1 DEF Abouts
<1>3. SUFFICES ASSUME ~listCrossed' PROVE OrderInv'
  BY DEF OrderInv
<1>4. Abouts' = {} /\ Abouts = {c} /\ ~listCrossed
  BY <1>1, <1>2, <1>3 DEF OrderInv
<1>5. CASE List!Deleted(c)
  <2>1. c.for = "delete" /\ list' = list /\ listFetch' = IF c.got = "ok" THEN List!Asked ELSE listFetch
    BY <1>5 DEF List!Deleted
  <2> QED
    BY <1>1, <1>4, <2>1, ListFetches DEF OrderInv, AtRest
<1>6. CASE List!Reordered(c)
  <2>1. /\ c.for = "reorder" /\ listFetch' = listFetch
        /\ list' = IF c.got = "failed" THEN c.previous ELSE list
    BY <1>6 DEF List!Reordered
  <2>2. c.got \in {"ok", "failed"}
    BY <1>1, <2>1, CallsOfTags DEF Abouts, TagsInv, ListType, Drags, Deletions, Answer, TagCalls
  <2>3. InOrder(rank, there, list') /\ listFetch = List!Idle
    BY <1>4, <2>1, <2>2 DEF OrderInv, InOrder
  <2> QED
    BY <1>1, <1>4, <2>1, <2>3, ListFetches DEF OrderInv, AtRest
<1> QED
  BY <1>5, <1>6

\* What is done about tags leaves the list alone.
LEMMA TagsLeaveOrder ==
    ASSUME TagsInv, OrderInv,
           \/ \E n \in ListedNotes, tag \in List!Tags, for \in {"add", "remove", "create"} : List!Change(n, for, tag)
           \/ \E c \in listCalls : List!CommitTag(c) \/ List!onTagsChange(c)
    PROVE  OrderInv'
<1>1. ASSUME NEW n \in ListedNotes, NEW tag \in List!Tags, NEW for \in {"add", "remove", "create"}, List!Change(n, for, tag)
      PROVE  OrderInv'
  <2> DEFINE new == [for |-> for, n |-> listSent, got |-> "none", id |-> n, tag |-> tag,
                     shown |-> List!getTagsForNeuron(n)]
  <2>1. listCalls' = listCalls \cup {new} /\ UNCHANGED <<rank, there, list, listFetch, listCrossed>>
    BY <1>1 DEF List!Change, List!Send, List!Backend
  <2>2. new.for = for
    OBVIOUS
  <2> HIDE DEF new
  <2>3. Abouts' = Abouts
    BY <2>1, <2>2 DEF Abouts, List!About
  <2> QED
    BY <2>1, <2>3, OrderKept
<1>2. ASSUME NEW c \in listCalls, List!CommitTag(c) \/ List!onTagsChange(c) PROVE OrderInv'
  <2>1. c \in TagCalls /\ ~List!About(c)
    BY <1>2, CallsOfTags DEF List!CommitTag, List!onTagsChange, TagsInv, ListType
  <2>2. PICK g \in {"ok", "failed"} :
          /\ \/ listCalls' = (listCalls \ {c}) \cup {[c EXCEPT !.got = g]}
             \/ listCalls' = (listCalls \ {c}) \cup {[c EXCEPT !.for = "add", !.got = "none"]}
             \/ listCalls' = listCalls \ {c}
          /\ UNCHANGED <<rank, there, list, listFetch, listCrossed>>
    BY <1>2 DEF List!CommitTag, List!Outcome, List!onTagsChange, List!Backend
  <2>3. ~List!About([c EXCEPT !.got = g]) /\ ~List!About([c EXCEPT !.for = "add", !.got = "none"])
    BY <2>1 DEF TagCalls, List!About
  <2>4. Abouts' = Abouts
    BY <2>1, <2>2, <2>3 DEF Abouts
  <2> QED
    BY <2>2, <2>4, OrderKept
<1> QED
  BY <1>1, <1>2

LEMMA OrderInvStep == ASSUME TagsInv, OrderInv, [List!Next]_listVars PROVE OrderInv'
<1>1. CASE List!Read \/ List!Fetched
  BY <1>1, ListOrder
<1>2. ASSUME NEW n \in ListedNotes, List!handleDelete(n) PROVE OrderInv'
  BY <1>2, SentOrder
<1>3. ASSUME NEW i \in 1 .. List!Cardinality(ListedNotes), NEW j \in 1 .. List!Cardinality(ListedNotes),
             List!handleDragEnd(i, j)
      PROVE  OrderInv'
  <2>1. i \in Int /\ j \in Int
    BY <1>3
  <2> QED
    BY <1>3, <2>1, SentOrder
<1>4. ASSUME NEW n \in ListedNotes, NEW tag \in List!Tags,
             List!handleToggleTag(n, tag) \/ List!handleRemoveTag(n, tag) \/ List!handleCreateTag(n, tag)
      PROVE  OrderInv'
  <2>1. PICK for \in {"add", "remove", "create"} : List!Change(n, for, tag)
    BY <1>4 DEF List!handleToggleTag, List!handleRemoveTag, List!handleCreateTag
  <2> QED
    BY <2>1, TagsLeaveOrder
<1>5. ASSUME NEW c \in listCalls,
             List!Commit(c) \/ List!Deleted(c) \/ List!Reordered(c) \/ List!CommitTag(c) \/ List!onTagsChange(c)
      PROVE  OrderInv'
  BY <1>5, CommittedOrder, AnsweredOrder, TagsLeaveOrder
<1>6. CASE UNCHANGED listVars
  <2>1. UNCHANGED <<rank, there, list, listFetch, listCalls, listCrossed>>
    BY <1>6 DEF listVars
  <2>2. Abouts' = Abouts
    BY <2>1 DEF Abouts
  <2> QED
    BY <2>1, <2>2, OrderKept
<1> QED
  BY <1>1, <1>2, <1>3, <1>4, <1>5, <1>6 DEF List!Next

\* The page of a cluster: after drags and deletions, done or refused as a whole, that waited for each other and for
\* the list, it has the stored notes in the stored order, for any number of notes and requests.  Set aside, until
\* the list is read again, are a drag that met another one, a deletion or a fetch, and an applied request whose
\* answer was lost.
THEOREM OrderIsCurrent == Spec => []OrderFollows
<1>1. Init => TagsInv /\ OrderInv
  BY TagsAtFirst, OrderAtFirst DEF Init
<1>2. TagsInv /\ OrderInv /\ [Next]_vars => TagsInv' /\ OrderInv'
  BY TagsInvStep, OrderInvStep, PageSteps
<1>3. TagsInv /\ OrderInv => OrderFollows
  <2>1. SUFFICES ASSUME TagsInv, OrderInv, listCalls = {}, listFetch = List!Idle, ~listCrossed
                 PROVE  IdsOf(list) \in {[i \in DOMAIN l |-> l[i].id] : l \in List!Lists}
    BY DEF OrderFollows, List!OrderFollows, IdsOf
  <2>2. InOrder(rank, there, list)
    BY <2>1 DEF OrderInv, AtRest, Abouts
  <2> QED
    BY <2>1, <2>2, ListsInOrder DEF TagsInv
<1> QED
  BY <1>1, <1>2, <1>3, PTL DEF Spec

-----------------------------------------------------------------------------
(* Types of the page of a cluster: what the invariant of the tags leaves.  *)

ListCounts == listSent \in 0 .. MaxCalls /\ listCrossed \in BOOLEAN /\ mixed \subseteq ListedNotes
ListRows == rank \in [ListedNotes -> Nat] /\ allTags \subseteq List!Tags
ListTypes == ListRows /\ ListCounts

LEMMA ListTypesAtFirst == ASSUME List!Init PROVE ListTypes
<1>1. 0 \in 0 .. MaxCalls
  BY BoundsAssumption
<1> QED
  BY <1>1 DEF List!Init, ListTypes, ListRows, ListCounts, List!Tags

LEMMA ListTypesOK == ASSUME TagsInv, ListTypes PROVE List!TypeOK
<1>1. \A i \in DOMAIN list : list[i] \in List!Rows
  <2>1. list \in Seq(List!Rows)
    BY DEF TagsInv, ListType
  <2>2. \A i \in 1 .. Len(list) : list[i] \in List!Rows
    BY <2>1, ElementOfSeq
  <2> QED
    BY <2>1, <2>2
<1>2. listFetch.at \in {"idle", "asked", "read"}
  BY ListFetches DEF TagsInv, ListType
<1>3. \A n \in ListedNotes : override[n] = List!NoTags \/ override[n] \subseteq List!Tags
  BY DEF TagsInv, ListType
<1> QED
  BY <1>1, <1>2, <1>3 DEF TagsInv, ListType, ListTypes, ListRows, ListCounts, List!TypeOK

LEMMA ListTypesStep == ASSUME TagsInv, ListTypes, [List!Next]_listVars PROVE ListTypes'
<1> USE DEF ListTypes
<1>1. ASSUME List!Read \/ List!Fetched PROVE ListTypes'
  BY <1>1 DEF List!Read, List!Fetched, List!Backend, ListRows, ListCounts
<1>2. ASSUME NEW c, List!Send(c), listCrossed' \in BOOLEAN, mixed' \subseteq ListedNotes PROVE ListTypes'
  <2>1. listSent < MaxCalls /\ listSent' = listSent + 1 /\ UNCHANGED <<rank, allTags>>
    BY <1>2 DEF List!Send, List!Backend
  <2>2. listSent' \in 0 .. MaxCalls
    BY <2>1, BoundsAssumption DEF ListCounts
  <2> QED
    BY <1>2, <2>1, <2>2 DEF ListRows, ListCounts
<1>3. ASSUME NEW n \in ListedNotes, List!handleDelete(n) PROVE ListTypes'
  <2>1. mixed' = mixed /\ listCrossed' \in BOOLEAN
    BY <1>3 DEF List!handleDelete
  <2>2. \E c : List!Send(c)
    BY <1>3 DEF List!handleDelete
  <2> QED
    BY <1>2, <2>1, <2>2 DEF ListCounts
<1>4. ASSUME NEW i, NEW j, List!handleDragEnd(i, j) PROVE ListTypes'
  <2>1. mixed' = mixed /\ listCrossed' \in BOOLEAN
    BY <1>4 DEF List!handleDragEnd
  <2>2. \E c : List!Send(c)
    BY <1>4 DEF List!handleDragEnd
  <2> QED
    BY <1>2, <2>1, <2>2 DEF ListCounts
<1>5. ASSUME NEW n \in ListedNotes, NEW tag \in List!Tags,
             List!handleToggleTag(n, tag) \/ List!handleRemoveTag(n, tag) \/ List!handleCreateTag(n, tag)
      PROVE  ListTypes'
  <2>1. PICK for : List!Change(n, for, tag)
    BY <1>5 DEF List!handleToggleTag, List!handleRemoveTag, List!handleCreateTag
  <2>2. mixed' \in {mixed, mixed \cup {n}} /\ listCrossed' = listCrossed
    BY <2>1 DEF List!Change
  <2>3. \E c : List!Send(c)
    BY <2>1 DEF List!Change
  <2> QED
    BY <1>2, <2>2, <2>3 DEF ListCounts
<1>6. ASSUME NEW c \in listCalls, List!Commit(c) PROVE ListTypes'
  <2>1. UNCHANGED <<allTags, listSent, mixed>> /\ listCrossed' \in {listCrossed, TRUE}
    BY <1>6 DEF List!Commit
  <2>2. rank' \in [ListedNotes -> Nat]
    <3>1. CASE rank' = rank
      BY <3>1 DEF ListRows
    <3>2. CASE /\ c.for # "delete"
               /\ rank' = [n \in ListedNotes |-> IF List!Contains(c.ids, n) THEN CHOOSE k \in DOMAIN c.ids : c.ids[k] = n ELSE rank[n]]
      <4>1. c \in Drags
        BY <1>6, <3>2, CallsOfTags DEF List!Commit, TagsInv, ListType, Deletions
      <4>2. DOMAIN c.ids = 1 .. Len(c.ids) /\ Len(c.ids) \in Nat
        BY <4>1 DEF Drags
      <4>3. ASSUME NEW n \in ListedNotes, List!Contains(c.ids, n) PROVE (CHOOSE k \in DOMAIN c.ids : c.ids[k] = n) \in Nat
        <5>1. \E k \in DOMAIN c.ids : c.ids[k] = n
          BY <4>2, <4>3 DEF List!Contains
        <5>2. (CHOOSE k \in DOMAIN c.ids : c.ids[k] = n) \in DOMAIN c.ids
          BY <5>1
        <5> QED
          BY <4>2, <5>2
      <4> QED
        BY <3>2, <4>3 DEF ListRows
    <3> QED
      BY <1>6, <3>1, <3>2 DEF List!Commit
  <2> QED
    BY <2>1, <2>2 DEF ListRows, ListCounts
<1>7. ASSUME NEW c \in listCalls, List!Deleted(c) \/ List!Reordered(c) \/ List!onTagsChange(c) PROVE ListTypes'
  BY <1>7 DEF List!Deleted, List!Reordered, List!onTagsChange, List!Backend, ListRows, ListCounts
<1>8. ASSUME NEW c \in listCalls, List!CommitTag(c) PROVE ListTypes'
  <2>1. c \in TagCalls /\ c.tag \in List!Tags /\ c.id \in ListedNotes
    BY <1>8, CallsOfTags DEF List!CommitTag, TagsInv, ListType, TagCalls
  <2>2. UNCHANGED <<rank, listSent, listCrossed>> /\ mixed' \in {mixed, mixed \cup {c.id}}
    BY <1>8 DEF List!CommitTag
  <2>3. ListCounts'
    BY <2>1, <2>2 DEF ListCounts
  <2>4. ListRows'
    BY <1>8, <2>1 DEF List!CommitTag, ListRows
  <2> QED
    BY <2>3, <2>4
<1>9. CASE UNCHANGED listVars
  BY <1>9 DEF listVars, ListRows, ListCounts
<1> QED
  BY <1>1, <1>3, <1>4, <1>5, <1>6, <1>7, <1>8, <1>9 DEF List!Next

-----------------------------------------------------------------------------
(* Types of the page of a project.                                         *)

\* Commands that change the files and were not served: each of them may make a revision.
Revising == {c \in commands : c.op \in {"pull", "checkout"} /\ c.at = "sent"}
ProjectCounts ==
    /\ IsFiniteSet(commands) /\ rev \in Nat /\ rev + Cardinality(Revising) <= MaxRevs
    /\ clones \in 0 .. MaxClones
    /\ \A c \in commands : c.op = "provision" /\ c.at = "sent" => clones < MaxClones
ProjectCache ==
    /\ status \in Project!Boxes \cup {"unknown"}
    /\ content \in [Files -> Project!NotLoaded .. MaxRevs] /\ stale \subseteq Files
    /\ reading \in [Files -> Project!Asked .. MaxRevs]
ProjectPath == file \in Files \cup {Project!Folder, Project!None} /\ fileCrossed \subseteq Files \cup {"status"}
ProjectTypes == ProjectCounts /\ ProjectCache /\ ProjectPath

Commands == [op: Project!Ops, at: {"sent", "removing", "done", "refused"}]

LEMMA ProjectCardinality == \A S : Project!Cardinality(S) = Cardinality(S)
BY DEF Project!Cardinality, Cardinality, Project!IsFiniteSet, IsFiniteSet

LEMMA ProjectChanges ==
    ASSUME ProjectCounts
    PROVE  Cardinality(Revising) \in Nat /\ rev <= MaxRevs /\ IsFiniteSet(Revising)
<1>1. IsFiniteSet(Revising)
  BY FS_Subset DEF ProjectCounts, Revising
<1>2. Cardinality(Revising) \in Nat
  BY <1>1, FS_CardinalityType
<1> QED
  BY <1>1, <1>2, BoundsAssumption DEF ProjectCounts

LEMMA ProjectTypesAtFirst == ASSUME Project!Init PROVE ProjectTypes
<1>1. commands = {} /\ rev = 0 /\ clones = 0 /\ Revising = {}
  BY DEF Project!Init, Revising
<1>2. IsFiniteSet({}) /\ Cardinality({}) = 0
  BY FS_EmptySet
<1>3. ProjectCounts
  BY <1>1, <1>2, BoundsAssumption DEF ProjectCounts
<1>4. ProjectCache /\ ProjectPath
  BY BoundsAssumption
     DEF Project!Init, ProjectCache, ProjectPath, Project!NotLoaded, Project!Asked, Project!Idle, Project!Folder, Project!None
<1> QED
  BY <1>3, <1>4 DEF ProjectTypes

LEMMA ProjectTypesOK == ASSUME StatusInv, ProjectTypes PROVE Project!TypeOK
<1>1. rev \in 0 .. MaxRevs
  BY ProjectChanges DEF ProjectTypes, ProjectCounts
<1> QED
  BY <1>1 DEF StatusInv, ProjectTypes, ProjectCounts, ProjectCache, ProjectPath, Project!TypeOK

\* A command is sent, moves on, or ends; a revision is made by one that was counted.
LEMMA ProjectCountsSend ==
    ASSUME StatusInv, ProjectCounts, NEW op \in Project!Ops, Project!Send(op)
    PROVE  ProjectCounts'
<1> DEFINE c == [op |-> op, at |-> "sent"]
           all == {d \in commands : d.op \in {"pull", "checkout"}}
<1>1. commands' = commands \cup {c} /\ UNCHANGED <<rev, clones>>
      /\ (op = "provision" => clones < MaxClones)
      /\ (op \in {"pull", "checkout"} => rev + Cardinality(all) < MaxRevs)
  <2>1. op = "provision" => clones < MaxClones
    BY DEF Project!Send, Project!Offered
  <2> QED
    BY <2>1, ProjectCardinality DEF Project!Send, Project!Server
<1>2. c.op = op /\ c.at = "sent"
  OBVIOUS
<1> HIDE DEF c
<1>3. IsFiniteSet(all) /\ IsFiniteSet(commands') /\ Revising \subseteq all
  BY <1>1, FS_Subset, FS_AddElement DEF ProjectCounts, Revising
<1>4. Cardinality(Revising) <= Cardinality(all) /\ Cardinality(all) \in Nat /\ Cardinality(Revising) \in Nat
  BY <1>3, FS_Subset, FS_CardinalityType
<1> HIDE DEF all
<1>5. rev' + Cardinality(Revising') <= MaxRevs
  <2>1. CASE op \in {"pull", "checkout"}
    <3>1. Revising' = Revising \cup {c}
      BY <1>1, <1>2, <2>1 DEF Revising
    <3>2. Cardinality(Revising') \in {Cardinality(Revising), Cardinality(Revising) + 1}
      BY <3>1, ProjectChanges, FS_AddElement
    <3> QED
      BY <1>1, <1>4, <2>1, <3>2, BoundsAssumption DEF ProjectCounts
  <2>2. CASE op \notin {"pull", "checkout"}
    <3>1. Revising' = Revising
      BY <1>1, <1>2, <2>2 DEF Revising
    <3> QED
      BY <1>1, <3>1 DEF ProjectCounts
  <2> QED
    BY <2>1, <2>2
<1> QED
  BY <1>1, <1>2, <1>3, <1>5 DEF ProjectCounts

LEMMA ProjectCountsAnswer ==
    ASSUME StatusInv, ProjectCounts, NEW c \in commands, NEW at \in {"removing", "done", "refused"},
           Project!Answer(c, at), UNCHANGED <<rev, clones>> \/ Project!Change(c) \/ Project!Provide(c)
    PROVE  ProjectCounts'
<1> DEFINE d == [c EXCEPT !.at = at]
<1>1. commands' = (commands \ {c}) \cup {d} /\ c \in Commands /\ commands \subseteq Commands
  BY DEF Project!Answer, StatusInv, Commands
<1>2. d.op = c.op /\ d.at = at
  BY <1>1 DEF Commands
<1> HIDE DEF d
<1>3. IsFiniteSet(commands')
  BY <1>1, FS_AddElement, FS_RemoveElement DEF ProjectCounts
<1>4. Revising' = Revising \ {c}
  BY <1>1, <1>2 DEF Revising
<1>5. /\ Cardinality(Revising \ {c}) = IF c \in Revising THEN Cardinality(Revising) - 1 ELSE Cardinality(Revising)
      /\ Cardinality(Revising) \in Nat
  BY ProjectChanges, FS_RemoveElement
<1>6. CASE UNCHANGED <<rev, clones>>
  <2>1. rev' + Cardinality(Revising') <= MaxRevs
    BY <1>4, <1>5, <1>6, BoundsAssumption DEF ProjectCounts
  <2> QED
    BY <1>1, <1>2, <1>3, <1>6, <2>1 DEF ProjectCounts
<1>7. CASE Project!Change(c)
  <2>1. rev' = rev + 1 /\ clones' = clones /\ c \in Revising
    BY <1>7 DEF Project!Change, Revising
  <2>2. rev' + Cardinality(Revising') <= MaxRevs
    BY <1>4, <1>5, <2>1, BoundsAssumption DEF ProjectCounts
  <2> QED
    BY <1>1, <1>2, <1>3, <2>1, <2>2 DEF ProjectCounts
<1>8. CASE Project!Provide(c)
  <2>1. rev' = rev /\ clones' = clones + 1 /\ c.op = "provision" /\ c.at = "sent"
    BY <1>8 DEF Project!Provide
  <2>2. rev' + Cardinality(Revising') <= MaxRevs
    BY <1>4, <1>5, <2>1, BoundsAssumption DEF ProjectCounts
  <2>3. clones' \in 0 .. MaxClones
    BY <2>1, BoundsAssumption DEF ProjectCounts
  <2>4. ASSUME NEW e \in commands' PROVE ~(e.op = "provision" /\ e.at = "sent")
    <3>1. CASE e = d
      BY <1>2, <3>1
    <3>2. CASE e \in commands \ {c}
      BY <1>1, <2>1, <3>2 DEF Commands
    <3> QED
      BY <1>1, <3>1, <3>2
  <2> QED
    BY <1>3, <2>1, <2>2, <2>3, <2>4 DEF ProjectCounts
<1> QED
  BY <1>6, <1>7, <1>8

LEMMA ProjectCountsEnd ==
    ASSUME ProjectCounts, NEW c, commands' = commands \ {c}, UNCHANGED <<rev, clones>>
    PROVE  ProjectCounts'
<1>1. Revising' = Revising \ {c} /\ IsFiniteSet(commands')
  BY FS_RemoveElement DEF Revising, ProjectCounts
<1>2. Cardinality(Revising') <= Cardinality(Revising) /\ Cardinality(Revising') \in Nat /\ Cardinality(Revising) \in Nat
  BY <1>1, ProjectChanges, FS_Subset, FS_CardinalityType
<1> QED
  BY <1>1, <1>2, BoundsAssumption DEF ProjectCounts

\* What is asked for is not read yet.
LEMMA ProjectShows ==
    ASSUME ProjectTypes, NEW s \in Project!Boxes \cup {"unknown"}, NEW p \in Files \cup {Project!Folder, Project!None},
           Project!Show(s, p), UNCHANGED <<rev, clones, content, stale, commands, fileCrossed>>
    PROVE  ProjectTypes'
<1>1. ProjectCounts'
  BY DEF ProjectTypes, ProjectCounts, Revising
<1>2. Project!Asked \in Project!Asked .. MaxRevs
  BY BoundsAssumption DEF Project!Asked
<1>3. reading' \in [Files -> Project!Asked .. MaxRevs]
  BY <1>2 DEF ProjectTypes, ProjectCache, Project!Show
<1> QED
  BY <1>1, <1>3 DEF ProjectTypes, ProjectCache, ProjectPath, Project!Show

LEMMA ProjectTypesStep ==
    ASSUME StatusInv, ProjectTypes, [Project!Next]_projectVars
    PROVE  ProjectTypes'
<1> USE DEF ProjectTypes
<1>1. CASE Project!StatusRead \/ Project!refetchInterval \/ Project!CloneEnds
  BY <1>1 DEF Project!StatusRead, Project!refetchInterval, Project!CloneEnds, Project!Server, Project!Cached,
              ProjectCounts, ProjectCache, ProjectPath, Revising
<1>2. CASE Project!StatusFetched
  BY <1>2, ProjectShows DEF Project!StatusFetched, Project!Server, ProjectPath
<1>3. ASSUME NEW p \in Files \cup {Project!Folder}, Project!Select(p) PROVE ProjectTypes'
  BY <1>3, ProjectShows DEF Project!Select, Project!Server, ProjectCache
<1>4. ASSUME NEW f \in Files, Project!FileRead(f) \/ Project!FileFetched(f) \/ Project!FileRefused(f)
      PROVE  ProjectTypes'
  <2>1. UNCHANGED <<rev, clones, status, commands, file>>
    BY <1>4 DEF Project!FileRead, Project!FileFetched, Project!FileRefused, Project!Server
  <2>2. ProjectCounts'
    BY <2>1 DEF ProjectCounts, Revising
  <2>3. rev \in Project!Asked .. MaxRevs /\ Project!Idle \in Project!Asked .. MaxRevs
    BY ProjectChanges, BoundsAssumption DEF ProjectCounts, Project!Asked, Project!Idle
  <2>4. reading[f] \in Project!Asked .. MaxRevs
    BY DEF ProjectCache
  <2>5. CASE Project!FileRead(f)
    BY <2>1, <2>2, <2>3, <2>5 DEF Project!FileRead, ProjectCache, ProjectPath
  <2>6. CASE Project!FileFetched(f)
    <3>1. reading[f] \in Project!NotLoaded .. MaxRevs
      BY <2>4, <2>6, BoundsAssumption DEF Project!FileFetched, Project!NotLoaded, Project!Asked
    <3> QED
      BY <2>1, <2>2, <2>3, <2>6, <3>1 DEF Project!FileFetched, ProjectCache, ProjectPath
  <2>7. CASE Project!FileRefused(f)
    BY <2>1, <2>2, <2>3, <2>7 DEF Project!FileRefused, ProjectCache, ProjectPath
  <2> QED
    BY <1>4, <2>5, <2>6, <2>7
<1>5. ASSUME NEW op \in Project!Ops, Project!Send(op) PROVE ProjectTypes'
  BY <1>5, ProjectCountsSend DEF Project!Send, Project!Server, Project!Cached, ProjectCache, ProjectPath
<1>6. ASSUME NEW c \in commands, NEW at \in {"removing", "done", "refused"}, Project!Answer(c, at),
             UNCHANGED <<rev, clones>> \/ Project!Change(c) \/ Project!Provide(c),
             UNCHANGED <<Project!Cached, file>>, fileCrossed' \subseteq Files \cup {"status"}
      PROVE  ProjectTypes'
  BY <1>6, ProjectCountsAnswer DEF Project!Cached, ProjectCache, ProjectPath
<1>7. ASSUME NEW c \in commands, Project!Refuse(c) \/ Project!BeginTerminate(c) \/ Project!EndTerminate(c)
      PROVE  ProjectTypes'
  BY <1>6, <1>7 DEF Project!Refuse, Project!BeginTerminate, Project!EndTerminate, Project!Server, ProjectPath
<1>8. ASSUME NEW c \in commands, Project!Change(c) \/ Project!Provide(c) PROVE ProjectTypes'
  <2>1. Project!Answer(c, "done") /\ UNCHANGED <<Project!Cached, file>>
    BY <1>8 DEF Project!Change, Project!Provide
  <2>2. fileCrossed' \in {fileCrossed, fileCrossed \cup {"status"}}
    BY <1>8 DEF Project!Change, Project!Provide
  <2> QED
    BY <1>6, <1>8, <2>1, <2>2 DEF ProjectPath
<1>9. ASSUME NEW c \in commands, Project!Answered(c) PROVE ProjectTypes'
  <2>1. commands' = commands \ {c} /\ UNCHANGED <<rev, clones, content, file>>
    BY <1>9 DEF Project!Answered, Project!Server
  <2>2. status' \in Project!Boxes \cup {"unknown"}
    BY <1>9 DEF Project!Answered, ProjectCache, Project!Boxes
  <2>3. Project!Asked \in Project!Asked .. MaxRevs
    BY BoundsAssumption DEF Project!Asked
  <2>4. /\ reading' \in [Files -> Project!Asked .. MaxRevs] /\ stale' \subseteq Files
        /\ fileCrossed' \subseteq Files \cup {"status"}
    BY <1>9, <2>3 DEF Project!Answered, Project!invalidateSandboxQueries, ProjectCache, ProjectPath
  <2> QED
    BY <2>1, <2>2, <2>4, ProjectCountsEnd DEF ProjectCache, ProjectPath
<1>10. ASSUME NEW c \in commands, Project!Throws(c) PROVE ProjectTypes'
  <2>1. commands' = commands \ {c} /\ UNCHANGED <<rev, clones, status, content, stale, reading, file>>
        /\ fileCrossed' \subseteq fileCrossed \cup Files \cup {"status"}
    BY <1>10 DEF Project!Throws, Project!Server, Project!Cached
  <2> QED
    BY <2>1, ProjectCountsEnd DEF ProjectCache, ProjectPath
<1>11. CASE UNCHANGED projectVars
  BY <1>11 DEF projectVars, ProjectCounts, ProjectCache, ProjectPath, Revising
<1> QED
  BY <1>1, <1>2, <1>3, <1>4, <1>5, <1>7, <1>8, <1>9, <1>10, <1>11
     DEF Project!Next, Project!handleProvision, Project!handlePull, Project!handleSelectBranch, Project!handleTerminate,
         Project!handleSelectFile, Project!handleSelectFolder, Project!Ops

-----------------------------------------------------------------------------
(* Types of the panel of notes.                                            *)

\* What is selected is a path of the repository; what is shown of it is a file.
PanelPlaces ==
    /\ path \in Panel!Paths \cup {Panel!None} /\ kind \in {Panel!None, "file", "directory"}
    /\ kind # Panel!None => path \in Panel!Paths
    /\ shown \in Files \cup {Panel!None} /\ selection \in Files \cup {Panel!None} /\ line \in Files \cup {Panel!None}
    /\ active \in BOOLEAN /\ strayed \in BOOLEAN
PanelWork ==
    /\ lookup \in Files \cup {Panel!None} /\ finder \in {Panel!None, "quick", "line"}
    /\ panel \in [tab: {"file", "cluster"}, note: Panel!Notes \cup {Panel!NoNote}]
    /\ newNote \in Panel!Notes \cup {Panel!NoNote} /\ notes \subseteq Panel!Notes
PanelTypes == PanelPlaces /\ PanelWork

LEMMA PanelTypesAtFirst == ASSUME Panel!Init PROVE PanelTypes
BY DEF Panel!Init, PanelTypes, PanelPlaces, PanelWork, Panel!NoPanel, Panel!None

LEMMA PanelTypesOK == ASSUME PanelTypes PROVE Panel!TypeOK
BY DEF PanelTypes, PanelPlaces, PanelWork, Panel!TypeOK

LEMMA PanelSelects ==
    ASSUME PanelPlaces, NEW p \in Panel!Paths, NEW k \in {"file", "directory"}, Panel!Select(p, k), active' = active
    PROVE  PanelPlaces'
BY DEF PanelPlaces, Panel!Select, Panel!None

LEMMA PanelNavigates ==
    ASSUME PanelPlaces, NEW p \in Panel!Paths, Panel!handleNavigateToAnchor(p), active' = active
    PROVE  PanelPlaces'
BY PanelSelects DEF Panel!handleNavigateToAnchor, Panel!handleSelectFile, Panel!handleSelectFolder

LEMMA PanelTypesStep == ASSUME PanelTypes, [Panel!Next]_panelVars PROVE PanelTypes'
<1> USE DEF PanelTypes
<1>1. ASSUME NEW p \in Panel!Paths, Panel!ClickRow(p) PROVE PanelTypes'
  BY <1>1, PanelSelects DEF Panel!ClickRow, Panel!handleSelectFile, Panel!handleSelectFolder, Panel!Work, PanelWork
<1>2. ASSUME NEW f \in Files, Panel!DefinitionFound(f) PROVE PanelTypes'
  <2>1. f \in Panel!Paths
    BY DEF Panel!Paths
  <2> QED
    BY <1>2, <2>1 DEF Panel!DefinitionFound, PanelPlaces, PanelWork
<1>3. ASSUME NEW f \in Files, Panel!handleSelect(f) PROVE PanelTypes'
  <2>1. f \in Panel!Paths
    BY DEF Panel!Paths
  <2> QED
    BY <1>3, <2>1, PanelSelects DEF Panel!handleSelect, Panel!handleSelectFile, PanelWork
<1>4. ASSUME NEW n \in notes, Panel!OpenFromMenu(n) PROVE PanelTypes'
  <2>1. n.anchor \in Panel!Paths
    BY DEF PanelWork, Panel!Notes
  <2> QED
    BY <1>4, <2>1, PanelNavigates DEF Panel!OpenFromMenu, PanelWork
<1>5. CASE Panel!OpenFromDialog
  <2>1. panel.note.anchor \in Panel!Paths
    BY <1>5 DEF Panel!OpenFromDialog, PanelWork, Panel!Notes
  <2>2. Panel!NoNote \in Panel!Notes \cup {Panel!NoNote}
    OBVIOUS
  <2> QED
    BY <1>5, <2>1, <2>2, PanelNavigates DEF Panel!OpenFromDialog, PanelWork
<1>6. CASE Panel!ContentLoaded \/ Panel!ModeChanges \/ Panel!onCodeSelection
  <2>1. PanelWork'
    BY <1>6 DEF Panel!ContentLoaded, Panel!ModeChanges, Panel!onCodeSelection, Panel!Work, PanelWork
  <2>2. PanelPlaces'
    BY <1>6 DEF Panel!ContentLoaded, Panel!ModeChanges, Panel!onCodeSelection, PanelPlaces
  <2> QED
    BY <2>1, <2>2
<1>7. CASE Panel!handleGoToLine \/ Panel!handleSymbolClick \/ Panel!handleGoToDefinition \/ Panel!DefinitionMissing
  <2>1. Panel!Viewing => path \in Files
    BY DEF Panel!Viewing, PanelPlaces
  <2>2. PanelWork'
    BY <1>7, <2>1 DEF Panel!handleGoToLine, Panel!handleSymbolClick, Panel!handleGoToDefinition, Panel!DefinitionMissing, Panel!Work, PanelWork
  <2>3. PanelPlaces'
    BY <1>7, <2>1 DEF Panel!handleGoToLine, Panel!handleSymbolClick, Panel!handleGoToDefinition, Panel!DefinitionMissing, PanelPlaces
  <2> QED
    BY <2>2, <2>3
<1>8. ASSUME \/ \E d \in {"quick", "line"} : Panel!OpenFinder(d)
             \/ \E t \in {"file", "cluster"} : Panel!setTab(t)
             \/ \E n \in notes : Panel!OpenNote(n)
             \/ Panel!CloseFinder \/ Panel!CloseNote
      PROVE  PanelTypes'
  <2>1. PanelPlaces'
    BY <1>8 DEF Panel!OpenFinder, Panel!setTab, Panel!OpenNote, Panel!CloseFinder, Panel!CloseNote, PanelPlaces
  <2>2. PanelWork'
    BY <1>8 DEF Panel!OpenFinder, Panel!setTab, Panel!OpenNote, Panel!CloseFinder, Panel!CloseNote, PanelWork
  <2> QED
    BY <2>1, <2>2
<1>9. ASSUME NEW code \in Files \cup {Panel!None}, Panel!Create(code), kind # Panel!None PROVE PanelTypes'
  <2>1. [anchor |-> path, code |-> code, stray |-> strayed] \in Panel!Notes
    BY <1>9 DEF PanelPlaces, Panel!Notes
  <2> QED
    BY <1>9, <2>1 DEF Panel!Create, PanelPlaces, PanelWork
<1>10. CASE Panel!handleCreateNeuron \/ Panel!handleCreateFolderNeuron
  BY <1>9, <1>10 DEF Panel!handleCreateNeuron, Panel!handleCreateFolderNeuron, PanelPlaces, Panel!None
<1>11. CASE Panel!NeuronCreated
  BY <1>11 DEF Panel!NeuronCreated, PanelPlaces, PanelWork, Panel!NoPanel, Panel!None
<1>12. CASE Panel!NeuronFails
  BY <1>12 DEF Panel!NeuronFails, PanelPlaces, PanelWork
<1>13. CASE UNCHANGED panelVars
  BY <1>13 DEF panelVars, PanelPlaces, PanelWork
<1> QED
  BY <1>1, <1>2, <1>3, <1>4, <1>5, <1>6, <1>7, <1>8, <1>10, <1>11, <1>12, <1>13 DEF Panel!Next

-----------------------------------------------------------------------------
(* Types of the views of tasks: what their invariant leaves.               *)

TaskTypes ==
    /\ reminders \in [Ids -> {0, 1}] /\ hidden \in BOOLEAN
    /\ views \in Nat \ {0} /\ changed \in Nat /\ views + changed <= MaxSteps
    /\ staleTasks \subseteq Task!Keys /\ twice \subseteq Ids /\ missed \subseteq Task!Keys

LEMMA TaskTypesAtFirst == ASSUME Task!Init PROVE TaskTypes
BY BoundsAssumption DEF Task!Init, TaskTypes

LEMMA TaskTypesOK == ASSUME ViewInv, TaskTypes PROVE Task!TypeOK
<1>1. \A k \in Task!Keys : taskFetch[k].at \in {"idle", "asked", "read"}
  BY TaskValues DEF ViewInv, TaskType, Loads
<1>2. \A k \in Task!Keys : tasks[k] = Task!NotLoaded \/ tasks[k] \in [Ids -> Task!Metas]
  BY DEF ViewInv, TaskType
<1>3. \A c \in changes : c.t \in Ids /\ c.from \in Task!Views /\ c.got \in {"none", "ok", "failed"}
  BY DEF ViewInv, TaskType, Changes, Task!Views
<1>4. views \in 1 .. MaxSteps /\ changed \in 0 .. MaxSteps
  BY BoundsAssumption DEF TaskTypes
<1> QED
  BY <1>1, <1>2, <1>3, <1>4 DEF ViewInv, TaskType, TaskTypes, Task!TypeOK, Task!Views

LEMMA TaskTypesSend ==
    ASSUME TaskTypes, NEW t \in Ids, NEW field, NEW val, Task!Send(t, field, val)
    PROVE  TaskTypes'
<1>1. views + changed < MaxSteps /\ changed' = changed + 1 /\ twice' \in {twice, twice \cup {t}}
      /\ UNCHANGED <<reminders, hidden, views, staleTasks, missed>>
  BY DEF Task!Send, Task!Backend, Task!Cache
<1> QED
  BY <1>1, BoundsAssumption DEF TaskTypes

LEMMA TaskTypesStep == ASSUME ViewInv, TaskTypes, [Task!Next]_taskVars PROVE TaskTypes'
<1>1. ASSUME NEW v \in Task!Keys, Task!OpenView(v) PROVE TaskTypes'
  <2>1. views + changed < MaxSteps /\ views' = views + 1 /\ missed' \subseteq missed
        /\ UNCHANGED <<reminders, hidden, changed, staleTasks, twice>>
    BY <1>1 DEF Task!OpenView, Task!Backend
  <2> QED
    BY <2>1, BoundsAssumption DEF TaskTypes
<1>2. ASSUME NEW k \in Task!Keys, Task!Read(k) \/ Task!Fetched(k) PROVE TaskTypes'
  <2>1. missed' \subseteq missed \cup Task!Keys /\ staleTasks' \subseteq staleTasks
        /\ UNCHANGED <<reminders, hidden, views, changed, twice>>
    BY <1>2 DEF Task!Read, Task!Fetched, Task!Backend
  <2> QED
    BY <2>1 DEF TaskTypes
<1>3. CASE Task!toggleCompleted
  BY <1>3 DEF Task!toggleCompleted, Task!Backend, Task!Cache, TaskTypes
<1>4. ASSUME NEW t \in Ids, \/ Task!handleToggleComplete(t) \/ Task!onUpdatePriority(t)
                            \/ Task!handleDelete(t) \/ Task!handleQuickAdd(t)
                            \/ \E d \in {0, 1} : Task!onUpdateDue(t, d)
      PROVE  TaskTypes'
  BY <1>4, TaskTypesSend DEF Task!handleToggleComplete, Task!onUpdatePriority, Task!handleDelete, Task!handleQuickAdd, Task!onUpdateDue
<1>5. ASSUME NEW c \in changes, Task!Update(c) PROVE TaskTypes'
  <2>1. UNCHANGED <<hidden, views, changed, staleTasks, twice, missed>>
    BY <1>5 DEF Task!Update, Task!Cache
  <2>2. \A m : Task!syncSystemReminder(m) \in {0, 1}
    BY DEF Task!syncSystemReminder
  <2>3. reminders' \in [Ids -> {0, 1}]
    BY <1>5, <2>2 DEF Task!Update, TaskTypes
  <2> QED
    BY <2>1, <2>3 DEF TaskTypes
<1>6. ASSUME NEW c \in changes, Task!CreateOrDelete(c) \/ Task!Failed(c) PROVE TaskTypes'
  BY <1>6 DEF Task!CreateOrDelete, Task!Failed, Task!Backend, Task!Cache, TaskTypes
<1>7. ASSUME NEW keys \in SUBSET Task!Keys, NEW more \in SUBSET Task!Keys, Task!invalidateQueries(keys), missed' = missed \cup more,
             UNCHANGED <<reminders, hidden, views, changed, twice>>
      PROVE  TaskTypes'
  BY <1>7 DEF Task!invalidateQueries, TaskTypes
<1>8. ASSUME NEW c \in changes, Task!Answered(c) PROVE TaskTypes'
  <2>1. Task!Told(c) \subseteq Task!Keys
    BY DEF ViewInv, TaskType, Changes, Task!Told, Task!Keys
  <2> DEFINE more == Task!Untold(Task!Told(c)) \ {k \in Task!Holder(c) : taskFetch[k] = Task!Idle}
  <2>2. more \subseteq Task!Keys
    BY DEF Task!Untold
  <2>3. missed' = missed \cup more /\ Task!invalidateQueries(Task!Told(c)) /\ UNCHANGED <<reminders, hidden, views, changed, twice>>
    BY <1>8 DEF Task!Answered, Task!Backend
  <2> HIDE DEF more
  <2> QED
    BY <1>7, <2>1, <2>2, <2>3
<1>9. ASSUME NEW c \in changes, Task!Created(c) PROVE TaskTypes'
  <2> DEFINE told == IF c.from = "panel" THEN {"panel"} \cap {view} ELSE {"cluster"}
             more == Task!Untold(told)
  <2>1. told \subseteq Task!Keys /\ more \subseteq Task!Keys
    BY DEF Task!Untold, Task!Keys
  <2>2. missed' = missed \cup more /\ Task!invalidateQueries(told) /\ UNCHANGED <<reminders, hidden, views, changed, twice>>
    BY <1>9 DEF Task!Created, Task!Backend
  <2> HIDE DEF told, more
  <2> QED
    BY <1>7, <2>1, <2>2
<1>10. CASE UNCHANGED taskVars
  BY <1>10 DEF taskVars, TaskTypes
<1> QED
  BY <1>1, <1>2, <1>3, <1>4, <1>5, <1>6, <1>8, <1>9, <1>10 DEF Task!Next, Task!Views

-----------------------------------------------------------------------------
(* Types of the review page.                                               *)

Distinct(s) == \A i, k \in 1 .. Len(s) : s[i] = s[k] => i = k

\* An item that is in the queue once leaves it; without it, the queue is as it was.
LEMMA RemovedFirst ==
    ASSUME NEW T, NEW s \in Seq(T), Distinct(s), NEW e
    PROVE  LET t == Review!RemoveFirst(s, e) IN t \in Seq(T) /\ Distinct(t) /\ Len(t) <= Len(s)
<1>1. CASE ~\E i \in 1 .. Len(s) : s[i] = e
  BY <1>1 DEF Review!RemoveFirst
<1>2. ASSUME NEW i \in 1 .. Len(s), s[i] = e PROVE Review!RemoveFirst(s, e) = SubSeq(s, 1, i - 1) \o SubSeq(s, i + 1, Len(s))
  <2>1. {k \in 1 .. Len(s) : s[k] = e} = {i}
    BY <1>2 DEF Distinct
  <2>2. (CHOOSE x \in {i} : \A y \in {i} : x =< y) = i
    BY <1>2
  <2>3. Review!Min({i}) = i
    BY <2>2 DEF Review!Min
  <2>4. Review!SelectInSeq(s, LAMBDA v : v = e) = i
    BY <2>1, <2>3 DEF Review!SelectInSeq
  <2>5. Review!RemoveFirst(s, e) = Review!RemoveAt(s, i)
    BY <1>2, <2>4 DEF Review!RemoveFirst
  <2> QED
    BY <2>5 DEF Review!RemoveAt
<1>3. ASSUME NEW i \in 1 .. Len(s), s[i] = e
      PROVE  LET t == Review!RemoveFirst(s, e) IN t \in Seq(T) /\ Distinct(t) /\ Len(t) <= Len(s)
  <2> DEFINE t == SubSeq(s, 1, i - 1) \o SubSeq(s, i + 1, Len(s))
  <2>1. /\ t \in Seq(T) /\ Len(t) = Len(s) - 1
        /\ \A k \in 1 .. Len(s) - 1 : t[k] = IF k < i THEN s[k] ELSE s[k + 1]
    BY RemovedAt
  <2>2. Review!RemoveFirst(s, e) = t
    BY <1>2, <1>3
  <2> HIDE DEF t
  <2>3. Distinct(t)
    <3> SUFFICES ASSUME NEW k \in 1 .. Len(s) - 1, NEW m \in 1 .. Len(s) - 1, t[k] = t[m] PROVE k = m
      BY <2>1 DEF Distinct
    <3>1. PICK a \in 1 .. Len(s) : t[k] = s[a] /\ a = IF k < i THEN k ELSE k + 1
      BY <2>1
    <3>2. PICK b \in 1 .. Len(s) : t[m] = s[b] /\ b = IF m < i THEN m ELSE m + 1
      BY <2>1
    <3>3. a = b
      BY <3>1, <3>2 DEF Distinct
    <3> QED
      BY <3>1, <3>2, <3>3
  <2>4. Len(t) <= Len(s)
    BY <2>1
  <2> QED
    BY <2>1, <2>2, <2>3, <2>4
<1> QED
  BY <1>1, <1>3

\* A queue of different items is no longer than there are items.
LEMMA DistinctIsShort ==
    ASSUME NEW s \in Seq(Items), Distinct(s)
    PROVE  Len(s) <= Cardinality(Items)
<1>1. Len(s) \in Nat /\ Cardinality(Items) \in Nat
  BY DueAssumption, FS_CardinalityType
<1>2. IsFiniteSet(1 .. Len(s)) /\ Cardinality(1 .. Len(s)) = Len(s)
  <2>1. 1 \in Int /\ Len(s) \in Int
    BY <1>1
  <2>2. IsFiniteSet(1 .. Len(s)) /\ Cardinality(1 .. Len(s)) = IF 1 > Len(s) THEN 0 ELSE Len(s) - 1 + 1
    BY <2>1, FS_Interval
  <2> QED
    BY <1>1, <2>2
<1>3. CASE Cardinality(Items) < Len(s)
  <2>1. s \in [1 .. Len(s) -> Items]
    OBVIOUS
  <2>2. \E i, k \in 1 .. Len(s) : i # k /\ s[i] = s[k]
    BY <1>2, <1>3, <2>1, FS_PigeonHole, DueAssumption
  <2> QED
    BY <2>2 DEF Distinct
<1> QED
  BY <1>1, <1>3

ItemOrNone == Items \cup {Review!None}
Places == 0 .. Cardinality(Items)

Queues ==
    /\ due \in Seq(Items) /\ Distinct(due) /\ queue \in Seq(Items) /\ Distinct(queue)
    /\ dueShown \subseteq Items /\ staleQueue \subseteq {"queue", "items"}
ReviewPlace == reviewed \in [selected: ItemOrNone, reviewingNonDue: BOOLEAN, index: Places, completed: BOOLEAN]
Cards == [loaded: ItemOrNone, shown: ItemOrNone, loading: BOOLEAN, mode: {"choose", "content", "quiz"},
          revealed: BOOLEAN, questions: ItemOrNone]
CardTypes == card \in Cards /\ loads \subseteq Items /\ questions \subseteq Items /\ cardCrossed \in BOOLEAN
RatingTypes ==
    /\ rating \in [item: ItemOrNone, selected: BOOLEAN, index: Places, length: Nat]
    /\ rating.length <= Cardinality(Items) \/ rating.item = Review!None
    /\ seen \in ItemOrNone
ReviewTypes == Queues /\ ReviewPlace /\ CardTypes /\ RatingTypes

LEMMA FreshCards == ASSUME NEW i \in ItemOrNone PROVE Review!FreshCard(i) \in Cards
BY DEF Review!FreshCard, Cards, ItemOrNone

LEMMA SelectedCards == ASSUME NEW c \in Cards, NEW i, NEW info PROVE Review!AutoSelected(c, i, info) \in Cards
BY DEF Review!AutoSelected, Cards

LEMMA ActiveIsItem ==
    ASSUME NEW p \in [selected: ItemOrNone, reviewingNonDue: BOOLEAN, index: Places, completed: BOOLEAN],
           NEW q \in Seq(Items)
    PROVE  Review!activeIn(p, q) \in ItemOrNone
<1>1. p.selected \in ItemOrNone /\ p.index \in Nat
  BY DEF Places
<1>2. p.index < Len(q) => q[p.index + 1] \in Items
  BY <1>1
<1> QED
  BY <1>1, <1>2 DEF Review!activeIn, ItemOrNone

LEMMA ReviewTypesAtFirst == ASSUME Review!Init PROVE ReviewTypes
<1>1. Head(FirstDue) \in Items /\ \A i \in DOMAIN FirstDue : FirstDue[i] \in Items
  BY DueAssumption
<1>2. Distinct(FirstDue) /\ 0 \in Places
  BY DueAssumption, FS_CardinalityType DEF Distinct, Places
<1>3. Queues
  BY <1>1, <1>2, DueAssumption DEF Review!Init, Queues, Review!ToSet
<1>4. CardTypes
  BY <1>1, FreshCards DEF Review!Init, CardTypes, ItemOrNone
<1>5. ReviewPlace /\ RatingTypes
  BY <1>2 DEF Review!Init, ReviewPlace, RatingTypes, Review!NoRating, ItemOrNone
<1> QED
  BY <1>3, <1>4, <1>5 DEF ReviewTypes

LEMMA ReviewTypesOK == ASSUME ReviewTypes PROVE Review!TypeOK
<1>1. Review!Cardinality(Items) = Cardinality(Items)
  BY DEF Review!Cardinality, Cardinality, Review!IsFiniteSet, IsFiniteSet
<1> QED
  BY <1>1 DEF ReviewTypes, Queues, ReviewPlace, CardTypes, Cards, RatingTypes, ItemOrNone, Places, Review!TypeOK

LEMMA RenderTypes ==
    ASSUME ReviewTypes, NEW p \in [selected: ItemOrNone, reviewingNonDue: BOOLEAN, index: Places, completed: BOOLEAN],
           NEW q \in Seq(Items), Distinct(q), NEW d \in SUBSET Items, NEW c \in Cards, Review!Render(p, q, d, c),
           due' \in Seq(Items), Distinct(due'), staleQueue' \subseteq {"queue", "items"}, questions' \subseteq Items, RatingTypes'
    PROVE  ReviewTypes'
<1> DEFINE i == Review!activeIn(p, q)
           info == Review!nonDueInfoIn(p, d)
           load == i # Review!None /\ ~info /\ c.loaded # i /\ (i # Review!activeItem \/ info # Review!showingNonDueInfo)
<1>1. /\ reviewed' = p /\ queue' = q /\ dueShown' = d
      /\ card' = Review!AutoSelected(IF load THEN Review!FreshCard(i) ELSE c, i, info)
      /\ loads' = IF load THEN loads \cup {i} ELSE loads
      /\ cardCrossed' = (cardCrossed \/ (load /\ loads \cup questions # {}))
  BY DEF Review!Render
<1>2. i \in ItemOrNone
  BY ActiveIsItem
<1>3. load => i \in Items
  BY <1>2 DEF ItemOrNone
<1> HIDE DEF i, info, load
<1>4. (IF load THEN Review!FreshCard(i) ELSE c) \in Cards
  BY <1>2, FreshCards
<1>5. card' \in Cards
  BY <1>1, <1>4, SelectedCards
<1>6. cardCrossed' \in BOOLEAN /\ loads' \subseteq Items
  BY <1>1, <1>3 DEF ReviewTypes, CardTypes
<1> QED
  BY <1>1, <1>5, <1>6 DEF ReviewTypes, Queues, ReviewPlace, CardTypes

\* Nothing but the page, the card and the notes it loads.
LEMMA RestTypes ==
    ASSUME ReviewTypes, NEW p \in [selected: ItemOrNone, reviewingNonDue: BOOLEAN, index: Places, completed: BOOLEAN],
           NEW c \in Cards, Review!Render(p, queue, dueShown, c), UNCHANGED <<due, staleQueue, rating>>,
           questions' \subseteq Items, seen' \in ItemOrNone
    PROVE  ReviewTypes'
<1>1. RatingTypes'
  BY DEF ReviewTypes, RatingTypes
<1> QED
  BY <1>1, RenderTypes DEF ReviewTypes, Queues

LEMMA ReviewTypesStep == ASSUME ReviewTypes, [Review!Next]_reviewVars PROVE ReviewTypes'
<1> USE DEF ReviewTypes
<1> DEFINE P == [selected: ItemOrNone, reviewingNonDue: BOOLEAN, index: Places, completed: BOOLEAN]
<1>1. reviewed \in P /\ card \in Cards /\ Review!activeItem \in ItemOrNone
  BY ActiveIsItem DEF ReviewPlace, CardTypes, Queues, Review!activeItem
<1>2. ASSUME UNCHANGED <<due, queue, dueShown, staleQueue, reviewed, seen, rating, cardCrossed>>, card' \in Cards,
             loads' \subseteq Items, questions' \subseteq Items
      PROVE  ReviewTypes'
  BY <1>2 DEF Queues, ReviewPlace, CardTypes, RatingTypes
<1>3. ASSUME NEW i \in Items, Review!Loaded(i) PROVE ReviewTypes'
  <2>1. [card EXCEPT !.shown = i, !.loading = FALSE] \in Cards
    BY <1>1 DEF Cards, ItemOrNone
  <2>2. card' = Review!AutoSelected([card EXCEPT !.shown = i, !.loading = FALSE], Review!activeItem, Review!showingNonDueInfo)
    BY <1>3 DEF Review!Loaded
  <2>3. card' \in Cards
    BY <2>1, <2>2, SelectedCards
  <2> QED
    BY <1>2, <1>3, <2>3 DEF Review!Loaded, CardTypes
<1>4. ASSUME NEW i \in Items, Review!LoadFails(i) PROVE ReviewTypes'
  <2>1. card' \in Cards
    BY <1>1, <1>4 DEF Review!LoadFails, Cards, ItemOrNone
  <2> QED
    BY <1>2, <1>4, <2>1 DEF Review!LoadFails, CardTypes
<1>5. ASSUME NEW i \in Items, NEW some \in BOOLEAN, Review!QuestionsArrive(i, some) PROVE ReviewTypes'
  <2>1. card' \in Cards
    BY <1>1, <1>5 DEF Review!QuestionsArrive, Cards, ItemOrNone
  <2> QED
    BY <1>2, <1>5, <2>1 DEF Review!QuestionsArrive, CardTypes
<1>6. ASSUME NEW i \in Items, Review!handleSelectItem(i) PROVE ReviewTypes'
  <2>1. [reviewed EXCEPT !.selected = i, !.reviewingNonDue = FALSE, !.completed = FALSE] \in P
    BY <1>1 DEF ItemOrNone
  <2>2. [card EXCEPT !.revealed = FALSE, !.mode = "choose", !.questions = Review!None] \in Cards
    BY <1>1 DEF Cards, ItemOrNone
  <2> QED
    BY <1>6, <2>1, <2>2, RestTypes DEF Review!handleSelectItem, CardTypes, RatingTypes
<1>7. CASE Review!chooseContent
  <2>1. [card EXCEPT !.mode = "content"] \in Cards
    BY <1>1 DEF Cards
  <2> QED
    BY <1>1, <1>7, <2>1, RestTypes DEF Review!chooseContent, Review!Stay, CardTypes, RatingTypes
<1>8. CASE Review!handleSelectQuiz
  <2>1. [card EXCEPT !.mode = "quiz"] \in Cards
    BY <1>1 DEF Cards
  <2>2. Review!activeItem \in Items
    BY <1>1, <1>8 DEF Review!handleSelectQuiz, Review!NoteShown, Review!CardShown, ItemOrNone
  <2> QED
    BY <1>1, <1>8, <2>1, <2>2, RestTypes DEF Review!handleSelectQuiz, Review!Stay, CardTypes, RatingTypes
<1>9. CASE Review!reveal
  <2>1. [card EXCEPT !.revealed = TRUE] \in Cards
    BY <1>1 DEF Cards
  <2> QED
    BY <1>1, <1>9, <2>1, RestTypes DEF Review!reveal, Review!Stay, CardTypes, RatingTypes
<1>10. CASE Review!handleRate
  <2>1. Len(queue) <= Cardinality(Items) /\ Len(queue) \in Nat
    BY DistinctIsShort DEF Queues
  <2>2. RatingTypes'
    BY <1>1, <1>10, <2>1 DEF Review!handleRate, RatingTypes, ReviewPlace
  <2> QED
    BY <1>10, <2>2 DEF Review!handleRate, Queues, ReviewPlace, CardTypes
<1>11. CASE Review!Rated
  <2>1. due' \in Seq(Items) /\ Distinct(due') /\ staleQueue' = {"queue", "items"}
    BY <1>11, RemovedFirst DEF Review!Rated, Review!submitReview, Queues
  <2>2. RatingTypes' /\ questions' = questions
    <3>1. rating' = Review!NoRating /\ UNCHANGED <<questions, seen>>
      BY <1>11 DEF Review!Rated
    <3>2. 0 \in Places
      BY DueAssumption, FS_CardinalityType DEF Places
    <3> QED
      BY <3>1, <3>2 DEF RatingTypes, Review!NoRating, ItemOrNone
  <2>3. ASSUME NEW p \in P, NEW c \in Cards, Review!Render(p, queue, dueShown, c) PROVE ReviewTypes'
    BY <2>1, <2>2, <2>3, RenderTypes DEF Queues, CardTypes
  <2>4. CASE rating.selected
    <3>1. [reviewed EXCEPT !.selected = Review!None, !.reviewingNonDue = FALSE] \in P
      BY <1>1 DEF ItemOrNone
    <3>2. [card EXCEPT !.shown = Review!None, !.loaded = Review!None] \in Cards
      BY <1>1 DEF Cards, ItemOrNone
    <3> QED
      BY <1>11, <2>3, <2>4, <3>1, <3>2 DEF Review!Rated
  <2>5. CASE ~rating.selected /\ rating.index + 1 < rating.length
    <3>1. rating.index + 1 \in Places
      BY <1>11, <2>5, DueAssumption, FS_CardinalityType DEF Review!Rated, RatingTypes, Places
    <3>2. [reviewed EXCEPT !.index = rating.index + 1] \in P
      BY <1>1, <3>1
    <3> QED
      BY <1>1, <1>11, <2>3, <2>5, <3>2 DEF Review!Rated
  <2>6. CASE ~rating.selected /\ ~(rating.index + 1 < rating.length)
    <3>1. [reviewed EXCEPT !.completed = TRUE] \in P
      BY <1>1
    <3> QED
      BY <1>1, <1>11, <2>3, <2>6, <3>1 DEF Review!Rated
  <2> QED
    BY <2>4, <2>5, <2>6
<1>12. CASE Review!RatingFails
  <2>1. RatingTypes'
    BY <1>12 DEF Review!RatingFails, RatingTypes, ItemOrNone
  <2> QED
    BY <1>12, <2>1 DEF Review!RatingFails, Queues, ReviewPlace, CardTypes
<1>13. CASE Review!QueueFetched \/ Review!ItemsFetched
  <2>1. /\ UNCHANGED <<due, questions, rating, seen>> /\ staleQueue' \subseteq staleQueue
    BY <1>13 DEF Review!QueueFetched, Review!ItemsFetched
  <2>2. Review!Render(reviewed, due, dueShown, card) \/ Review!Render(reviewed, queue, Review!ToSet(due), card)
    BY <1>13 DEF Review!QueueFetched, Review!ItemsFetched
  <2>3. Review!ToSet(due) \subseteq Items
    BY DEF Queues, Review!ToSet
  <2>4. RatingTypes'
    BY <2>1 DEF RatingTypes
  <2> QED
    BY <1>1, <2>1, <2>2, <2>3, <2>4, RenderTypes DEF Queues, CardTypes
<1>14. CASE Review!handleReviewNow \/ Review!handleBackToQueue
  <2>1. /\ [reviewed EXCEPT !.reviewingNonDue = TRUE] \in P
        /\ [reviewed EXCEPT !.selected = Review!None, !.reviewingNonDue = FALSE] \in P
    BY <1>1 DEF ItemOrNone
  <2> QED
    BY <1>1, <1>14, <2>1, RestTypes DEF Review!handleReviewNow, Review!handleBackToQueue, CardTypes, RatingTypes
<1>15. CASE UNCHANGED reviewVars
  BY <1>15 DEF reviewVars, Queues, ReviewPlace, CardTypes, RatingTypes
<1> QED
  BY <1>3, <1>4, <1>5, <1>6, <1>7, <1>8, <1>9, <1>10, <1>11, <1>12, <1>13, <1>14, <1>15 DEF Review!Next
=============================================================================
