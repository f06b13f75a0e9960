-------------------------------- MODULE Pages --------------------------------
(***************************************************************************)
(* The pages around the notes: the sidebar with the page of a brain, the   *)
(* page of a cluster, the page of a project with its panel of notes, the   *)
(* views of tasks, the review page and the page of a research cluster.     *)
(* The user has one of them open, `page'; what they share is in the        *)
(* backend, where each works with rows of its own.                         *)
(***************************************************************************)
EXTENDS Naturals, Sequences, FiniteSets

CONSTANTS
    Modes, Types, MaxTyped, MaxSends,             \* BrainTree
    ListedNotes, FirstTags, NewTags, MaxCalls,    \* ClusterPage
    Files, MaxRevs, MaxClones,                    \* ProjectView
    Folders, Root, Nested, MaxNotes,              \* ProjectNotes, with Files
    Ids, First, MaxSteps,                         \* TodoTasks
    Items, FirstDue, WithQuiz,                    \* ReviewSession
    Topics, FirstTopics, Jobs, Requests, CoreSize, MaxSize, QueueCapacity, MaxRequests, MaxFaults  \* ResearchTopics

\* What stands for the tags of a note that were not changed is no set of tags.
ASSUME ClusterAssumption == IsFiniteSet(ListedNotes) /\ "no tags" \notin FirstTags \cup NewTags

\* A task's query is named by its id, which is none of the other queries' names.
ASSUME TasksAssumption == First \subseteq Ids /\ Ids \cap {"cluster", "all", "panel"} = {}

\* An item is in the queue of the review once, and the page has something to review when it opens.
ASSUME DueAssumption ==
    /\ IsFiniteSet(Items) /\ FirstDue \in Seq(Items) /\ FirstDue # <<>>
    /\ \A i, k \in DOMAIN FirstDue : FirstDue[i] = FirstDue[k] => i = k

\* AsyncConfig: the pool may grow beyond its core size.
ASSUME PoolAssumption ==
    /\ {CoreSize, MaxSize, QueueCapacity} \subseteq Nat /\ CoreSize <= MaxSize
    /\ FirstTopics \subseteq Topics

\* Each bound is a natural number, and at least the view that is open at first was opened.
ASSUME BoundsAssumption ==
    /\ {MaxTyped, MaxSends, MaxCalls, MaxRevs, MaxClones, MaxRequests, MaxFaults} \subseteq Nat
    /\ MaxSteps \in Nat \ {0}

VARIABLES
    page,
    ver, desc, unique, memo, evicting, overtaken, cached, cachedDesc, cachedTypes, fetch, late, dialog, creating,
    calls, txs, sent, retries, text, typed, timer, crossed, overlapped,
    rank, there, tags, allTags, list, listFetch, override, listCalls, listSent, listCrossed, mixed,
    box, rev, clones, status, asking, content, stale, reading, commands, file, fileCrossed,
    active, path, kind, shown, selection, line, lookup, panel, finder, newNote, notes, strayed,
    db, linked, reminders, view, views, tasks, staleTasks, taskFetch, hidden, changes, changed, twice, missed,
    due, queue, dueShown, staleQueue, reviewed, card, loads, questions, rating, seen, cardCrossed,
    row, outlined, job, waiting, threads, req, topics, topicFetch, stream, event, asked, faults, lost, untold

Tree == INSTANCE BrainTree
List == INSTANCE ClusterPage WITH
    Notes <- ListedNotes, fetch <- listFetch, calls <- listCalls, sent <- listSent, crossed <- listCrossed
Project == INSTANCE ProjectView WITH calls <- commands, path <- file, crossed <- fileCrossed
Panel == INSTANCE ProjectNotes WITH creating <- newNote
Task == INSTANCE TodoTasks WITH
    cached <- tasks, stale <- staleTasks, fetch <- taskFetch, calls <- changes,
    sent <- changed, overlapped <- twice
Review == INSTANCE ReviewSession WITH
    stale <- staleQueue, page <- reviewed, asking <- questions, crossed <- cardCrossed
Research == INSTANCE ResearchTopics WITH
    MaxSends <- MaxRequests, list <- topics, fetch <- topicFetch, sent <- asked, missed <- untold

treeVars == <<ver, desc, unique, memo, evicting, overtaken, cached, cachedDesc, cachedTypes, fetch, late, dialog,
              creating, calls, txs, sent, retries, text, typed, timer, crossed, overlapped>>
listVars == <<rank, there, tags, allTags, list, listFetch, override, listCalls, listSent, listCrossed, mixed>>
projectVars == <<box, rev, clones, status, asking, content, stale, reading, commands, file, fileCrossed>>
panelVars == <<active, path, kind, shown, selection, line, lookup, panel, finder, newNote, notes, strayed>>
taskVars == <<db, linked, reminders, view, views, tasks, staleTasks, taskFetch, hidden, changes, changed, twice,
              missed>>
reviewVars == <<due, queue, dueShown, staleQueue, reviewed, card, loads, questions, rating, seen, cardCrossed>>
researchVars == <<row, outlined, job, waiting, threads, req, topics, topicFetch, stream, event, asked, faults,
                  lost, untold>>
vars == <<page, treeVars, listVars, projectVars, panelVars, taskVars, reviewVars, researchVars>>

PageNames == {"tree", "list", "project", "panel", "task", "review", "research"}

Init ==
    /\ page \in PageNames
    /\ Tree!Init /\ List!Init /\ Project!Init /\ Panel!Init /\ Task!Init /\ Review!Init
    /\ Research!Init

\* The others are not on the screen.
Only(p) ==
    /\ page = p /\ UNCHANGED page
    /\ IF p = "tree" THEN TRUE ELSE UNCHANGED treeVars
    /\ IF p = "list" THEN TRUE ELSE UNCHANGED listVars
    /\ IF p = "project" THEN TRUE ELSE UNCHANGED projectVars
    /\ IF p = "panel" THEN TRUE ELSE UNCHANGED panelVars
    /\ IF p = "task" THEN TRUE ELSE UNCHANGED taskVars
    /\ IF p = "review" THEN TRUE ELSE UNCHANGED reviewVars
    /\ IF p = "research" THEN TRUE ELSE UNCHANGED researchVars

Next ==
    \/ Only("tree") /\ Tree!Next
    \/ Only("list") /\ List!Next
    \/ Only("project") /\ Project!Next
    \/ Only("panel") /\ Panel!Next
    \/ Only("task") /\ Task!Next
    \/ Only("review") /\ Review!Next
    \/ Only("research") /\ Research!Next

Spec == Init /\ [][Next]_vars

-----------------------------------------------------------------------------
TypeOK ==
    /\ page \in PageNames
    /\ page = "tree" => Tree!TypeOK
    /\ page = "list" => List!TypeOK
    /\ page = "project" => Project!TypeOK
    /\ page = "panel" => Panel!TypeOK
    /\ page = "task" => Task!TypeOK
    /\ page = "review" => Review!TypeOK
    /\ page = "research" => Research!TypeOK

(* The properties of the pages, which the modules they come from explain;  *)
(* a page that is not open stays as it was at first.                       *)

\* A brain never has two research clusters.
OneResearch == page = "tree" => Tree!OneResearch

\* The cached lists follow the backend's.
ListsFollow == page = "tree" => Tree!ListsFollow

\* The text area has the description that was saved.
TextIsSaved == page = "tree" => Tree!TextIsSaved

\* The notes of a cluster are shown in the stored order.
OrderFollows == page = "list" => List!OrderFollows

\* A note is shown with the tags it has.
TagsFollow == page = "list" => List!TagsFollow

\* A file is shown at the revision of the sandbox.
FileIsCurrent == page = "project" => Project!FileIsCurrent

\* The status of the sandbox is the backend's, or is asked for.
StatusFollows == page = "project" => Project!StatusFollows

\* A note made of code is anchored to the file of the code.
CodeFromAnchor == page = "panel" => Panel!CodeFromAnchor

\* The open view of the tasks shows what is stored.
ViewFollows == page = "task" => Task!ViewFollows

\* What is rated is what was read.
RatedAfterSeen == page = "review" => Review!RatedAfterSeen

\* A task is coming for a topic that is busy.
StatusOwed == page = "research" => Research!StatusOwed

\* The topics are shown with the stored statuses.
TopicsFollow == page = "research" => Research!TopicsFollow
=============================================================================
