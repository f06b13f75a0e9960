# BrainBook: models and proofs

TLA+ models of the parts of BrainBook where concurrency, failures and time make the code hard
to test, the TLC runs that check them, and TLAPS proofs of their main properties. Paths are
relative to the repository; line numbers of every definition are in `PROJECT.json`.

## The system

BrainBook keeps notes ("neurons") in clusters in brains. A Next.js client (`web/`) talks HTTP and
server-sent events to a Spring Boot backend (`app/`), which keeps everything in PostgreSQL, calls a
Python service for AI work (`intelligence-service/`) and a Go service over gRPC for checkouts of
git repositories (`sandbox-service/`).

| Component | State | Operations | Hard because of | Correct when |
|---|---|---|---|---|
| Neuron content and revisions (`NeuronService`, `RevisionService`, `NeuronSnapshotSchedulerService`) | `neurons` and `neuron_revisions` rows, the in-memory map `pendingSnapshots` | save, PATCH, archive, trash, move, toggle, restore a revision, snapshot | transactions at READ COMMITTED whose checks and writes are apart, an UPDATE of all columns, a job racing with saves, a restart that empties the map | content is replaced only by who has seen it, revisions stay within their limit, saved content is snapshotted |
| Editor page (`page.tsx`, `lib/api.ts`) | document on screen, `versionRef`, debounce timer, requests in flight | load, edit, save, restore, flush on unmount | overlapping requests, timeouts, retries of writes that were applied, two tabs | no blind overwrite, no edit without a save due or an error shown |
| Sandbox service (`sandbox.go`, `cleanup.go`, `store.go`) | `sandboxes` rows, directories, clone goroutines, a semaphore | provision, retry, terminate, use, nightly cleanup | no transactions and no locks, goroutines that outlive their request, the process ending | statuses that somebody will move on, no active sandbox without a repository, no directory without a row |
| Sections, AI assist, audio, running code (`components/sections/`) | the document and its texts, a conversation, media streams, frames and an interpreter | edit, move, lock, upload, ask, cancel, record, run | answers, uploads, prompts and messages that arrive after what asked for them is gone | a late answer changes nothing, no shown file is deleted, locked sections stay, the microphone is off, outputs are not exchanged |
| Notifications (`sseLeaderElection.ts`, `useNotifications.ts`, `NotificationService`) | a browser lock, one event stream, a relay between tabs, cached counts | open and close tabs, reconnect, broadcast, mark as read | broadcasts inside transactions, events nobody keeps, leaders that leave | one stream and one again, the badge shows the committed count |
| Reminders and review panel | `reminders`, `spaced_repetition_items`, panel and page state | create, edit, delete, process, set up the quiz | a scheduler that works on what it read, whole-row updates, lists captured by handlers | one notification per occurrence, panels follow their rows |
| Pages: sidebar, brain, cluster, project, tasks, review | React Query caches, optimistic lists, dialogs, timers | create, rename, drag, tag, pull, check out, browse, complete, rate | caches invalidated during a fetch, retried POSTs, handlers that captured an older render | what is shown at rest is what is stored, unless the history says why not |
| Research topics | rows with a status, a bounded pool, SSE emitters, a cached list | create, update, expand, delete; the pool's tasks | AI calls between transactions, whole-row writes, a pool that refuses after the commit | a busy topic has a task that ends it; the page shows the stored statuses |
| Review questions, link suggestions (`ReviewQuestionService`, `LinkSuggestionAsyncService`) | `review_questions`, `link_suggestions` and `neuron_embeddings` rows, the same pool | mark, generate, regenerate; recompute after a save | AI calls outside transactions, saves that cross them, tasks out of order, a pool that refuses after the commit | what is derived from a note's content is of that content, and questions are replaced, never lost |
| Intelligence service, graph, thoughts, search, import/export, templates, shares, statistics, settings | | | single transactions, conversions, drawing, or answers of a language model | not modelled |

Interactions. Every page calls the backend through `request()` in `lib/api.ts`, which gives up after 15 s and sends
once more after a 5xx or a network failure, POSTs included. A save of a note calls `recordUpdate` (snapshot job),
`markStaleByNeuron` (review questions) and, after the commit, the recomputation of link suggestions. The reminder scheduler
creates notifications, whose count goes to the one tab that holds the event stream and from there to the others. Task
metadata keeps a system reminder. The backend's `SandboxController` calls the sandbox service; nothing calls its
`TerminateByBrain` yet, so that a deleted brain leaves its sandboxes behind. Everything hard to test is listed in
`PROJECT.json` under `hazards`.

## Modules

```
VersionedCell  <--implements--  NeuronStore  <- MCNeuronStore, NeuronStoreProofs
      ^
      +------ is the server of  NeuronEditor <- MCNeuronEditor, NeuronEditorProofs
                                Sandbox      <- MCSandbox, SandboxProofs

ContentSaves  <-  ReviewQuestions, LinkSuggestions  <-  SavedContent  <-  MCSavedContent, SavedContentProofs

NotePage (MCNotePage)  instantiates  Sections, AiAssist, AudioRecorder, CodeRun, LiveUpdates,
                                     ReviewPanel, Reminders (MCReminders)
Pages (MCPages)        instantiates  BrainTree, ClusterPage, ProjectView, ProjectNotes,
                                     TodoTasks, ReviewSession, ResearchTopics

NotePageProofs (parts without rows: recorder, bell, code, AI assist)  <-  NotePanelsProofs (reminders,
                         sections, review panel)
PagesProofs (project, review, tasks, cluster)  <-  BrainPagesProofs (sidebar and brain page,
                         research cluster)
```

`NotePage` and `Pages` put together what one page mounts and what one navigation reaches. Their components share no state in
the code, since each has its own hooks, query keys and rows, so that their interleavings add nothing: the variable `part` (or
`page`) says which one is being worked with, and one run checks them one after another. `NotePageProofs` and `PagesProofs` prove
about these compositions; an arrow to another proof module says that it EXTENDS the first.

### VersionedCell
What optimistic locking on a neuron promises its clients: a content and a version; who knows the
version may replace the content, and each replacement raises the version by one. A PATCH that carries a
content (`Overwrite`) sets it under the version that is there, so that a version names one content only as
far as no PATCH carries one; the web client sends none that does.

### NeuronStore
One neuron with its revisions. A request is a transaction in `tx[w]`: its first step is everything up to
the reads (the guard is the service method's check, a failed check is no step), its last the commit,
which writes the whole row as the transaction computed it (Hibernate updates all columns). Between
them stand the steps that other threads can tell: a save puts its entry into `pendingSnapshots`
before it commits (`RecordUpdate`); `createRevision` counts, picks the oldest revision, reads the
largest number and inserts (`CountRevisions`, `PickOldest`, `TakeNumber`, `CommitSnapshot`), and a
deletion that another transaction has flushed holds its row lock. `Abort` is a transaction that
rolls back. The scheduler looks at an entry, removes it if it is still the same, then snapshots (`FindIdle`,
`RemoveIdle`, `AutoSnapshot`). `Restart` loses the map and every open transaction. Title, tags,
favourite, pin and place are "marks" of the row. `owed` and `dropped` are history variables of the properties.
`Overlap = FALSE` lets one transaction be open at a time.

### NeuronEditor
The tabs that show one neuron. The server is a `VersionedCell`. A tab holds the document on screen,
`known` (`versionRef`), the content that version had when the tab saw it (`base`, a history
variable), the debounce timer and the status; `calls` holds its requests in flight. A request is served at
most `MaxAttempts` times (one retry after a 5xx or network failure); an answer may be lost after it was
applied, and a request given up by its timeout may still arrive (`stray`). `tangle` records that a
tab's writes overlapped, and whether one was a restore.

### Sandbox
Each row of `sandboxes` with its directory. A handler stands at a statement (`actors[r].at`) and takes
one statement or directory operation per step; what it has read is in its record. The clone
goroutine is a place of the semaphore. `Record` is a status written with `shutdownCtx`, which fails once
`up` is FALSE; `FailStatement` is a statement failing in a handler. `lost` marks sandboxes about
which something failed or during whose work the process ended, `tangled` those that two operations have worked on at
the same time: both are history variables, and the code promises less about such sandboxes.

### SavedContent
What the backend derives from a note's content. `ContentSaves` has the writes: a save is a thread's transaction (`OpenSave`, `CommitContent`,
`AnswerSave`), a restore or a PATCH one step. `ReviewQuestions` and `LinkSuggestions` say what each of them means for their rows, and `SavedContent` puts the
halves of a step together: `BeginSave` marks questions in the transaction, `CommitSave` shows marks and content at once, `EndSave` hands the task to the pool or
is refused.
- `ReviewQuestions`: the scheduler lists items (`ListPending`) and takes each through three phases (`ReadContext`, `AiAnswers`,
  `StoreQuestions`). A save holds the row locks of what it has marked (`locked`) until it commits. The questions of one generation are one row. `passed` marks notes
  whose content came by what marks nothing, or by a save that a generation met; `met` says which open saves it met after their marks.
- `LinkSuggestions`: a task reads the rows of references, writes the difference to its own content, and rolls back where another
  task was faster (`WriteReferences`); then it reads the text of the row, has its embedding computed, and stores it (`ReadText`, `Embedded`, `StoreEmbedding`). Either half may fail (`LinkingFails`, `EmbeddingFails`), the
  first without ending the task. `unlinked` and `unembedded` mark notes written last by what hands over no task or by a save that found another save or task
  unfinished, and notes whose task died or failed; `refused` those whose save was answered by an error.

### The parts of a note's page
- `Sections`: the list of sections and what `SectionList`, `SectionWrapper` and `AddSectionButton` offer on it; a file is named
  after the upload that brought it; `saveContent` writes what is on the screen when its timer fires. Deleting a section
  deletes its file in the same step, as the handler does. `createRevision` snapshots the row, `restoreRevision` and `handleRestore` are the
  two ends of a restore, between which the page goes on and its saves are refused for their version. `revived` (a history variable) holds the files that
  were gone when a restore brought back a section that shows them: the code deletes a file though revisions still refer to it.
- `AiAssist`: `history` and `stack` are the dialog's conversation and previews, `call` the request in flight with
  its abort flag. Each line of `invokeWithStream` that an answer can take is an action (`StreamCompletes`, `StreamReportsError`,
  `StreamEnds`, `StreamThrows`, `InvokeAnswers`, `InvokeRefused`, `InvokeThrows`).
- `AudioRecorder`: recorders are numbered and have a stream each; `current` is the pair of refs, `live` the streams that are on.
  `tangled` is the history of double starts and of leaving during the prompt, after which the code leaves a stream on.
- `CodeRun`: frames post results to one window, every waiting run sees each message (`handleMessage`), and `Timeout` removes the
  frame; `pyodide` is the cached promise, and a run may fail in it, before it or after it (`PythonFails`).
- `LiveUpdates`: each tab has two bells. The lock's queue, the leader, its stream, the cached count and its one fetch in each tab; the
  relay (`bus`) delivers what the leader posts to every bell but the leader itself, so also to the other bell of its own tab (`Posted`); the
  server changes notifications in transactions that broadcast before they commit. `missed` marks tabs that an event passed by or that show a
  count read before a change, for which the code makes up only on the next event or fetch.
- `ReviewPanel`: requests of the panel and a review elsewhere, as reads and whole-row writes. A load that fails is taken for a note without an item
  (`LoadFails`), and the fetch after adding may fail (`GetFails`): `unseen` is an item the panel does not know of. Adding does not fill in the settings: `kept` holds
  those that are shown as they were before. `blind` marks writes that overlapped and updates of an item that was gone.
- `Reminders`: the panel, the page with its dialog, and the scheduler: `processReminders` reads the due reminders and takes the time once (`looked`),
  `processReminder` works on each as it was read, by that time. `disturbed` marks lists that nothing tells of a change.

### The pages
- `BrainTree`: sidebar and brain page on one brain, whose dialogs are modal (`Behind`). A request is an attempt in `txs` that checks (`Check`) and commits apart;
  `Retry` sends it again while the first may still run. A list is its version; `invalidateQueries` starts a fetch
  again, except for a first one, which it joins. Between the fetch and the database is the list the backend keeps (`memo`; `BrainService.getAll` and
  `ClusterService.getByBrainId` are `@Cacheable`): a fetch answers what is kept (`Read`) or loads it and keeps it (`Load`, `Loaded`), also when the fetch was given up
  (`LoadedLate`), a change clears it after its commit and before its answer (`Evict`), and it expires. `overtaken` marks lists that were loaded before
  a change and kept after it had cleared them.
- `ClusterPage`: `handleDragEnd` changes the cached list before the request; `Reordered` puts the captured list back when it failed. A request fails for
  the page when it was refused or never arrived, and also when it was applied and its answer was lost or late (`Commit`, `CommitTag`); `crossed` and `mixed` mark the
  latter, `crossed` until the list is read again.
- `ProjectView`: the sandbox's status and revision in the backend, polled and cached on the page; each command invalidates
  at its answer.
- `ProjectNotes`: the path that is selected, the file the viewer shows, the file the selected code came from, and the notes made of it.
- `TodoTasks`: the four views and their query keys; `Told` and `Untold` are the invalidations each handler makes and leaves out.
- `ReviewSession`: the queue, the index into it, the effect that loads the note (`Render`), revealing and rating.
- `ResearchTopics`: a request reads (`Begin`), commits (`Commit`), and only then hands its task to the pool (`Submit`), which takes, queues or
  refuses it (`execute`, `Rejected`); the task asks the AI between its transactions (`ReadTopic`, `AiAnswers`, `Save`) and tells the streams
  that are open (`emit`). A row that was read with the status to be written is not written (`Unwritten`, `same`). `lost` marks topics whose task
  was refused, died or failed to save, or whose status an expansion wrote back; `missed` marks changes that no event told the page of.

## Runs

| Run | Shows | Bounds |
|---|---|---|
| `neuron_store_overlap` | `SnapshotOwed`: saved content has a snapshot coming; `SnapshotTaken`: it is taken in the end | 2 request threads and the scheduler, 2 contents, limit 1, 3 requests, PATCHes with content, 1 restart |
| `neuron_store_serial` | the store implements `VersionedCell`; `RevisionsKept`: revisions stay bounded and no two share a number | one transaction at a time, limit 2, 5 requests, 1 restart, all operations, PATCHes with and without a content |
| `neuron_store_lost_save` | a counterexample: overlapping saves are both acknowledged, one is lost | 2 threads, 2 saves |
| `neuron_editor` | `NoBlindOverwrite`, `EditNotForgotten` with two tabs; every edit is saved or reported (`EditSettles`) | 2 tabs, 1 request each at a time, 2 user operations, 2 attempts |
| `neuron_editor_version_ref` | a counterexample: a failed title PATCH leaves `versionRef` behind its saved content | 1 tab, 1 request |
| `sandbox` | `CloningOwned`, `DirsMatchRows`; a clone that began ends (`CloneSettles`) | 2 clusters, 2 sandboxes, 2 handlers, the cleanup, 1 place, 3 requests, 1 process end |
| `note_page` | `StoredFilesExist`, `LockedKeepOrder`; `CancelledIsSilent`; `MicrophoneReleased`; `OwnOutput`; `OneConnection`, `BadgeCounts`, `StreamComesUp`; `SettingsShown`; `NotifiedOnce`, `PanelFollows` | 3 sections of which 2 locked, one added, 1 revision, 2 restores; 3 questions; 2 recordings; 2 code sections, 4 runs; 2 tabs of 2 bells, 1 break of the stream; 4 panel requests beside a review; 2 reminders, 2 ticks |
| `pages` | `OneResearch`, `ListsFollow`, `TextIsSaved`; `OrderFollows`, `TagsFollow`; `FileIsCurrent`, `StatusFollows`; `CodeFromAnchor`; `ViewFollows`; `RatedAfterSeen`; `StatusOwed`, `TopicsFollow` | 3 requests; 2 notes, 2 tags; 2 files, 1 change of them; 2 folders, 1 note; 2 tasks, 4 steps; 2 items in the queue; 2 topics, 2 requests with their retries, a pool of 1 thread and 1 place, 1 fault |
| `review_questions` | `ReadyFollows`, `KeptUntilReplaced`, `QuestionsCome` | 1 note, 3 contents of which 1 too short, 2 threads, 2 saves, 1 restore or PATCH, 2 items, 1 review, setting or regeneration, 1 restart; the pool is left out (it takes no task) |
| `link_suggestions` | `ReferencesFollow`, `EmbeddingFollows` | 1 note, 3 contents, 2 targets of which 1 the note itself, 2 threads, 3 saves, 1 restore or PATCH, 1 restart, a pool of 1 to 2 threads and 1 place |
| `reminder_edit` | a counterexample: the second reminder opened on the reminders page gets the first one's title | 2 reminders, 1 save |
| `due_cleared` | a counterexample: a cleared date keeps its daily reminder | 1 task, 4 steps |

Why these bounds are enough: the races are between two transactions, requests, tabs or views and the one background job of the
component, and each property is about one row, list or section; a third party only repeats what the second does. Limits
of 1 or 2 are reached and exceeded, and every action fires in some run. What is counted are the requests, edits and uploads that begin
(`MaxRequests`, `MaxSends`, `MaxSteps`, ...), never their steps, and each count lets two overlap with a third thing. Deadlock is
not checked: when the counted requests are over the system rests. The type invariants of the modules that have a theorem of their own for it (`TypeCorrect`
and its like) are left to the proofs. In `neuron_editor` a tab has one request in flight, so that its timer waits for the answer: `EditSettles` is about tabs whose
writes do not overlap, and `NoBlindOverwrite` and `EditNotForgotten`, which are about the others too, are theorems for any number of requests.

History variables. Several invariants set apart situations in which the code makes no promise and does go wrong (two tag changes of
one note at once, a stream that broke, an applied request whose answer was lost). Each is recorded by a variable whose comment starts with "history", and
every such variable is set by the narrowest step that leads there, and taken back where the code makes up for it (the list is read again, a later save meets nothing), so that the
property still speaks about all other runs. Each situation is named in the comment of the property and in the note of the hazard it belongs to.

Fairness. `NeuronStore`: open transactions end (the database and the pool's timeouts see to it), the
clock runs and the job fires every minute; no request is ever forced. `NeuronEditor`: a timer that is due fires
and `request()` returns, since it aborts after 15 s and retries once; the user does nothing fairly. `Sandbox`:
statements return, git ends by its timeout (`CloneTimeoutSec`), handlers run on; a restart is never forced. `LiveUpdates`:
the browser grants a free lock and reconnects a broken stream, and messages are delivered (`Runs`); tabs open and close as they like.
`SavedContent`: an open transaction commits, the scheduler runs every five minutes and its transactions end, and among the calls to
the AI that are made again and again some are answered (strong fairness of `AiAnswers(1)`); nobody reviews, saves or restarts fairly.
The other modules state safety alone.

Counterexample runs. Each quotes a sentence of the documents that the code does not keep; they are
listed under `findings`.

## Proofs

For any number of threads, tabs, sandboxes, sections, notes, files, requests, contents and any limits. Every safety property that a
passing run checks is also the statement of a theorem; each theorem rests on an inductive invariant
that says what is on its way while the property is not yet, or no longer, plain to see.

**The store** (`NeuronStoreProofs`): `TypeCorrect`, `RevisionsStayBounded`, `FewShareANumber`, `RevisionsAreKept`, `SnapshotsStayOwed`, `SerialStoreIsCell`.
- The bound on revisions is not inductive: a transaction that has counted, below the limit or with a revision to evict,
  is about to insert a row. `BoundInv` bounds rows plus such transactions by the limit and the number of open transactions,
  and says (`EvictedLive`) that a revision it is going to evict is still there, because its row lock is held: two
  transactions never evict one revision and insert two.
- `NumberInv`, for `NumberShared`, the other half of `RevisionsKept` (`RevisionsAreKept`): for each number, the revisions that have it and the snapshots that took it and will add to them are
  no more than transactions can be open. A snapshot takes a number above all that are there, except that of the revision it evicts.
- `OwedInv` adds to `SnapshotOwed` the saves on their way: one that has recorded its entry and not committed finds its
  entry still fresh; and the scheduler is in a snapshot exactly while its transaction is one.
- `SerialInv`, for the refinement (each step is a step of `VersionedCell` or a stutter): when transactions do not overlap, the one that is
  open read the committed row.

**The editor** (`NeuronEditorProofs`): `EditorTypeCorrect`, `SavesSeeWhatTheyReplace` (`NoBlindOverwrite`), `EditsAreNotForgotten`.
- `Fresh` says that every version known to a tab, a request or a late request is at most the row's, and where it is
  the row's, the content seen with it is the row's content; restores in flight are kept apart because
  their answer brings a version while an older save's answer counts one up.
- `KeptTab`: a tab whose writes do not overlap has one call at most, which carries the document on the screen or the timer runs again; so
  whatever becomes of the call, the edit is due, saved or reported.

**The sandbox service** (`SandboxProofs`): `SandboxTypeCorrect`, `CloningSandboxIsOwned`, `ActiveSandboxHasRepo`, `NoDirectoryIsOrphaned`, and both as `DirectoriesMatchRows`.
- Types need `HandlersPlaced` and `ClonesPlaced` (an actor that has a sandbox to work on knows its id); ownership needs that
  only Provision and Retry reach `startClone`. An owner steps aside only by recording a status or by failing to.
- The other two follow from `SoundInv`: as long as nothing failed and no two operations met on a sandbox, one actor or goroutine at most works on
  it, and at each stage of that operation `Fits` and `CloneFits` say what its row and its directory look like. Row and
  directory are never described apart, since each is changed alone.

**What is derived from content** (`SavedContentProofs`): `SavedContentTypeCorrect`, `ReadyQuestionsFollow`, `QuestionsAreOfOneGeneration`,
`QuestionsAreKept`, `ReferencesAreOfContent`, `EmbeddingIsOfContent`.
- `ReadyFollows` needs to know what a commit will find: `MarksInv` says that a save that no generation met has marked every question of other content,
  and holds their locks, so that none of them is ready once it commits. What a generation has in hand is of
  the content, or its item is gone, or the note is `passed` (`GenerationFollows`).
- `OneGeneration` and the action property `QuestionsAreKept` use that the number of an item is given once (`IdsInv`) and that questions are stored for an item
  that is there, or not at all.
- `LinksOf`, for a note that is not set apart: the references are those of the content, or one task of the last save is still to write them, and what that
  task has read is still there; `EmbeddingOf` is the same for the text. Both need that a save's number is its task's (`NumbersInv`) and that the queue holds tasks that are queued
  (`QueueInv`).

**The parts of a note's page** (`NotePageProofs`, `NotePanelsProofs`). `PartSteps` says that a step of the page is, for each part, a step of
its own or none; the invariants speak of one part's variables and carry over.
- `MicrophoneIsReleased`: `Quiet` says that, unless the recorder is tangled, one permission prompt at most is open, and only with no stream on and the
  section on the page. `OneStream`: the lock is held by the bell of an open tab, and a bell with a stream holds it.
- `BadgesAreRight`: `CountsInv` follows the last message. If events wait in the stream, the last of them is right, otherwise the last the relay has for the
  tab, or the answer its fetch has, or what it shows (`TabInv`); right means the count that stands when the open transaction, which broadcast
  before its commit, has committed (`Right`).
- `OutputIsOwn`: a result that is coming, or has come, meets scripts of its own section or of mixed ones (`RunsInv`). `CancelledAsksAreSilent` is
  an action property: what a step may not do while the request in flight is a cancelled one.
- `OccurrencesAreToldOnce`: `OnceInv` says that what became a notification is past and neither stored nor among what the scheduler still holds; it needs
  `KnownInv`, that ids are given once and a creation that is not answered has its own.
- `PanelIsCurrent`: `ShownInv` looks at each reminder by itself: the panel shows of it what is stored once the requests that were served are
  answered, and two requests for one reminder are never of a kind that could be answered in another order.
- `ShownFilesExist`: `FilesInv` says that sections and uploads have files of their own, so that deleting one section's file takes none that is shown;
  `KeptInv` says the same of the documents that the row, its revisions and the answers of restores hold, with the locked sections in the order of the screen.
  `LockedSectionsStay` is proved with it: `Follows` maps the places of the locked sections after a step to those before it.
- `SettingsAreStored`: while the writes of the item follow one another (`WritesInv`) what a writer has read is still stored; what the panel shows is
  stored, or kept from before, or a request that will set it is on its way (`AsksInv`, `PanelInv`).
- `NotePageTypeCorrect` takes from those invariants what is on its way: an answer is put behind a turn there is (`DialogInv`), a section that is replaced is the one with its id and keeps its number
  (`FilesInv`, `ReplacedInOrder`), a count that is broadcast or relayed is one of notifications that were created (`NotesCounted`), an update that is answered brings one item at most (`PanelType`).

**The pages** (`PagesProofs`, `BrainPagesProofs`). `PageSteps` is the same argument as `PartSteps`.
- `CodeKeepsItsAnchor`: what holds of the notes holds before of the selection they are made of and of the form that is making one.
- `RatesWhatWasSeen`: a card stays loaded for an item that the page has turned away from, so that `LoadsOne` speaks of the card's item as well as of the active one.
- `StatusIsCurrent`, `FilesAreCurrent`: the answer of a command that was carried out is still to come and will invalidate what is cached, or what is cached and what is being
  read is right (`StatusInv`, `FilesInv`).
- `OpenViewIsCurrent`: `KeyInv` says of each of the four views' queries, open or not, that what it has is stored unless it is stale, was not told, or a change is on its way; `AloneInv`
  that a task whose requests never met has one request at most, which answers with what is stored.
- `ShownTagsAreCurrent`: `NoteTags` says of a note whose tag changes never met, nor lost the answer to an applied one, that whatever list is shown, on its way, or kept for a drag that fails agrees with its tags, or
  the page put others in their place that do; a change starts from the tags the note has.
- `OrderIsCurrent`: `OrderInv` follows one request at a time, from the last reading of the list on: at rest the list has the stored order; while a drag waits the list is as it was dragged, the backend gets that order,
  and what would be put back has the stored one. A dragged list is a list of the same notes (`MovedAt`, `FromPermutes`), and places given by position ascend (`PlacesAscend`).
- `ResearchClusterIsUnique`: the index lets a creation through at zero alone, whatever was checked before. `CachedListsFollow`: a list that is cached or being read is the backend's, or
  a request that may have changed it will have it asked for again, and one that the backend keeps is current or about to be cleared before that (`ListsInv`). `DescriptionIsShown`: `TextInv` says that no text anywhere is
  newer than what was typed, and, when renames and saves waited for each other, that the text area has what is cached or will have what is saved.
- `StatusIsOwed`: the property is inductive once a task that may find nothing to write does not count as coming (`OwedInv`). `TopicsAreCurrent`: what is shown, and what was
  read to be shown, has the stored statuses, or the page is still to be told (`ToldInv`); it needs that places in the queue are different tasks (`QueueInv`).
- `PagesTypeCorrect` needs those invariants where a type depends on what is on its way: an expansion writes back a status it has read (`Reads`), a running task has a topic (`JobTypes`),
  the pool grows by a thread only below its maximum, the revision of a sandbox is counted by the commands under way, and the queue of the review, of items that are in it once, is never longer
  than there are items, so that the place in it stays in bounds (`RemovedFirst`, `DistinctIsShort`).

Assumptions are the named ones of the modules, and TLC evaluates each in a run: ids differ from null values and queries from each other (`StoreAssumption`, `SandboxAssumption`,
`TasksAssumption`), bounds are naturals (`StoreAssumption`, `BoundsAssumption`), threads, notes and items are finite (`StoreAssumption`, `ClusterAssumption`,
`DueAssumption`), an item is due once (`DueAssumption`, the queue being selected from the table of items), the core size of the pool is at most its maximum (`PoolAssumption`), the document a page loads has sections with ids and files of their own, numbered from zero
(`SectionsAssumption`), the first reminders are reminders (`RemindersAssumption`), a note has one item at most at first (`ReviewAssumption`, as the unique index of the
table has it), a content links to targets and there is a note (`LinksAssumption`, `ContentAssumption`), the mark for "no tags changed" is no set of tags (`ClusterAssumption`). The theorems assume nothing else.

Proving corrected the models in small things: conditions of a CASE that overlapped became IF/ELSE in the order of the code, requests are written as whole records, a deleted thought has no
type (`onDelete` of `BrainTree`), a hypothesis of `TextIsSaved` was not needed and went, and `LockedKeepOrder` states the order of the locked sections as a relation.

What a history variable sets aside in a run its theorem sets aside too; the comment of each property and each hazard's note in `PROJECT.json` say which
situations those are and what the code does in them.

Only model-checked: the liveness properties (`SnapshotTaken`, `EditSettles`, `CloneSettles`, `StreamComesUp`, `QuestionsCome`), which lean on fairness and ENABLED, out of the prover's reach.

## Not modelled

Left out of the modelled components: `NeuronService.duplicate` (makes another neuron), favourite, pin and panel toggles of the editor page, the
text of contents, the inside of tables, diagrams and formulas, the deletion of a brain, forms that only create and leave the page, what git, the
language model and the object store answer, authentication (there is none), rendering. Of research topics: the order, the goal of the cluster,
requests that time out in the browser, and a second page on the cluster, whose requests would be like those the page sends before its list follows.
Threads of the pool above the core size stay in the model; the run has none, and one thread, so that two tasks of topics run at once in the theorems alone. A stream
that `ResearchSseService` subscribes while it removes the last emitter of the cluster (lines 50-57) may be left in a list nobody sends to: the models of the page have every open stream in the list.

Of the live updates: browsers without `navigator.locks` (`sseLeaderElection.ts`:33-36, 115-145), where every bell has a stream of its own and `OneConnection` is not meant. Of
reminders: a reminder of a note that is gone, deleted or archived, which the processing switches off (`ReminderProcessingService`:37-43; the note of the model is there), and the
bound on the steps by which a trigger is moved on (`MAX_ADVANCE_ITERATIONS`, two years of days), after which it is due in a day. Of the backend's caches: `tags`, `settings`, `brainStats` and those of GitHub,
the other readers of `brains` and `clustersByBrain`, and the clearing of `clustersByBrain` by the pool after it wrote a goal (`ResearchAsyncService`:85), as goals are left out. Of the
brain page: that the effect which takes over a fetched brain also runs when its tags change (`page.tsx`:29).

Of what is derived from content: how many questions there are and what they ask, which notes are similar (the related suggestions are those of the text the
embedding is of), targets in the trash, notes that are deleted meanwhile, two requests that add one item, and the other tasks of the pool.

Not modelled at all, as `components` says for each: settings, the graph, thoughts, templates, shares, search, import and export, statistics, the editor's toolbar, the intelligence service,
deployment.

## What would come next

`Sm2`: the SM-2 step with fixed-point ease factors, its bounds and its overflow.
