------------------------------ MODULE Sections ------------------------------
(***************************************************************************)
(* The sections of one neuron on the editor page: the list and its         *)
(* controls, the files that image and audio sections show, the save that   *)
(* follows each change, and the revisions, one of which may take the place *)
(* of the sections on the screen.  A section's text is a number that grows *)
(* with each edit.  A file is named after the upload that brought it.      *)
(***************************************************************************)
EXTENDS Naturals, Sequences, FiniteSets, SequencesExt, Functions

CONSTANTS
    FirstDocument,  \* the sections the neuron has when the page loads it
    NewKinds,       \* the kinds of sections the user adds
    MaxSections,    \* ids given to sections
    MaxLength,      \* sections that adding one makes
    MaxEdits,       \* edits of a text
    MaxUploads,     \* files uploaded
    MaxRevisions,   \* revisions made
    MaxRestores     \* restores asked for

VARIABLES
    doc,        \* sectionsDoc.sections
    texts,      \* richTextTextsRef: section id -> text, for the editors that reported one
    uploads,    \* uploads in flight: section, file, and the caption seen when it started
    files,      \* attachments the backend has
    sent,       \* uploads started
    due,        \* a save is due (the debounce timer runs)
    failed,     \* the last save failed ("error" is shown)
    stored,     \* contentJson of the row
    storedText, \* contentText of the row: section id -> text
    viewMode,   \* the page is shown for reading
    revisions,  \* rows of neuron_revisions: sections and text
    restores,   \* restores the backend has done, each of which moves the row's version on
    known,      \* the last of them that versionRef knows of
    restored,   \* their answers, on the way to the page
    revived     \* files that were gone when a restore brought back a section that shows them

vars == <<doc, texts, uploads, files, sent, due, failed, stored, storedText, viewMode,
          revisions, restores, known, restored, revived>>

Ids == 1 .. MaxSections
Kinds == {"rich-text", "image", "audio", "block"}  \* block: the kinds whose text is in their JSON
WithFile == {"image", "audio"}
NoFile == 0

Section == [id: Ids, kind: Kinds, order: Nat, locked: BOOLEAN, file: Nat, text: Nat]

createSection(i, kind, order) ==
    [id |-> i, kind |-> kind, order |-> order, locked |-> FALSE, file |-> NoFile, text |-> 0]

FilesOf(d) == {d[i].file : i \in DOMAIN d} \ {NoFile}
TextsOf(d) == {<<d[i].id, d[i].text>> : i \in {j \in DOMAIN d : d[j].kind = "rich-text"}}
\* No document has a section with this id, on the screen or in the backend, and no upload is for it.
Unused(id) ==
    /\ \A d \in {doc, stored} \cup {r.doc : r \in revisions \cup restored} : \A i \in DOMAIN d : d[i].id # id
    /\ \A u \in uploads : u.sec # id

Position(id) == CHOOSE i \in DOMAIN doc : doc[i].id = id

Init ==
    /\ doc = FirstDocument /\ stored = FirstDocument
    /\ storedText = TextsOf(FirstDocument)
    /\ texts = <<>>
    /\ files = FilesOf(FirstDocument)
    /\ uploads = {} /\ sent = 0 /\ due = FALSE /\ failed = FALSE
    /\ viewMode = FALSE
    /\ revisions = {} /\ restores = 0 /\ known = 0 /\ restored = {} /\ revived = {}

\* Mutant: numbers from one.
NumberedFromOne(d) == [i \in DOMAIN d |-> [d[i] EXCEPT !.order = i]]

Numbered(d) == [i \in DOMAIN d |-> [d[i] EXCEPT !.order = i - 1]]

\* onDocumentChange: the page shows the new list and (re)starts the timer of its save.
updateSections(d) == doc' = d /\ due' = TRUE

Restores == <<revisions, restores, known, restored, revived>>
Saved == <<failed, stored, storedText, Restores>>
Files == <<uploads, files, sent>>

-----------------------------------------------------------------------------
(* The controls of the list.                                               *)
\* Mutant: locked sections have their buttons too.
OfferedToAll(i) == ~viewMode

\* The buttons beside a section.
Offered(i) == ~viewMode /\ ~doc[i].locked

\* From the button below a section that is not locked, or from inside a rich text section.
Addable(after) ==
    /\ ~viewMode
    /\ IF after = 0 THEN doc = <<>>
       ELSE ~doc[after].locked \/ (doc[after].kind = "rich-text")

addSection(kind, after) ==
    /\ Addable(after) /\ Len(doc) < MaxLength
    /\ \E id \in Ids :
         /\ Unused(id) /\ id > Len(FirstDocument) /\ \A o \in Len(FirstDocument) + 1 .. id - 1 : ~Unused(o)
         /\ updateSections(Numbered(InsertAt(doc, after + 1, createSection(id, kind, after))))
    /\ UNCHANGED <<texts, viewMode, Files, Saved>>

\* A section is shown as preview or for editing; the mode is kept in the document.
togglePreview(i) ==
    /\ Offered(i)
    /\ updateSections(doc)
    /\ UNCHANGED <<texts, viewMode, Files, Saved>>
\* Mutant: no save follows.
deleteSectionUnsaved(i) ==
    /\ Offered(i)
    /\ files' = files \ {doc[i].file}
    /\ texts' = Restrict(texts, DOMAIN texts \ {doc[i].id})
    /\ doc' = Numbered(RemoveAt(doc, i))
    /\ UNCHANGED <<uploads, sent, due, viewMode, Saved>>

\* The file goes at once, the section with the next save; a DELETE that fails is not noticed.
deleteSection(i) ==
    /\ Offered(i)
    /\ \/ files' = files \ {doc[i].file}
       \/ files' = files
    /\ texts' = Restrict(texts, DOMAIN texts \ {doc[i].id})
    /\ updateSections(Numbered(RemoveAt(doc, i)))
    /\ UNCHANGED <<uploads, sent, viewMode, Saved>>

moveSection(i, to) ==
    /\ Offered(i)
    /\ to \in {i - 1, i + 1} \cap DOMAIN doc
    /\ updateSections(Numbered([doc EXCEPT ![i] = doc[to], ![to] = doc[i]]))
    /\ UNCHANGED <<texts, viewMode, Files, Saved>>

\* Only sections that are not locked can be picked up; they may be put down anywhere.
handleDragEnd(i, to) ==
    /\ Offered(i) /\ to \in DOMAIN doc \ {i}
    /\ updateSections(Numbered(InsertAt(RemoveAt(doc, i), to, doc[i])))
    /\ UNCHANGED <<texts, viewMode, Files, Saved>>

toggleViewMode ==
    /\ viewMode' = ~viewMode
    /\ UNCHANGED <<doc, texts, due, Files, Saved>>

-----------------------------------------------------------------------------
(* What the editors of the sections report.                                *)

updateSection(id, new) ==
    updateSections([i \in DOMAIN doc |-> IF doc[i].id = id THEN new ELSE doc[i]])

Retyped(s) == [s EXCEPT !.text = @ + 1]

\* Typing in a rich text section also records its plain text.
Type(i) ==
    /\ ~viewMode /\ doc[i].text < MaxEdits
    /\ doc[i].kind \in WithFile => doc[i].file # NoFile
    /\ updateSection(doc[i].id, Retyped(doc[i]))
    /\ texts' = IF doc[i].kind = "rich-text"
                THEN [id \in DOMAIN texts \cup {doc[i].id} |->
                        IF id = doc[i].id THEN doc[i].text + 1 ELSE texts[id]]
                ELSE texts
    /\ UNCHANGED <<viewMode, Files, Saved>>

\* AI assist replaces a section's content; the editor shows it and reports nothing.
AiSaves(i) ==
    /\ Offered(i) /\ doc[i].kind \in {"rich-text", "block"} /\ doc[i].text < MaxEdits
    /\ updateSection(doc[i].id, Retyped(doc[i]))
    /\ UNCHANGED <<texts, viewMode, Files, Saved>>

-----------------------------------------------------------------------------
(* Files.                                                                  *)

\* Choosing a file, or stopping a recording; an earlier file is replaced, not deleted.
upload(i) ==
    /\ ~viewMode /\ doc[i].kind \in WithFile
    /\ sent < MaxUploads
    /\ sent' = sent + 1
    /\ uploads' = uploads \cup {[sec |-> doc[i].id, file |-> sent + 100, text |-> doc[i].text]}
    /\ UNCHANGED <<doc, texts, files, due, viewMode, Saved>>

\* The section may be gone, or shown in another mode: its callback still runs.
onUploaded(u) ==
    /\ files' = files \cup {u.file}
    /\ uploads' = uploads \ {u}
    /\ updateSection(u.sec, [doc[Position(u.sec)] EXCEPT !.file = u.file, !.text = u.text])
    /\ UNCHANGED <<texts, sent, viewMode, Saved>>

UploadFails(u) ==
    /\ uploads' = uploads \ {u}
    /\ UNCHANGED <<doc, texts, files, sent, due, viewMode, Saved>>

-----------------------------------------------------------------------------
\* The plain text of a save comes from the editors for rich text, from the JSON for the rest.
saveContent ==
    /\ due /\ due' = FALSE
    /\ \/ /\ known = restores
          /\ stored' = doc /\ failed' = FALSE
          /\ storedText' = {<<id, texts[id]>> : id \in DOMAIN texts}
       \/ /\ failed' = TRUE
          /\ UNCHANGED <<stored, storedText>>
    /\ UNCHANGED <<doc, texts, viewMode, Files, Restores>>

-----------------------------------------------------------------------------
(* Revisions.                                                              *)

\* A snapshot of the row, by the button of the history panel or by the scheduler.
createRevision ==
    /\ Cardinality(revisions) < MaxRevisions
    /\ revisions' = revisions \cup {[doc |-> stored, text |-> storedText]}
    /\ UNCHANGED <<doc, texts, due, viewMode, failed, stored, storedText, restores, known, restored, revived, Files>>

Missing(d) == FilesOf(d) \ files

\* The backend restores a revision.  The panel asks for one at a time, unless it is closed and opened meanwhile.
restoreRevision(r) ==
    /\ restores < MaxRestores
    /\ restores' = restores + 1
    /\ stored' = r.doc /\ storedText' = r.text
    /\ restored' = restored \cup {[n |-> restores + 1, doc |-> r.doc]}
    /\ revived' = revived \cup Missing(r.doc)
    /\ UNCHANGED <<doc, texts, due, viewMode, failed, revisions, known, Files>>

\* Its answer takes the place of what is on the screen, whatever was changed there meanwhile; a save that is
\* due comes all the same.
handleRestore(a) ==
    /\ doc' = a.doc
    /\ known' = a.n
    /\ restored' = restored \ {a}
    /\ revived' = revived \cup Missing(a.doc)
    /\ UNCHANGED <<texts, due, viewMode, failed, stored, storedText, revisions, restores, Files>>

\* The answer is lost: nobody catches that, and versionRef stays behind.
RestoreLost(a) ==
    /\ restored' = restored \ {a}
    /\ UNCHANGED <<doc, texts, due, viewMode, failed, stored, storedText, revisions, restores, known, revived, Files>>

Next ==
    \/ \E kind \in NewKinds, after \in 0 .. Len(doc) : addSection(kind, after)
    \/ \E i \in DOMAIN doc :
         \/ togglePreview(i) \/ deleteSection(i) \/ Type(i) \/ AiSaves(i) \/ upload(i)
         \/ \E to \in DOMAIN doc : moveSection(i, to) \/ handleDragEnd(i, to)
    \/ \E u \in uploads : onUploaded(u) \/ UploadFails(u)
    \/ toggleViewMode \/ saveContent
    \/ createRevision
    \/ \E r \in revisions : restoreRevision(r)
    \/ \E a \in restored : handleRestore(a) \/ RestoreLost(a)

Spec == Init /\ [][Next]_vars

-----------------------------------------------------------------------------
TypeOK ==
    /\ doc \in Seq(Section) /\ stored \in Seq(Section)
    /\ \A i, j \in DOMAIN doc : doc[i].id = doc[j].id => i = j
    /\ \A i \in DOMAIN doc : doc[i].order = i - 1
    /\ DOMAIN texts \subseteq Ids /\ uploads \subseteq [sec: Ids, file: Nat, text: Nat]
    /\ due \in BOOLEAN /\ failed \in BOOLEAN
    /\ {r.doc : r \in revisions \cup restored} \subseteq Seq(Section)
    /\ restores \in Nat /\ known \in 0 .. restores /\ \A a \in restored : a.n \in 1 .. restores

\* A file is never deleted for a section that stays: the sections on the screen show files the backend has, and
\* the stored document refers to a deleted file only until the save that is due, or that failed and said so.  Only
\* a restore shows a section without its file: it brings back one that was deleted, whose file went with it.
StoredFilesExist ==
    /\ FilesOf(doc) \subseteq files \cup revived
    /\ FilesOf(stored) \subseteq files \cup revived \/ due \/ failed

\* Which locked sections there are, and which of two is above the other.
LockedOrder(d) ==
    LET places == {i \in DOMAIN d : d[i].locked} IN
    {<<d[p[1]].id, d[p[2]].id>> : p \in {q \in places \X places : q[1] <= q[2]}}

\* Locked sections are never deleted, and keep their order among themselves, however the sections
\* around them move, and whichever revision is restored.
LockedKeepOrder ==
    [][LockedOrder(doc') = LockedOrder(doc)]_vars
=============================================================================
