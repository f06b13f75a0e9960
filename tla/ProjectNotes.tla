---------------------------- MODULE ProjectNotes ----------------------------
(***************************************************************************)
(* What is selected on the page of a project cluster, and the panel of     *)
(* notes beside it.  A path is selected in the tree, in the quick-open     *)
(* dialog, from the anchor of a note, or by following a definition in the  *)
(* code; code that is selected in the viewer becomes a note anchored to    *)
(* the selected path.                                                      *)
(***************************************************************************)
EXTENDS Naturals, FiniteSets

CONSTANTS
    Files,
    Folders,     \* folders of the repository, the root among them
    Root,
    Nested,      \* paths that are not in the listing of the root
    MaxNotes     \* notes created

VARIABLES
    active,     \* the sandbox is active
    path, kind, \* what is selected: selectedPath, and selectedType
    shown,      \* the file the viewer shows, or None while it loads
    selection,  \* the file the selected code was taken from, or None
    line,       \* the file the line to scroll to belongs to, or None
    lookup,     \* the file whose definition is looked up, or None
    panel,      \* the panel of notes: its tab, and the note in its dialog
    finder,     \* the dialog that is open: quick open, go to line, or none
    creating,   \* the note that is being created
    notes,      \* notes created: their anchors, and the files their code is from
    strayed     \* history: a definition changed the path under a selection, or arrived after another path was selected

vars == <<active, path, kind, shown, selection, line, lookup, panel, finder, creating, notes, strayed>>

None == "none"
Paths == Files \cup Folders
Notes == [anchor: Paths, code: Files \cup {None}, stray: BOOLEAN]
NoNote == [anchor |-> None, code |-> None, stray |-> FALSE]
NoPanel == [tab |-> "file", note |-> NoNote]
Work == <<lookup, panel, finder, creating, notes>>

Init ==
    /\ path = None /\ kind = None /\ shown = None /\ selection = None /\ line = None /\ lookup = None
    /\ panel = NoPanel /\ finder = None /\ creating = NoNote /\ strayed = FALSE
    /\ active = FALSE /\ notes = {}

\* The root's listing in the sandbox; without a sandbox, the whole tree.
entries == IF active THEN Paths \ (Nested \cup {Root}) ELSE Paths \ {Root}

-----------------------------------------------------------------------------
(* What is selected.                                                       *)
\* Mutant: the selected code stays selected.
SelectKeeping(p, k) ==
    /\ path' = p /\ kind' = k
    /\ line' = None /\ strayed' = FALSE /\ UNCHANGED selection
    /\ shown' = IF p = path /\ k = kind THEN shown ELSE None

Select(p, k) ==
    /\ path' = p /\ kind' = k
    /\ selection' = None /\ line' = None /\ strayed' = FALSE
    /\ shown' = IF p = path /\ k = kind THEN shown ELSE None

handleSelectFile(p) == Select(p, "file")
handleSelectFolder(p) == Select(p, "directory")

\* A row of the tree; the rows of a nested folder are loaded when it is expanded.
ClickRow(p) ==
    /\ IF p \in Files THEN handleSelectFile(p) ELSE handleSelectFolder(p)
    /\ UNCHANGED <<active, Work>>

handleNavigateToAnchor(p) ==
    IF p = Root \/ p \in Folders \cap entries THEN handleSelectFolder(p) ELSE handleSelectFile(p)

ContentLoaded ==
    /\ kind = "file" /\ path \in Files /\ shown = None
    /\ shown' = path
    /\ UNCHANGED <<active, path, kind, selection, line, Work, strayed>>

\* The sandbox is provided or terminated: the content of the file is another query's.
ModeChanges ==
    /\ active' = ~active /\ shown' = None
    /\ UNCHANGED <<path, kind, selection, line, Work, strayed>>

Viewing == kind = "file" /\ shown = path /\ shown # None

\* The viewer's listener: code of the document that is shown, or none.
onCodeSelection ==
    /\ Viewing
    /\ \E s \in {shown, None} \ {selection} : selection' = s
    /\ strayed' = (strayed /\ line \notin {None, path})
    /\ UNCHANGED <<active, path, kind, shown, line, Work>>

-----------------------------------------------------------------------------
(* Lines.                                                                  *)

\* Of the outline, or of the dialog.
handleGoToLine ==
    /\ Viewing /\ finder = "line"
    /\ line' = path /\ finder' = None
    /\ UNCHANGED <<active, path, kind, shown, selection, lookup, panel, creating, notes, strayed>>

handleSymbolClick ==
    /\ Viewing /\ active
    /\ line' = path
    /\ UNCHANGED <<active, path, kind, shown, selection, Work, strayed>>

handleGoToDefinition ==
    /\ Viewing /\ active /\ lookup = None
    /\ lookup' = path
    /\ UNCHANGED <<active, path, kind, shown, selection, line, panel, finder, creating, notes, strayed>>

\* The answer changes the path of the selection alone, whatever is selected by now.
DefinitionFound(f) ==
    /\ lookup # None /\ lookup' = None
    /\ line' = f
    /\ path' = IF f # lookup THEN f ELSE path
    /\ shown' = IF path' # path THEN None ELSE shown
    /\ strayed' = (strayed \/ path # lookup \/ kind # "file" \/ (path' # path /\ selection # None))
    /\ UNCHANGED <<active, kind, selection, panel, finder, creating, notes>>

DefinitionMissing ==
    /\ lookup # None /\ lookup' = None
    /\ UNCHANGED <<active, path, kind, shown, selection, line, panel, finder, creating, notes, strayed>>

-----------------------------------------------------------------------------
(* Dialogs.                                                                *)

OpenFinder(d) ==
    /\ finder = None /\ finder' = d
    /\ UNCHANGED <<active, path, kind, shown, selection, line, lookup, panel, creating, notes, strayed>>

CloseFinder ==
    /\ finder # None /\ finder' = None
    /\ UNCHANGED <<active, path, kind, shown, selection, line, lookup, panel, creating, notes, strayed>>

\* Quick open lists the files among the entries.
handleSelect(f) ==
    /\ finder = "quick" /\ f \in entries
    /\ handleSelectFile(f) /\ finder' = None
    /\ UNCHANGED <<active, lookup, panel, creating, notes>>

-----------------------------------------------------------------------------
(* The panel of notes.                                                     *)

setTab(t) ==
    /\ panel.tab # t /\ panel.note = NoNote
    /\ panel' = [panel EXCEPT !.tab = t]
    /\ UNCHANGED <<active, path, kind, shown, selection, line, lookup, finder, creating, notes, strayed>>

\* The notes of the path, or all of them.
Listed == {n \in notes : panel.tab = "cluster" \/ n.anchor = path}

OpenNote(n) ==
    /\ panel.note = NoNote /\ n \in Listed
    /\ panel' = [panel EXCEPT !.note = n]
    /\ UNCHANGED <<active, path, kind, shown, selection, line, lookup, finder, creating, notes, strayed>>

CloseNote ==
    /\ panel.note # NoNote /\ panel' = [panel EXCEPT !.note = NoNote]
    /\ UNCHANGED <<active, path, kind, shown, selection, line, lookup, finder, creating, notes, strayed>>

\* "Open file in tree", in the menu of a note and in its dialog.
OpenFromMenu(n) ==
    /\ panel.note = NoNote /\ n \in Listed
    /\ handleNavigateToAnchor(n.anchor)
    /\ panel' = [panel EXCEPT !.tab = "file"]
    /\ UNCHANGED <<active, lookup, finder, creating, notes>>

OpenFromDialog ==
    /\ panel.note # NoNote
    /\ handleNavigateToAnchor(panel.note.anchor)
    /\ panel' = [panel EXCEPT !.note = NoNote]
    /\ UNCHANGED <<active, lookup, finder, creating, notes>>

-----------------------------------------------------------------------------
(* New notes.                                                              *)

Create(code) ==
    /\ creating = NoNote /\ panel.tab = "file" /\ Cardinality(notes) < MaxNotes
    /\ creating' = [anchor |-> path, code |-> code, stray |-> strayed]
    /\ UNCHANGED <<active, path, kind, shown, selection, line, lookup, panel, finder, notes, strayed>>

\* The callout and the code of the new note are locked, its text is empty.
handleCreateNeuron == kind = "file" /\ selection # None /\ Create(selection)

handleCreateFolderNeuron == kind = "directory" /\ Create(None)

\* The page goes to the new note, and comes back fresh.
NeuronCreated ==
    /\ creating # NoNote
    /\ notes' = notes \cup {creating}
    /\ path' = None /\ kind' = None /\ shown' = None /\ selection' = None /\ line' = None /\ lookup' = None
    /\ panel' = NoPanel /\ finder' = None /\ creating' = NoNote /\ strayed' = FALSE
    /\ UNCHANGED active

NeuronFails ==
    /\ creating # NoNote /\ creating' = NoNote
    /\ UNCHANGED <<active, path, kind, shown, selection, line, lookup, panel, finder, notes, strayed>>

Next ==
    \/ \E p \in Paths : ClickRow(p)
    \/ \E f \in Files : DefinitionFound(f) \/ handleSelect(f)
    \/ \E n \in notes : OpenNote(n) \/ OpenFromMenu(n)
    \/ \E t \in {"file", "cluster"} : setTab(t)
    \/ \E d \in {"quick", "line"} : OpenFinder(d)
    \/ ContentLoaded \/ ModeChanges \/ onCodeSelection
    \/ handleGoToLine \/ handleSymbolClick \/ handleGoToDefinition \/ DefinitionMissing \/ CloseFinder
    \/ CloseNote \/ OpenFromDialog
    \/ handleCreateNeuron \/ handleCreateFolderNeuron \/ NeuronCreated \/ NeuronFails

Spec == Init /\ [][Next]_vars

-----------------------------------------------------------------------------
TypeOK ==
    /\ active \in BOOLEAN /\ path \in Paths \cup {None} /\ kind \in {None, "file", "directory"}
    /\ shown \in Files \cup {None} /\ selection \in Files \cup {None} /\ line \in Files \cup {None}
    /\ lookup \in Files \cup {None} /\ finder \in {None, "quick", "line"}
    /\ panel \in [tab: {"file", "cluster"}, note: Notes \cup {NoNote}]
    /\ creating \in Notes \cup {NoNote} /\ notes \subseteq Notes /\ strayed \in BOOLEAN

\* Code becomes a note of the file it was selected in, however the user moved through tree, dialogs and
\* notes in between, unless a definition changed the path.
CodeFromAnchor == \A n \in notes : n.code # None /\ ~n.stray => n.code = n.anchor
=============================================================================
