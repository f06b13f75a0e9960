---------------------------- MODULE ContentSaves ----------------------------
(***************************************************************************)
(* The writes of the content of notes, as what is derived from it sees     *)
(* them: the transactions of updateContent, which mark questions as stale  *)
(* before they commit and hand a task to the pool after it, and the        *)
(* restores and PATCHes, which do neither.                                 *)
(***************************************************************************)
EXTENDS Naturals, Sequences, FiniteSets

CONSTANTS
    Notes,        \* notes
    Contents,     \* what a note can contain
    FirstContent, \* its content at first
    Requests,     \* threads that serve saves
    MaxSaves,     \* saves
    MaxReplaces,  \* restores and PATCHes with content
    MaxRestarts   \* restarts of the backend

ASSUME ContentAssumption ==
    /\ Notes # {} /\ FirstContent \in Contents
    /\ MaxSaves \in Nat /\ MaxReplaces \in Nat /\ MaxRestarts \in Nat

VARIABLES
    content,   \* note -> the content of its row
    saves,     \* thread -> the save it serves
    saved,     \* saves begun
    replaced,  \* restores and PATCHes
    restarts

contentVars == <<content, saves, saved, replaced, restarts>>

\* A save has its number, and is open until it commits and committed until it has handed its task over.
SaveStates == [at: {"none", "open", "committed"}, no: 0 .. MaxSaves, note: Notes, content: Contents]
NoSave == [at |-> "none", no |-> 0, note |-> CHOOSE n \in Notes : TRUE, content |-> FirstContent]

ContentInit ==
    /\ content = [n \in Notes |-> FirstContent]
    /\ saves = [w \in Requests |-> NoSave]
    /\ saved = 0 /\ replaced = 0 /\ restarts = 0

\* updateContent from its check of the version to the statement that marks questions.
OpenSave(w, n, c) ==
    /\ saves[w].at = "none" /\ saved < MaxSaves
    /\ saved' = saved + 1
    /\ saves' = [saves EXCEPT ![w] = [at |-> "open", no |-> saved + 1, note |-> n, content |-> c]]
    /\ UNCHANGED <<content, replaced, restarts>>

CommitContent(w) ==
    /\ saves[w].at = "open"
    /\ content' = [content EXCEPT ![saves[w].note] = saves[w].content]
    /\ saves' = [saves EXCEPT ![w].at = "committed"]
    /\ UNCHANGED <<saved, replaced, restarts>>

\* The answer, after afterCommit.
AnswerSave(w) ==
    /\ saves[w].at = "committed"
    /\ saves' = [saves EXCEPT ![w] = NoSave]
    /\ UNCHANGED <<content, saved, replaced, restarts>>

\* restoreRevision, and a PATCH with content.
ReplaceContent(n, c) ==
    /\ replaced < MaxReplaces /\ replaced' = replaced + 1
    /\ content' = [content EXCEPT ![n] = c]
    /\ UNCHANGED <<saves, saved, restarts>>

\* Open transactions roll back.
ForgetSaves ==
    /\ restarts < MaxRestarts /\ restarts' = restarts + 1
    /\ saves' = [w \in Requests |-> NoSave]
    /\ UNCHANGED <<content, saved, replaced>>

ContentTypeOK ==
    /\ content \in [Notes -> Contents] /\ saves \in [Requests -> SaveStates]
    /\ saved \in 0 .. MaxSaves /\ replaced \in 0 .. MaxReplaces /\ restarts \in 0 .. MaxRestarts
=============================================================================
