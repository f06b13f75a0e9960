---------------------------- MODULE SavedContent ----------------------------
(***************************************************************************)
(* What the backend derives from the content of a note, after a save and   *)
(* besides it: review questions, link suggestions and the embedding.       *)
(***************************************************************************)
EXTENDS ReviewQuestions, LinkSuggestions

vars == <<contentVars, questionVars, linkVars>>

Init == ContentInit /\ QuestionsInit /\ LinksInit

\* NeuronService.updateContent: the UPDATE that marks questions, the commit, and afterCommit.
BeginSave(w, n, c) == OpenSave(w, n, c) /\ MarkStale(w, n, c) /\ UNCHANGED linkVars
CommitSave(w) == CommitContent(w) /\ CommitMarks(w) /\ CommitLinks(w)
EndSave(w) == AnswerSave(w) /\ (HandOver(w) \/ Refuse(w)) /\ UNCHANGED questionVars

\* RevisionService.restoreRevision and NeuronService.update.
Replace(n, c) == ReplaceContent(n, c) /\ PassQuestions(n) /\ PassLinks(n)

Restart == ForgetSaves /\ ForgetGeneration /\ ForgetTasks

QuestionSteps ==
    /\ \/ Schedules
       \/ \E made \in {0, 1} : AiAnswers(made)
       \/ \E n \in Notes : Regenerate(n) \/ AddItem(n) \/ RemoveItem(n) \/ FallsDue(n)
       \/ \E n \in Notes, due, quiz \in BOOLEAN : ChangeItem(n, due, quiz)
    /\ UNCHANGED <<contentVars, linkVars>>

LinkSteps ==
    /\ \/ Take
       \/ \E k \in Numbers : \/ ReadReferences(k) \/ WriteReferences(k) \/ LinkingFails(k) \/ ReadText(k)
                             \/ Embedded(k) \/ EmbeddingFails(k) \/ StoreEmbedding(k)
    /\ UNCHANGED <<contentVars, questionVars>>

Next ==
    \/ \E w \in Requests, n \in Notes, c \in Contents : BeginSave(w, n, c)
    \/ \E w \in Requests : CommitSave(w) \/ EndSave(w)
    \/ \E n \in Notes, c \in Contents : Replace(n, c)
    \/ Restart
    \/ QuestionSteps
    \/ LinkSteps

\* Transactions end, the scheduler runs on, and the AI answers now and then.
Spec ==
    /\ Init /\ [][Next]_vars
    /\ \A w \in Requests : WF_vars(CommitSave(w))
    /\ WF_vars(Schedules /\ UNCHANGED <<contentVars, linkVars>>)
    /\ SF_vars(AiAnswers(1) /\ UNCHANGED <<contentVars, linkVars>>)

-----------------------------------------------------------------------------
TypeOK == ContentTypeOK /\ QuestionsTypeOK /\ LinksTypeOK

\* Questions that are ready were made of the content the note has, whatever was saved between the three phases of their
\* generation; only a save that met the generation, and writes that mark nothing, leave others.
ReadyFollows == \A q \in questions : q.ready /\ q.note \notin passed => q.hash = content[q.note]

\* The questions of an item come from one generation, and go with the item.
OneGeneration ==
    /\ \A q, r \in questions : q.item = r.item => q = r
    /\ \A q \in questions : item[q.note].id = q.item

\* Questions of an item are only ever replaced by others: a generation that fails, at whatever phase, leaves those there were.
KeptUntilReplaced ==
    [][\A n \in Notes : item[n] # NoItem /\ item'[n].id = item[n].id /\ Of(item[n].id) # {} => Of(item[n].id)' # {}]_vars

\* The scheduler comes back to an item until it has questions, also after a restart or a failure, or until it wants none.
QuestionsCome ==
    \A n \in Notes : (Pending(n) /\ content[n] \in Substantive) ~> ~(Pending(n) /\ content[n] \in Substantive)

\* Once the task of a save is through, the references are those of the content, whatever failed or met before that
\* save.  The notes set apart are those written last by a restore or a PATCH, which hand over no task, or by a save
\* that found another save or task of the note unfinished, and those whose last task was refused by the pool, ended
\* with the process or failed to store.
ReferencesFollow ==
    \A n \in Notes \ (unlinked \cup refused) :
      ~Linking(n) => {r.to : r \in references[n]} = Links[content[n]] \ {n}

\* The embedding is that of the content, although the task reads the text long after the save.  The notes set apart
\* are the same, with a task that failed to compute or store it; and a text that was emptied keeps the embedding of
\* the text before, since the task ends there.
EmbeddingFollows ==
    \A n \in Notes \ (unembedded \cup refused) :
      ~Working(n) /\ content[n] \notin Blank => embedding[n] = {content[n]}
=============================================================================
