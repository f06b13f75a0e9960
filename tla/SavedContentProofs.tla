------------------------- MODULE SavedContentProofs -------------------------
(***************************************************************************)
(* Proofs about what is derived from the content of notes: types, the      *)
(* questions, then the references and the embedding.                       *)
(***************************************************************************)
EXTENDS SavedContent, TLAPS

-----------------------------------------------------------------------------
(* The inductive invariants.                                               *)

\* Ids are given once, an item keeps the note it was added to, and what is stored has questions.
IdsInv ==
    /\ \A n \in Notes : item[n].id <= items /\ (item[n].id = 0 <=> item[n] = NoItem)
    /\ \A m, n \in Notes : item[m].id = item[n].id /\ item[m].id # 0 => m = n
    /\ \A x \in todo : x.id <= items /\ \A n \in Notes : item[n].id = x.id => n = x.note
    /\ gen.at # "none" => /\ gen.item \in 1 .. items
                          /\ \A n \in Notes : item[n].id = gen.item => n = gen.note
    /\ gen.at = "storing" => gen.made = 1

\* What an open save has marked is there, and marked by it alone.
LocksInv ==
    /\ \A w \in Requests : locked[w] \subseteq questions /\ (saves[w].at # "open" => locked[w] = {})
    /\ \A v, w \in Requests : v # w => locked[v] \cap locked[w] = {}

\* What an open save has not marked is of the content it is to commit, unless a generation was stored meanwhile.
MarksInv ==
    \A w \in Requests : saves[w].at = "open" /\ w \notin met =>
      \A q \in questions \ locked[w] : q.note = saves[w].note => q.hash = saves[w].content

\* A generation under way was begun with the content the note has, or what it stores is expected to be of other content.
GenerationFollows ==
    gen.at # "none" /\ item[gen.note].id = gen.item /\ gen.note \notin passed => gen.hash = content[gen.note]

QuestionsInv == IdsInv /\ LocksInv /\ MarksInv /\ OneGeneration /\ GenerationFollows /\ ReadyFollows

\* Each save has a number of its own, and its task is not there before it hands it over.
NumbersInv ==
    /\ \A w \in Requests : saves[w].at # "none" => /\ saves[w].no \in 1 .. saved
                                                   /\ task[saves[w].no].at = "none"
    /\ \A v, w \in Requests : saves[v].at # "none" /\ saves[w].at # "none" /\ saves[v].no = saves[w].no => v = w
    /\ \A k \in Numbers : task[k].at # "none" => k <= saved

\* The queue holds tasks that wait, each once.
QueueInv ==
    /\ \A i \in DOMAIN waiting : task[waiting[i]].at = "queued"
    /\ \A i, j \in DOMAIN waiting : waiting[i] = waiting[j] => i = j

Hands(w, n) == saves[w].at = "committed" /\ saves[w].note = n
LinksFor(k, n) == task[k].note = n /\ task[k].at \in ToLink
Works(k, n) == task[k].note = n /\ task[k].at \in Live

\* One save or task at most has yet to store the references of the note, it does so for the content the note has, and
\* between its two steps the rows stay as it read them.
LinksOf(n) ==
    /\ \A v, w \in Requests : Hands(v, n) /\ Hands(w, n) => v = w
    /\ \A w \in Requests : Hands(w, n) => saves[w].content = content[n] /\ \A k \in Numbers : ~LinksFor(k, n)
    /\ \A k, l \in Numbers : LinksFor(k, n) /\ LinksFor(l, n) => k = l
    /\ \A k \in Numbers : LinksFor(k, n) => task[k].content = content[n]
    /\ \A k \in Numbers : LinksFor(k, n) /\ task[k].at = "linking" => task[k].seen = references[n]
    /\ ~Linking(n) /\ n \notin refused => {r.to : r \in references[n]} = Links[content[n]] \ {n}

LinksInv == \A n \in Notes \ unlinked : LinksOf(n)

\* The same for the embedding: what the only task has read, however late, is the content the note has.
EmbeddingOf(n) ==
    /\ \A v, w \in Requests : Hands(v, n) /\ Hands(w, n) => v = w
    /\ \A w \in Requests : Hands(w, n) => \A k \in Numbers : ~Works(k, n)
    /\ \A k, l \in Numbers : Works(k, n) /\ Works(l, n) => k = l
    /\ \A k \in Numbers : Works(k, n) /\ task[k].at \in {"asking", "storing"} => task[k].text = content[n]
    /\ ~Working(n) /\ n \notin refused /\ content[n] \notin Blank => embedding[n] = {content[n]}

EmbeddingInv == \A n \in Notes \ unembedded : EmbeddingOf(n)

-----------------------------------------------------------------------------
(* Types.                                                                  *)

LEMMA SomeNote == (CHOOSE n \in Notes : TRUE) \in Notes
  <1>1. \E n \in Notes : TRUE
    BY ContentAssumption
  <1>2. QED
    BY <1>1, Zenon

LEMMA NoSaveType == NoSave \in SaveStates
  BY SomeNote, ContentAssumption DEF NoSave, SaveStates

LEMMA NoGenType == NoGen \in Generations
  BY SomeNote, ContentAssumption, QuestionsAssumption DEF NoGen, Generations

LEMMA NoTaskType == NoTask \in TaskStates
  BY SomeNote, ContentAssumption DEF NoTask, TaskStates, Rows

LEMMA InitType == Init => TypeOK
  <1>1. SUFFICES ASSUME Init PROVE TypeOK
    OBVIOUS
  <1>2. ContentTypeOK
    BY <1>1, NoSaveType, ContentAssumption DEF Init, ContentInit, ContentTypeOK
  <1>3. QuestionsTypeOK
    BY <1>1, NoGenType, QuestionsAssumption DEF Init, QuestionsInit, QuestionsTypeOK, ItemRows, NoItem
  <1>4. LinksTypeOK
    BY <1>1, NoTaskType DEF Init, LinksInit, LinksTypeOK
  <1>5. QED
    BY <1>2, <1>3, <1>4 DEF TypeOK

LEMMA ContentType == ASSUME TypeOK, [Next]_vars PROVE ContentTypeOK'
  <1>0. ContentTypeOK
    BY DEF TypeOK
  <1>1. ASSUME NEW w \in Requests, NEW n \in Notes, NEW c \in Contents, OpenSave(w, n, c) PROVE ContentTypeOK'
    BY <1>0, <1>1, ContentAssumption DEF ContentTypeOK, OpenSave, SaveStates
  <1>2. ASSUME NEW w \in Requests, CommitContent(w) PROVE ContentTypeOK'
    BY <1>0, <1>2, ContentAssumption DEF ContentTypeOK, CommitContent, SaveStates
  <1>3. ASSUME NEW w \in Requests, AnswerSave(w) PROVE ContentTypeOK'
    BY <1>0, <1>3, NoSaveType DEF ContentTypeOK, AnswerSave
  <1>4. ASSUME NEW n \in Notes, NEW c \in Contents, ReplaceContent(n, c) PROVE ContentTypeOK'
    BY <1>0, <1>4, ContentAssumption DEF ContentTypeOK, ReplaceContent
  <1>5. ASSUME ForgetSaves PROVE ContentTypeOK'
    BY <1>0, <1>5, NoSaveType, ContentAssumption DEF ContentTypeOK, ForgetSaves
  <1>6. ASSUME UNCHANGED contentVars PROVE ContentTypeOK'
    BY <1>0, <1>6 DEF ContentTypeOK, contentVars
  <1>7. QED
    BY <1>1, <1>2, <1>3, <1>4, <1>5, <1>6
       DEF Next, vars, BeginSave, CommitSave, EndSave, Replace, Restart, QuestionSteps, LinkSteps

LEMMA QuestionsType == ASSUME TypeOK, IdsInv, [Next]_vars PROVE QuestionsTypeOK'
  <1>0. QuestionsTypeOK /\ ContentTypeOK
    BY DEF TypeOK
  <1>1. ASSUME NEW w \in Requests, NEW n \in Notes, NEW c \in Contents, MarkStale(w, n, c) PROVE QuestionsTypeOK'
    BY <1>0, <1>1 DEF QuestionsTypeOK, MarkStale
  <1>2. ASSUME NEW w \in Requests, CommitMarks(w) PROVE QuestionsTypeOK'
    <2>1. \A q \in Questions : Stale(q) \in Questions
      BY DEF Stale, Questions
    <2>2. questions' \subseteq Questions /\ locked' \in [Requests -> SUBSET Questions]
      BY <1>0, <1>2, <2>1 DEF QuestionsTypeOK, CommitMarks
    <2>3. passed' \subseteq Notes /\ met' \subseteq Requests
      BY <1>0, <1>2 DEF QuestionsTypeOK, ContentTypeOK, SaveStates, CommitMarks
    <2>4. QED
      BY <1>0, <1>2, <2>2, <2>3 DEF QuestionsTypeOK, CommitMarks
  <1>3. ASSUME NEW n \in Notes, PassQuestions(n) PROVE QuestionsTypeOK'
    BY <1>0, <1>3 DEF QuestionsTypeOK, PassQuestions
  <1>4. ASSUME NEW n \in Notes, Regenerate(n) PROVE QuestionsTypeOK'
    <2>1. \A q \in Questions : Stale(q) \in Questions
      BY DEF Stale, Questions
    <2>2. QED
      BY <1>0, <1>4, <2>1, QuestionsAssumption DEF QuestionsTypeOK, Regenerate
  <1>5. ASSUME NEW n \in Notes, AddItem(n) PROVE QuestionsTypeOK'
    BY <1>0, <1>5, QuestionsAssumption DEF QuestionsTypeOK, AddItem, ItemRows
  <1>6. ASSUME NEW n \in Notes, RemoveItem(n) PROVE QuestionsTypeOK'
    BY <1>0, <1>6, QuestionsAssumption DEF QuestionsTypeOK, RemoveItem, NoItem, ItemRows
  <1>7. ASSUME NEW n \in Notes, NEW due \in BOOLEAN, NEW quiz \in BOOLEAN, ChangeItem(n, due, quiz) PROVE QuestionsTypeOK'
    BY <1>0, <1>7, QuestionsAssumption DEF QuestionsTypeOK, ChangeItem, ItemRows
  <1>8. ASSUME NEW n \in Notes, FallsDue(n) PROVE QuestionsTypeOK'
    BY <1>0, <1>8 DEF QuestionsTypeOK, FallsDue, ItemRows
  <1>9. ASSUME ListPending PROVE QuestionsTypeOK'
    <2>1. \A n \in Notes : Pending(n) => item[n].id \in Ids
      BY <1>0, QuestionsAssumption DEF QuestionsTypeOK, Pending, ItemRows, IdsInv, Ids
    <2>2. QED
      BY <1>0, <1>9, <2>1 DEF QuestionsTypeOK, ListPending
  <1>10. ASSUME NEW x \in todo, ReadContext(x) PROVE QuestionsTypeOK'
    <2>1. x.note \in Notes /\ x.id \in 0 .. MaxItems
      BY <1>0, QuestionsAssumption DEF QuestionsTypeOK, Ids
    <2>2. gen' \in Generations
      BY <1>0, <1>10, <2>1, NoGenType DEF ReadContext, Generations, ContentTypeOK
    <2>3. QED
      BY <1>0, <1>10, <2>2 DEF QuestionsTypeOK, ReadContext
  <1>11. ASSUME NEW made \in {0, 1}, AiAnswers(made) PROVE QuestionsTypeOK'
    BY <1>0, <1>11, NoGenType DEF QuestionsTypeOK, AiAnswers, Generations
  <1>12. ASSUME StoreQuestions PROVE QuestionsTypeOK'
    <2>1. gen.note \in Notes /\ gen.hash \in Contents /\ gen.item \in Ids
      BY <1>0, <1>12, QuestionsAssumption DEF QuestionsTypeOK, Generations, StoreQuestions, IdsInv, Ids
    <2>2. \A k : [item |-> gen.item, note |-> gen.note, hash |-> gen.hash, ready |-> TRUE] \in Questions
      BY <2>1 DEF Questions
    <2>3. questions' \subseteq Questions
      BY <1>0, <1>12, <2>1, <2>2 DEF QuestionsTypeOK, StoreQuestions
    <2>4. gen' \in Generations /\ passed' \subseteq Notes /\ met' \subseteq Requests
      BY <1>0, <1>12, NoGenType DEF QuestionsTypeOK, StoreQuestions, Crossed
    <2>5. QED
      BY <1>0, <1>12, <2>3, <2>4 DEF QuestionsTypeOK, StoreQuestions
  <1>13. ASSUME ForgetGeneration PROVE QuestionsTypeOK'
    BY <1>0, <1>13, NoGenType DEF QuestionsTypeOK, ForgetGeneration
  <1>14. ASSUME UNCHANGED questionVars PROVE QuestionsTypeOK'
    BY <1>0, <1>14 DEF QuestionsTypeOK, questionVars
  <1>15. QED
    BY <1>1, <1>2, <1>3, <1>4, <1>5, <1>6, <1>7, <1>8, <1>9, <1>10, <1>11, <1>12, <1>13, <1>14
       DEF Next, vars, BeginSave, CommitSave, EndSave, Replace, Restart, QuestionSteps, LinkSteps, Schedules

LEMMA LinksType == ASSUME TypeOK, NumbersInv, [Next]_vars PROVE LinksTypeOK'
  <1>0. LinksTypeOK /\ ContentTypeOK
    BY DEF TypeOK
  <1>1. ASSUME NEW w \in Requests, CommitLinks(w) PROVE LinksTypeOK'
    BY <1>0, <1>1 DEF LinksTypeOK, ContentTypeOK, SaveStates, CommitLinks
  <1>2. ASSUME NEW n \in Notes, PassLinks(n) PROVE LinksTypeOK'
    BY <1>0, <1>2 DEF LinksTypeOK, PassLinks
  <1>3. ASSUME NEW w \in Requests, AnswerSave(w), HandOver(w) PROVE LinksTypeOK'
    <2> DEFINE k == saves[w].no
               t == [NoTask EXCEPT !.at = IF threads < CoreSize \/ Len(waiting) >= QueueCapacity THEN "started" ELSE "queued",
                                   !.note = saves[w].note, !.content = saves[w].content]
    <2>1. k \in Numbers
      BY <1>0, <1>3, ContentAssumption DEF ContentTypeOK, SaveStates, AnswerSave, NumbersInv, Numbers
    <2>2. t \in TaskStates
      BY <1>0, NoTaskType DEF ContentTypeOK, SaveStates, TaskStates, NoTask
    <2>3. task' \in [Numbers -> TaskStates]
      BY <1>0, <1>3, <2>1, <2>2 DEF LinksTypeOK, HandOver
    <2>4. waiting' \in Seq(Numbers) /\ threads' \in Nat
      BY <1>0, <1>3, <2>1, <2>2 DEF LinksTypeOK, HandOver
    <2>5. QED
      BY <1>0, <1>3, <2>3, <2>4 DEF LinksTypeOK, HandOver
  <1>4. ASSUME NEW w \in Requests, Refuse(w) PROVE LinksTypeOK'
    BY <1>0, <1>4 DEF LinksTypeOK, ContentTypeOK, SaveStates, Refuse
  <1>5. ASSUME Take PROVE LinksTypeOK'
    <2>1. Head(waiting) \in Numbers /\ Tail(waiting) \in Seq(Numbers)
      BY <1>0, <1>5 DEF LinksTypeOK, Take
    <2>2. QED
      BY <1>0, <1>5, <2>1 DEF LinksTypeOK, Take, TaskStates
  <1>6. ASSUME NEW k \in Numbers, ReadReferences(k) PROVE LinksTypeOK'
    <2>1. references[task[k].note] \in SUBSET Rows
      BY <1>0 DEF LinksTypeOK, TaskStates
    <2>2. task' \in [Numbers -> TaskStates]
      BY <1>0, <1>6, <2>1 DEF LinksTypeOK, TaskStates, ReadReferences
    <2>3. QED
      BY <1>0, <1>6, <2>2 DEF LinksTypeOK, ReadReferences
  <1>7. ASSUME NEW k \in Numbers, WriteReferences(k) PROVE LinksTypeOK'
    <2> DEFINE n == task[k].note
               targets == Links[task[k].content] \ {n}
               old == Outdated(task[k].seen, targets)
               new == Added(task[k].seen, targets, k)
    <2>1. n \in Notes /\ Links[task[k].content] \subseteq Targets
      BY <1>0, LinksAssumption DEF LinksTypeOK, TaskStates
    <2>2. new \subseteq Rows
      BY <2>1 DEF Rows, Added
    <2>3. \/ references' = references
          \/ references' = [references EXCEPT ![n] = (@ \ old) \cup new]
      BY <1>7 DEF WriteReferences
    <2>4. references' \in [Notes -> SUBSET Rows]
      <3> HIDE DEF old, new
      <3> QED
        BY <1>0, <2>1, <2>2, <2>3 DEF LinksTypeOK
    <2>5. task' \in [Numbers -> TaskStates]
      BY <1>0, <1>7 DEF LinksTypeOK, TaskStates, WriteReferences
    <2>6. QED
      BY <1>0, <1>7, <2>4, <2>5 DEF LinksTypeOK, WriteReferences
  <1>8. ASSUME NEW k \in Numbers, ReadText(k) PROVE LinksTypeOK'
    <2>1. content[task[k].note] \in Contents
      BY <1>0 DEF LinksTypeOK, ContentTypeOK, TaskStates
    <2>2. PICK a \in {"done", "asking"} : task' = [task EXCEPT ![k].at = a, ![k].text = content[task[k].note]]
      BY <1>8 DEF ReadText
    <2>3. task' \in [Numbers -> TaskStates]
      BY <1>0, <2>1, <2>2 DEF LinksTypeOK, TaskStates
    <2>4. QED
      BY <1>0, <1>8, <2>3 DEF LinksTypeOK, ReadText
  <1>9. ASSUME NEW k \in Numbers, Embedded(k) PROVE LinksTypeOK'
    BY <1>0, <1>9 DEF LinksTypeOK, TaskStates, Embedded
  <1>10. ASSUME NEW k \in Numbers, EmbeddingFails(k) PROVE LinksTypeOK'
    BY <1>0, <1>10 DEF LinksTypeOK, TaskStates, EmbeddingFails
  <1>b. ASSUME NEW k \in Numbers, LinkingFails(k) PROVE LinksTypeOK'
    BY <1>0, <1>b DEF LinksTypeOK, TaskStates, LinkingFails
  <1>11. ASSUME NEW k \in Numbers, StoreEmbedding(k) PROVE LinksTypeOK'
    <2>1. {task[k].text} \in SUBSET Contents
      BY <1>0 DEF LinksTypeOK, TaskStates
    <2>2. QED
      BY <1>0, <1>11, <2>1 DEF LinksTypeOK, TaskStates, StoreEmbedding
  <1>12. ASSUME ForgetTasks PROVE LinksTypeOK'
    <2>1. \A t \in TaskStates : [t EXCEPT !.at = "done", !.seen = {}] \in TaskStates
      BY DEF TaskStates
    <2>2. task' \in [Numbers -> TaskStates]
      BY <1>0, <1>12, <2>1 DEF LinksTypeOK, ForgetTasks
    <2>3. unlinked' \subseteq Notes /\ unembedded' \subseteq Notes
      BY <1>0, <1>12 DEF LinksTypeOK, ForgetTasks
    <2>4. waiting' = <<>> /\ threads' = 0
      BY <1>12 DEF ForgetTasks
    <2>5. <<>> \in Seq(Numbers) /\ 0 \in Nat
      OBVIOUS
    <2>6. waiting' \in Seq(Numbers) /\ threads' \in Nat
      BY <2>4, <2>5
    <2>7. QED
      BY <1>0, <1>12, <2>1, <2>2, <2>3, <2>6 DEF LinksTypeOK, ForgetTasks
  <1>13. ASSUME UNCHANGED linkVars PROVE LinksTypeOK'
    BY <1>0, <1>13 DEF LinksTypeOK, linkVars
  <1>14. QED
    BY <1>1, <1>2, <1>3, <1>4, <1>5, <1>6, <1>7, <1>8, <1>9, <1>10, <1>b, <1>11, <1>12, <1>13
       DEF Next, vars, BeginSave, CommitSave, EndSave, Replace, Restart, QuestionSteps, LinkSteps

-----------------------------------------------------------------------------
(* The questions.                                                          *)

LEMMA InitQuestions == Init => QuestionsInv
  BY QuestionsAssumption, NoSaveType DEF Init, ContentInit, QuestionsInit, QuestionsInv, IdsInv, LocksInv, MarksInv, OneGeneration,
     GenerationFollows, ReadyFollows, NoItem, NoGen

LEMMA IdsKept == ASSUME TypeOK, IdsInv, [Next]_vars PROVE IdsInv'
  <1>0. item \in [Notes -> ItemRows] /\ items \in Nat /\ todo \subseteq [note: Notes, id: Ids] /\ gen \in Generations
    BY QuestionsAssumption DEF TypeOK, QuestionsTypeOK
  <1>1. ASSUME UNCHANGED <<item, items, todo, gen>> PROVE IdsInv'
    BY <1>1 DEF IdsInv
  <1>2. ASSUME NEW n \in Notes, AddItem(n) PROVE IdsInv'
    <2>1. \A m \in Notes : /\ item[m].id \in Nat /\ item[m].id <= items
                           /\ item'[m] = IF m = n THEN [id |-> items + 1, due |-> TRUE, quiz |-> TRUE] ELSE item[m]
      BY <1>0, <1>2, QuestionsAssumption DEF AddItem, ItemRows, IdsInv
    <2>2. \A m \in Notes : item'[m].id <= items' /\ (item'[m].id = 0 <=> item'[m] = NoItem)
      <3>1. NoItem.id = 0 /\ items + 1 # 0 /\ item'[n].id = items + 1 /\ items' = items + 1
        BY <1>0, <1>2, <2>1 DEF AddItem, NoItem
      <3>2. TAKE m \in Notes
      <3>3. CASE m = n
        BY <1>0, <3>1, <3>3
      <3>4. CASE m # n
        BY <1>0, <2>1, <3>1, <3>4 DEF IdsInv
      <3>5. QED
        BY <3>3, <3>4
    <2>3. \A l, m \in Notes : item'[m].id = item'[l].id /\ item'[m].id # 0 => m = l
      BY <1>0, <2>1, <2>2 DEF IdsInv
    <2>4. \A x \in todo : x.id <= items /\ \A m \in Notes : item'[m].id = x.id => m = x.note
      BY <1>0, <2>1, <2>2, QuestionsAssumption DEF IdsInv, Ids
    <2>5. gen.at # "none" => gen.item \in 1 .. items /\ \A m \in Notes : item'[m].id = gen.item => m = gen.note
      BY <1>0, <2>1, <2>2 DEF IdsInv
    <2>6. items' = items + 1 /\ todo' = todo /\ gen' = gen
      BY <1>2 DEF AddItem
    <2>7. QED
      BY <1>0, <2>1, <2>2, <2>3, <2>4, <2>5, <2>6, QuestionsAssumption DEF IdsInv, Ids
  <1>3. ASSUME NEW n \in Notes, RemoveItem(n) PROVE IdsInv'
    <2>1. \A m \in Notes : item'[m] = IF m = n THEN NoItem ELSE item[m]
      BY <1>0, <1>3 DEF RemoveItem
    <2>2. UNCHANGED <<items, todo, gen>> /\ \A x \in todo : x.id >= 1
      BY <1>0, <1>3, QuestionsAssumption DEF RemoveItem, Ids
    <2>3. NoItem.id = 0
      BY DEF NoItem
    <2>4. \A m \in Notes : item'[m].id <= items /\ (item'[m].id = 0 <=> item'[m] = NoItem)
      BY <1>0, <2>1, <2>2, <2>3 DEF IdsInv
    <2>5. \A l, m \in Notes : item'[m].id = item'[l].id /\ item'[m].id # 0 => m = l
      BY <2>1, <2>2, <2>3 DEF IdsInv
    <2>6. \A x \in todo : x.id <= items /\ \A m \in Notes : item'[m].id = x.id => m = x.note
      BY <1>0, <2>1, <2>2, <2>3, QuestionsAssumption DEF IdsInv, Ids
    <2>7. gen.at # "none" => gen.item \in 1 .. items /\ \A m \in Notes : item'[m].id = gen.item => m = gen.note
      BY <1>0, <2>1, <2>2, <2>3 DEF IdsInv
    <2>8. gen.at = "storing" => gen.made = 1
      BY DEF IdsInv
    <2>9. QED
      BY <2>1, <2>2, <2>4, <2>5, <2>6, <2>7, <2>8 DEF IdsInv
  <1>4. ASSUME NEW n \in Notes, item[n] # NoItem, UNCHANGED <<items, todo, gen>>,
               \A m \in Notes : item'[m].id = item[m].id /\ (m # n => item'[m] = item[m])
        PROVE  IdsInv'
    <2>1. item[n].id # 0 /\ item'[n].id # 0
      BY <1>4 DEF IdsInv
    <2>2. \A m \in Notes : item'[m].id = 0 <=> item'[m] = NoItem
      BY <1>4, <2>1 DEF IdsInv, NoItem
    <2>3. QED
      BY <1>4, <2>2 DEF IdsInv
  <1>5. ASSUME ListPending PROVE IdsInv'
    BY <1>0, <1>5 DEF ListPending, IdsInv, Pending
  <1>6. ASSUME NEW x \in todo, ReadContext(x) PROVE IdsInv'
    <2>1. gen'.at # "none" => gen'.item = x.id /\ gen'.note = x.note
      BY <1>6 DEF ReadContext, NoGen
    <2>2. gen'.at # "storing" /\ todo' \subseteq todo /\ x.id \in Ids
      BY <1>0, <1>6 DEF ReadContext, NoGen
    <2>3. UNCHANGED <<item, items>>
      BY <1>6 DEF ReadContext
    <2>4. QED
      BY <1>0, <2>1, <2>2, <2>3, QuestionsAssumption DEF IdsInv, Ids
  <1>7. ASSUME NEW made \in {0, 1}, AiAnswers(made) PROVE IdsInv'
    BY <1>0, <1>7 DEF AiAnswers, IdsInv, NoGen, Generations
  <1>8. ASSUME gen' = NoGen, todo' \subseteq todo, UNCHANGED <<item, items>> PROVE IdsInv'
    BY <1>8 DEF IdsInv, NoGen
  <1>9. QED
    <2>1. ASSUME NEW n \in Notes, NEW due \in BOOLEAN, NEW quiz \in BOOLEAN, ChangeItem(n, due, quiz) PROVE IdsInv'
      <3>1. \A m \in Notes : item'[m].id = item[m].id /\ (m # n => item'[m] = item[m])
        BY <1>0, <2>1 DEF ChangeItem, ItemRows
      <3>2. QED
        BY <1>4, <2>1, <3>1 DEF ChangeItem
    <2>2. ASSUME NEW n \in Notes, FallsDue(n) PROVE IdsInv'
      <3>1. \A m \in Notes : item'[m].id = item[m].id /\ (m # n => item'[m] = item[m])
        BY <1>0, <2>2 DEF FallsDue, ItemRows
      <3>2. QED
        BY <1>4, <2>2, <3>1 DEF FallsDue
    <2>3. ASSUME StoreQuestions \/ ForgetGeneration PROVE IdsInv'
      BY <1>8, <2>3 DEF StoreQuestions, ForgetGeneration
    <2>4. QED
      BY <1>1, <1>2, <1>3, <1>5, <1>6, <1>7, <2>1, <2>2, <2>3
         DEF Next, vars, questionVars, BeginSave, CommitSave, EndSave, Replace, Restart, QuestionSteps, LinkSteps, Schedules,
             MarkStale, CommitMarks, PassQuestions, Regenerate

LEMMA LocksKept == ASSUME TypeOK, LocksInv, [Next]_vars PROVE LocksInv'
  <1>0. locked \in [Requests -> SUBSET Questions] /\ saves \in [Requests -> SaveStates]
    BY DEF TypeOK, QuestionsTypeOK, ContentTypeOK
  <1>1. ASSUME UNCHANGED <<locked, questions, saves>> PROVE LocksInv'
    BY <1>1 DEF LocksInv
  <1>2. ASSUME NEW w \in Requests, NEW n \in Notes, NEW c \in Contents, BeginSave(w, n, c) PROVE LocksInv'
    <2> DEFINE old == {q \in questions : q.note = n /\ q.hash # c}
    <2>1. /\ \A v \in Requests : old \cap locked[v] = {}
          /\ \A v \in Requests : locked'[v] = IF v = w THEN old ELSE locked[v]
          /\ questions' = questions
      BY <1>0, <1>2 DEF BeginSave, MarkStale, Free
    <2>2. \A v \in Requests : saves'[v].at = IF v = w THEN "open" ELSE saves[v].at
      BY <1>0, <1>2 DEF BeginSave, OpenSave
    <2>3. QED
      BY <2>1, <2>2 DEF LocksInv
  <1>3. ASSUME NEW w \in Requests, CommitSave(w) PROVE LocksInv'
    <2>1. /\ \A v \in Requests : locked'[v] = IF v = w THEN {} ELSE locked[v]
          /\ questions \ locked[w] \subseteq questions'
      BY <1>0, <1>3 DEF CommitSave, CommitMarks
    <2>2. \A v \in Requests : v # w => saves'[v] = saves[v]
      BY <1>0, <1>3 DEF CommitSave, CommitContent
    <2>3. QED
      BY <2>1, <2>2 DEF LocksInv
  <1>4. ASSUME NEW w \in Requests, EndSave(w) PROVE LocksInv'
    <2>1. saves[w].at = "committed" /\ UNCHANGED <<locked, questions>>
      BY <1>4 DEF EndSave, AnswerSave, questionVars
    <2>2. \A v \in Requests : v # w => saves'[v] = saves[v]
      BY <1>0, <1>4 DEF EndSave, AnswerSave
    <2>3. QED
      BY <2>1, <2>2 DEF LocksInv
  <1>5. ASSUME Restart PROVE LocksInv'
    BY <1>5 DEF Restart, ForgetGeneration, LocksInv
  <1>6. ASSUME NEW gone, Free(gone), questions \ gone \subseteq questions', UNCHANGED <<locked, saves>> PROVE LocksInv'
    <2>1. \A w \in Requests : gone \cap locked[w] = {}
      BY <1>6 DEF Free
    <2>2. QED
      BY <1>6, <2>1 DEF LocksInv
  <1>7. ASSUME NEW n \in Notes, Regenerate(n), UNCHANGED saves PROVE LocksInv'
    <2> DEFINE all == {q \in questions : q.note = n}
    <2>1. Free(all) /\ questions \ all \subseteq questions' /\ UNCHANGED <<locked, saves>>
      BY <1>7 DEF Regenerate
    <2>2. QED
      BY <1>6, <2>1
  <1>8. ASSUME NEW n \in Notes, RemoveItem(n), UNCHANGED saves PROVE LocksInv'
    BY <1>6, <1>8 DEF RemoveItem
  <1>9. ASSUME StoreQuestions, UNCHANGED saves PROVE LocksInv'
    <2>1. Free(Of(gen.item)) /\ questions \ Of(gen.item) \subseteq questions' /\ UNCHANGED <<locked, saves>>
      BY <1>9 DEF StoreQuestions
    <2>2. QED
      BY <1>6, <2>1
  <1>10. QED
    BY <1>1, <1>2, <1>3, <1>4, <1>5, <1>7, <1>8, <1>9
       DEF Next, vars, questionVars, contentVars, Replace, ReplaceContent, PassQuestions, QuestionSteps, LinkSteps, Schedules,
           AiAnswers, AddItem, FallsDue, ChangeItem, ListPending, ReadContext

LEMMA MarksKept == ASSUME TypeOK, LocksInv, MarksInv, [Next]_vars PROVE MarksInv'
  <1>0. locked \in [Requests -> SUBSET Questions] /\ saves \in [Requests -> SaveStates] /\ questions \subseteq Questions
    BY DEF TypeOK, QuestionsTypeOK, ContentTypeOK
  <1>1. ASSUME UNCHANGED <<locked, saves, met>>, questions' \subseteq questions PROVE MarksInv'
    BY <1>1 DEF MarksInv
  <1>2. \A q \in questions : Stale(q).note = q.note /\ Stale(q).hash = q.hash
    BY <1>0 DEF Stale, Questions
  <1>3. ASSUME NEW w \in Requests, NEW n \in Notes, NEW c \in Contents, BeginSave(w, n, c) PROVE MarksInv'
    <2> DEFINE old == {q \in questions : q.note = n /\ q.hash # c}
    <2>1. (\A v \in Requests : locked'[v] = IF v = w THEN old ELSE locked[v]) /\ UNCHANGED <<questions, met>>
      BY <1>0, <1>3 DEF BeginSave, MarkStale
    <2>2. /\ saves'[w].note = n /\ saves'[w].content = c
          /\ \A v \in Requests : v # w => saves'[v] = saves[v]
      BY <1>0, <1>3 DEF BeginSave, OpenSave
    <2>3. QED
      BY <2>1, <2>2 DEF MarksInv
  <1>4. ASSUME NEW w \in Requests, CommitSave(w) PROVE MarksInv'
    <2>1. /\ \A v \in Requests : v # w => saves'[v] = saves[v] /\ locked'[v] = locked[v]
          /\ saves'[w].at = "committed" /\ met' = met \ {w}
          /\ questions' = (questions \ locked[w]) \cup {Stale(q) : q \in locked[w]}
      BY <1>0, <1>4 DEF CommitSave, CommitContent, CommitMarks, SaveStates
    <2>2. ASSUME NEW v \in Requests, saves'[v].at = "open", v \notin met', NEW q \in questions' \ locked'[v], q.note = saves'[v].note
          PROVE  q.hash = saves'[v].content
      <3>1. v # w /\ saves[v].at = "open" /\ v \notin met /\ saves'[v] = saves[v] /\ locked'[v] = locked[v]
        BY <2>1, <2>2
      <3>2. CASE q \in questions
        BY <2>2, <3>1, <3>2 DEF MarksInv
      <3>3. ASSUME NEW p \in locked[w], q = Stale(p) PROVE q.hash = saves[v].content
        <4>1. p \in questions \ locked[v]
          BY <3>1, <3>3 DEF LocksInv
        <4>2. QED
          BY <1>2, <2>2, <3>1, <3>3, <4>1 DEF MarksInv
      <3>4. QED
        BY <2>1, <2>2, <3>1, <3>2, <3>3
    <2>3. QED
      BY <2>2 DEF MarksInv
  <1>5. ASSUME NEW w \in Requests, EndSave(w) PROVE MarksInv'
    <2>1. /\ saves'[w].at # "open" /\ UNCHANGED <<questions, locked, met>>
          /\ \A v \in Requests : v # w => saves'[v] = saves[v]
      BY <1>0, <1>5 DEF EndSave, AnswerSave, NoSave, questionVars
    <2>2. QED
      BY <2>1 DEF MarksInv
  <1>6. ASSUME Restart PROVE MarksInv'
    <2>1. \A w \in Requests : saves'[w].at # "open"
      BY <1>6 DEF Restart, ForgetSaves, NoSave
    <2>2. QED
      BY <2>1 DEF MarksInv
  <1>7. ASSUME NEW n \in Notes, Regenerate(n), UNCHANGED saves PROVE MarksInv'
    <2> DEFINE all == {q \in questions : q.note = n}
    <2>1. /\ \A v \in Requests : all \cap locked[v] = {}
          /\ questions' = (questions \ all) \cup {Stale(q) : q \in all} /\ UNCHANGED <<locked, met>>
      BY <1>7 DEF Regenerate, Free
    <2>2. ASSUME NEW v \in Requests, saves[v].at = "open", v \notin met, NEW q \in questions', q \notin locked[v], q.note = saves[v].note
          PROVE  q.hash = saves[v].content
      <3>1. CASE q \in questions
        BY <2>2, <3>1 DEF MarksInv
      <3>2. ASSUME NEW p \in all, q = Stale(p) PROVE q.hash = saves[v].content
        BY <1>2, <2>1, <2>2, <3>2 DEF MarksInv
      <3>3. QED
        BY <2>1, <2>2, <3>1, <3>2
    <2>3. QED
      BY <1>7, <2>1, <2>2 DEF MarksInv
  <1>8. ASSUME StoreQuestions, UNCHANGED saves PROVE MarksInv'
    <2> DEFINE new == [item |-> gen.item, note |-> gen.note, hash |-> gen.hash, ready |-> TRUE]
    <2>1. (\A q \in questions' : q \in questions \/ q = new) /\ locked' = locked
      BY <1>8 DEF StoreQuestions
    <2>2. \A w \in Requests : /\ w \notin met' => w \notin met
                              /\ w \notin met' /\ saves[w].at = "open" /\ gen.note = saves[w].note => gen.hash = saves[w].content
      BY <1>8 DEF StoreQuestions, Crossed
    <2>3. new.note = gen.note /\ new.hash = gen.hash
      OBVIOUS
    <2>4. ASSUME NEW v \in Requests, saves[v].at = "open", v \notin met', NEW q \in questions', q \notin locked[v], q.note = saves[v].note
          PROVE  q.hash = saves[v].content
      <3>1. CASE q \in questions
        BY <2>2, <2>4, <3>1 DEF MarksInv
      <3>2. CASE q = new
        <4>1. gen.note = saves[v].note
          BY <2>3, <2>4, <3>2
        <4>2. gen.hash = saves[v].content
          BY <2>2, <2>4, <4>1
        <4>3. QED
          BY <2>3, <3>2, <4>2
      <3>3. QED
        BY <2>1, <2>4, <3>1, <3>2
    <2>5. QED
      BY <1>8, <2>1, <2>4 DEF MarksInv
  <1>9. ASSUME NEW n \in Notes, RemoveItem(n), UNCHANGED saves PROVE MarksInv'
    BY <1>1, <1>9 DEF RemoveItem
  <1>10. QED
    BY <1>1, <1>3, <1>4, <1>5, <1>6, <1>7, <1>8, <1>9
       DEF Next, vars, questionVars, contentVars, Replace, ReplaceContent, PassQuestions, QuestionSteps, LinkSteps, Schedules,
           AiAnswers, AddItem, FallsDue, ChangeItem, ListPending, ReadContext

LEMMA OneGenerationKept == ASSUME TypeOK, IdsInv, LocksInv, OneGeneration, [Next]_vars PROVE OneGeneration'
  <1>0. /\ item \in [Notes -> ItemRows] /\ items \in Nat /\ gen \in Generations /\ questions \subseteq Questions
        /\ MaxItems \in Nat
    BY QuestionsAssumption DEF TypeOK, QuestionsTypeOK
  <1>1. ASSUME UNCHANGED questions, \A n \in Notes : item[n].id # 0 => item'[n].id = item[n].id PROVE OneGeneration'
    <2>1. \A q \in questions : q.note \in Notes /\ q.item # 0
      BY <1>0 DEF Questions, Ids
    <2>2. QED
      BY <1>1, <2>1 DEF OneGeneration
  <1>2. ASSUME NEW old \in SUBSET questions, questions' = (questions \ old) \cup {Stale(q) : q \in old}, UNCHANGED item
        PROVE  OneGeneration'
    <2>1. \A q \in questions : Stale(q).item = q.item /\ Stale(q).note = q.note
      BY <1>0 DEF Stale, Questions
    <2>2. \A q \in questions' : \E p \in questions : /\ p.item = q.item /\ p.note = q.note
                                                     /\ q = IF p \in old THEN Stale(p) ELSE p
      BY <1>2, <2>1
    <2>3. QED
      BY <1>2, <2>2 DEF OneGeneration
  <1>3. ASSUME NEW n \in Notes, RemoveItem(n) PROVE OneGeneration'
    <2>1. \A q \in questions' : q \in questions /\ q.item # item[n].id
      BY <1>3 DEF RemoveItem, Of
    <2>2. \A m \in Notes : m # n => item'[m] = item[m]
      BY <1>0, <1>3 DEF RemoveItem
    <2>3. \A q \in questions : q.note \in Notes
      BY <1>0 DEF Questions
    <2>4. QED
      BY <2>1, <2>2, <2>3 DEF OneGeneration
  <1>4. ASSUME StoreQuestions PROVE OneGeneration'
    <2> DEFINE new == [item |-> gen.item, note |-> gen.note, hash |-> gen.hash, ready |-> TRUE]
    <2>1. \A q \in questions' : \/ q \in questions /\ q.item # gen.item
                                \/ q = new /\ item[gen.note].id = gen.item
      BY <1>4 DEF StoreQuestions, Of
    <2>2. new.item = gen.item /\ new.note = gen.note /\ item' = item
      BY <1>4 DEF StoreQuestions
    <2>3. QED
      BY <2>1, <2>2 DEF OneGeneration
  <1>5. QED
    <2>1. ASSUME NEW w \in Requests, CommitSave(w) PROVE OneGeneration'
      BY <1>2, <2>1 DEF CommitSave, CommitMarks, LocksInv
    <2>2. ASSUME NEW n \in Notes, Regenerate(n) PROVE OneGeneration'
      <3> DEFINE all == {q \in questions : q.note = n}
      <3>1. all \in SUBSET questions /\ questions' = (questions \ all) \cup {Stale(q) : q \in all} /\ UNCHANGED item
        BY <2>2 DEF Regenerate
      <3>2. QED
        BY <1>2, <3>1
    <2>3. ASSUME NEW n \in Notes, AddItem(n) PROVE OneGeneration'
      BY <1>0, <1>1, <2>3 DEF AddItem, NoItem
    <2>4. ASSUME NEW n \in Notes, NEW due \in BOOLEAN, NEW quiz \in BOOLEAN, ChangeItem(n, due, quiz) PROVE OneGeneration'
      BY <1>0, <1>1, <2>4 DEF ChangeItem, ItemRows
    <2>5. ASSUME NEW n \in Notes, FallsDue(n) PROVE OneGeneration'
      BY <1>0, <1>1, <2>5 DEF FallsDue, ItemRows
    <2>6. ASSUME UNCHANGED <<item, questions>> PROVE OneGeneration'
      BY <2>6 DEF OneGeneration
    <2>7. QED
      BY <1>3, <1>4, <2>1, <2>2, <2>3, <2>4, <2>5, <2>6
         DEF Next, vars, questionVars, BeginSave, EndSave, Replace, Restart, QuestionSteps, LinkSteps, Schedules,
             MarkStale, PassQuestions, ForgetGeneration, ListPending, ReadContext, AiAnswers

LEMMA GenerationKept == ASSUME TypeOK, IdsInv, GenerationFollows, [Next]_vars PROVE GenerationFollows'
  <1>0. /\ item \in [Notes -> ItemRows] /\ items \in Nat /\ gen \in Generations /\ content \in [Notes -> Contents]
        /\ saves \in [Requests -> SaveStates]
    BY QuestionsAssumption DEF TypeOK, QuestionsTypeOK, ContentTypeOK
  <1>1. ASSUME UNCHANGED <<content, gen>>, passed \subseteq passed', \A n \in Notes : item'[n].id = item[n].id \/ item'[n].id # gen.item
        PROVE  GenerationFollows'
    BY <1>0, <1>1 DEF GenerationFollows, Generations
  <1>2. ASSUME gen'.at = "none" PROVE GenerationFollows'
    BY <1>2 DEF GenerationFollows
  <1>3. ASSUME NEW w \in Requests, CommitSave(w) PROVE GenerationFollows'
    <2> DEFINE n == saves[w].note
               c == saves[w].content
    <2>1. n \in Notes /\ content' = [content EXCEPT ![n] = c] /\ gen' = gen /\ item' = item
      BY <1>0, <1>3 DEF CommitSave, CommitContent, CommitMarks, SaveStates
    <2>2. gen.at # "none" /\ gen.note = n /\ gen.hash # c => n \in passed'
      BY <1>3 DEF CommitSave, CommitMarks
    <2>3. \A m \in Notes : m # n /\ m \in passed => m \in passed'
      BY <1>3 DEF CommitSave, CommitMarks
    <2>4. QED
      BY <1>0, <2>1, <2>2, <2>3 DEF GenerationFollows, Generations
  <1>4. ASSUME NEW n \in Notes, NEW c \in Contents, Replace(n, c) PROVE GenerationFollows'
    <2>1. /\ \A m \in Notes : m # n => content'[m] = content[m]
          /\ passed' = passed \cup {n} /\ UNCHANGED <<gen, item>>
      BY <1>0, <1>4 DEF Replace, ReplaceContent, PassQuestions
    <2>2. QED
      BY <1>0, <2>1 DEF GenerationFollows, Generations
  <1>5. ASSUME NEW n \in Notes, RemoveItem(n), UNCHANGED content PROVE GenerationFollows'
    <2>1. item'[n].id = 0 /\ \A m \in Notes : m # n => item'[m] = item[m]
      BY <1>0, <1>5 DEF RemoveItem, NoItem
    <2>2. gen.at # "none" => gen.item # 0
      BY <1>0 DEF IdsInv
    <2>3. passed' = passed \ {n} /\ gen' = gen
      BY <1>5 DEF RemoveItem
    <2>4. QED
      BY <1>0, <1>5, <2>1, <2>2, <2>3 DEF GenerationFollows, Generations
  <1>6. ASSUME NEW n \in Notes, AddItem(n), UNCHANGED content PROVE GenerationFollows'
    <2>1. \A m \in Notes : item'[m].id = IF m = n THEN items + 1 ELSE item[m].id
      BY <1>0, <1>6 DEF AddItem
    <2>2. gen.at # "none" => gen.item # items + 1
      BY <1>0 DEF IdsInv
    <2>3. passed' = passed /\ gen' = gen
      BY <1>6 DEF AddItem
    <2>4. QED
      BY <1>0, <1>6, <2>1, <2>2, <2>3 DEF GenerationFollows, Generations
  <1>7. ASSUME NEW x \in todo, ReadContext(x), UNCHANGED content PROVE GenerationFollows'
    BY <1>7 DEF ReadContext, GenerationFollows, NoGen
  <1>8. ASSUME NEW made \in {0, 1}, AiAnswers(made), UNCHANGED content PROVE GenerationFollows'
    <2>1. gen'.at = "none" \/ (gen.at # "none" /\ gen'.note = gen.note /\ gen'.item = gen.item /\ gen'.hash = gen.hash)
      BY <1>0, <1>8 DEF AiAnswers, NoGen, Generations
    <2>2. UNCHANGED <<item, passed>>
      BY <1>8 DEF AiAnswers
    <2>3. QED
      BY <1>8, <2>1, <2>2 DEF GenerationFollows
  <1>9. ASSUME NEW n \in Notes, NEW due \in BOOLEAN, NEW quiz \in BOOLEAN, ChangeItem(n, due, quiz), UNCHANGED content
        PROVE  GenerationFollows'
    BY <1>0, <1>1, <1>9 DEF ChangeItem, ItemRows
  <1>10. ASSUME NEW n \in Notes, FallsDue(n), UNCHANGED content PROVE GenerationFollows'
    BY <1>0, <1>1, <1>10 DEF FallsDue, ItemRows
  <1>11. ASSUME UNCHANGED <<content, gen, item, passed>> PROVE GenerationFollows'
    BY <1>11 DEF GenerationFollows
  <1>12. ASSUME StoreQuestions \/ ForgetGeneration PROVE GenerationFollows'
    BY <1>2, <1>12 DEF StoreQuestions, ForgetGeneration, NoGen
  <1>13. QED
    BY <1>3, <1>4, <1>5, <1>6, <1>7, <1>8, <1>9, <1>10, <1>11, <1>12
       DEF Next, vars, questionVars, contentVars, BeginSave, OpenSave, EndSave, AnswerSave, Restart, QuestionSteps, LinkSteps,
           Schedules, MarkStale, Regenerate, ListPending

LEMMA ReadyKept ==
  ASSUME TypeOK, QuestionsInv, [Next]_vars
  PROVE  ReadyFollows'
  <1>0. /\ item \in [Notes -> ItemRows] /\ gen \in Generations /\ content \in [Notes -> Contents]
        /\ saves \in [Requests -> SaveStates] /\ questions \subseteq Questions
    BY DEF TypeOK, QuestionsTypeOK, ContentTypeOK
  <1>1. IdsInv /\ LocksInv /\ MarksInv /\ OneGeneration /\ GenerationFollows /\ ReadyFollows
    BY DEF QuestionsInv
  <1>2. ASSUME UNCHANGED content, passed \subseteq passed', \A q \in questions' : q.ready => q \in questions PROVE ReadyFollows'
    BY <1>1, <1>2 DEF ReadyFollows
  <1>3. \A q \in questions : q.note \in Notes /\ Stale(q).ready = FALSE
    BY <1>0 DEF Questions, Stale
  <1>4. ASSUME NEW w \in Requests, CommitSave(w) PROVE ReadyFollows'
    <2> DEFINE n == saves[w].note
               c == saves[w].content
    <2>1. n \in Notes /\ content' = [content EXCEPT ![n] = c]
      BY <1>0, <1>4 DEF CommitSave, CommitContent, SaveStates
    <2>2. \A q \in questions' : q.ready => q \in questions \ locked[w]
      BY <1>1, <1>3, <1>4 DEF CommitSave, CommitMarks, LocksInv
    <2>3. n \notin passed' => \A q \in questions \ locked[w] : q.note = n => q.hash = c
      BY <1>1, <1>4 DEF CommitSave, CommitContent, CommitMarks, MarksInv
    <2>4. \A m \in Notes : m # n /\ m \notin passed' => m \notin passed
      BY <1>4 DEF CommitSave, CommitMarks
    <2>5. QED
      BY <1>0, <1>1, <1>3, <2>1, <2>2, <2>3, <2>4 DEF ReadyFollows
  <1>5. ASSUME NEW n \in Notes, NEW c \in Contents, Replace(n, c) PROVE ReadyFollows'
    <2>1. /\ \A m \in Notes : m # n => content'[m] = content[m]
          /\ passed' = passed \cup {n} /\ UNCHANGED questions
      BY <1>0, <1>5 DEF Replace, ReplaceContent, PassQuestions
    <2>2. QED
      BY <1>1, <1>3, <2>1 DEF ReadyFollows
  <1>6. ASSUME NEW n \in Notes, RemoveItem(n), UNCHANGED content PROVE ReadyFollows'
    <2>1. \A q \in questions' : q \in questions /\ q.note # n
      BY <1>1, <1>6 DEF RemoveItem, Of, OneGeneration
    <2>2. passed' = passed \ {n}
      BY <1>6 DEF RemoveItem
    <2>3. QED
      BY <1>1, <1>6, <2>1, <2>2 DEF ReadyFollows
  <1>7. ASSUME StoreQuestions, UNCHANGED content PROVE ReadyFollows'
    <2> DEFINE new == [item |-> gen.item, note |-> gen.note, hash |-> gen.hash, ready |-> TRUE]
               there == item[gen.note].id = gen.item
    <2>1. \A q \in questions' : \/ q \in questions /\ q.item # gen.item
                                \/ q = new /\ there
      BY <1>7 DEF StoreQuestions, Of
    <2>2. passed' = IF there /\ gen.hash = content[gen.note] THEN passed \ {gen.note} ELSE passed
      BY <1>7 DEF StoreQuestions
    <2>3. there /\ gen.note \notin passed' => gen.hash = content[gen.note]
      BY <1>1, <1>7, <2>2 DEF GenerationFollows, StoreQuestions
    <2>4. \A q \in questions : q.item # gen.item /\ there => q.note # gen.note
      BY <1>1 DEF OneGeneration
    <2>5. new.hash = gen.hash /\ new.note = gen.note
      OBVIOUS
    <2>6. QED
      <3> HIDE DEF new
      <3> QED
        BY <1>1, <1>7, <2>1, <2>2, <2>3, <2>4, <2>5 DEF ReadyFollows
  <1>8. ASSUME NEW n \in Notes, Regenerate(n), UNCHANGED content PROVE ReadyFollows'
    <2>1. \A q \in questions' : q.ready => q \in questions
      BY <1>3, <1>8 DEF Regenerate
    <2>2. QED
      BY <1>2, <1>8, <2>1 DEF Regenerate
  <1>9. ASSUME UNCHANGED <<content, questions, passed>> PROVE ReadyFollows'
    BY <1>1, <1>9 DEF ReadyFollows
  <1>10. QED
    BY <1>4, <1>5, <1>6, <1>7, <1>8, <1>9
       DEF Next, vars, questionVars, contentVars, BeginSave, OpenSave, EndSave, AnswerSave, Restart, ForgetSaves,
           ForgetGeneration, QuestionSteps, LinkSteps, Schedules, MarkStale, ListPending, ReadContext, AiAnswers, AddItem,
           FallsDue, ChangeItem

LEMMA QuestionsKept ==
  ASSUME TypeOK, IdsInv, OneGeneration, [Next]_vars
  PROVE  \A n \in Notes : item[n] # NoItem /\ item'[n].id = item[n].id /\ Of(item[n].id) # {} => Of(item[n].id)' # {}
  <1>0. /\ item \in [Notes -> ItemRows] /\ gen \in Generations /\ questions \subseteq Questions
    BY DEF TypeOK, QuestionsTypeOK
  <1>1. SUFFICES ASSUME NEW n \in Notes, item[n] # NoItem, item'[n].id = item[n].id, NEW q \in questions, q.item = item[n].id
                 PROVE  \E r \in questions' : r.item = item'[n].id
    BY DEF Of
  <1>2. item[n].id # 0
    BY <1>1 DEF IdsInv
  <1>3. ASSUME NEW old, questions' = (questions \ old) \cup {Stale(p) : p \in old} PROVE \E r \in questions' : r.item = item[n].id
    <2>1. Stale(q).item = q.item
      BY <1>0 DEF Stale, Questions
    <2>2. q \in questions' \/ Stale(q) \in questions'
      BY <1>3
    <2>3. QED
      BY <1>1, <2>1, <2>2
  <1>4. ASSUME NEW m \in Notes, RemoveItem(m) PROVE q \in questions'
    <2>1. m # n
      BY <1>0, <1>1, <1>2, <1>4 DEF RemoveItem, NoItem
    <2>2. item[m].id # item[n].id
      BY <1>2, <2>1 DEF IdsInv
    <2>3. QED
      BY <1>1, <1>4, <2>2 DEF RemoveItem, Of
  <1>5. ASSUME StoreQuestions PROVE \E r \in questions' : r.item = item[n].id
    <2> DEFINE new == [item |-> gen.item, note |-> gen.note, hash |-> gen.hash, ready |-> TRUE]
    <2>1. CASE gen.item # item[n].id
      BY <1>1, <1>5, <2>1 DEF StoreQuestions, Of
    <2>2. CASE gen.item = item[n].id
      <3>1. n = gen.note /\ gen.made = 1
        BY <1>5, <2>2 DEF IdsInv, StoreQuestions
      <3>2. new \in questions'
        BY <1>5, <2>2, <3>1 DEF StoreQuestions
      <3>3. QED
        BY <2>2, <3>2
    <2>3. QED
      BY <2>1, <2>2
  <1>6. ASSUME UNCHANGED questions PROVE q \in questions'
    BY <1>6
  <1>7. QED
    <2>1. ASSUME NEW w \in Requests, CommitSave(w) PROVE \E r \in questions' : r.item = item[n].id
      BY <1>3, <2>1 DEF CommitSave, CommitMarks
    <2>2. ASSUME NEW m \in Notes, Regenerate(m) PROVE \E r \in questions' : r.item = item[n].id
      BY <1>3, <2>2 DEF Regenerate
    <2>3. QED
      BY <1>1, <1>4, <1>5, <1>6, <2>1, <2>2
         DEF Next, vars, questionVars, BeginSave, EndSave, Replace, Restart, QuestionSteps, LinkSteps, Schedules,
             MarkStale, PassQuestions, ForgetGeneration, ListPending, ReadContext, AiAnswers, AddItem, FallsDue, ChangeItem

-----------------------------------------------------------------------------
(* The tasks.                                                              *)

LEMMA InitTasks == Init => NumbersInv /\ QueueInv
  BY SomeNote DEF Init, ContentInit, LinksInit, NumbersInv, QueueInv, NoSave, NoTask

LEMMA NumbersKept == ASSUME TypeOK, NumbersInv, QueueInv, [Next]_vars PROVE NumbersInv'
  <1>0. /\ saves \in [Requests -> SaveStates] /\ saved \in 0 .. MaxSaves /\ MaxSaves \in Nat /\ task \in [Numbers -> TaskStates]
        /\ waiting \in Seq(Numbers)
    BY ContentAssumption DEF TypeOK, ContentTypeOK, LinksTypeOK
  <1>1. \A w \in Requests : saves[w].no \in Nat
    BY <1>0 DEF SaveStates
  <1>2. ASSUME NEW w \in Requests, NEW n \in Notes, NEW c \in Contents, BeginSave(w, n, c) PROVE NumbersInv'
    <2>1. saved' = saved + 1 /\ task' = task /\ saved' \in Numbers
      BY <1>0, <1>2 DEF BeginSave, OpenSave, linkVars, Numbers
    <2>2. /\ saves'[w].no = saved + 1 /\ saves'[w].at = "open"
          /\ \A v \in Requests : v # w => saves'[v] = saves[v]
      BY <1>0, <1>2 DEF BeginSave, OpenSave
    <2>3. task[saved + 1].at = "none"
      BY <1>0, <2>1 DEF NumbersInv
    <2>4. \A v \in Requests : saves'[v].at # "none" => saves'[v].no \in 1 .. saved' /\ task'[saves'[v].no].at = "none"
      BY <1>0, <2>1, <2>2, <2>3 DEF NumbersInv
    <2>5. \A u, v \in Requests : saves'[u].at # "none" /\ saves'[v].at # "none" /\ saves'[u].no = saves'[v].no => u = v
      BY <1>0, <2>1, <2>2 DEF NumbersInv
    <2>6. \A k \in Numbers : task'[k].at # "none" => k <= saved'
      BY <1>0, <2>1 DEF NumbersInv, Numbers
    <2>7. QED
      BY <2>4, <2>5, <2>6 DEF NumbersInv
  <1>3. ASSUME NEW w \in Requests, CommitSave(w) PROVE NumbersInv'
    <2>1. \A v \in Requests : saves'[v].no = saves[v].no /\ (saves'[v].at # "none" => saves[v].at # "none")
      BY <1>0, <1>3 DEF CommitSave, CommitContent, SaveStates
    <2>2. UNCHANGED <<saved, task>>
      BY <1>3 DEF CommitSave, CommitContent, CommitLinks
    <2>3. QED
      BY <2>1, <2>2 DEF NumbersInv
  <1>4. ASSUME NEW w \in Requests, EndSave(w) PROVE NumbersInv'
    <2>1. /\ saves'[w].at = "none" /\ saves[w].at # "none" /\ saved' = saved
          /\ \A v \in Requests : v # w => saves'[v] = saves[v]
      BY <1>0, <1>4 DEF EndSave, AnswerSave, NoSave
    <2>2. \A k \in Numbers : k # saves[w].no => task'[k] = task[k]
      BY <1>0, <1>4 DEF EndSave, HandOver, Refuse
    <2>3. \A k \in Numbers : task'[k].at # "none" => k <= saved
      BY <1>0, <2>1, <2>2 DEF NumbersInv
    <2>4. \A v \in Requests : saves[v].at # "none" => saves[v].no \in Numbers
      BY <1>0 DEF NumbersInv, Numbers
    <2>5. QED
      BY <2>1, <2>2, <2>3, <2>4 DEF NumbersInv
  <1>5. ASSUME Restart PROVE NumbersInv'
    <2>1. \A w \in Requests : saves'[w].at = "none"
      BY <1>5 DEF Restart, ForgetSaves, NoSave
    <2>2. \A k \in Numbers : task'[k].at # "none" => task[k].at # "none"
      BY <1>5 DEF Restart, ForgetTasks, Live
    <2>3. saved' = saved
      BY <1>5 DEF Restart, ForgetSaves
    <2>4. QED
      BY <2>1, <2>2, <2>3 DEF NumbersInv
  <1>6. ASSUME UNCHANGED <<saves, saved>>, \A k \in Numbers : task[k].at = "none" <=> task'[k].at = "none" PROVE NumbersInv'
    <2>1. \A w \in Requests : saves[w].at # "none" => saves[w].no \in Numbers
      BY <1>0 DEF NumbersInv, Numbers
    <2>2. QED
      BY <1>6, <2>1 DEF NumbersInv
  <1>7. ASSUME Take, UNCHANGED <<saves, saved>> PROVE NumbersInv'
    <2>1. Head(waiting) \in Numbers /\ task[Head(waiting)].at = "queued"
      BY <1>0, <1>7 DEF Take, QueueInv
    <2>2. QED
      BY <1>0, <1>6, <1>7, <2>1 DEF Take, TaskStates
  <1>8. ASSUME NEW k \in Numbers, UNCHANGED <<saves, saved>>,
               \/ ReadReferences(k) \/ WriteReferences(k) \/ LinkingFails(k) \/ ReadText(k) \/ Embedded(k) \/ EmbeddingFails(k) \/ StoreEmbedding(k)
        PROVE  NumbersInv'
    <2>1. \A j \in Numbers : j # k => task'[j] = task[j]
      BY <1>0, <1>8 DEF ReadReferences, WriteReferences, LinkingFails, ReadText, Embedded, EmbeddingFails, StoreEmbedding
    <2>2. task[k].at # "none" /\ task'[k].at # "none"
      BY <1>0, <1>8 DEF ReadReferences, WriteReferences, LinkingFails, ReadText, Embedded, EmbeddingFails, StoreEmbedding, TaskStates
    <2>3. QED
      BY <1>6, <1>8, <2>1, <2>2
  <1>9. ASSUME UNCHANGED <<saves, saved, task>> PROVE NumbersInv'
    BY <1>9 DEF NumbersInv
  <1>10. QED
    BY <1>2, <1>3, <1>4, <1>5, <1>7, <1>8, <1>9
       DEF Next, vars, contentVars, linkVars, Replace, ReplaceContent, PassLinks, QuestionSteps, LinkSteps

LEMMA QueueKept == ASSUME TypeOK, NumbersInv, QueueInv, [Next]_vars PROVE QueueInv'
  <1>0. /\ saves \in [Requests -> SaveStates] /\ task \in [Numbers -> TaskStates] /\ waiting \in Seq(Numbers)
        /\ saved \in 0 .. MaxSaves /\ MaxSaves \in Nat
    BY ContentAssumption DEF TypeOK, ContentTypeOK, LinksTypeOK
  <1>1. \A i \in DOMAIN waiting : waiting[i] \in Numbers
    BY <1>0
  <1>2. ASSUME UNCHANGED waiting, \A k \in Numbers : task[k].at = "queued" => task'[k].at = "queued" PROVE QueueInv'
    BY <1>1, <1>2 DEF QueueInv
  <1>3. ASSUME NEW w \in Requests, AnswerSave(w), HandOver(w) PROVE QueueInv'
    <2> DEFINE k == saves[w].no
               runs == threads < CoreSize \/ Len(waiting) >= QueueCapacity
    <2>1. k \in Numbers /\ task[k].at = "none"
      BY <1>0, <1>3 DEF AnswerSave, NumbersInv, Numbers
    <2>2. \A j \in Numbers : task'[j].at = IF j = k THEN IF runs THEN "started" ELSE "queued" ELSE task[j].at
      BY <1>0, <1>3, <2>1 DEF HandOver, NoTask
    <2>3. \A i \in DOMAIN waiting : waiting[i] # k
      BY <2>1 DEF QueueInv
    <2>4. CASE runs
      BY <1>1, <1>3, <2>2, <2>3, <2>4 DEF HandOver, QueueInv
    <2>5. CASE ~runs
      <3>1. waiting' = Append(waiting, k) /\ task'[k].at = "queued"
        BY <1>3, <2>1, <2>2, <2>5 DEF HandOver
      <3>2. DOMAIN waiting' = DOMAIN waiting \cup {Len(waiting) + 1}
        BY <1>0, <2>1, <3>1
      <3>3. waiting'[Len(waiting) + 1] = k /\ \A i \in DOMAIN waiting : waiting'[i] = waiting[i]
        BY <1>0, <2>1, <3>1
      <3>4. QED
        BY <1>1, <2>2, <2>3, <3>1, <3>2, <3>3 DEF QueueInv
    <2>6. QED
      BY <2>4, <2>5
  <1>4. ASSUME Take PROVE QueueInv'
    <2>1. Len(waiting) \in Nat /\ Len(waiting) >= 1 /\ Head(waiting) = waiting[1] /\ 1 \in DOMAIN waiting
      BY <1>0, <1>4 DEF Take
    <2>2. waiting' = Tail(waiting) /\ DOMAIN waiting' = 1 .. Len(waiting) - 1
      BY <1>0, <1>4, <2>1 DEF Take
    <2>3. \A i \in DOMAIN waiting' : waiting'[i] = waiting[i + 1] /\ i + 1 \in DOMAIN waiting /\ i + 1 # 1
      BY <1>0, <2>1, <2>2
    <2>4. \A i \in DOMAIN waiting' : waiting[i + 1] # waiting[1]
      BY <2>1, <2>3 DEF QueueInv
    <2>5. \A k \in Numbers : k # waiting[1] => task'[k] = task[k]
      BY <1>0, <1>4, <2>1 DEF Take
    <2>6. \A i, j \in DOMAIN waiting' : waiting'[i] = waiting'[j] => i = j
      <3> TAKE i, j \in DOMAIN waiting'
      <3>1. i \in Nat /\ j \in Nat
        BY <2>1, <2>2
      <3>2. waiting'[i] = waiting'[j] => i + 1 = j + 1
        BY <2>3 DEF QueueInv
      <3>3. QED
        BY <3>1, <3>2
    <2>7. \A i \in DOMAIN waiting' : task'[waiting'[i]].at = "queued"
      BY <1>1, <2>3, <2>4, <2>5 DEF QueueInv
    <2>8. QED
      BY <2>6, <2>7 DEF QueueInv
  <1>5. ASSUME NEW k \in Numbers,
               \/ ReadReferences(k) \/ WriteReferences(k) \/ LinkingFails(k) \/ ReadText(k) \/ Embedded(k) \/ EmbeddingFails(k) \/ StoreEmbedding(k)
        PROVE  QueueInv'
    <2>1. /\ \A j \in Numbers : j # k => task'[j] = task[j]
          /\ UNCHANGED waiting
      BY <1>0, <1>5 DEF ReadReferences, WriteReferences, LinkingFails, ReadText, Embedded, EmbeddingFails, StoreEmbedding
    <2>2. task[k].at # "queued"
      BY <1>5 DEF ReadReferences, WriteReferences, LinkingFails, ReadText, Embedded, EmbeddingFails, StoreEmbedding
    <2>3. QED
      BY <1>2, <2>1, <2>2
  <1>6. ASSUME Restart PROVE QueueInv'
    <2>1. waiting' = <<>>
      BY <1>6 DEF Restart, ForgetTasks
    <2>2. QED
      BY <2>1 DEF QueueInv
  <1>7. ASSUME UNCHANGED <<task, waiting>> PROVE QueueInv'
    BY <1>7 DEF QueueInv
  <1>8. QED
    BY <1>3, <1>4, <1>5, <1>6, <1>7
       DEF Next, vars, linkVars, BeginSave, CommitSave, CommitLinks, EndSave, Refuse, Replace, PassLinks, QuestionSteps, LinkSteps

-----------------------------------------------------------------------------
(* References.                                                             *)

LEMMA LinkingIs == \A n : Linking(n) <=> (\E w \in Requests : Hands(w, n)) \/ (\E k \in Numbers : LinksFor(k, n))
  BY DEF Linking, HandingOver, Hands, LinksFor

\* A step that leaves alone what concerns the references of a note.
LEMMA LinksFrame ==
  ASSUME NEW n \in Notes, LinksOf(n), content'[n] = content[n], references'[n] = references[n], n \in refused => n \in refused',
         \A w \in Requests : (Hands(w, n)' <=> Hands(w, n)) /\ (Hands(w, n) => saves'[w].content = saves[w].content),
         \A k \in Numbers : /\ LinksFor(k, n)' <=> LinksFor(k, n)
                            /\ LinksFor(k, n) => task'[k].content = task[k].content
                            /\ LinksFor(k, n) /\ task'[k].at = "linking" => task[k].at = "linking" /\ task'[k].seen = task[k].seen
  PROVE  LinksOf(n)'
  <1>1. Linking(n)' <=> Linking(n)
    BY LinkingIs DEF Linking, HandingOver, Hands, LinksFor
  <1>2. \A v, w \in Requests : Hands(v, n)' /\ Hands(w, n)' => v = w
    BY DEF LinksOf
  <1>3. \A w \in Requests : Hands(w, n)' => saves'[w].content = content'[n] /\ \A k \in Numbers : ~LinksFor(k, n)'
    BY DEF LinksOf
  <1>4. \A k, l \in Numbers : LinksFor(k, n)' /\ LinksFor(l, n)' => k = l
    BY DEF LinksOf
  <1>5. \A k \in Numbers : LinksFor(k, n)' => task'[k].content = content'[n]
    BY DEF LinksOf
  <1>6. \A k \in Numbers : LinksFor(k, n)' /\ task'[k].at = "linking" => task'[k].seen = references'[n]
    BY DEF LinksOf
  <1>7. ~Linking(n)' /\ n \notin refused' => {r.to : r \in references'[n]} = Links[content'[n]] \ {n}
    BY <1>1 DEF LinksOf
  <1>8. QED
    BY <1>2, <1>3, <1>4, <1>5, <1>6, <1>7 DEF LinksOf

\* The rows that the second step of a task leaves, when they are as its first step read them.
LEMMA TargetsWritten ==
  ASSUME NEW refs, NEW targets, NEW k
  PROVE  /\ Outdated(refs, targets) \subseteq refs
         /\ ~\E r \in refs \ Outdated(refs, targets), s \in Added(refs, targets, k) : r.to = s.to
         /\ {r.to : r \in (refs \ Outdated(refs, targets)) \cup Added(refs, targets, k)} = targets
  <1>1. \A s \in Added(refs, targets, k) : s.to \in targets /\ s.to \notin {r.to : r \in refs}
    BY DEF Added
  <1>2. ASSUME NEW t \in targets, t \notin {r.to : r \in refs} PROVE \E s \in Added(refs, targets, k) : s.to = t
    <2>1. [to |-> t, by |-> k] \in Added(refs, targets, k) /\ [to |-> t, by |-> k].to = t
      BY <1>2 DEF Added
    <2>2. QED
      BY <2>1
  <1>3. \A r \in refs : r \in Outdated(refs, targets) <=> r.to \notin targets
    BY DEF Outdated
  <1>4. {r.to : r \in (refs \ Outdated(refs, targets)) \cup Added(refs, targets, k)} = targets
    BY <1>1, <1>2, <1>3
  <1>5. QED
    BY <1>1, <1>4 DEF Outdated

LEMMA LinksKept == ASSUME TypeOK, NumbersInv, QueueInv, LinksInv, [Next]_vars, NEW n \in Notes \ unlinked' PROVE LinksOf(n)'
  <1>0. /\ saves \in [Requests -> SaveStates] /\ task \in [Numbers -> TaskStates] /\ waiting \in Seq(Numbers)
        /\ content \in [Notes -> Contents] /\ references \in [Notes -> SUBSET Rows]
        /\ saved \in 0 .. MaxSaves /\ MaxSaves \in Nat
    BY ContentAssumption DEF TypeOK, ContentTypeOK, LinksTypeOK
  <1>1. n \notin unlinked => LinksOf(n)
    BY DEF LinksInv
  <1>2. ASSUME NEW w \in Requests, NEW m \in Notes, NEW c \in Contents, BeginSave(w, m, c) PROVE LinksOf(n)'
    <2>1. /\ saves[w].at = "none" /\ saves'[w].at = "open" /\ \A v \in Requests : v # w => saves'[v] = saves[v]
      BY <1>0, <1>2 DEF BeginSave, OpenSave
    <2>2. \A v \in Requests : (Hands(v, n)' <=> Hands(v, n)) /\ (Hands(v, n) => saves'[v].content = saves[v].content)
      BY <2>1 DEF Hands
    <2>3. UNCHANGED <<content, references, refused, task, unlinked>>
      BY <1>2 DEF BeginSave, OpenSave, linkVars
    <2>4. QED
      BY <1>1, <2>2, <2>3, LinksFrame DEF LinksFor
  <1>3. ASSUME NEW w \in Requests, CommitSave(w) PROVE LinksOf(n)'
    <2> DEFINE m == saves[w].note
    <2>1. /\ saves[w].at = "open" /\ saves'[w].at = "committed" /\ m \in Notes /\ saves[w].content \in Contents
          /\ saves'[w].note = m /\ saves'[w].content = saves[w].content
          /\ \A v \in Requests : v # w => saves'[v] = saves[v]
          /\ content' = [content EXCEPT ![m] = saves[w].content]
      BY <1>0, <1>3 DEF CommitSave, CommitContent, SaveStates
    <2>2. /\ UNCHANGED <<task, references>> /\ refused' = refused \ {m}
          /\ unlinked' = IF Linking(m) THEN unlinked \cup {m} ELSE unlinked \ {m}
      BY <1>3 DEF CommitSave, CommitLinks
    <2>3. CASE m # n
      <3>1. \A v \in Requests : (Hands(v, n)' <=> Hands(v, n)) /\ (Hands(v, n) => saves'[v].content = saves[v].content)
        BY <2>1, <2>3 DEF Hands
      <3>2. n \notin unlinked /\ content'[n] = content[n] /\ references'[n] = references[n] /\ (n \in refused => n \in refused')
        BY <1>0, <2>1, <2>2, <2>3
      <3>3. QED
        BY <1>1, <2>2, <3>1, <3>2, LinksFrame DEF LinksFor
    <2>4. CASE m = n
      <3>1. ~Linking(n)
        BY <2>2, <2>4
      <3>2. \A v \in Requests : Hands(v, n)' <=> v = w
        BY <2>1, <2>4, <3>1, LinkingIs DEF Hands
      <3>3. \A k \in Numbers : ~LinksFor(k, n)'
        BY <2>2, <3>1, LinkingIs DEF LinksFor
      <3>4. saves'[w].content = content'[n]
        BY <1>0, <2>1, <2>4
      <3>5. Linking(n)'
        BY <2>1, <2>4 DEF Linking, HandingOver
      <3>6. QED
        BY <3>2, <3>3, <3>4, <3>5 DEF LinksOf
    <2>5. QED
      BY <2>3, <2>4
  <1>4. ASSUME NEW w \in Requests, AnswerSave(w), HandOver(w) PROVE LinksOf(n)'
    <2> DEFINE k == saves[w].no
    <2>1. /\ saves[w].at = "committed" /\ saves'[w].at = "none" /\ \A v \in Requests : v # w => saves'[v] = saves[v]
          /\ UNCHANGED <<content, references, refused, unlinked>>
      BY <1>0, <1>4 DEF AnswerSave, HandOver, NoSave
    <2>2. k \in Numbers /\ task[k].at = "none"
      BY <1>0, <1>4 DEF AnswerSave, NumbersInv, Numbers
    <2>3. /\ task'[k].note = saves[w].note /\ task'[k].content = saves[w].content /\ task'[k].at \in {"started", "queued"}
          /\ \A j \in Numbers : j # k => task'[j] = task[j]
      BY <1>0, <1>4, <2>2 DEF HandOver, NoTask
    <2>4. CASE saves[w].note # n
      <3>1. \A v \in Requests : (Hands(v, n)' <=> Hands(v, n)) /\ (Hands(v, n) => saves'[v].content = saves[v].content)
        BY <2>1, <2>4 DEF Hands
      <3>2. \A j \in Numbers : (LinksFor(j, n)' <=> LinksFor(j, n)) /\ (LinksFor(j, n) => task'[j] = task[j])
        BY <2>2, <2>3, <2>4 DEF LinksFor, ToLink
      <3>3. QED
        BY <1>1, <2>1, <3>1, <3>2, LinksFrame
    <2>5. CASE saves[w].note = n
      <3>1. Hands(w, n) /\ LinksOf(n)
        BY <1>1, <2>1, <2>5 DEF Hands
      <3>2. \A v \in Requests : ~Hands(v, n)'
        BY <2>1, <3>1 DEF Hands, LinksOf
      <3>3. \A j \in Numbers : LinksFor(j, n)' <=> j = k
        BY <2>2, <2>3, <2>5, <3>1 DEF LinksFor, LinksOf, ToLink
      <3>4. task'[k].content = content'[n] /\ task'[k].at # "linking"
        BY <2>1, <2>3, <3>1 DEF LinksOf
      <3>5. Linking(n)'
        BY <2>2, <3>3 DEF Linking, LinksFor
      <3>6. QED
        BY <2>2, <3>2, <3>3, <3>4, <3>5 DEF LinksOf
    <2>6. QED
      BY <2>4, <2>5
  <1>5. ASSUME NEW w \in Requests, AnswerSave(w), Refuse(w) PROVE LinksOf(n)'
    <2>1. /\ saves[w].at = "committed" /\ saves'[w].at = "none" /\ \A v \in Requests : v # w => saves'[v] = saves[v]
          /\ UNCHANGED <<content, references, task, unlinked>> /\ refused' = refused \cup {saves[w].note}
      BY <1>0, <1>5 DEF AnswerSave, Refuse, NoSave
    <2>2. CASE saves[w].note # n
      <3>1. \A v \in Requests : (Hands(v, n)' <=> Hands(v, n)) /\ (Hands(v, n) => saves'[v].content = saves[v].content)
        BY <2>1, <2>2 DEF Hands
      <3>2. QED
        BY <1>1, <2>1, <3>1, LinksFrame DEF LinksFor
    <2>3. CASE saves[w].note = n
      <3>1. Hands(w, n) /\ LinksOf(n)
        BY <1>1, <2>1, <2>3 DEF Hands
      <3>2. \A v \in Requests : ~Hands(v, n)'
        BY <2>1, <3>1 DEF Hands, LinksOf
      <3>3. \A j \in Numbers : ~LinksFor(j, n)'
        BY <2>1, <3>1 DEF LinksFor, LinksOf
      <3>4. n \in refused'
        BY <2>1, <2>3
      <3>5. QED
        BY <3>2, <3>3, <3>4 DEF LinksOf
    <2>4. QED
      BY <2>2, <2>3
  <1>6. ASSUME NEW m \in Notes, NEW c \in Contents, Replace(m, c) PROVE LinksOf(n)'
    <2>1. /\ m # n /\ n \notin unlinked /\ content'[n] = content[n]
          /\ UNCHANGED <<saves, task, references, refused>>
      BY <1>0, <1>6 DEF Replace, ReplaceContent, PassLinks
    <2>2. QED
      BY <1>1, <2>1, LinksFrame DEF Hands, LinksFor
  <1>7. ASSUME Restart PROVE LinksOf(n)'
    <2>1. /\ \A w \in Requests : saves'[w].at = "none"
          /\ \A k \in Numbers : task'[k].at \notin ToLink
      BY <1>0, <1>7 DEF Restart, ForgetSaves, ForgetTasks, NoSave, TaskStates, Live, ToLink
    <2>2. ~Linking(n) /\ n \notin unlinked /\ UNCHANGED <<content, references, refused>>
      BY <1>7 DEF Restart, ForgetSaves, ForgetTasks
    <2>3. n \notin refused => {r.to : r \in references[n]} = Links[content[n]] \ {n}
      BY <1>1, <2>2 DEF LinksOf
    <2>4. \A w \in Requests : ~Hands(w, n)'
      BY <2>1 DEF Hands
    <2>5. \A k \in Numbers : ~LinksFor(k, n)'
      BY <2>1 DEF LinksFor
    <2>6. QED
      BY <2>2, <2>3, <2>4, <2>5 DEF LinksOf
  <1>8. ASSUME UNCHANGED <<content, saves, refused, unlinked>>, references'[n] = references[n],
               \A k \in Numbers : \/ task'[k] = task[k]
                                  \/ /\ task'[k].note = task[k].note /\ task'[k].content = task[k].content
                                     /\ task[k].at \in ToLink <=> task'[k].at \in ToLink
                                     /\ task[k].note = n => task'[k].at # "linking"
        PROVE  LinksOf(n)'
    <2>1. \A k \in Numbers : /\ LinksFor(k, n)' <=> LinksFor(k, n)
                             /\ LinksFor(k, n) => task'[k].content = task[k].content
                             /\ LinksFor(k, n) /\ task'[k].at = "linking" => task[k].at = "linking" /\ task'[k].seen = task[k].seen
      BY <1>8 DEF LinksFor
    <2>2. QED
      BY <1>1, <1>8, <2>1, LinksFrame DEF Hands
  <1>9. ASSUME Take, UNCHANGED <<content, saves>> PROVE LinksOf(n)'
    <2>1. Head(waiting) \in Numbers /\ task[Head(waiting)].at = "queued"
      BY <1>0, <1>9 DEF Take, QueueInv
    <2>2. QED
      BY <1>0, <1>8, <1>9, <2>1 DEF Take, TaskStates, ToLink
  <1>10. ASSUME NEW k \in Numbers, ReadReferences(k), UNCHANGED <<content, saves>> PROVE LinksOf(n)'
    <2>1. /\ task[k].at = "started" /\ task'[k].at = "linking" /\ task'[k].seen = references[task[k].note]
          /\ task'[k].note = task[k].note /\ task'[k].content = task[k].content
          /\ \A j \in Numbers : j # k => task'[j] = task[j]
          /\ UNCHANGED <<references, refused, unlinked>>
      BY <1>0, <1>10 DEF ReadReferences, TaskStates
    <2>2. CASE task[k].note # n
      BY <1>8, <1>10, <2>1, <2>2 DEF ToLink
    <2>3. CASE task[k].note = n
      <3>1. LinksFor(k, n) /\ LinksOf(n)
        BY <1>1, <2>1, <2>3 DEF LinksFor, ToLink
      <3>2. \A j \in Numbers : LinksFor(j, n)' <=> j = k
        BY <2>1, <2>3, <3>1 DEF LinksFor, LinksOf, ToLink
      <3>3. \A v \in Requests : ~Hands(v, n)'
        BY <1>10, <3>1 DEF Hands, LinksOf
      <3>4. task'[k].content = content'[n] /\ task'[k].seen = references'[n]
        BY <1>10, <2>1, <2>3, <3>1 DEF LinksOf
      <3>5. Linking(n)'
        BY <3>2 DEF Linking, LinksFor
      <3>6. QED
        BY <3>2, <3>3, <3>4, <3>5 DEF LinksOf
    <2>4. QED
      BY <2>2, <2>3
  <1>11. ASSUME NEW k \in Numbers, WriteReferences(k), UNCHANGED <<content, saves>> PROVE LinksOf(n)'
    <2>1. /\ task[k].at = "linking" /\ task'[k].at = "linked"
          /\ \A j \in Numbers : j # k => task'[j] = task[j]
          /\ UNCHANGED <<refused, unlinked>>
      BY <1>0, <1>11 DEF WriteReferences, TaskStates
    <2>2. CASE task[k].note # n
      <3>1. references'[n] = references[n]
        BY <1>0, <1>11, <2>2 DEF WriteReferences
      <3>2. \A v \in Requests : (Hands(v, n)' <=> Hands(v, n)) /\ (Hands(v, n) => saves'[v].content = saves[v].content)
        BY <1>11 DEF Hands
      <3>3. \A j \in Numbers : (LinksFor(j, n)' <=> LinksFor(j, n)) /\ (LinksFor(j, n) => task'[j] = task[j])
        <4>1. task'[k].note = task[k].note
          BY <1>0, <1>11 DEF WriteReferences, TaskStates
        <4>2. QED
          BY <2>1, <2>2, <4>1 DEF LinksFor
      <3>4. QED
        BY <1>1, <1>11, <2>1, <3>1, <3>2, <3>3, LinksFrame
    <2>3. CASE task[k].note = n
      <3> DEFINE targets == Links[task[k].content] \ {n}
                 old == Outdated(references[n], targets)
                 new == Added(references[n], targets, k)
      <3>1. LinksFor(k, n) /\ LinksOf(n)
        BY <1>1, <2>1, <2>3 DEF LinksFor, ToLink
      <3>2. task[k].seen = references[n] /\ task[k].content = content[n]
        BY <2>1, <3>1 DEF LinksOf
      <3>3. \A j \in Numbers : ~LinksFor(j, n)'
        BY <2>1, <3>1 DEF LinksFor, LinksOf, ToLink
      <3>4. \A v \in Requests : ~Hands(v, n)'
        BY <1>11, <3>1 DEF Hands, LinksOf
      <3>5. /\ old \subseteq references[n]
            /\ ~\E r \in references[n] \ old, s \in new : r.to = s.to
            /\ {r.to : r \in (references[n] \ old) \cup new} = targets
        BY TargetsWritten
      <3>6. references' = IF ~(old \subseteq references[n]) \/ \E r \in references[n] \ old, s \in new : r.to = s.to
                          THEN references ELSE [references EXCEPT ![n] = (@ \ old) \cup new]
        BY <1>11, <2>3, <3>2 DEF WriteReferences
      <3>7. references'[n] = (references[n] \ old) \cup new
        <4> HIDE DEF old, new
        <4> QED
          BY <1>0, <3>5, <3>6
      <3>8. {r.to : r \in references'[n]} = Links[content'[n]] \ {n}
        BY <1>11, <3>2, <3>5, <3>7
      <3>9. QED
        BY <3>3, <3>4, <3>8 DEF LinksOf
    <2>4. QED
      BY <2>2, <2>3
  <1>b. ASSUME NEW k \in Numbers, LinkingFails(k), UNCHANGED <<content, saves>> PROVE LinksOf(n)'
    <2>1. /\ task[k].note # n /\ n \notin unlinked /\ task'[k].note = task[k].note
          /\ \A j \in Numbers : j # k => task'[j] = task[j]
          /\ UNCHANGED <<references, refused>>
      BY <1>0, <1>b DEF LinkingFails, TaskStates
    <2>2. \A j \in Numbers : (LinksFor(j, n)' <=> LinksFor(j, n)) /\ (LinksFor(j, n) => task'[j] = task[j])
      BY <2>1 DEF LinksFor
    <2>3. \A v \in Requests : (Hands(v, n)' <=> Hands(v, n)) /\ (Hands(v, n) => saves'[v].content = saves[v].content)
      BY <1>b DEF Hands
    <2>4. QED
      BY <1>1, <1>b, <2>1, <2>2, <2>3, LinksFrame
  <1>12. ASSUME NEW k \in Numbers, ReadText(k) \/ Embedded(k) \/ EmbeddingFails(k) \/ StoreEmbedding(k),
                UNCHANGED <<content, saves>>
         PROVE  LinksOf(n)'
    <2>1. /\ \A j \in Numbers : j # k => task'[j] = task[j]
          /\ UNCHANGED <<references, refused, unlinked>>
      BY <1>0, <1>12 DEF ReadText, Embedded, EmbeddingFails, StoreEmbedding
    <2>2. task'[k].note = task[k].note /\ task'[k].content = task[k].content /\ task[k].at \notin ToLink /\ task'[k].at \notin ToLink
      BY <1>0, <1>12 DEF ReadText, Embedded, EmbeddingFails, StoreEmbedding, TaskStates, ToLink
    <2>3. "linking" \in ToLink
      BY DEF ToLink
    <2>4. QED
      BY <1>8, <1>12, <2>1, <2>2, <2>3
  <1>13. ASSUME UNCHANGED <<content, saves, task, references, refused, unlinked>> PROVE LinksOf(n)'
    BY <1>8, <1>13
  <1>14. QED
    BY <1>2, <1>3, <1>4, <1>5, <1>6, <1>7, <1>9, <1>10, <1>11, <1>b, <1>12, <1>13
       DEF Next, vars, contentVars, linkVars, EndSave, QuestionSteps, LinkSteps

-----------------------------------------------------------------------------
(* The embedding.                                                          *)

LEMMA WorkingIs == \A n : Working(n) <=> (\E w \in Requests : Hands(w, n)) \/ (\E k \in Numbers : Works(k, n))
  BY DEF Working, HandingOver, Hands, Works

\* A step that leaves alone what concerns the embedding of a note.
LEMMA EmbeddingFrame ==
  ASSUME NEW n \in Notes, EmbeddingOf(n), content'[n] = content[n], embedding'[n] = embedding[n], n \in refused => n \in refused',
         \A w \in Requests : Hands(w, n)' <=> Hands(w, n),
         \A k \in Numbers : /\ Works(k, n)' <=> Works(k, n)
                            /\ Works(k, n) /\ task'[k].at \in {"asking", "storing"}
                                 => task[k].at \in {"asking", "storing"} /\ task'[k].text = task[k].text
  PROVE  EmbeddingOf(n)'
  <1>1. Working(n)' <=> Working(n)
    BY WorkingIs DEF Working, HandingOver, Hands, Works
  <1>2. \A v, w \in Requests : Hands(v, n)' /\ Hands(w, n)' => v = w
    BY DEF EmbeddingOf
  <1>3. \A w \in Requests : Hands(w, n)' => \A k \in Numbers : ~Works(k, n)'
    BY DEF EmbeddingOf
  <1>4. \A k, l \in Numbers : Works(k, n)' /\ Works(l, n)' => k = l
    BY DEF EmbeddingOf
  <1>5. \A k \in Numbers : Works(k, n)' /\ task'[k].at \in {"asking", "storing"} => task'[k].text = content'[n]
    BY DEF EmbeddingOf
  <1>6. ~Working(n)' /\ n \notin refused' /\ content'[n] \notin Blank => embedding'[n] = {content'[n]}
    BY <1>1 DEF EmbeddingOf
  <1>7. QED
    BY <1>2, <1>3, <1>4, <1>5, <1>6 DEF EmbeddingOf

LEMMA EmbeddingKept == ASSUME TypeOK, NumbersInv, QueueInv, EmbeddingInv, [Next]_vars, NEW n \in Notes \ unembedded' PROVE EmbeddingOf(n)'
  <1>0. /\ saves \in [Requests -> SaveStates] /\ task \in [Numbers -> TaskStates] /\ waiting \in Seq(Numbers)
        /\ content \in [Notes -> Contents] /\ embedding \in [Notes -> SUBSET Contents]
        /\ saved \in 0 .. MaxSaves /\ MaxSaves \in Nat
    BY ContentAssumption DEF TypeOK, ContentTypeOK, LinksTypeOK
  <1>1. n \notin unembedded => EmbeddingOf(n)
    BY DEF EmbeddingInv
  <1>2. ASSUME NEW w \in Requests, NEW m \in Notes, NEW c \in Contents, BeginSave(w, m, c) PROVE EmbeddingOf(n)'
    <2>1. /\ saves[w].at = "none" /\ saves'[w].at = "open" /\ \A v \in Requests : v # w => saves'[v] = saves[v]
      BY <1>0, <1>2 DEF BeginSave, OpenSave
    <2>2. \A v \in Requests : Hands(v, n)' <=> Hands(v, n)
      BY <2>1 DEF Hands
    <2>3. UNCHANGED <<content, embedding, refused, task, unembedded>>
      BY <1>2 DEF BeginSave, OpenSave, linkVars
    <2>4. QED
      BY <1>1, <2>2, <2>3, EmbeddingFrame DEF Works
  <1>3. ASSUME NEW w \in Requests, CommitSave(w) PROVE EmbeddingOf(n)'
    <2> DEFINE m == saves[w].note
    <2>1. /\ saves[w].at = "open" /\ saves'[w].at = "committed" /\ m \in Notes /\ saves'[w].note = m
          /\ \A v \in Requests : v # w => saves'[v] = saves[v]
          /\ \A l \in Notes : l # m => content'[l] = content[l]
      BY <1>0, <1>3 DEF CommitSave, CommitContent, SaveStates
    <2>2. /\ UNCHANGED <<task, embedding>> /\ refused' = refused \ {m}
          /\ unembedded' = IF Working(m) THEN unembedded \cup {m} ELSE unembedded \ {m}
      BY <1>3 DEF CommitSave, CommitLinks
    <2>3. CASE m # n
      <3>1. \A v \in Requests : Hands(v, n)' <=> Hands(v, n)
        BY <2>1, <2>3 DEF Hands
      <3>2. n \notin unembedded /\ content'[n] = content[n] /\ embedding'[n] = embedding[n] /\ (n \in refused => n \in refused')
        BY <2>1, <2>2, <2>3
      <3>3. QED
        BY <1>1, <2>2, <3>1, <3>2, EmbeddingFrame DEF Works
    <2>4. CASE m = n
      <3>1. ~Working(n)
        BY <2>2, <2>4
      <3>2. \A v \in Requests : Hands(v, n)' <=> v = w
        BY <2>1, <2>4, <3>1, WorkingIs DEF Hands
      <3>3. \A k \in Numbers : ~Works(k, n)'
        BY <2>2, <3>1, WorkingIs DEF Works
      <3>4. Working(n)'
        BY <2>1, <2>4 DEF Working, HandingOver
      <3>5. QED
        BY <3>2, <3>3, <3>4 DEF EmbeddingOf
    <2>5. QED
      BY <2>3, <2>4
  <1>4. ASSUME NEW w \in Requests, AnswerSave(w), HandOver(w) PROVE EmbeddingOf(n)'
    <2> DEFINE k == saves[w].no
    <2>1. /\ saves[w].at = "committed" /\ saves'[w].at = "none" /\ \A v \in Requests : v # w => saves'[v] = saves[v]
          /\ UNCHANGED <<content, embedding, refused, unembedded>>
      BY <1>0, <1>4 DEF AnswerSave, HandOver, NoSave
    <2>2. k \in Numbers /\ task[k].at = "none"
      BY <1>0, <1>4 DEF AnswerSave, NumbersInv, Numbers
    <2>3. /\ task'[k].note = saves[w].note /\ task'[k].at \in {"started", "queued"}
          /\ \A j \in Numbers : j # k => task'[j] = task[j]
      BY <1>0, <1>4, <2>2 DEF HandOver, NoTask
    <2>4. CASE saves[w].note # n
      <3>1. \A v \in Requests : Hands(v, n)' <=> Hands(v, n)
        BY <2>1, <2>4 DEF Hands
      <3>2. \A j \in Numbers : (Works(j, n)' <=> Works(j, n)) /\ (Works(j, n) => task'[j] = task[j])
        BY <2>2, <2>3, <2>4 DEF Works, Live
      <3>3. QED
        BY <1>1, <2>1, <3>1, <3>2, EmbeddingFrame
    <2>5. CASE saves[w].note = n
      <3>1. Hands(w, n) /\ EmbeddingOf(n)
        BY <1>1, <2>1, <2>5 DEF Hands
      <3>2. \A v \in Requests : ~Hands(v, n)'
        BY <2>1, <3>1 DEF Hands, EmbeddingOf
      <3>3. \A j \in Numbers : Works(j, n)' <=> j = k
        BY <2>2, <2>3, <2>5, <3>1 DEF Works, EmbeddingOf, Live
      <3>4. task'[k].at \notin {"asking", "storing"}
        BY <2>3
      <3>5. Working(n)'
        BY <2>2, <3>3 DEF Working, Works
      <3>6. QED
        BY <2>2, <3>2, <3>3, <3>4, <3>5 DEF EmbeddingOf
    <2>6. QED
      BY <2>4, <2>5
  <1>5. ASSUME NEW w \in Requests, AnswerSave(w), Refuse(w) PROVE EmbeddingOf(n)'
    <2>1. /\ saves[w].at = "committed" /\ saves'[w].at = "none" /\ \A v \in Requests : v # w => saves'[v] = saves[v]
          /\ UNCHANGED <<content, embedding, task, unembedded>> /\ refused' = refused \cup {saves[w].note}
      BY <1>0, <1>5 DEF AnswerSave, Refuse, NoSave
    <2>2. CASE saves[w].note # n
      <3>1. \A v \in Requests : Hands(v, n)' <=> Hands(v, n)
        BY <2>1, <2>2 DEF Hands
      <3>2. QED
        BY <1>1, <2>1, <3>1, EmbeddingFrame DEF Works
    <2>3. CASE saves[w].note = n
      <3>1. Hands(w, n) /\ EmbeddingOf(n)
        BY <1>1, <2>1, <2>3 DEF Hands
      <3>2. \A v \in Requests : ~Hands(v, n)'
        BY <2>1, <3>1 DEF Hands, EmbeddingOf
      <3>3. \A j \in Numbers : ~Works(j, n)'
        BY <2>1, <3>1 DEF Works, EmbeddingOf
      <3>4. n \in refused'
        BY <2>1, <2>3
      <3>5. QED
        BY <3>2, <3>3, <3>4 DEF EmbeddingOf
    <2>4. QED
      BY <2>2, <2>3
  <1>6. ASSUME NEW m \in Notes, NEW c \in Contents, Replace(m, c) PROVE EmbeddingOf(n)'
    <2>1. /\ m # n /\ n \notin unembedded /\ content'[n] = content[n]
          /\ UNCHANGED <<saves, task, embedding, refused>>
      BY <1>0, <1>6 DEF Replace, ReplaceContent, PassLinks
    <2>2. QED
      BY <1>1, <2>1, EmbeddingFrame DEF Hands, Works
  <1>7. ASSUME Restart PROVE EmbeddingOf(n)'
    <2>1. /\ \A w \in Requests : saves'[w].at = "none"
          /\ \A k \in Numbers : task'[k].at \notin Live
      BY <1>0, <1>7 DEF Restart, ForgetSaves, ForgetTasks, NoSave, TaskStates, Live
    <2>2. ~Working(n) /\ n \notin unembedded /\ UNCHANGED <<content, embedding, refused>>
      BY <1>7 DEF Restart, ForgetSaves, ForgetTasks
    <2>3. n \notin refused /\ content[n] \notin Blank => embedding[n] = {content[n]}
      BY <1>1, <2>2 DEF EmbeddingOf
    <2>4. \A w \in Requests : ~Hands(w, n)'
      BY <2>1 DEF Hands
    <2>5. \A k \in Numbers : ~Works(k, n)'
      BY <2>1 DEF Works
    <2>6. QED
      BY <2>2, <2>3, <2>4, <2>5 DEF EmbeddingOf
  <1>8. ASSUME n \notin unembedded, UNCHANGED <<content, saves, refused>>, embedding'[n] = embedding[n],
               \A k \in Numbers : \/ task'[k] = task[k]
                                  \/ /\ task'[k].note = task[k].note
                                     /\ task[k].at \in Live <=> task'[k].at \in Live
                                     /\ task[k].note = n /\ task'[k].at \in {"asking", "storing"}
                                          => task[k].at \in {"asking", "storing"} /\ task'[k].text = task[k].text
        PROVE  EmbeddingOf(n)'
    <2>1. \A k \in Numbers : /\ Works(k, n)' <=> Works(k, n)
                             /\ Works(k, n) /\ task'[k].at \in {"asking", "storing"}
                                  => task[k].at \in {"asking", "storing"} /\ task'[k].text = task[k].text
      BY <1>8 DEF Works
    <2>2. QED
      BY <1>1, <1>8, <2>1, EmbeddingFrame DEF Hands
  <1>9. ASSUME Take, UNCHANGED <<content, saves>> PROVE EmbeddingOf(n)'
    <2>1. Head(waiting) \in Numbers /\ task[Head(waiting)].at = "queued"
      BY <1>0, <1>9 DEF Take, QueueInv
    <2>2. QED
      BY <1>0, <1>8, <1>9, <2>1 DEF Take, TaskStates, Live
  <1>10. ASSUME NEW k \in Numbers, ReadReferences(k) \/ WriteReferences(k) \/ LinkingFails(k) \/ Embedded(k), UNCHANGED <<content, saves>>
         PROVE  EmbeddingOf(n)'
    <2>1. /\ \A j \in Numbers : j # k => task'[j] = task[j]
          /\ UNCHANGED <<embedding, refused, unembedded>>
      BY <1>0, <1>10 DEF ReadReferences, WriteReferences, LinkingFails, Embedded
    <2>2. /\ task'[k].note = task[k].note /\ task[k].at \in Live /\ task'[k].at \in Live
          /\ task'[k].at \in {"asking", "storing"} => task[k].at \in {"asking", "storing"} /\ task'[k].text = task[k].text
      BY <1>0, <1>10 DEF ReadReferences, WriteReferences, LinkingFails, Embedded, TaskStates, Live
    <2>3. QED
      BY <1>8, <1>10, <2>1, <2>2
  <1>11. ASSUME NEW k \in Numbers, task[k].note # n, task'[k].note = task[k].note, embedding'[n] = embedding[n],
                n \notin unembedded, UNCHANGED <<content, saves, refused>>, \A j \in Numbers : j # k => task'[j] = task[j]
         PROVE  EmbeddingOf(n)'
    <2>1. \A j \in Numbers : (Works(j, n)' <=> Works(j, n)) /\ (Works(j, n) => task'[j] = task[j])
      BY <1>11 DEF Works
    <2>2. QED
      BY <1>1, <1>11, <2>1, EmbeddingFrame DEF Hands
  <1>12. ASSUME NEW k \in Numbers, ReadText(k), UNCHANGED <<content, saves>> PROVE EmbeddingOf(n)'
    <2>1. /\ task[k].at = "linked" /\ task'[k].note = task[k].note /\ task'[k].text = content[task[k].note]
          /\ task'[k].at = IF content[task[k].note] \in Blank THEN "done" ELSE "asking"
          /\ \A j \in Numbers : j # k => task'[j] = task[j]
          /\ UNCHANGED <<embedding, refused, unembedded>>
      BY <1>0, <1>12 DEF ReadText, TaskStates
    <2>2. CASE task[k].note # n
      BY <1>11, <1>12, <2>1, <2>2
    <2>3. CASE task[k].note = n
      <3>1. Works(k, n) /\ EmbeddingOf(n)
        BY <1>1, <2>1, <2>3 DEF Works, Live
      <3>2. \A j \in Numbers : Works(j, n)' => j = k
        BY <2>1, <3>1 DEF Works, EmbeddingOf
      <3>3. \A v \in Requests : ~Hands(v, n)'
        BY <1>12, <3>1 DEF Hands, EmbeddingOf
      <3>4. content'[n] \notin Blank => Works(k, n)'
        BY <1>12, <2>1, <2>3 DEF Works, Live
      <3>5. Works(k, n)' => Working(n)'
        BY DEF Working, Works
      <3>6. task'[k].text = content'[n]
        BY <1>12, <2>1, <2>3
      <3>7. QED
        BY <3>2, <3>3, <3>4, <3>5, <3>6 DEF EmbeddingOf
    <2>4. QED
      BY <2>2, <2>3
  <1>13. ASSUME NEW k \in Numbers, EmbeddingFails(k), UNCHANGED <<content, saves>> PROVE EmbeddingOf(n)'
    <2>1. /\ task[k].note # n /\ n \notin unembedded /\ task'[k].note = task[k].note
          /\ \A j \in Numbers : j # k => task'[j] = task[j]
          /\ UNCHANGED <<embedding, refused>>
      BY <1>0, <1>13 DEF EmbeddingFails, TaskStates
    <2>2. QED
      BY <1>11, <1>13, <2>1
  <1>14. ASSUME NEW k \in Numbers, StoreEmbedding(k), UNCHANGED <<content, saves>> PROVE EmbeddingOf(n)'
    <2>1. /\ task[k].at = "storing" /\ task'[k].at = "done" /\ task'[k].note = task[k].note
          /\ \A j \in Numbers : j # k => task'[j] = task[j]
          /\ UNCHANGED <<refused, unembedded>>
          /\ embedding' = [embedding EXCEPT ![task[k].note] = {task[k].text}]
      BY <1>0, <1>14 DEF StoreEmbedding, TaskStates
    <2>2. CASE task[k].note # n
      <3>1. embedding'[n] = embedding[n]
        BY <1>0, <2>1, <2>2
      <3>2. QED
        BY <1>11, <1>14, <2>1, <2>2, <3>1
    <2>3. CASE task[k].note = n
      <3>1. Works(k, n) /\ EmbeddingOf(n)
        BY <1>1, <2>1, <2>3 DEF Works, Live
      <3>2. \A j \in Numbers : ~Works(j, n)'
        BY <2>1, <3>1 DEF Works, EmbeddingOf, Live
      <3>3. \A v \in Requests : ~Hands(v, n)'
        BY <1>14, <3>1 DEF Hands, EmbeddingOf
      <3>4. embedding'[n] = {content'[n]}
        BY <1>0, <1>14, <2>1, <2>3, <3>1 DEF EmbeddingOf
      <3>5. QED
        BY <3>2, <3>3, <3>4 DEF EmbeddingOf
    <2>4. QED
      BY <2>2, <2>3
  <1>15. ASSUME UNCHANGED <<content, saves, task, embedding, refused, unembedded>> PROVE EmbeddingOf(n)'
    BY <1>8, <1>15
  <1>16. QED
    BY <1>2, <1>3, <1>4, <1>5, <1>6, <1>7, <1>9, <1>10, <1>12, <1>13, <1>14, <1>15
       DEF Next, vars, contentVars, linkVars, EndSave, QuestionSteps, LinkSteps

-----------------------------------------------------------------------------
(* The theorems.                                                           *)

TaskInv == NumbersInv /\ QueueInv /\ LinksInv /\ EmbeddingInv
IInv == TypeOK /\ QuestionsInv /\ TaskInv

LEMMA InitIInv == Init => IInv
  <1>1. Init => LinksInv /\ EmbeddingInv
    BY DEF Init, LinksInit, LinksInv, EmbeddingInv
  <1>2. QED
    BY <1>1, InitType, InitQuestions, InitTasks DEF IInv, TaskInv

LEMMA StepIInv == IInv /\ [Next]_vars => IInv'
  <1> SUFFICES ASSUME IInv, [Next]_vars PROVE IInv'
    OBVIOUS
  <1>1. TypeOK /\ QuestionsInv /\ IdsInv /\ LocksInv /\ MarksInv /\ OneGeneration /\ GenerationFollows
    BY DEF IInv, QuestionsInv
  <1>2. NumbersInv /\ QueueInv /\ LinksInv /\ EmbeddingInv
    BY DEF IInv, TaskInv
  <1>3. TypeOK'
    BY <1>1, <1>2, ContentType, QuestionsType, LinksType DEF TypeOK
  <1>4. QuestionsInv'
    BY <1>1, IdsKept, LocksKept, MarksKept, OneGenerationKept, GenerationKept, ReadyKept DEF QuestionsInv
  <1>5. LinksInv'
    BY <1>1, <1>2, LinksKept DEF LinksInv
  <1>6. EmbeddingInv'
    BY <1>1, <1>2, EmbeddingKept DEF EmbeddingInv
  <1>7. QED
    BY <1>1, <1>2, <1>3, <1>4, <1>5, <1>6, NumbersKept, QueueKept DEF IInv, TaskInv

LEMMA IInvHolds == Spec => []IInv
  BY InitIInv, StepIInv, PTL DEF Spec

\* Content, saves, questions, tasks and suggestions keep their types.
THEOREM SavedContentTypeCorrect == Spec => []TypeOK
  <1>1. IInv => TypeOK
    BY DEF IInv
  <1>2. QED
    BY <1>1, IInvHolds, PTL

\* Questions that are ready are of the content the note has, unless it was replaced with no mark, or by a save that a
\* generation met (ReviewQuestionService.generateQuestionsForItem, NeuronService.updateContent).
THEOREM ReadyQuestionsFollow == Spec => []ReadyFollows
  <1>1. IInv => ReadyFollows
    BY DEF IInv, QuestionsInv
  <1>2. QED
    BY <1>1, IInvHolds, PTL

\* The questions of an item are of one generation, and gone with it (deleteBySrItemId before they are stored).
THEOREM QuestionsAreOfOneGeneration == Spec => []OneGeneration
  <1>1. IInv => OneGeneration
    BY DEF IInv, QuestionsInv
  <1>2. QED
    BY <1>1, IInvHolds, PTL

\* No step takes the questions of an item away, its removal apart.
THEOREM QuestionsAreKept == Spec => KeptUntilReplaced
  <1>1. IInv /\ [Next]_vars => [\A n \in Notes : item[n] # NoItem /\ item'[n].id = item[n].id /\ Of(item[n].id) # {}
                                                   => Of(item[n].id)' # {}]_vars
    BY QuestionsKept DEF IInv, QuestionsInv
  <1>2. QED
    BY <1>1, IInvHolds, PTL DEF Spec, KeptUntilReplaced

\* Once the task of a save is through, the references of the note are those of its content, for any notes, saves
\* and threads (recomputeReferenceSuggestions).  Set aside are notes written last by a restore or a PATCH, or by a
\* save that found another save or task of the note unfinished, and those whose last task was refused, died or
\* failed to store.
THEOREM ReferencesAreOfContent == Spec => []ReferencesFollow
  <1>1. IInv => ReferencesFollow
    BY DEF IInv, TaskInv, LinksInv, LinksOf, ReferencesFollow
  <1>2. QED
    BY <1>1, IInvHolds, PTL

\* Once the task of a save is through, the embedding of the note is that of its content where it has text
\* (recomputeAllSuggestions).  Set aside are the same notes and those whose last task could not compute or store it;
\* a text that was emptied keeps the embedding of the text before.
THEOREM EmbeddingIsOfContent == Spec => []EmbeddingFollows
  <1>1. IInv => EmbeddingFollows
    BY DEF IInv, TaskInv, EmbeddingInv, EmbeddingOf, EmbeddingFollows
  <1>2. QED
    BY <1>1, IInvHolds, PTL
=============================================================================
