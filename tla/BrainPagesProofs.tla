-------------------------- MODULE BrainPagesProofs --------------------------
(***************************************************************************)
(* Theorems about the tree of brains, clusters and thoughts: what the      *)
(* backend keeps of it, the lists the sidebar has cached, and the          *)
(* description that a brain's page saves as it is typed; and about the     *)
(* page of a research cluster and the tasks of the backend that write its  *)
(* topics: who owes an answer to a topic that is stored as being worked    *)
(* on, and what the page shows of them.  Last, the types of all pages.     *)
(***************************************************************************)
EXTENDS PagesProofs

-----------------------------------------------------------------------------
(* The sidebar: a brain has at most one research cluster.                  *)

\* A request that concerns a type of which there is to be one makes or deletes a cluster.
OfClusters(c) ==
    c.type \in Tree!UniqueTypes => c.mode \in {"create-cluster", "page-cluster", "delete-cluster"}

\* Where the count of the research clusters stands between zero and one, the index lets a creation
\* through at zero alone, and a deletion finds one only at one.
TreeInv ==
    /\ unique \in [Tree!UniqueTypes -> Int]
    /\ unique["ai-research"] \in {0, 1}
    /\ \A c \in calls : OfClusters(c)
    /\ \A x \in txs : OfClusters(x.call)

LEMMA TreeAtFirst == ASSUME Tree!Init PROVE TreeInv
<1>1. unique = [t \in Tree!UniqueTypes |-> 0] /\ calls = {} /\ txs = {}
  BY DEF Tree!Init
<1> QED
  BY <1>1 DEF TreeInv, Tree!UniqueTypes

\* What is sent is of that kind.
LEMMA TreeSends ==
    ASSUME TreeInv, NEW m, NEW t, NEW d, Tree!Send(m, t, d), UNCHANGED unique,
           t \in Tree!UniqueTypes => m \in {"create-cluster", "page-cluster", "delete-cluster"}
    PROVE  TreeInv'
<1> DEFINE call == [id |-> sent, mode |-> m, type |-> t, desc |-> d, tries |-> 1, got |-> "none"]
<1>1. /\ calls' = calls \cup {call}
      /\ txs' = txs \cup {[call |-> call, try |-> 1, checked |-> FALSE]}
  BY DEF Tree!Send
<1>2. OfClusters(call)
  BY DEF OfClusters
<1>3. \A x \in txs' : OfClusters(x.call)
  BY <1>1, <1>2 DEF TreeInv
<1>4. \A c \in calls' : OfClusters(c)
  BY <1>1, <1>2 DEF TreeInv
<1> QED
  BY <1>3, <1>4 DEF TreeInv

\* The count moves by one, and only where the index allows it.
LEMMA TreeCommits ==
    ASSUME TreeInv, NEW x \in txs, Tree!Commit(x)
    PROVE  TreeInv'
<1>1. txs' = txs \ {x}
  BY DEF Tree!Commit
<1>2. calls' = {IF c.id = x.call.id /\ c.tries = x.try
                THEN [c EXCEPT !.got = IF Tree!Allowed(x.call) THEN "ok" ELSE "refused"] ELSE c : c \in calls}
  BY DEF Tree!Commit
<1>3. \A g : \A c \in calls : OfClusters([c EXCEPT !.got = g])
  <2> SUFFICES ASSUME NEW c \in calls, NEW g PROVE OfClusters([c EXCEPT !.got = g])
    OBVIOUS
  <2>1. [c EXCEPT !.got = g].type = c.type /\ [c EXCEPT !.got = g].mode = c.mode
    OBVIOUS
  <2> QED
    BY <2>1 DEF TreeInv, OfClusters
<1>4. \A c \in calls' : OfClusters(c)
  BY <1>2, <1>3 DEF TreeInv
<1>5. \A y \in txs' : OfClusters(y.call)
  BY <1>1 DEF TreeInv
<1>6. ASSUME Tree!Allowed(x.call)
      PROVE  unique' \in [Tree!UniqueTypes -> Int] /\ unique'["ai-research"] \in {0, 1}
  <2>1. unique' = [t \in Tree!UniqueTypes |->
                     IF t # x.call.type THEN unique[t]
                     ELSE IF Tree!Creates(x.call) THEN unique[t] + 1 ELSE unique[t] - 1]
    BY <1>6 DEF Tree!Commit
  <2>2. "ai-research" \in Tree!UniqueTypes
    BY DEF Tree!UniqueTypes
  <2>3. unique' \in [Tree!UniqueTypes -> Int]
    BY <2>1 DEF TreeInv
  <2>4. CASE x.call.type # "ai-research"
    BY <2>1, <2>2, <2>3, <2>4 DEF TreeInv
  <2>5. CASE x.call.type = "ai-research" /\ Tree!Creates(x.call)
    <3>1. unique["ai-research"] = 0
      BY <1>6, <2>5 DEF Tree!Allowed
    <3> QED
      BY <2>1, <2>2, <2>3, <2>5, <3>1
  <2>6. CASE x.call.type = "ai-research" /\ ~Tree!Creates(x.call)
    <3>1. x.call.mode = "delete-cluster"
      BY <2>2, <2>6 DEF TreeInv, OfClusters, Tree!Creates
    <3>2. unique["ai-research"] = 1
      BY <1>6, <2>2, <2>6, <3>1 DEF Tree!Allowed, TreeInv
    <3> QED
      BY <2>1, <2>2, <2>3, <2>6, <3>2
  <2> QED
    BY <2>4, <2>5, <2>6
<1>7. ASSUME ~Tree!Allowed(x.call) PROVE unique' = unique
  BY <1>7 DEF Tree!Commit, Tree!Backend
<1> QED
  BY <1>4, <1>5, <1>6, <1>7 DEF TreeInv

LEMMA TreeStep ==
    ASSUME TreeInv, [Tree!Next]_treeVars
    PROVE  TreeInv'
<1>1. ASSUME NEW c \in calls, Tree!Answered(c) \/ Tree!Throws(c) PROVE TreeInv'
  <2>1. calls' = calls \ {c} /\ UNCHANGED <<unique, txs>>
    BY <1>1 DEF Tree!Answered, Tree!Throws, Tree!Backend
  <2> QED
    BY <2>1 DEF TreeInv
<1>2. ASSUME NEW x \in txs, Tree!Check(x) PROVE TreeInv'
  <2>1. UNCHANGED unique
    BY <1>2 DEF Tree!Check, Tree!Backend
  <2>2. txs' \subseteq txs \cup {[x EXCEPT !.checked = TRUE]}
    BY <1>2 DEF Tree!Check
  <2>3. [x EXCEPT !.checked = TRUE].call = x.call
    OBVIOUS
  <2>4. \A y \in txs' : OfClusters(y.call)
    BY <2>2, <2>3 DEF TreeInv
  <2>5. \/ calls' = calls
        \/ calls' = {IF c.id = x.call.id /\ c.tries = x.try THEN [c EXCEPT !.got = "refused"] ELSE c : c \in calls}
    BY <1>2 DEF Tree!Check
  <2>6. \A c \in calls : OfClusters([c EXCEPT !.got = "refused"])
    <3> SUFFICES ASSUME NEW c \in calls PROVE OfClusters([c EXCEPT !.got = "refused"])
      OBVIOUS
    <3>1. [c EXCEPT !.got = "refused"].type = c.type /\ [c EXCEPT !.got = "refused"].mode = c.mode
      OBVIOUS
    <3> QED
      BY <3>1 DEF TreeInv, OfClusters
  <2>7. \A c \in calls' : OfClusters(c)
    BY <2>5, <2>6 DEF TreeInv
  <2> QED
    BY <2>1, <2>4, <2>7 DEF TreeInv
<1>3. ASSUME NEW x \in txs, Tree!Commit(x) PROVE TreeInv'
  BY <1>3, TreeCommits
<1>4. ASSUME NEW c \in calls, Tree!Retry(c) PROVE TreeInv'
  <2>1. /\ calls' = (calls \ {c}) \cup {[c EXCEPT !.tries = 2]}
        /\ txs' = txs \cup {[call |-> c, try |-> 2, checked |-> FALSE]}
        /\ UNCHANGED unique
    BY <1>4 DEF Tree!Retry, Tree!Backend
  <2>2. OfClusters(c)
    BY DEF TreeInv
  <2>3. [c EXCEPT !.tries = 2].type = c.type /\ [c EXCEPT !.tries = 2].mode = c.mode
    OBVIOUS
  <2>4. OfClusters([c EXCEPT !.tries = 2])
    BY <2>2, <2>3 DEF OfClusters
  <2>5. \A d \in calls' : OfClusters(d)
    BY <2>1, <2>4 DEF TreeInv
  <2>6. \A y \in txs' : OfClusters(y.call)
    BY <2>1, <2>2 DEF TreeInv
  <2> QED
    BY <2>1, <2>5, <2>6 DEF TreeInv
<1>5. CASE Tree!saveDescription
  <2>1. Tree!Send("describe", "knowledge", timer) /\ UNCHANGED unique
    BY <1>5 DEF Tree!saveDescription, Tree!Backend
  <2> QED
    BY <2>1, TreeSends DEF Tree!UniqueTypes
<1>6. CASE Tree!handleDialogSubmit
  <2> DEFINE t == IF dialog.mode = "create-cluster" THEN dialog.type ELSE "knowledge"
  <2>1. Tree!Send(dialog.mode, t, 0) /\ UNCHANGED unique
    BY <1>6 DEF Tree!handleDialogSubmit, Tree!Backend
  <2>2. t \in Tree!UniqueTypes => dialog.mode = "create-cluster"
    BY DEF Tree!UniqueTypes
  <2> QED
    BY <2>1, <2>2, TreeSends
<1>7. ASSUME NEW m \in Tree!AllModes, Tree!onDelete(m) PROVE TreeInv'
  <2>1. PICK t : /\ t \in IF m = "delete-cluster" THEN cachedTypes \cup {"knowledge"} ELSE {"knowledge"}
                 /\ Tree!Send(m, t, 0)
    BY <1>7 DEF Tree!onDelete
  <2>2. t \in Tree!UniqueTypes => m = "delete-cluster"
    BY <2>1 DEF Tree!UniqueTypes
  <2>3. UNCHANGED unique
    BY <1>7 DEF Tree!onDelete, Tree!Backend
  <2> QED
    BY <2>1, <2>2, <2>3, TreeSends
<1>8. ASSUME NEW t \in Types, Tree!handleSubmit(t) PROVE TreeInv'
  <2>1. Tree!Send("page-cluster", t, 0) /\ UNCHANGED unique
    BY <1>8 DEF Tree!handleSubmit, Tree!Backend
  <2> QED
    BY <2>1, TreeSends
<1>9. ASSUME \/ UNCHANGED treeVars
             \/ \E x \in evicting : Tree!Evict(x)
             \/ \E k \in Tree!Keys : Tree!Read(k) \/ Tree!Load(k) \/ Tree!Loaded(k) \/ Tree!Fetched(k)
             \/ \E load \in late : Tree!LoadedLate(load)
             \/ \E m \in Tree!AllModes : Tree!handleCreate(m)
             \/ \E t \in Types : Tree!onTypeChange(t)
             \/ Tree!CloseDialog \/ Tree!OpenCluster \/ Tree!CancelCluster \/ Tree!handleDescriptionChange
      PROVE  TreeInv'
  <2>1. UNCHANGED <<unique, calls, txs>>
    BY <1>9 DEF treeVars, Tree!Evict, Tree!Read, Tree!Load, Tree!Loaded, Tree!LoadedLate, Tree!Keep, Tree!Fetched,
                Tree!handleCreate, Tree!onTypeChange, Tree!CloseDialog,
                Tree!OpenCluster, Tree!CancelCluster, Tree!handleDescriptionChange, Tree!Backend
  <2> QED
    BY <2>1 DEF TreeInv
<1> QED
  BY <1>1, <1>2, <1>3, <1>4, <1>5, <1>6, <1>7, <1>8, <1>9 DEF Tree!Next, Tree!Runs

\* Double clicks, requests sent twice and the dialogs of both pages never bring a brain a second
\* research cluster, however many attempts have passed the check before any of them inserts.
THEOREM ResearchClusterIsUnique == Spec => []OneResearch
<1>1. Init => TreeInv
  BY TreeAtFirst DEF Init
<1>2. TreeInv /\ [Next]_vars => TreeInv'
  BY TreeStep, PageSteps
<1>3. TreeInv => OneResearch
  BY DEF TreeInv, OneResearch, Tree!OneResearch
<1> QED
  BY <1>1, <1>2, <1>3, PTL DEF Spec

-----------------------------------------------------------------------------
(* The sidebar and the page of a brain: requests, and what is cached.      *)

\* A request, an attempt of one, and what a fetch can be.
CallForm(c) ==
    /\ c = [id |-> c.id, mode |-> c.mode, type |-> c.type, desc |-> c.desc, tries |-> c.tries, got |-> c.got]
    /\ c.id \in Nat /\ c.desc \in Nat /\ c.tries \in {1, 2}
AttemptForm(x) == CallForm(x.call) /\ x.try \in {1, 2}
Lists == [ver: Nat, desc: Nat, types: SUBSET Tree!UniqueTypes]
Fetches == {Tree!Idle, Tree!Asked} \cup [at: {"loading", "read"}, list: Lists]

\* An attempt is one of its call; while the call was not sent again it is the first, and unanswered.
AttemptOf(x, c) == c.mode = x.call.mode /\ (c.tries = 1 => x.try = 1 /\ c.got = "none")

\* Requests are told apart by their number, and the attempts of one by theirs.
RequestsInv ==
    /\ sent \in Nat /\ desc \in Nat /\ typed \in Nat /\ timer \in Nat \cup {-1}
    /\ \A c \in calls : CallForm(c) /\ c.id < sent
    /\ \A x \in txs : AttemptForm(x) /\ x.call.id < sent
    /\ \A c, d \in calls : c.id = d.id => c = d
    /\ \A x, y \in txs : x.call.id = y.call.id /\ x.try = y.try => x = y
    /\ \A x \in txs, c \in calls : c.id = x.call.id => AttemptOf(x, c)

\* An attempt that has still to clear what is kept has changed the list: its call has that answer, or
\* was sent again.
EvictsInv ==
    /\ \A x \in evicting : AttemptForm(x) /\ x.call.id < sent
    /\ \A x \in evicting, c \in calls :
         c.id = x.call.id => /\ c.mode = x.call.mode /\ (c.got = "ok" \/ c.tries = 2)
                             /\ c.tries = 1 => x.try = 1

\* What the steps do with requests.
Settled(x, g) ==
    /\ txs' = txs \ {x}
    /\ calls' = {IF c.id = x.call.id /\ c.tries = x.try THEN [c EXCEPT !.got = g] ELSE c : c \in calls}

LEMMA GotKeepsForm ==
    ASSUME NEW c, CallForm(c), NEW g
    PROVE  /\ CallForm([c EXCEPT !.got = g])
           /\ [c EXCEPT !.got = g].id = c.id /\ [c EXCEPT !.got = g].mode = c.mode
           /\ [c EXCEPT !.got = g].desc = c.desc /\ [c EXCEPT !.got = g].tries = c.tries
           /\ [c EXCEPT !.got = g].got = g
<1> DEFINE d == [c EXCEPT !.got = g]
<1>1. d = [id |-> c.id, mode |-> c.mode, type |-> c.type, desc |-> c.desc, tries |-> c.tries, got |-> g]
  BY DEF CallForm
<1> HIDE DEF d
<1>2. d.id = c.id /\ d.mode = c.mode /\ d.type = c.type /\ d.desc = c.desc /\ d.tries = c.tries /\ d.got = g
  BY <1>1
<1>3. CallForm(d)
  BY <1>1, <1>2 DEF CallForm
<1> QED
  BY <1>2, <1>3 DEF d

LEMMA TriesKeepsForm ==
    ASSUME NEW c, CallForm(c)
    PROVE  /\ CallForm([c EXCEPT !.tries = 2])
           /\ [c EXCEPT !.tries = 2].id = c.id /\ [c EXCEPT !.tries = 2].mode = c.mode
           /\ [c EXCEPT !.tries = 2].desc = c.desc /\ [c EXCEPT !.tries = 2].tries = 2
<1> DEFINE d == [c EXCEPT !.tries = 2]
<1>1. d = [id |-> c.id, mode |-> c.mode, type |-> c.type, desc |-> c.desc, tries |-> 2, got |-> c.got]
  BY DEF CallForm
<1> HIDE DEF d
<1>2. d.id = c.id /\ d.mode = c.mode /\ d.type = c.type /\ d.desc = c.desc /\ d.tries = 2 /\ d.got = c.got
  BY <1>1
<1>3. CallForm(d)
  BY <1>1, <1>2 DEF CallForm
<1> QED
  BY <1>2, <1>3 DEF d

LEMMA CheckedKeepsForm ==
    ASSUME NEW x, AttemptForm(x)
    PROVE  /\ AttemptForm([x EXCEPT !.checked = TRUE])
           /\ [x EXCEPT !.checked = TRUE].call = x.call
           /\ [x EXCEPT !.checked = TRUE].try = x.try
<1> DEFINE z == [x EXCEPT !.checked = TRUE]
<1>1. z.call = x.call /\ z.try = x.try
  OBVIOUS
<1> HIDE DEF z
<1>2. AttemptForm(z)
  BY <1>1 DEF AttemptForm
<1> QED
  BY <1>1, <1>2 DEF z

LEMMA RequestsAtFirst == ASSUME Tree!Init PROVE RequestsInv
BY DEF Tree!Init, RequestsInv, Tree!NoTimer

\* A new request has a number of its own.
LEMMA RequestsSend ==
    ASSUME RequestsInv, NEW m, NEW t, NEW v \in Nat, Tree!Send(m, t, v),
           desc' \in Nat, typed' \in Nat, timer' \in Nat \cup {-1}
    PROVE  RequestsInv'
<1> DEFINE call == [id |-> sent, mode |-> m, type |-> t, desc |-> v, tries |-> 1, got |-> "none"]
           tx == [call |-> call, try |-> 1, checked |-> FALSE]
<1>1. calls' = calls \cup {call} /\ txs' = txs \cup {tx} /\ sent' = sent + 1
  BY DEF Tree!Send
<1>2. call.id = sent /\ call.mode = m /\ call.desc = v /\ call.tries = 1 /\ call.got = "none"
  OBVIOUS
<1>3. tx.call = call /\ tx.try = 1
  OBVIOUS
<1>4. sent' \in Nat
  BY <1>1 DEF RequestsInv
<1>5. CallForm(call)
  BY DEF CallForm, RequestsInv
<1>6. AttemptForm(tx)
  BY <1>5 DEF AttemptForm
<1> HIDE DEF call, tx
<1>a. \A c \in calls : CallForm(c) /\ c.id < sent /\ c.id \in Nat
  BY DEF RequestsInv, CallForm
<1>b. \A x \in txs : AttemptForm(x) /\ x.call.id < sent /\ x.call.id \in Nat
  BY DEF RequestsInv, CallForm, AttemptForm
<1>7. \A c \in calls' : CallForm(c) /\ c.id < sent'
  BY <1>1, <1>2, <1>5, <1>a DEF RequestsInv
<1>8. \A x \in txs' : AttemptForm(x) /\ x.call.id < sent'
  BY <1>1, <1>2, <1>3, <1>6, <1>b DEF RequestsInv
<1>9. \A c \in calls : c.id # sent
  BY <1>a DEF RequestsInv
<1>10. \A x \in txs : x.call.id # sent
  BY <1>b DEF RequestsInv
<1>11. \A c, d \in calls' : c.id = d.id => c = d
  BY <1>1, <1>2, <1>9 DEF RequestsInv
<1>12. \A x, y \in txs' : x.call.id = y.call.id /\ x.try = y.try => x = y
  BY <1>1, <1>2, <1>3, <1>10 DEF RequestsInv
<1>13. \A x \in txs', c \in calls' : c.id = x.call.id => AttemptOf(x, c)
  BY <1>1, <1>2, <1>3, <1>9, <1>10 DEF RequestsInv, AttemptOf
<1> QED
  BY <1>4, <1>7, <1>8, <1>11, <1>12, <1>13 DEF RequestsInv

\* The request is sent again: its first attempt goes on beside the second.
LEMMA RequestsRetry ==
    ASSUME RequestsInv, NEW c \in calls, Tree!Retry(c)
    PROVE  RequestsInv'
<1> DEFINE d == [c EXCEPT !.tries = 2]
           tx == [call |-> c, try |-> 2, checked |-> FALSE]
<1>1. /\ calls' = (calls \ {c}) \cup {d} /\ txs' = txs \cup {tx} /\ c.tries = 1
      /\ UNCHANGED <<sent, desc, typed, timer>>
  BY DEF Tree!Retry, Tree!Backend, Tree!Page
<1>2. CallForm(c)
  BY DEF RequestsInv
<1>3. CallForm(d) /\ d.id = c.id /\ d.mode = c.mode /\ d.tries = 2
  BY <1>2, TriesKeepsForm
<1>4. tx.call = c /\ tx.try = 2 /\ AttemptForm(tx)
  BY <1>2 DEF AttemptForm
<1> HIDE DEF d, tx
<1>5. \A x \in txs : x.call.id = c.id => x.try = 1
  BY <1>1 DEF RequestsInv, AttemptOf
<1>6. \A e \in calls' : CallForm(e) /\ e.id < sent'
  BY <1>1, <1>3 DEF RequestsInv
<1>7. \A x \in txs' : AttemptForm(x) /\ x.call.id < sent'
  BY <1>1, <1>4 DEF RequestsInv
<1>8. \A e, f \in calls' : e.id = f.id => e = f
  BY <1>1, <1>3 DEF RequestsInv
<1>9. \A x, y \in txs' : x.call.id = y.call.id /\ x.try = y.try => x = y
  BY <1>1, <1>4, <1>5 DEF RequestsInv
<1>10. \A x \in txs', e \in calls' : e.id = x.call.id => AttemptOf(x, e)
  <2> SUFFICES ASSUME NEW x \in txs', NEW e \in calls', e.id = x.call.id PROVE AttemptOf(x, e)
    OBVIOUS
  <2>1. CASE e = d
    <3>1. c.id = x.call.id
      BY <2>1, <1>3
    <3>2. c.mode = x.call.mode
      BY <1>1, <1>4, <3>1 DEF RequestsInv, AttemptOf
    <3> QED
      BY <2>1, <3>2, <1>3 DEF AttemptOf
  <2>2. CASE e # d
    <3>1. e \in calls /\ e # c
      BY <1>1, <2>2
    <3>2. e.id # c.id
      BY <3>1 DEF RequestsInv
    <3>3. x \in txs
      BY <1>1, <1>4, <3>2
    <3> QED
      BY <3>1, <3>3 DEF RequestsInv
  <2> QED
    BY <2>1, <2>2
<1> QED
  BY <1>1, <1>6, <1>7, <1>8, <1>9, <1>10 DEF RequestsInv

\* An attempt ends, and its call has the answer.
LEMMA RequestsSettle ==
    ASSUME RequestsInv, NEW x \in txs, NEW g, Settled(x, g), UNCHANGED <<sent, typed, timer>>, desc' \in Nat
    PROVE  RequestsInv'
<1> DEFINE new(c) == IF c.id = x.call.id /\ c.tries = x.try THEN [c EXCEPT !.got = g] ELSE c
<1>1. txs' = txs \ {x} /\ calls' = {new(c) : c \in calls}
  BY DEF Settled
<1>2. ASSUME NEW c \in calls
      PROVE  CallForm(new(c)) /\ new(c).id = c.id /\ new(c).mode = c.mode /\ new(c).tries = c.tries
  <2>1. CallForm(c)
    BY DEF RequestsInv
  <2> QED
    BY <2>1, GotKeepsForm
<1> HIDE DEF new
<1>3. \A c \in calls' : CallForm(c) /\ c.id < sent'
  BY <1>1, <1>2 DEF RequestsInv
<1>4. \A y \in txs' : AttemptForm(y) /\ y.call.id < sent'
  BY <1>1 DEF RequestsInv
<1>5. \A c, d \in calls' : c.id = d.id => c = d
  <2> SUFFICES ASSUME NEW c \in calls, NEW d \in calls, new(c).id = new(d).id PROVE new(c) = new(d)
    BY <1>1
  <2>1. c = d
    BY <1>2 DEF RequestsInv
  <2> QED
    BY <2>1
<1>6. \A y, z \in txs' : y.call.id = z.call.id /\ y.try = z.try => y = z
  BY <1>1 DEF RequestsInv
<1>7. \A y \in txs', d \in calls' : d.id = y.call.id => AttemptOf(y, d)
  <2> SUFFICES ASSUME NEW y \in txs', NEW c \in calls, new(c).id = y.call.id PROVE AttemptOf(y, new(c))
    BY <1>1
  <2>1. y \in txs /\ y # x /\ c.id = y.call.id /\ AttemptOf(y, c)
    BY <1>1, <1>2 DEF RequestsInv
  <2>2. ASSUME c.tries = 1 PROVE new(c) = c
    <3>1. c.id = x.call.id => x.try = 1 /\ y.try = 1
      BY <2>1, <2>2 DEF RequestsInv, AttemptOf
    <3>2. c.id # x.call.id
      BY <2>1, <3>1 DEF RequestsInv
    <3> QED
      BY <3>2 DEF new
  <2> QED
    BY <1>2, <2>1, <2>2 DEF AttemptOf
<1> QED
  BY <1>3, <1>4, <1>5, <1>6, <1>7 DEF RequestsInv

\* An attempt has passed the check.
LEMMA RequestsChecked ==
    ASSUME RequestsInv, NEW x \in txs, txs' = (txs \ {x}) \cup {[x EXCEPT !.checked = TRUE]},
           UNCHANGED <<sent, desc, typed, timer, calls>>
    PROVE  RequestsInv'
<1> DEFINE z == [x EXCEPT !.checked = TRUE]
<1>3. AttemptForm(x)
  BY DEF RequestsInv
<1>4. AttemptForm(z) /\ z.call = x.call /\ z.try = x.try
  BY <1>3, CheckedKeepsForm
<1> HIDE DEF z
<1>5. txs' = (txs \ {x}) \cup {z}
  BY DEF z
<1>6. \A y \in txs' : AttemptForm(y) /\ y.call.id < sent'
  BY <1>4, <1>5 DEF RequestsInv
<1>7. \A y, w \in txs' : y.call.id = w.call.id /\ y.try = w.try => y = w
  BY <1>4, <1>5 DEF RequestsInv
<1>8. \A y \in txs', c \in calls' : c.id = y.call.id => AttemptOf(y, c)
  BY <1>4, <1>5 DEF RequestsInv, AttemptOf
<1> QED
  BY <1>6, <1>7, <1>8 DEF RequestsInv

\* A request is answered, or given up.
LEMMA RequestsEnd ==
    ASSUME RequestsInv, NEW c, calls' = calls \ {c}, UNCHANGED <<txs, sent, desc, typed, timer>>
    PROVE  RequestsInv'
BY DEF RequestsInv

\* Every step of the page keeps requests apart.
LEMMA RequestsStep ==
    ASSUME RequestsInv, [Tree!Next]_treeVars
    PROVE  RequestsInv'
<1>1. ASSUME NEW c \in calls, Tree!Answered(c) \/ Tree!Throws(c) PROVE RequestsInv'
  <2>1. calls' = calls \ {c} /\ UNCHANGED <<txs, sent, desc, typed, timer>>
    BY <1>1 DEF Tree!Answered, Tree!Throws, Tree!Backend
  <2> QED
    BY <2>1, RequestsEnd
<1>2. ASSUME NEW x \in txs, Tree!Check(x) PROVE RequestsInv'
  <2>1. UNCHANGED <<sent, desc, typed, timer>>
    BY <1>2 DEF Tree!Check, Tree!Backend, Tree!Page
  <2>2. CASE unique[x.call.type] = 0
    BY <1>2, <2>1, <2>2, RequestsChecked DEF Tree!Check
  <2>3. CASE unique[x.call.type] # 0
    <3>1. Settled(x, "refused")
      BY <1>2, <2>3 DEF Tree!Check, Settled
    <3> QED
      BY <2>1, <3>1, RequestsSettle DEF RequestsInv
  <2> QED
    BY <2>2, <2>3
<1>3. ASSUME NEW x \in txs, Tree!Commit(x) PROVE RequestsInv'
  <2> DEFINE g == IF Tree!Allowed(x.call) THEN "ok" ELSE "refused"
  <2>1. Settled(x, g)
    BY <1>3 DEF Tree!Commit, Settled
  <2>2. UNCHANGED <<sent, typed, timer>>
    BY <1>3 DEF Tree!Commit, Tree!Page
  <2>3. desc' \in {desc, x.call.desc}
    BY <1>3 DEF Tree!Commit, Tree!Backend
  <2>4. desc' \in Nat
    BY <2>3 DEF RequestsInv, AttemptForm, CallForm
  <2> HIDE DEF g
  <2> QED
    BY <2>1, <2>2, <2>4, RequestsSettle
<1>4. ASSUME NEW c \in calls, Tree!Retry(c) PROVE RequestsInv'
  BY <1>4, RequestsRetry
<1>5. CASE Tree!saveDescription
  <2>1. Tree!Send("describe", "knowledge", timer) /\ timer # -1 /\ timer' = -1 /\ UNCHANGED <<desc, typed>>
    BY <1>5 DEF Tree!saveDescription, Tree!Backend, Tree!NoTimer
  <2>2. timer \in Nat
    BY <2>1 DEF RequestsInv
  <2>3. desc' \in Nat /\ typed' \in Nat /\ timer' \in Nat \cup {-1}
    BY <2>1 DEF RequestsInv
  <2> QED
    BY <2>1, <2>2, <2>3, RequestsSend
<1>6. ASSUME \/ Tree!handleDialogSubmit
             \/ \E m \in Tree!AllModes : Tree!onDelete(m)
             \/ \E t \in Types : Tree!handleSubmit(t)
      PROVE  RequestsInv'
  <2>1. (\E m, t : Tree!Send(m, t, 0)) /\ UNCHANGED <<desc, typed, timer>>
    BY <1>6 DEF Tree!handleDialogSubmit, Tree!onDelete, Tree!handleSubmit, Tree!Backend, Tree!Page
  <2>2. desc' \in Nat /\ typed' \in Nat /\ timer' \in Nat \cup {-1}
    BY <2>1 DEF RequestsInv
  <2> QED
    BY <2>1, <2>2, RequestsSend
<1>7. ASSUME Tree!handleDescriptionChange PROVE RequestsInv'
  <2>1. typed' = typed + 1 /\ timer' = typed + 1 /\ UNCHANGED <<calls, txs, sent, desc>>
    BY <1>7 DEF Tree!handleDescriptionChange, Tree!Backend
  <2> QED
    BY <2>1 DEF RequestsInv
<1>8. ASSUME \/ UNCHANGED treeVars
             \/ \E x \in evicting : Tree!Evict(x)
             \/ \E k \in Tree!Keys : Tree!Read(k) \/ Tree!Load(k) \/ Tree!Loaded(k) \/ Tree!Fetched(k)
             \/ \E load \in late : Tree!LoadedLate(load)
             \/ \E m \in Tree!AllModes : Tree!handleCreate(m)
             \/ \E t \in Types : Tree!onTypeChange(t)
             \/ Tree!CloseDialog \/ Tree!OpenCluster \/ Tree!CancelCluster
      PROVE  RequestsInv'
  <2>1. UNCHANGED <<calls, txs, sent, desc, typed, timer>>
    BY <1>8 DEF treeVars, Tree!Evict, Tree!Read, Tree!Load, Tree!Loaded, Tree!LoadedLate, Tree!Keep, Tree!Fetched,
                Tree!handleCreate, Tree!onTypeChange, Tree!CloseDialog,
                Tree!OpenCluster, Tree!CancelCluster, Tree!Backend, Tree!Page
  <2> QED
    BY <2>1 DEF RequestsInv
<1> QED
  BY <1>1, <1>2, <1>3, <1>4, <1>5, <1>6, <1>7, <1>8 DEF Tree!Next, Tree!Runs

LEMMA EvictsAtFirst == ASSUME Tree!Init PROVE EvictsInv
BY DEF Tree!Init, EvictsInv

\* A call is answered, or sent again: never one whose attempt has changed the list, with another answer.
LEMMA EvictsSettle ==
    ASSUME RequestsInv, EvictsInv, NEW x \in txs, NEW g, Settled(x, g), UNCHANGED <<evicting, sent>>
    PROVE  EvictsInv'
<1> DEFINE new(c) == IF c.id = x.call.id /\ c.tries = x.try THEN [c EXCEPT !.got = g] ELSE c
<1>1. calls' = {new(c) : c \in calls}
  BY DEF Settled
<1>2. ASSUME NEW c \in calls
      PROVE  new(c).id = c.id /\ new(c).mode = c.mode /\ new(c).tries = c.tries
  BY GotKeepsForm DEF RequestsInv
<1>3. ASSUME NEW c \in calls, NEW y \in evicting, c.id = y.call.id, c.tries # 2 PROVE new(c) = c
  <2>1. c.tries = 1 /\ c.got = "ok"
    BY <1>3 DEF EvictsInv, RequestsInv, CallForm
  <2>2. c.id # x.call.id
    BY <2>1 DEF RequestsInv, AttemptOf
  <2> QED
    BY <2>2
<1> HIDE DEF new
<1>4. \A y \in evicting', d \in calls' :
        d.id = y.call.id => d.mode = y.call.mode /\ (d.got = "ok" \/ d.tries = 2) /\ (d.tries = 1 => y.try = 1)
  <2> SUFFICES ASSUME NEW y \in evicting, NEW c \in calls, new(c).id = y.call.id
               PROVE  /\ new(c).mode = y.call.mode /\ (new(c).got = "ok" \/ new(c).tries = 2)
                      /\ new(c).tries = 1 => y.try = 1
    BY <1>1
  <2> QED
    BY <1>2, <1>3 DEF EvictsInv
<1> QED
  BY <1>4 DEF EvictsInv

\* An attempt commits.
LEMMA EvictsCommit ==
    ASSUME RequestsInv, EvictsInv, NEW x \in txs, Settled(x, "ok"), evicting' = evicting \cup {x}, UNCHANGED sent
    PROVE  EvictsInv'
<1> DEFINE new(c) == IF c.id = x.call.id /\ c.tries = x.try THEN [c EXCEPT !.got = "ok"] ELSE c
<1>1. calls' = {new(c) : c \in calls}
  BY DEF Settled
<1>2. ASSUME NEW c \in calls
      PROVE  /\ new(c).id = c.id /\ new(c).mode = c.mode /\ new(c).tries = c.tries
             /\ new(c).got \in {"ok", c.got} /\ (c.id = x.call.id /\ c.tries = x.try => new(c).got = "ok")
  BY GotKeepsForm DEF RequestsInv
<1> HIDE DEF new
<1>3. AttemptForm(x) /\ x.call.id < sent
  BY DEF RequestsInv
<1>4. \A y \in evicting', d \in calls' :
        d.id = y.call.id => d.mode = y.call.mode /\ (d.got = "ok" \/ d.tries = 2) /\ (d.tries = 1 => y.try = 1)
  <2> SUFFICES ASSUME NEW y \in evicting \cup {x}, NEW c \in calls, new(c).id = y.call.id
               PROVE  /\ new(c).mode = y.call.mode /\ (new(c).got = "ok" \/ new(c).tries = 2)
                      /\ new(c).tries = 1 => y.try = 1
    BY <1>1
  <2>1. CASE y \in evicting
    BY <1>2, <2>1 DEF EvictsInv
  <2>2. CASE y = x
    <3>1. CallForm(c) /\ AttemptOf(x, c) /\ c.id = x.call.id
      BY <1>2, <2>2 DEF RequestsInv
    <3> QED
      BY <1>2, <2>2, <3>1 DEF AttemptOf, CallForm
  <2> QED
    BY <2>1, <2>2
<1> QED
  BY <1>3, <1>4 DEF EvictsInv

\* Calls end, or attempts have cleared what is kept.
LEMMA EvictsEnd ==
    ASSUME EvictsInv, calls' \subseteq calls, evicting' \subseteq evicting, UNCHANGED sent
    PROVE  EvictsInv'
BY DEF EvictsInv

LEMMA EvictsStep ==
    ASSUME RequestsInv, EvictsInv, [Tree!Next]_treeVars
    PROVE  EvictsInv'
<1>1. ASSUME NEW c \in calls, Tree!Answered(c) \/ Tree!Throws(c) PROVE EvictsInv'
  <2>1. calls' = calls \ {c} /\ UNCHANGED <<evicting, sent>>
    BY <1>1 DEF Tree!Answered, Tree!Throws, Tree!Backend
  <2> QED
    BY <2>1, EvictsEnd
<1>2. ASSUME NEW x \in txs, Tree!Check(x) PROVE EvictsInv'
  <2>1. UNCHANGED <<evicting, sent>>
    BY <1>2 DEF Tree!Check, Tree!Backend
  <2>2. calls' = calls \/ Settled(x, "refused")
    BY <1>2 DEF Tree!Check, Settled
  <2> QED
    BY <2>1, <2>2, EvictsEnd, EvictsSettle
<1>3. ASSUME NEW x \in txs, Tree!Commit(x) PROVE EvictsInv'
  <2>1. UNCHANGED sent
    BY <1>3 DEF Tree!Commit
  <2>2. CASE Tree!Allowed(x.call)
    <3>1. Settled(x, "ok") /\ evicting' = evicting \cup {x}
      BY <1>3, <2>2 DEF Tree!Commit, Settled
    <3> QED
      BY <2>1, <3>1, EvictsCommit
  <2>3. CASE ~Tree!Allowed(x.call)
    <3>1. Settled(x, "refused") /\ UNCHANGED evicting
      BY <1>3, <2>3 DEF Tree!Commit, Settled, Tree!Backend
    <3> QED
      BY <2>1, <3>1, EvictsSettle
  <2> QED
    BY <2>2, <2>3
<1>4. ASSUME NEW c \in calls, Tree!Retry(c) PROVE EvictsInv'
  <2> DEFINE d == [c EXCEPT !.tries = 2]
  <2>1. /\ calls' = (calls \ {c}) \cup {d} /\ UNCHANGED <<evicting, sent>>
        /\ c.tries = 1 /\ c.got = "none"
    BY <1>4 DEF Tree!Retry, Tree!Backend
  <2>2. d.id = c.id
    BY TriesKeepsForm DEF RequestsInv
  <2> HIDE DEF d
  <2>3. \A x \in evicting : x.call.id # c.id
    BY <2>1 DEF EvictsInv
  <2> QED
    BY <2>1, <2>2, <2>3 DEF EvictsInv
<1>5. ASSUME NEW m, NEW t, NEW v, Tree!Send(m, t, v), UNCHANGED evicting PROVE EvictsInv'
  <2> DEFINE call == [id |-> sent, mode |-> m, type |-> t, desc |-> v, tries |-> 1, got |-> "none"]
  <2>1. calls' = calls \cup {call} /\ sent' = sent + 1
    BY <1>5 DEF Tree!Send
  <2>2. call.id = sent /\ sent \in Nat
    BY DEF RequestsInv
  <2> HIDE DEF call
  <2>3. \A x \in evicting : x.call.id \in Nat /\ x.call.id < sent
    BY DEF EvictsInv, AttemptForm, CallForm
  <2>4. \A x \in evicting : x.call.id < sent' /\ x.call.id # sent
    BY <2>1, <2>2, <2>3
  <2> QED
    BY <1>5, <2>1, <2>2, <2>4 DEF EvictsInv
<1>6. ASSUME \/ Tree!saveDescription
             \/ Tree!handleDialogSubmit
             \/ \E m \in Tree!AllModes : Tree!onDelete(m)
             \/ \E t \in Types : Tree!handleSubmit(t)
      PROVE  EvictsInv'
  <2>1. (\E m, t, v : Tree!Send(m, t, v)) /\ UNCHANGED evicting
    BY <1>6 DEF Tree!saveDescription, Tree!handleDialogSubmit, Tree!onDelete, Tree!handleSubmit, Tree!Backend
  <2> QED
    BY <1>5, <2>1
<1>7. ASSUME \/ UNCHANGED treeVars
             \/ \E x \in evicting : Tree!Evict(x)
             \/ \E k \in Tree!Keys : Tree!Read(k) \/ Tree!Load(k) \/ Tree!Loaded(k) \/ Tree!Fetched(k)
             \/ \E load \in late : Tree!LoadedLate(load)
             \/ \E m \in Tree!AllModes : Tree!handleCreate(m)
             \/ \E t \in Types : Tree!onTypeChange(t)
             \/ Tree!CloseDialog \/ Tree!OpenCluster \/ Tree!CancelCluster \/ Tree!handleDescriptionChange
      PROVE  EvictsInv'
  <2>1. UNCHANGED <<calls, sent>> /\ evicting' \subseteq evicting
    BY <1>7 DEF treeVars, Tree!Evict, Tree!Read, Tree!Load, Tree!Loaded, Tree!LoadedLate, Tree!Keep, Tree!Fetched,
                Tree!handleCreate, Tree!onTypeChange, Tree!CloseDialog, Tree!OpenCluster, Tree!CancelCluster,
                Tree!handleDescriptionChange, Tree!Backend
  <2> QED
    BY <2>1, EvictsEnd
<1> QED
  BY <1>1, <1>2, <1>3, <1>4, <1>6, <1>7 DEF Tree!Next, Tree!Runs

-----------------------------------------------------------------------------
(* The cached lists.                                                       *)

\* A request that has changed a list, or may have, is going to have it asked for again.
Pending(k) == \E c \in calls : Tree!keyOf(c.mode) = k /\ (c.got = "ok" \/ c.tries = 2)

\* What is on its way, what has arrived and what the backend keeps is the backend's, or a request is
\* going to have it asked for again, once it has cleared what is kept; before the first answer no change
\* went unnoticed.
Clearing(k) == \E x \in evicting : Tree!keyOf(x.call.mode) = k /\ \E c \in calls : c.id = x.call.id

ListInv(k) ==
    /\ fetch[k].at = "read" => fetch[k].list.ver = ver[k] \/ (cached[k] # -1 /\ Pending(k))
    /\ fetch[k] = Tree!Idle => cached[k] = ver[k] \/ Pending(k)
    /\ memo[k] # Tree!Nothing => memo[k].ver = ver[k] \/ (cached[k] # -1 /\ Clearing(k))

ListForms ==
    /\ ver \in [Tree!Keys -> Nat] /\ cached \in [Tree!Keys -> Nat \cup {-1}] /\ fetch \in [Tree!Keys -> Fetches]
    /\ memo \in [Tree!Keys -> Lists \cup {Tree!Nothing}]
    /\ \A load \in late : load.key \in Tree!Keys => load.list \in Lists

ListsInv ==
    /\ ListForms
    /\ \A k \in Tree!Keys : cached[k] = -1 => fetch[k] # Tree!Idle
    /\ \A x \in evicting : Tree!keyOf(x.call.mode) \in crossed \/ cached[Tree!keyOf(x.call.mode)] # -1
    /\ \A k \in Tree!Keys \ (crossed \cup overtaken) : ListInv(k)

LEMMA ListsAtFirst == ASSUME Tree!Init PROVE ListsInv
<1>1. /\ ver = [k \in Tree!Keys |-> 0] /\ cached = [k \in Tree!Keys |-> -1]
      /\ fetch = [k \in Tree!Keys |-> Tree!Asked] /\ memo = [k \in Tree!Keys |-> Tree!Nothing]
      /\ evicting = {} /\ late = {}
  BY DEF Tree!Init, Tree!NotLoaded
<1>2. Tree!Asked.at = "asked" /\ Tree!Asked # Tree!Idle
  BY DEF Tree!Asked, Tree!Idle
<1>3. ListForms
  BY <1>1 DEF Fetches, ListForms
<1>4. ASSUME NEW k \in Tree!Keys PROVE ListInv(k) /\ fetch[k] # Tree!Idle
  BY <1>1, <1>2 DEF ListInv
<1> QED
  BY <1>1, <1>3, <1>4 DEF ListsInv

\* What is being cleared has a request pending.
LEMMA ClearingIsPending ==
    ASSUME EvictsInv, NEW k, Clearing(k)
    PROVE  Pending(k)
<1>1. PICK x \in evicting, c \in calls : Tree!keyOf(x.call.mode) = k /\ c.id = x.call.id
  BY DEF Clearing
<1> QED
  BY <1>1 DEF EvictsInv, Pending

\* An attempt that ends takes nothing from what is pending.
LEMMA SettledStaysPending ==
    ASSUME RequestsInv, NEW x \in txs, NEW g, Settled(x, g), evicting \subseteq evicting', NEW k
    PROVE  (Pending(k) => Pending(k)') /\ (Clearing(k) => Clearing(k)')
<1> DEFINE new(c) == IF c.id = x.call.id /\ c.tries = x.try THEN [c EXCEPT !.got = g] ELSE c
<1>1. calls' = {new(c) : c \in calls}
  BY DEF Settled
<1>2. ASSUME Pending(k) PROVE Pending(k)'
  <2>2. PICK c \in calls : Tree!keyOf(c.mode) = k /\ (c.got = "ok" \/ c.tries = 2)
    BY <1>2 DEF Pending
  <2>3. CallForm(c)
    BY DEF RequestsInv
  <2>4. new(c).mode = c.mode /\ new(c).tries = c.tries
    BY <2>3, GotKeepsForm
  <2>5. c.tries # 2 => new(c) = c
    BY <2>2, <2>3 DEF RequestsInv, AttemptOf, CallForm
  <2>6. new(c) \in calls'
    BY <1>1
  <2> HIDE DEF new
  <2>7. Tree!keyOf(new(c).mode) = k /\ (new(c).got = "ok" \/ new(c).tries = 2)
    BY <2>2, <2>4, <2>5
  <2> QED
    BY <2>6, <2>7 DEF Pending
<1>3. ASSUME Clearing(k) PROVE Clearing(k)'
  <2>1. PICK y \in evicting, c \in calls : Tree!keyOf(y.call.mode) = k /\ c.id = y.call.id
    BY <1>3 DEF Clearing
  <2>2. new(c).id = c.id
    BY GotKeepsForm DEF RequestsInv
  <2>3. new(c) \in calls'
    BY <1>1
  <2> HIDE DEF new
  <2> QED
    BY <2>1, <2>2, <2>3 DEF Clearing
<1> QED
  BY <1>2, <1>3

\* A list that is changed has a request pending, unless it is marked as crossed.
LEMMA CommitIsPending ==
    ASSUME RequestsInv, NEW x \in txs, Settled(x, "ok"), NEW d \in calls, d.id = x.call.id,
           evicting' = evicting \cup {x}
    PROVE  Pending(Tree!keyOf(x.call.mode))' /\ Clearing(Tree!keyOf(x.call.mode))'
<1> DEFINE new(c) == IF c.id = x.call.id /\ c.tries = x.try THEN [c EXCEPT !.got = "ok"] ELSE c
<1>1. calls' = {new(c) : c \in calls}
  BY DEF Settled
<1>2. CallForm(d) /\ d.mode = x.call.mode /\ (d.tries = 1 => x.try = 1)
  BY DEF RequestsInv, AttemptOf
<1>3. new(d).mode = d.mode /\ new(d).tries = d.tries /\ new(d).id = d.id
  BY <1>2, GotKeepsForm
<1>4. d.tries = 1 => new(d).got = "ok"
  BY <1>2, GotKeepsForm
<1>5. new(d) \in calls'
  BY <1>1
<1> HIDE DEF new
<1>6. d.tries \in {1, 2}
  BY <1>2 DEF CallForm
<1>7. Clearing(Tree!keyOf(x.call.mode))'
  BY <1>3, <1>5 DEF Clearing
<1> QED
  BY <1>2, <1>3, <1>4, <1>5, <1>6, <1>7 DEF Pending

\* Where the lists, their versions and their fetches stay, what is pending may only grow.
LEMMA ListsKept ==
    ASSUME ListsInv, UNCHANGED <<ver, cached, fetch, memo, late, overtaken, evicting>>, crossed \subseteq crossed',
           \A k \in Tree!Keys \ crossed' : (Pending(k) => Pending(k)') /\ (Clearing(k) => Clearing(k)')
    PROVE  ListsInv'
<1>1. ListForms'
  BY DEF ListsInv, ListForms
<1>2. ASSUME NEW k \in Tree!Keys \ (crossed' \cup overtaken') PROVE ListInv(k)'
  BY DEF ListsInv, ListInv
<1> QED
  BY <1>1, <1>2 DEF ListsInv

LEMMA ListsAnswered ==
    ASSUME RequestsInv, EvictsInv, ListsInv, NEW c \in calls, Tree!Answered(c)
    PROVE  ListsInv'
<1>a. Tree!Asked.at = "asked" /\ Tree!Idle.at = "idle" /\ Tree!Asked \in Fetches /\ Tree!Asked # Tree!Idle
  BY DEF Tree!Asked, Tree!Idle, Fetches
<1> DEFINE key == Tree!keyOf(c.mode)
           again == cached[key] # -1 \/ fetch[key] = Tree!Idle
           new == IF again THEN Tree!Asked ELSE fetch[key]
           load == [key |-> key, list |-> fetch[key].list]
<1>1. /\ calls' = calls \ {c} /\ fetch' = [fetch EXCEPT ![key] = new]
      /\ late' = IF again /\ fetch[key].at = "loading" THEN late \cup {load} ELSE late
      /\ crossed' = IF \E x \in evicting : x.call.id = c.id THEN crossed \cup {key} ELSE crossed
      /\ UNCHANGED <<ver, cached, memo, evicting, overtaken>>
  BY DEF Tree!Answered, Tree!invalidateQueries, Tree!Backend, Tree!NotLoaded
<1>2. load.key = key /\ load.list = fetch[key].list
  OBVIOUS
<1> HIDE DEF key, again, new, load
<1>3. ASSUME NEW k, k # key PROVE (Pending(k) => Pending(k)') /\ (Clearing(k) => Clearing(k)')
  <2>1. Pending(k) => Pending(k)'
    BY <1>1, <1>3 DEF Pending, key
  <2>2. ASSUME Clearing(k) PROVE Clearing(k)'
    <3>1. PICK y \in evicting, d \in calls : Tree!keyOf(y.call.mode) = k /\ d.id = y.call.id
      BY <2>2 DEF Clearing
    <3>2. d # c
      BY <1>3, <3>1 DEF EvictsInv, key
    <3> QED
      BY <1>1, <3>1, <3>2 DEF Clearing
  <2> QED
    BY <2>1, <2>2
<1>4. \A k \in Tree!Keys : fetch'[k] = IF k = key THEN new ELSE fetch[k]
  BY <1>1 DEF ListsInv, ListForms
<1>5. ASSUME key \in Tree!Keys, fetch[key].at = "loading" PROVE load.list \in Lists
  <2>1. fetch[key] \in Fetches
    BY <1>5 DEF ListsInv, ListForms
  <2> QED
    BY <1>2, <1>5, <2>1 DEF Fetches, Tree!Idle, Tree!Asked
<1>6. ListForms'
  <2>1. key \in Tree!Keys => new \in Fetches
    BY <1>a DEF ListsInv, ListForms, new
  <2>2. \A l \in late' : l.key \in Tree!Keys => l.list \in Lists
    BY <1>1, <1>2, <1>5 DEF ListsInv, ListForms
  <2>3. fetch' \in [Tree!Keys -> Fetches]
    BY <1>1, <2>1 DEF ListsInv, ListForms
  <2> QED
    BY <1>1, <2>2, <2>3 DEF ListsInv, ListForms
<1>7. ASSUME NEW k \in Tree!Keys \ (crossed \cup overtaken), k # key PROVE ListInv(k)'
  BY <1>1, <1>3, <1>4, <1>7 DEF ListsInv, ListInv
<1>8. ASSUME key \in Tree!Keys \ (crossed' \cup overtaken) PROVE ListInv(key)'
  <2>1. ListInv(key) /\ (cached[key] = -1 => fetch[key] # Tree!Idle) /\ fetch'[key] = new
    BY <1>1, <1>4, <1>8 DEF ListsInv
  <2>2. Clearing(key) => Clearing(key)'
    BY <1>1, <1>8 DEF Clearing
  <2>3. CASE ~again
    BY <1>1, <2>1, <2>2, <2>3 DEF ListInv, again, new
  <2>4. CASE again
    BY <1>a, <1>1, <2>1, <2>2, <2>4 DEF ListInv, new
  <2> QED
    BY <2>3, <2>4
<1>9. \A k \in Tree!Keys : cached'[k] = -1 => fetch'[k] # Tree!Idle
  BY <1>a, <1>1, <1>4 DEF ListsInv, new
<1> QED
  BY <1>1, <1>6, <1>7, <1>8, <1>9 DEF ListsInv

\* A change, and what is kept cleared of it.
LEMMA ListsCommit ==
    ASSUME RequestsInv, EvictsInv, ListsInv, NEW x \in txs, Tree!Commit(x), Tree!Allowed(x.call)
    PROVE  ListsInv'
<1> DEFINE key == Tree!keyOf(x.call.mode)
<1>1. /\ Settled(x, "ok") /\ ver' = [ver EXCEPT ![key] = @ + 1] /\ evicting' = evicting \cup {x}
      /\ UNCHANGED <<cached, fetch, memo, late, overtaken>>
      /\ crossed' = IF cached[key] = -1 \/ ~\E c \in calls : c.id = x.call.id
                    THEN crossed \cup {key} ELSE crossed
  BY DEF Tree!Commit, Settled, Tree!Cache, Tree!NotLoaded
<1>2. key \notin crossed' => cached[key] # -1 /\ Pending(key)' /\ Clearing(key)'
  BY <1>1, CommitIsPending
<1>3. \A y \in evicting' : Tree!keyOf(y.call.mode) \in crossed' \/ cached'[Tree!keyOf(y.call.mode)] # -1
  BY <1>1 DEF ListsInv
<1> HIDE DEF key
<1>4. \A k : (Pending(k) => Pending(k)') /\ (Clearing(k) => Clearing(k)')
  BY <1>1, SettledStaysPending
<1>5. ver' \in [Tree!Keys -> Nat] /\ \A k \in Tree!Keys : k # key => ver'[k] = ver[k]
  <2>1. ver \in [Tree!Keys -> Nat] /\ ver' = [ver EXCEPT ![key] = ver[key] + 1]
    BY <1>1 DEF ListsInv, ListForms
  <2>2. CASE key \in Tree!Keys
    BY <2>1, <2>2
  <2>3. CASE key \notin Tree!Keys
    BY <2>1, <2>3
  <2> QED
    BY <2>2, <2>3
<1>6. ASSUME NEW k \in Tree!Keys \ (crossed' \cup overtaken'), k # key PROVE ListInv(k)'
  BY <1>1, <1>4, <1>5, <1>6 DEF ListsInv, ListInv
<1>7. ASSUME key \in Tree!Keys \ (crossed' \cup overtaken') PROVE ListInv(key)'
  BY <1>1, <1>2, <1>7 DEF ListInv
<1>8. ListForms'
  BY <1>1, <1>5 DEF ListsInv, ListForms
<1> QED
  BY <1>1, <1>3, <1>6, <1>7, <1>8 DEF ListsInv

LEMMA ListsEvict ==
    ASSUME RequestsInv, EvictsInv, ListsInv, NEW x \in evicting, Tree!Evict(x)
    PROVE  ListsInv'
<1> DEFINE key == Tree!keyOf(x.call.mode)
<1>1. /\ evicting' = evicting \ {x} /\ memo' = [memo EXCEPT ![key] = Tree!Nothing]
      /\ overtaken' = IF \E c \in calls : c.id = x.call.id THEN overtaken \ {key} ELSE overtaken
      /\ UNCHANGED <<ver, cached, fetch, late, calls, crossed>>
  BY DEF Tree!Evict, Tree!Cache
<1>2. (\E c \in calls : c.id = x.call.id) => Pending(key)
  BY DEF EvictsInv, Pending
<1>3. key \in crossed \/ cached[key] # -1
  BY DEF ListsInv
<1>4. ASSUME NEW k, k # key PROVE Clearing(k) => Clearing(k)'
  BY <1>1, <1>4 DEF Clearing
<1> HIDE DEF key
<1>5. \A k : Pending(k)' = Pending(k)
  BY <1>1 DEF Pending
<1>6. ListForms' /\ \A k \in Tree!Keys : memo'[k] = IF k = key THEN Tree!Nothing ELSE memo[k]
  BY <1>1 DEF ListsInv, ListForms
<1>7. ASSUME NEW k \in Tree!Keys \ (crossed' \cup overtaken') PROVE ListInv(k)'
  <2>1. CASE k # key
    BY <1>1, <1>4, <1>5, <1>6, <1>7, <2>1 DEF ListsInv, ListInv
  <2>2. CASE k = key /\ ~\E c \in calls : c.id = x.call.id
    BY <1>1, <1>5, <1>6, <1>7, <2>2 DEF ListsInv, ListInv
  <2>3. CASE k = key /\ \E c \in calls : c.id = x.call.id
    BY <1>1, <1>2, <1>3, <1>5, <1>6, <1>7, <2>3 DEF ListInv
  <2> QED
    BY <2>1, <2>2, <2>3
<1> QED
  BY <1>1, <1>6, <1>7 DEF ListsInv

\* A list as the database has it.
LEMMA StoredForm ==
    ASSUME RequestsInv, ListForms, NEW k \in Tree!Keys
    PROVE  Tree!Stored(k) \in Lists /\ Tree!Stored(k).ver = ver[k] /\ Tree!Stored(k) # Tree!Nothing
<1>1. ver[k] \in Nat /\ desc \in Nat
  BY DEF RequestsInv, ListForms
<1>2. Tree!Stored(k).ver = ver[k]
  BY DEF Tree!Stored
<1>3. Tree!Stored(k) \in Lists
  BY <1>1 DEF Tree!Stored, Lists
<1>4. Tree!Nothing.ver = -1
  BY DEF Tree!Nothing, Tree!NotLoaded
<1> QED
  BY <1>1, <1>2, <1>3, <1>4

\* The steps of a fetch.
LEMMA ListsRead ==
    ASSUME RequestsInv, EvictsInv, ListsInv, NEW key \in Tree!Keys, Tree!Read(key) \/ Tree!Load(key)
    PROVE  ListsInv'
<1> DEFINE given == IF Tree!Read(key) /\ key \in Tree!Memoized THEN memo[key] ELSE Tree!Stored(key)
           at == IF Tree!Read(key) THEN "read" ELSE "loading"
           new == [at |-> at, list |-> given]
           kept == IF Tree!Read(key) THEN memo ELSE [memo EXCEPT ![key] = Tree!Nothing]
<1>1. /\ fetch' = [fetch EXCEPT ![key] = new] /\ memo' = kept
      /\ Tree!Read(key) => given # Tree!Nothing
      /\ UNCHANGED <<ver, cached, calls, crossed, evicting, overtaken, late>>
  <2>1. CASE Tree!Read(key)
    BY <2>1 DEF Tree!Read, Tree!Backend
  <2>2. CASE ~Tree!Read(key)
    BY <2>2 DEF Tree!Load
  <2> QED
    BY <2>1, <2>2
<1>2. given \in Lists
  <2>1. memo[key] \in Lists \cup {Tree!Nothing}
    BY DEF ListsInv, ListForms
  <2> QED
    BY <1>1, <2>1, StoredForm DEF ListsInv
<1>3. kept \in [Tree!Keys -> Lists \cup {Tree!Nothing}] /\ \A k \in Tree!Keys : kept[k] \in {memo[k], Tree!Nothing}
  BY DEF ListsInv, ListForms
<1>4. new.at = at /\ new.list = given /\ new \in Fetches /\ new # Tree!Idle
  BY <1>2 DEF Fetches, Tree!Idle
<1>5. ASSUME at = "read", ListInv(key) PROVE given.ver = ver[key] \/ (cached[key] # -1 /\ Pending(key))
  <2>1. Tree!Read(key)
    BY <1>5
  <2>2. CASE key \in Tree!Memoized
    BY <1>1, <1>5, <2>1, <2>2, ClearingIsPending DEF ListInv
  <2>3. CASE key \notin Tree!Memoized
    BY <2>1, <2>3, StoredForm DEF ListsInv
  <2> QED
    BY <2>2, <2>3
<1> HIDE DEF given, at, new, kept
<1>6. fetch'[key] = new /\ \A k \in Tree!Keys : k # key => fetch'[k] = fetch[k]
  BY <1>1 DEF ListsInv, ListForms
<1>7. ListForms'
  BY <1>1, <1>3, <1>4 DEF ListsInv, ListForms
<1>8. \A k : Pending(k)' = Pending(k) /\ Clearing(k)' = Clearing(k)
  BY <1>1 DEF Pending, Clearing
<1>9. ASSUME NEW k \in Tree!Keys \ (crossed \cup overtaken) PROVE ListInv(k)'
  <2>1. ListInv(k) /\ memo'[k] \in {memo[k], Tree!Nothing}
    BY <1>1, <1>3, <1>9 DEF ListsInv
  <2>2. CASE k = key
    BY <1>1, <1>4, <1>5, <1>6, <1>8, <2>1, <2>2 DEF ListInv
  <2>3. CASE k # key
    BY <1>1, <1>6, <1>8, <2>1, <2>3 DEF ListInv
  <2> QED
    BY <2>2, <2>3
<1> QED
  BY <1>1, <1>4, <1>6, <1>7, <1>9 DEF ListsInv

\* What was loaded is kept: it is the backend's, or the list is marked as overtaken.
LEMMA ListsLoaded ==
    ASSUME RequestsInv, EvictsInv, ListsInv, NEW key, NEW given, Tree!Keep(key, given), key \in Tree!Keys => given \in Lists,
           \/ UNCHANGED fetch /\ late' \subseteq late
           \/ fetch' = [fetch EXCEPT ![key] = [at |-> "read", list |-> given]] /\ UNCHANGED late
    PROVE  ListsInv'
<1> DEFINE new == [at |-> "read", list |-> given]
<1>1. /\ memo' = [memo EXCEPT ![key] = given] /\ UNCHANGED <<ver, cached, calls, crossed, evicting>>
      /\ overtaken' = IF given.ver # ver[key] THEN overtaken \cup {key} ELSE overtaken
  BY DEF Tree!Keep
<1>2. new.at = "read" /\ new.list = given /\ new # Tree!Idle
  BY DEF Tree!Idle
<1>3. key \in Tree!Keys => new \in Fetches
  BY DEF Fetches
<1> HIDE DEF new
<1>4. UNCHANGED fetch \/ fetch' = [fetch EXCEPT ![key] = new]
  BY DEF new
<1>5. \A k \in Tree!Keys : memo'[k] = IF k = key THEN given ELSE memo[k]
  BY <1>1 DEF ListsInv, ListForms
<1>6. \A k \in Tree!Keys : fetch'[k] = fetch[k] \/ (k = key /\ fetch'[k] = new)
  BY <1>4 DEF ListsInv, ListForms
<1>7. late' \subseteq late
  OBVIOUS
<1>8. ListForms'
  <2>1. fetch' \in [Tree!Keys -> Fetches]
    BY <1>3, <1>4 DEF ListsInv, ListForms
  <2>2. memo' \in [Tree!Keys -> Lists \cup {Tree!Nothing}]
    BY <1>1 DEF ListsInv, ListForms
  <2> QED
    BY <1>1, <1>7, <2>1, <2>2 DEF ListsInv, ListForms
<1>9. \A k : Pending(k)' = Pending(k) /\ Clearing(k)' = Clearing(k)
  BY <1>1 DEF Pending, Clearing
<1>10. ASSUME NEW k \in Tree!Keys \ (crossed' \cup overtaken') PROVE ListInv(k)'
  <2>1. ListInv(k)
    BY <1>1, <1>10 DEF ListsInv
  <2>2. k = key => given.ver = ver[k]
    BY <1>1, <1>10
  <2>3. CASE k = key
    BY <1>1, <1>2, <1>5, <1>6, <1>9, <2>1, <2>2, <2>3 DEF ListInv
  <2>4. CASE k # key
    BY <1>1, <1>5, <1>6, <1>9, <2>1, <2>4 DEF ListInv
  <2> QED
    BY <2>3, <2>4
<1> QED
  BY <1>1, <1>2, <1>6, <1>8, <1>10 DEF ListsInv

LEMMA ListsFetched ==
    ASSUME ListsInv, NEW key \in Tree!Keys, Tree!Fetched(key)
    PROVE  ListsInv'
<1>a. Tree!Idle.at = "idle" /\ Tree!Idle \in Fetches /\ Tree!Asked.at = "asked"
  BY DEF Tree!Idle, Tree!Asked, Fetches
<1>1. /\ fetch[key].at = "read" /\ cached' = [cached EXCEPT ![key] = fetch[key].list.ver]
      /\ fetch' = [fetch EXCEPT ![key] = Tree!Idle]
      /\ UNCHANGED <<ver, calls, crossed, memo, evicting, overtaken, late>>
  BY DEF Tree!Fetched, Tree!Backend
<1>2. fetch[key] \in Fetches
  BY DEF ListsInv, ListForms
<1>3. fetch[key].list.ver \in Nat
  BY <1>a, <1>1, <1>2 DEF Fetches, Lists
<1>4. fetch' \in [Tree!Keys -> Fetches] /\ cached' \in [Tree!Keys -> Nat \cup {-1}]
  BY <1>a, <1>1, <1>3 DEF ListsInv, ListForms
<1>5. fetch'[key] = Tree!Idle /\ cached'[key] = fetch[key].list.ver /\ cached'[key] # -1
  BY <1>1, <1>3 DEF ListsInv, ListForms
<1>6. \A k \in Tree!Keys : k # key => fetch'[k] = fetch[k] /\ cached'[k] = cached[k]
  BY <1>1 DEF ListsInv, ListForms
<1>7. \A k : Pending(k)' = Pending(k) /\ Clearing(k)' = Clearing(k)
  BY <1>1 DEF Pending, Clearing
<1>8. ASSUME NEW k \in Tree!Keys \ (crossed \cup overtaken) PROVE ListInv(k)'
  <2>1. CASE k = key
    BY <1>a, <1>1, <1>5, <1>7, <1>8, <2>1 DEF ListInv, ListsInv
  <2>2. CASE k # key
    BY <1>1, <1>6, <1>7, <1>8, <2>2 DEF ListInv, ListsInv
  <2> QED
    BY <2>1, <2>2
<1>9. ASSUME NEW k, cached[k] # -1 PROVE cached'[k] # -1
  <2>1. CASE k = key
    BY <1>5, <2>1
  <2>2. CASE k # key
    BY <1>1, <1>9, <2>2 DEF ListsInv, ListForms
  <2> QED
    BY <2>1, <2>2
<1>10. \A k \in Tree!Keys : cached'[k] = -1 => fetch'[k] # Tree!Idle
  BY <1>5, <1>6 DEF ListsInv
<1>11. ListForms'
  BY <1>1, <1>4 DEF ListsInv, ListForms
<1>12. \A x \in evicting' : Tree!keyOf(x.call.mode) \in crossed' \/ cached'[Tree!keyOf(x.call.mode)] # -1
  BY <1>1, <1>9 DEF ListsInv
<1> QED
  BY <1>1, <1>8, <1>10, <1>11, <1>12 DEF ListsInv

LEMMA ListsStep ==
    ASSUME RequestsInv, EvictsInv, ListsInv, [Tree!Next]_treeVars
    PROVE  ListsInv'
<1>1. ASSUME NEW c \in calls, Tree!Answered(c) PROVE ListsInv'
  BY <1>1, ListsAnswered
<1>2. ASSUME NEW c \in calls, Tree!Throws(c) PROVE ListsInv'
  <2>1. /\ calls' = calls \ {c} /\ UNCHANGED <<ver, cached, fetch, memo, late, overtaken, evicting>>
        /\ crossed' = IF c.got = "refused" /\ c.tries = 1 THEN crossed ELSE crossed \cup {Tree!keyOf(c.mode)}
    BY <1>2 DEF Tree!Throws, Tree!Backend, Tree!Cache
  <2>2. \A k \in Tree!Keys \ crossed' : Pending(k) => Pending(k)'
    BY <2>1 DEF Pending
  <2>3. ASSUME NEW k \in Tree!Keys \ crossed', Clearing(k) PROVE Clearing(k)'
    <3>1. PICK y \in evicting, d \in calls : Tree!keyOf(y.call.mode) = k /\ d.id = y.call.id
      BY <2>3 DEF Clearing
    <3>2. d # c
      BY <2>1, <3>1 DEF EvictsInv
    <3> QED
      BY <2>1, <3>1, <3>2 DEF Clearing
  <2> QED
    BY <2>1, <2>2, <2>3, ListsKept
<1>3. ASSUME NEW x \in txs, Tree!Check(x) PROVE ListsInv'
  <2>1. UNCHANGED <<ver, cached, fetch, crossed, memo, late, overtaken, evicting>>
    BY <1>3 DEF Tree!Check, Tree!Backend, Tree!Cache
  <2>2. CASE unique[x.call.type] = 0
    <3>1. calls' = calls
      BY <1>3, <2>2 DEF Tree!Check
    <3> QED
      BY <2>1, <3>1, ListsKept DEF Pending, Clearing
  <2>3. CASE unique[x.call.type] # 0
    <3>1. Settled(x, "refused")
      BY <1>3, <2>3 DEF Tree!Check, Settled
    <3> QED
      BY <2>1, <3>1, ListsKept, SettledStaysPending
  <2> QED
    BY <2>2, <2>3
<1>4. ASSUME NEW x \in txs, Tree!Commit(x), ~Tree!Allowed(x.call) PROVE ListsInv'
  <2>1. Settled(x, "refused") /\ UNCHANGED <<ver, cached, fetch, crossed, memo, late, overtaken, evicting>>
    BY <1>4 DEF Tree!Commit, Settled, Tree!Backend, Tree!Cache
  <2> QED
    BY <2>1, ListsKept, SettledStaysPending
<1>5. ASSUME NEW x \in txs, Tree!Commit(x), Tree!Allowed(x.call) PROVE ListsInv'
  BY <1>5, ListsCommit
<1>6. ASSUME NEW c \in calls, Tree!Retry(c) PROVE ListsInv'
  <2> DEFINE d == [c EXCEPT !.tries = 2]
  <2>1. /\ calls' = (calls \ {c}) \cup {d}
        /\ UNCHANGED <<ver, cached, fetch, crossed, memo, late, overtaken, evicting>>
    BY <1>6 DEF Tree!Retry, Tree!Backend, Tree!Cache
  <2>2. CallForm(c)
    BY DEF RequestsInv
  <2>3. d.mode = c.mode /\ d.tries = 2 /\ d.id = c.id
    BY <2>2, TriesKeepsForm
  <2> HIDE DEF d
  <2>4. \A k : (Pending(k) => Pending(k)') /\ (Clearing(k) => Clearing(k)')
    BY <2>1, <2>3 DEF Pending, Clearing
  <2> QED
    BY <2>1, <2>4, ListsKept
<1>7. ASSUME \/ Tree!saveDescription
             \/ Tree!handleDialogSubmit
             \/ \E m \in Tree!AllModes : Tree!onDelete(m)
             \/ \E t \in Types : Tree!handleSubmit(t)
      PROVE  ListsInv'
  <2>1. calls \subseteq calls' /\ UNCHANGED <<ver, cached, fetch, crossed, memo, late, overtaken, evicting>>
    BY <1>7 DEF Tree!saveDescription, Tree!handleDialogSubmit, Tree!onDelete, Tree!handleSubmit, Tree!Send,
                Tree!Backend, Tree!Cache
  <2> QED
    BY <2>1, ListsKept DEF Pending, Clearing
<1>8. ASSUME NEW key \in Tree!Keys, Tree!Read(key) \/ Tree!Load(key) PROVE ListsInv'
  BY <1>8, ListsRead
<1>9. ASSUME NEW key \in Tree!Keys, Tree!Fetched(key) PROVE ListsInv'
  BY <1>9, ListsFetched
<1>10. ASSUME NEW key \in Tree!Keys, Tree!Loaded(key) PROVE ListsInv'
  <2>1. fetch[key] \in Fetches
    BY DEF ListsInv, ListForms
  <2>2. fetch[key].list \in Lists
    BY <1>10, <2>1 DEF Tree!Loaded, Fetches, Tree!Idle, Tree!Asked
  <2> QED
    BY <1>10, <2>2, ListsLoaded DEF Tree!Loaded
<1>11. ASSUME NEW load \in late, Tree!LoadedLate(load) PROVE ListsInv'
  <2>1. load.key \in Tree!Keys => load.list \in Lists
    BY DEF ListsInv, ListForms
  <2> QED
    BY <1>11, <2>1, ListsLoaded DEF Tree!LoadedLate
<1>12. ASSUME NEW x \in evicting, Tree!Evict(x) PROVE ListsInv'
  BY <1>12, ListsEvict
<1>13. ASSUME \/ UNCHANGED treeVars
              \/ \E m \in Tree!AllModes : Tree!handleCreate(m)
              \/ \E t \in Types : Tree!onTypeChange(t)
              \/ Tree!CloseDialog \/ Tree!OpenCluster \/ Tree!CancelCluster \/ Tree!handleDescriptionChange
       PROVE  ListsInv'
  <2>1. UNCHANGED <<ver, cached, fetch, crossed, calls, memo, late, overtaken, evicting>>
    BY <1>13 DEF treeVars, Tree!handleCreate, Tree!onTypeChange, Tree!CloseDialog, Tree!OpenCluster,
                 Tree!CancelCluster, Tree!handleDescriptionChange, Tree!Backend, Tree!Cache
  <2> QED
    BY <2>1, ListsKept DEF Pending, Clearing
<1> QED
  BY <1>1, <1>2, <1>3, <1>4, <1>5, <1>6, <1>7, <1>8, <1>9, <1>10, <1>11, <1>12, <1>13 DEF Tree!Next, Tree!Runs

\* A list that was loaded before it changed, and none of whose requests failed, is the backend's once
\* its requests and fetches have ended, whichever dialogs were submitted and sent again meanwhile, and
\* although the backend keeps the list, unless it loaded it before a change and keeps it past the clearing.
THEOREM CachedListsFollow == Spec => []ListsFollow
<1>1. Init => RequestsInv /\ EvictsInv /\ ListsInv
  BY RequestsAtFirst, EvictsAtFirst, ListsAtFirst DEF Init
<1>2. RequestsInv /\ EvictsInv /\ ListsInv /\ [Next]_vars => (RequestsInv /\ EvictsInv /\ ListsInv)'
  BY RequestsStep, EvictsStep, ListsStep, PageSteps
<1>3. ListsInv => ListsFollow
  BY DEF ListsInv, ListInv, Pending, ListsFollow, Tree!ListsFollow
<1> QED
  BY <1>1, <1>2, <1>3, PTL DEF Spec

-----------------------------------------------------------------------------
(* The description of the brain.                                           *)

Brains == "brains"
BrainCalls == {c \in calls : Tree!BrainCall(c)}
BrainTxs == {x \in txs : Tree!BrainCall(x.call)}
BrainEvicts == {x \in evicting : Tree!BrainCall(x.call)}
OnItsWay == fetch[Brains].at \in {"loading", "read"}

\* What the next save of the description will not save again.
Old(v) == v \in Nat /\ v <= typed /\ v # timer

\* The requests of the brain wait for each other: there is one at most, and none of its attempts has
\* been lost; what is on its way is what is stored, or what was cached before the request.
OneAtATime ==
    /\ \A c, d \in BrainCalls : c = d
    /\ \A x \in BrainTxs : /\ x.call \in calls /\ x.call.got = "none" /\ x.call.tries = 1 /\ x.try = 1
                           /\ desc = cachedDesc
                           /\ OnItsWay => fetch[Brains].list.desc = desc
    /\ \A x \in BrainEvicts : \E c \in BrainCalls : c.id = x.call.id /\ c.got = "ok" /\ c.tries = x.try
    /\ \A c \in BrainCalls : c.got = "ok" => desc = c.desc
    /\ fetch[Brains].at = "read" => \/ fetch[Brains].list.desc = desc
                                    \/ fetch[Brains].list.desc = cachedDesc /\ BrainCalls # {}
    /\ fetch[Brains] = Tree!Idle => cachedDesc = desc \/ BrainCalls # {}

\* What the backend keeps is what is stored, or what was cached before the request that is going to
\* clear it.
KeptDesc ==
    memo[Brains] # Tree!Nothing =>
      \/ memo[Brains].desc = desc
      \/ /\ memo[Brains].desc = cachedDesc /\ BrainEvicts # {} /\ BrainTxs = {}
         /\ OnItsWay => fetch[Brains].list.desc = cachedDesc

\* The text area has what is cached, or will have what is saved when that arrives.
TextArrives ==
    \/ timer # -1
    \/ text = cachedDesc
    \/ \E c \in BrainCalls : c.desc # cachedDesc
    \/ fetch[Brains].at \in {"asked", "loading"} /\ desc # cachedDesc
    \/ fetch[Brains].at = "read" /\ fetch[Brains].list.desc # cachedDesc

\* Nothing that is under way, kept or stored is the description that is being typed.
OldDescs ==
    /\ Old(cachedDesc) /\ Old(desc)
    /\ OnItsWay => Old(fetch[Brains].list.desc)
    /\ memo[Brains] # Tree!Nothing => Old(memo[Brains].desc)
    /\ \A load \in late : load.key = Brains => Old(load.list.desc)
    /\ \A c \in BrainCalls : Old(c.desc)
    /\ \A x \in BrainTxs : Old(x.call.desc)

TextInv ==
    /\ timer \in {-1, typed} /\ timer # 0
    /\ OldDescs
    /\ cached[Brains] = -1 => /\ BrainCalls = {} /\ BrainTxs = {}
                              /\ timer = -1 /\ dialog.mode # "rename-brain"
    /\ dialog.mode # "describe"
    /\ ~overlapped => OneAtATime /\ KeptDesc /\ TextArrives

LEMMA BrainKeys ==
    /\ Brains \in Tree!Keys
    /\ \A c : Tree!BrainCall(c) => Tree!keyOf(c.mode) = Brains
<1>1. Tree!keyOf("describe") = Brains /\ Tree!keyOf("rename-brain") = Brains
  BY DEF Tree!keyOf, Brains
<1>2. "describe" \in Modes \cup {"describe", "page-cluster"}
  OBVIOUS
<1> QED
  BY <1>1, <1>2 DEF Tree!Keys, Tree!BrainCall

LEMMA TextAtFirst == ASSUME Tree!Init PROVE TextInv
<1>1. /\ timer = -1 /\ typed = 0 /\ text = 0 /\ desc = 0 /\ cachedDesc = 0
      /\ BrainCalls = {} /\ BrainTxs = {} /\ BrainEvicts = {} /\ late = {}
      /\ fetch = [k \in Tree!Keys |-> Tree!Asked] /\ memo = [k \in Tree!Keys |-> Tree!Nothing]
      /\ dialog = Tree!Closed
  BY DEF Tree!Init, BrainCalls, BrainTxs, BrainEvicts, Tree!NoTimer
<1>2. Tree!Asked.at = "asked" /\ Tree!Idle.at = "idle"
  BY DEF Tree!Asked, Tree!Idle
<1>3. fetch[Brains] = Tree!Asked /\ fetch[Brains] # Tree!Idle /\ memo[Brains] = Tree!Nothing
  BY <1>1, <1>2, BrainKeys
<1>4. dialog.mode = "create-brain"
  BY <1>1 DEF Tree!Closed
<1> QED
  BY <1>1, <1>2, <1>3, <1>4 DEF TextInv, OneAtATime, KeptDesc, TextArrives, OldDescs, OnItsWay, Old

\* Steps that concern neither the brain nor its requests.
LEMMA TextKept ==
    ASSUME TextInv, BrainCalls' = BrainCalls, BrainTxs' = BrainTxs, BrainEvicts' = BrainEvicts,
           fetch'[Brains] = fetch[Brains], cached'[Brains] = cached[Brains],
           memo'[Brains] \in {memo[Brains], Tree!Nothing},
           \A load \in late' : load.key = Brains => load \in late,
           UNCHANGED <<typed, timer, cachedDesc, desc, text>>,
           BrainTxs # {} /\ ~overlapped' => \A x \in BrainTxs : x.call \in calls => x.call \in calls',
           cached[Brains] = -1 => dialog.mode = dialog'.mode \/ dialog'.mode # "rename-brain",
           dialog'.mode # "describe",
           overlapped => overlapped'
    PROVE  TextInv'
<1>1. \A x \in BrainTxs : x.call \in calls /\ ~overlapped' => x.call \in calls'
  OBVIOUS
<1>2. OneAtATime /\ ~overlapped' => OneAtATime'
  BY <1>1 DEF OneAtATime, OnItsWay
<1>3. TextArrives => TextArrives'
  BY DEF TextArrives
<1>4. KeptDesc => KeptDesc'
  BY DEF KeptDesc, OnItsWay
<1>5. OldDescs'
  BY DEF TextInv, OldDescs, OnItsWay, Old
<1> QED
  BY <1>2, <1>3, <1>4, <1>5 DEF TextInv

\* What the other lists keep.
LEMMA OtherMemo ==
    ASSUME ListsInv, NEW key, key # Brains, NEW given, memo' = [memo EXCEPT ![key] = given]
    PROVE  memo'[Brains] = memo[Brains]
BY BrainKeys DEF ListsInv, ListForms

\* An attempt of another request that ends.
LEMMA OthersSettle ==
    ASSUME RequestsInv, NEW x \in txs, NEW g, Settled(x, g), ~Tree!BrainCall(x.call)
    PROVE  BrainCalls' = BrainCalls /\ BrainTxs' = BrainTxs
<1> DEFINE new(c) == IF c.id = x.call.id /\ c.tries = x.try THEN [c EXCEPT !.got = g] ELSE c
<1>1. txs' = txs \ {x} /\ calls' = {new(c) : c \in calls}
  BY DEF Settled
<1>2. ASSUME NEW c \in calls PROVE new(c).mode = c.mode
  BY GotKeepsForm DEF RequestsInv
<1>3. ASSUME NEW c \in calls, Tree!BrainCall(c) PROVE new(c) = c
  <2>1. c.id # x.call.id
    BY <1>3 DEF RequestsInv, AttemptOf, Tree!BrainCall
  <2> QED
    BY <2>1
<1> HIDE DEF new
<1>4. \A c \in calls : Tree!BrainCall(new(c)) <=> Tree!BrainCall(c)
  BY <1>2 DEF Tree!BrainCall
<1>5. BrainCalls' = BrainCalls
  BY <1>1, <1>3, <1>4 DEF BrainCalls
<1>6. BrainTxs' = BrainTxs
  BY <1>1 DEF BrainTxs
<1> QED
  BY <1>5, <1>6

\* The attempt of the one request of the brain ends.
LEMMA BrainSettles ==
    ASSUME RequestsInv, OneAtATime, NEW x \in txs, Settled(x, "ok"), Tree!BrainCall(x.call)
    PROVE  /\ BrainTxs' = {}
           /\ BrainCalls' # {}
           /\ \A c \in BrainCalls' : /\ c.desc = x.call.desc /\ c.id = x.call.id /\ c.got = "ok"
                                     /\ c.tries = x.try
           /\ \A c, d \in BrainCalls' : c = d
<1> DEFINE new(c) == IF c.id = x.call.id /\ c.tries = x.try THEN [c EXCEPT !.got = "ok"] ELSE c
           e == x.call
<1>1. txs' = txs \ {x} /\ calls' = {new(c) : c \in calls}
  BY DEF Settled
<1>2. x \in BrainTxs /\ e \in calls /\ e.tries = 1 /\ x.try = 1 /\ e \in BrainCalls
  BY DEF BrainTxs, BrainCalls, OneAtATime
<1>3. ASSUME NEW c \in calls PROVE new(c).mode = c.mode /\ new(c).desc = c.desc
  BY GotKeepsForm DEF RequestsInv
<1>4. \A c \in calls : Tree!BrainCall(new(c)) <=> Tree!BrainCall(c)
  BY <1>3 DEF Tree!BrainCall
<1>10. new(e).id = e.id /\ new(e).tries = 1 /\ new(e).got = "ok"
  BY <1>2, GotKeepsForm DEF RequestsInv
<1> HIDE DEF new
<1>5. BrainCalls' = {new(c) : c \in BrainCalls}
  BY <1>1, <1>4 DEF BrainCalls
<1>6. \A c \in BrainCalls : c = e
  BY <1>2 DEF OneAtATime
<1>7. BrainCalls' = {new(e)}
  BY <1>2, <1>5, <1>6
<1>8. ASSUME NEW y \in BrainTxs PROVE y = x
  <2>1. y \in txs /\ y.call \in BrainCalls /\ y.try = 1
    BY <1>8 DEF BrainTxs, BrainCalls, OneAtATime
  <2>2. y.call = x.call
    BY <1>6, <2>1
  <2> QED
    BY <1>2, <2>1, <2>2 DEF RequestsInv
<1>9. BrainTxs' = {}
  BY <1>1, <1>8 DEF BrainTxs
<1> QED
  BY <1>2, <1>3, <1>7, <1>9, <1>10

\* A request of the brain is sent.
LEMMA BrainSends ==
    ASSUME RequestsInv, TextInv, NEW m, NEW t, NEW v \in Nat, Tree!Send(m, t, v),
           UNCHANGED <<typed, cachedDesc, desc, text, fetch, cached, memo, late, evicting>>,
           dialog'.mode = dialog.mode,
           timer' \in {timer, -1}, v \in {0, timer}, timer' = timer => v = 0,
           timer' # timer => m = "describe" /\ v = timer,
           m \in {"rename-brain", "describe"} => cached[Brains] # -1
    PROVE  TextInv'
<1> DEFINE call == [id |-> sent, mode |-> m, type |-> t, desc |-> v, tries |-> 1, got |-> "none"]
           tx == [call |-> call, try |-> 1, checked |-> FALSE]
<1>1. /\ calls' = calls \cup {call} /\ txs' = txs \cup {tx}
      /\ overlapped' = (overlapped \/ (/\ Tree!BrainCall(call)
                                       /\ \/ fetch["brains"] # Tree!Idle
                                          \/ \E c \in calls \cup {x.call : x \in txs} : Tree!BrainCall(c)))
  BY DEF Tree!Send
<1>2. call.mode = m /\ call.desc = v /\ call.got = "none" /\ call.tries = 1 /\ tx.call = call /\ tx.try = 1
  OBVIOUS
<1> HIDE DEF call, tx
<1>3. Tree!BrainCall(call) <=> m \in {"rename-brain", "describe"}
  BY <1>2 DEF Tree!BrainCall
<1>e. BrainEvicts' = BrainEvicts
  BY DEF BrainEvicts
<1>4. CASE ~Tree!BrainCall(call)
  <2>1. BrainCalls' = BrainCalls /\ BrainTxs' = BrainTxs
    BY <1>1, <1>2, <1>4 DEF BrainCalls, BrainTxs
  <2>2. timer' = timer
    BY <1>3, <1>4
  <2>3. overlapped => overlapped'
    BY <1>1
  <2> QED
    BY <1>1, <1>e, <2>1, <2>2, <2>3, TextKept DEF TextInv
<1>5. CASE Tree!BrainCall(call)
  <2>1. BrainCalls' = BrainCalls \cup {call} /\ BrainTxs' = BrainTxs \cup {tx}
    BY <1>1, <1>2, <1>5 DEF BrainCalls, BrainTxs
  <2>2. cached[Brains] # -1 /\ typed \in Nat /\ timer \in {-1, typed} /\ timer # 0
    BY <1>3, <1>5 DEF RequestsInv, TextInv
  <2>3. \A w : Old(w) => Old(w)'
    BY <2>2 DEF Old
  <2>4. Old(v)'
    BY <2>2 DEF Old
  <2>8. (\A c \in BrainCalls' : Old(c.desc)') /\ (\A x \in BrainTxs' : Old(x.call.desc)')
    BY <1>2, <2>1, <2>3, <2>4 DEF TextInv, OldDescs
  <2>7. OldDescs'
    BY <2>3, <2>8 DEF TextInv, OldDescs, OnItsWay
  <2>9. ASSUME ~overlapped' PROVE OneAtATime' /\ KeptDesc' /\ TextArrives'
    <3>1. ~overlapped /\ fetch[Brains] = Tree!Idle /\ BrainCalls = {} /\ BrainTxs = {}
      BY <1>1, <1>5, <2>9 DEF Brains, BrainCalls, BrainTxs
    <3>2. OneAtATime /\ KeptDesc /\ TextArrives
      BY <3>1 DEF TextInv
    <3>3. cachedDesc = desc /\ BrainEvicts = {}
      BY <3>1, <3>2 DEF OneAtATime
    <3>4. fetch[Brains].at = "idle" /\ ~OnItsWay
      BY <3>1 DEF Tree!Idle, OnItsWay
    <3>a. OneAtATime'
      BY <1>1, <1>2, <1>e, <2>1, <3>1, <3>3, <3>4 DEF OneAtATime, OnItsWay
    <3>b. KeptDesc'
      BY <3>2, <3>3 DEF KeptDesc
    <3>5. OneAtATime' /\ KeptDesc'
      BY <3>a, <3>b
    <3>6. CASE timer' = timer
      BY <3>1, <3>2, <3>5, <3>6, <2>1 DEF TextArrives
    <3>7. CASE timer' # timer
      <4>1. v # cachedDesc
        BY <3>7 DEF TextInv, OldDescs, Old
      <4> QED
        BY <1>2, <2>1, <3>5, <4>1 DEF TextArrives
    <3> QED
      BY <3>5, <3>6, <3>7
  <2>10. timer' \in {-1, typed'} /\ timer' # 0
    BY <2>2 DEF TextInv
  <2> QED
    BY <2>2, <2>7, <2>8, <2>9, <2>10 DEF TextInv
<1> QED
  BY <1>4, <1>5

\* The answer of a fetch that was started for another list, or for this one.
LEMMA TextFetched ==
    ASSUME RequestsInv, ListsInv, TextInv, NEW key \in Tree!Keys, Tree!Fetched(key)
    PROVE  TextInv'
<1>1. /\ fetch[key].at = "read" /\ cached' = [cached EXCEPT ![key] = fetch[key].list.ver]
      /\ fetch' = [fetch EXCEPT ![key] = Tree!Idle]
      /\ UNCHANGED <<desc, dialog, typed, timer, calls, txs, overlapped, memo, late, evicting>>
  BY DEF Tree!Fetched, Tree!Backend
<1>2. BrainCalls' = BrainCalls /\ BrainTxs' = BrainTxs /\ BrainEvicts' = BrainEvicts
  BY <1>1 DEF BrainCalls, BrainTxs, BrainEvicts
<1>3. CASE key # Brains
  <2>1. UNCHANGED <<cachedDesc, text>>
    BY <1>3 DEF Tree!Fetched, Brains
  <2>2. fetch'[Brains] = fetch[Brains] /\ cached'[Brains] = cached[Brains]
    BY <1>1, <1>3, BrainKeys DEF ListsInv, ListForms
  <2> QED
    BY <1>1, <1>2, <2>1, <2>2, TextKept DEF TextInv
<1>4. CASE key = Brains
  <2> DEFINE new == fetch[Brains].list.desc
  <2>1. /\ cachedDesc' = new
        /\ (text' = new /\ new # cachedDesc) \/ (text' = text /\ new = cachedDesc)
    BY <1>4 DEF Tree!Fetched, Brains
  <2>2. fetch'[Brains] = Tree!Idle /\ cached'[Brains] = fetch[Brains].list.ver
    BY <1>1, <1>4, BrainKeys DEF ListsInv, ListForms
  <2>3. fetch[Brains].at = "read" /\ fetch[Brains] \in Fetches
    BY <1>1, <1>4, BrainKeys DEF ListsInv, ListForms
  <2>4. fetch[Brains].list.ver \in Nat
    BY <2>3 DEF Fetches, Lists, Tree!Idle, Tree!Asked
  <2>5. cached'[Brains] # -1
    BY <2>2, <2>4
  <2>6. Tree!Idle.at = "idle" /\ fetch[Brains] # Tree!Asked /\ OnItsWay /\ ~OnItsWay'
    BY <2>2, <2>3 DEF Tree!Idle, Tree!Asked, OnItsWay
  <2>7. ASSUME ~overlapped PROVE OneAtATime' /\ KeptDesc'
    <3>1. OneAtATime /\ KeptDesc
      BY <2>7 DEF TextInv
    <3>2. new = desc \/ BrainCalls # {}
      BY <2>3, <3>1 DEF OneAtATime
    <3>3. BrainTxs # {} => new = desc
      BY <2>6, <3>1 DEF OneAtATime
    <3>4. OneAtATime'
      BY <1>1, <1>2, <2>1, <2>2, <2>6, <3>1, <3>2, <3>3 DEF OneAtATime
    <3>5. KeptDesc'
      BY <1>1, <1>2, <2>1, <2>6, <3>1 DEF KeptDesc
    <3> QED
      BY <3>4, <3>5
  <2>8. ASSUME ~overlapped PROVE TextArrives'
    <3>1. TextArrives
      BY <2>8 DEF TextInv
    <3>2. CASE text' = new
      BY <2>1, <3>2 DEF TextArrives
    <3>3. CASE text' = text /\ new = cachedDesc
      BY <1>1, <1>2, <2>1, <2>3, <2>6, <3>1, <3>3 DEF TextArrives
    <3> QED
      BY <2>1, <3>2, <3>3
  <2>9. Old(new)
    BY <2>6 DEF TextInv, OldDescs
  <2>10. OldDescs'
    BY <1>1, <1>2, <2>1, <2>6, <2>9 DEF TextInv, OldDescs, Old
  <2> QED
    BY <1>1, <1>2, <2>5, <2>7, <2>8, <2>10 DEF TextInv
<1> QED
  BY <1>3, <1>4

\* The description that a fetch of the brain finds in the database.
LEMMA StoredDesc == Tree!Stored(Brains).desc = desc
BY DEF Tree!Stored, Brains

\* A fetch is answered with what the backend keeps.
LEMMA TextRead ==
    ASSUME RequestsInv, ListsInv, TextInv, NEW key \in Tree!Keys, Tree!Read(key)
    PROVE  TextInv'
<1> DEFINE given == IF key \in Tree!Memoized THEN memo[key] ELSE Tree!Stored(key)
           new == [at |-> "read", list |-> given]
<1>1. /\ fetch[key] = Tree!Asked /\ fetch' = [fetch EXCEPT ![key] = new] /\ given # Tree!Nothing
      /\ UNCHANGED <<desc, cached, cachedDesc, dialog, text, typed, timer, calls, txs, overlapped, memo, late, evicting>>
  BY DEF Tree!Read, Tree!Backend, Tree!Page
<1>2. new.at = "read" /\ new.list = given
  OBVIOUS
<1>a. key = Brains => given = memo[Brains]
  BY DEF Brains, Tree!Memoized
<1> HIDE DEF new, given
<1>3. BrainCalls' = BrainCalls /\ BrainTxs' = BrainTxs /\ BrainEvicts' = BrainEvicts
  BY <1>1 DEF BrainCalls, BrainTxs, BrainEvicts
<1>4. CASE key # Brains
  <2>1. fetch'[Brains] = fetch[Brains]
    BY <1>1, <1>4, BrainKeys DEF ListsInv, ListForms
  <2> QED
    BY <1>1, <1>3, <2>1, TextKept DEF TextInv
<1>5. CASE key = Brains
  <2>1. fetch'[Brains] = new /\ fetch[Brains] = Tree!Asked /\ memo[Brains] = given /\ given # Tree!Nothing
    BY <1>1, <1>a, <1>5, BrainKeys DEF ListsInv, ListForms
  <2>2. Tree!Idle.at = "idle" /\ Tree!Asked.at = "asked"
    BY DEF Tree!Idle, Tree!Asked
  <2>3. ASSUME ~overlapped PROVE OneAtATime' /\ KeptDesc' /\ TextArrives'
    <3>1. OneAtATime /\ KeptDesc /\ TextArrives
      BY <2>3 DEF TextInv
    <3>2. given.desc = desc \/ (given.desc = cachedDesc /\ BrainEvicts # {} /\ BrainTxs = {})
      BY <2>1, <3>1 DEF KeptDesc
    <3>3. BrainEvicts # {} => \E c \in BrainCalls : desc = c.desc
      BY <3>1 DEF OneAtATime
    <3>4. OneAtATime'
      BY <1>1, <1>2, <1>3, <2>1, <2>2, <3>1, <3>2, <3>3 DEF OneAtATime
    <3>5. KeptDesc'
      BY <1>1, <1>2, <1>3, <2>1, <3>2 DEF KeptDesc
    <3>6. TextArrives'
      BY <1>1, <1>2, <1>3, <2>1, <2>2, <3>1, <3>2, <3>3 DEF TextArrives
    <3> QED
      BY <3>4, <3>5, <3>6
  <2>4. OldDescs'
    BY <1>1, <1>2, <1>3, <2>1 DEF TextInv, OldDescs, OnItsWay, Old
  <2> QED
    BY <1>1, <1>3, <2>3, <2>4 DEF TextInv
<1> QED
  BY <1>4, <1>5

\* The backend loads what it does not keep.
LEMMA TextLoad ==
    ASSUME RequestsInv, ListsInv, TextInv, NEW key \in Tree!Keys, Tree!Load(key)
    PROVE  TextInv'
<1> DEFINE given == Tree!Stored(key)
           new == [at |-> "loading", list |-> given]
<1>1. /\ fetch[key] = Tree!Asked /\ fetch' = [fetch EXCEPT ![key] = new]
      /\ memo' = [memo EXCEPT ![key] = Tree!Nothing]
      /\ UNCHANGED <<desc, cached, cachedDesc, dialog, text, typed, timer, calls, txs, overlapped, late, evicting>>
  BY DEF Tree!Load, Tree!Page
<1>2. new.at = "loading" /\ new.list = given /\ (key = Brains => given.desc = desc)
  BY StoredDesc
<1> HIDE DEF new, given
<1>3. BrainCalls' = BrainCalls /\ BrainTxs' = BrainTxs /\ BrainEvicts' = BrainEvicts
  BY <1>1 DEF BrainCalls, BrainTxs, BrainEvicts
<1>4. CASE key # Brains
  <2>1. fetch'[Brains] = fetch[Brains] /\ memo'[Brains] = memo[Brains]
    BY <1>1, <1>4, BrainKeys DEF ListsInv, ListForms
  <2> QED
    BY <1>1, <1>3, <2>1, TextKept DEF TextInv
<1>5. CASE key = Brains
  <2>1. fetch'[Brains] = new /\ fetch[Brains] = Tree!Asked /\ memo'[Brains] = Tree!Nothing
    BY <1>1, <1>5, BrainKeys DEF ListsInv, ListForms
  <2>2. Tree!Idle.at = "idle" /\ Tree!Asked.at = "asked"
    BY DEF Tree!Idle, Tree!Asked
  <2>3. ASSUME ~overlapped PROVE OneAtATime' /\ KeptDesc' /\ TextArrives'
    <3>1. OneAtATime /\ TextArrives
      BY <2>3 DEF TextInv
    <3>2. OneAtATime'
      BY <1>1, <1>2, <1>3, <1>5, <2>1, <2>2, <3>1 DEF OneAtATime
    <3>3. KeptDesc'
      BY <2>1 DEF KeptDesc
    <3>4. TextArrives'
      BY <1>1, <1>2, <1>3, <1>5, <2>1, <2>2, <3>1 DEF TextArrives
    <3> QED
      BY <3>2, <3>3, <3>4
  <2>4. OldDescs'
    BY <1>1, <1>2, <1>3, <1>5, <2>1 DEF TextInv, OldDescs, OnItsWay, Old
  <2> QED
    BY <1>1, <1>3, <2>3, <2>4 DEF TextInv
<1> QED
  BY <1>4, <1>5

\* What was loaded is kept; what a save has replaced meanwhile is marked as overlapped.
LEMMA TextLoaded ==
    ASSUME RequestsInv, ListsInv, TextInv, NEW key \in Tree!Keys, Tree!Loaded(key)
    PROVE  TextInv'
<1> DEFINE given == fetch[key].list
           new == [at |-> "read", list |-> given]
<1>1. /\ fetch[key].at = "loading" /\ fetch' = [fetch EXCEPT ![key] = new]
      /\ memo' = [memo EXCEPT ![key] = given]
      /\ overlapped' = (overlapped \/ (key = Brains /\ given.desc # desc))
      /\ UNCHANGED <<desc, cached, cachedDesc, dialog, text, typed, timer, calls, txs, late, evicting>>
  BY DEF Tree!Loaded, Tree!Keep, Tree!Page, Brains
<1>2. new.at = "read" /\ new.list = given
  OBVIOUS
<1>a. key = Brains => given = fetch[Brains].list
  OBVIOUS
<1> HIDE DEF new, given
<1>3. BrainCalls' = BrainCalls /\ BrainTxs' = BrainTxs /\ BrainEvicts' = BrainEvicts
  BY <1>1 DEF BrainCalls, BrainTxs, BrainEvicts
<1>4. CASE key # Brains
  <2>1. fetch'[Brains] = fetch[Brains] /\ memo'[Brains] = memo[Brains] /\ (overlapped => overlapped')
    BY <1>1, <1>4, BrainKeys DEF ListsInv, ListForms
  <2> QED
    BY <1>1, <1>3, <2>1, TextKept DEF TextInv
<1>5. CASE key = Brains
  <2>1. fetch'[Brains] = new /\ fetch[Brains].at = "loading" /\ memo'[Brains] = given /\ fetch[Brains].list = given
    BY <1>1, <1>a, <1>5, BrainKeys DEF ListsInv, ListForms
  <2>2. Tree!Idle.at = "idle" /\ Tree!Asked.at = "asked"
    BY DEF Tree!Idle, Tree!Asked
  <2>3. ASSUME ~overlapped' PROVE OneAtATime' /\ KeptDesc' /\ TextArrives'
    <3>1. OneAtATime /\ TextArrives /\ given.desc = desc
      BY <1>1, <1>5, <2>3 DEF TextInv
    <3>2. OneAtATime'
      BY <1>1, <1>2, <1>3, <2>1, <2>2, <3>1 DEF OneAtATime
    <3>3. KeptDesc'
      BY <1>1, <2>1, <3>1 DEF KeptDesc
    <3>4. TextArrives'
      BY <1>1, <1>2, <1>3, <2>1, <2>2, <3>1 DEF TextArrives
    <3> QED
      BY <3>2, <3>3, <3>4
  <2>4. OldDescs'
    BY <1>1, <1>2, <1>3, <2>1 DEF TextInv, OldDescs, OnItsWay, Old
  <2> QED
    BY <1>1, <1>3, <2>3, <2>4 DEF TextInv
<1> QED
  BY <1>4, <1>5

LEMMA TextLoadedLate ==
    ASSUME RequestsInv, ListsInv, TextInv, NEW load \in late, Tree!LoadedLate(load)
    PROVE  TextInv'
<1>1. /\ late' = late \ {load} /\ memo' = [memo EXCEPT ![load.key] = load.list]
      /\ overlapped' = (overlapped \/ (load.key = Brains /\ load.list.desc # desc))
      /\ UNCHANGED <<desc, cached, cachedDesc, fetch, dialog, text, typed, timer, calls, txs, evicting>>
  BY DEF Tree!LoadedLate, Tree!Keep, Tree!Page, Brains
<1>2. BrainCalls' = BrainCalls /\ BrainTxs' = BrainTxs /\ BrainEvicts' = BrainEvicts
  BY <1>1 DEF BrainCalls, BrainTxs, BrainEvicts
<1>3. CASE load.key # Brains
  <2>1. memo'[Brains] = memo[Brains] /\ (overlapped => overlapped')
    BY <1>1, <1>3, OtherMemo
  <2> QED
    BY <1>1, <1>2, <2>1, TextKept DEF TextInv
<1>4. CASE load.key = Brains
  <2>1. memo'[Brains] = load.list
    BY <1>1, <1>4, BrainKeys DEF ListsInv, ListForms
  <2>2. ASSUME ~overlapped' PROVE OneAtATime' /\ KeptDesc' /\ TextArrives'
    <3>1. OneAtATime /\ TextArrives /\ load.list.desc = desc
      BY <1>1, <1>4, <2>2 DEF TextInv
    <3>2. OneAtATime'
      BY <1>1, <1>2, <3>1 DEF OneAtATime, OnItsWay
    <3>3. KeptDesc'
      BY <1>1, <2>1, <3>1 DEF KeptDesc
    <3>4. TextArrives'
      BY <1>1, <1>2, <3>1 DEF TextArrives
    <3> QED
      BY <3>2, <3>3, <3>4
  <2>3. OldDescs'
    BY <1>1, <1>2, <1>4, <2>1 DEF TextInv, OldDescs, OnItsWay, Old
  <2> QED
    BY <1>1, <1>2, <2>2, <2>3 DEF TextInv
<1> QED
  BY <1>3, <1>4

\* What is kept is cleared.
LEMMA TextEvicts ==
    ASSUME RequestsInv, ListsInv, TextInv, NEW x \in evicting, Tree!Evict(x)
    PROVE  TextInv'
<1> DEFINE key == Tree!keyOf(x.call.mode)
<1>1. /\ evicting' = evicting \ {x} /\ memo' = [memo EXCEPT ![key] = Tree!Nothing]
      /\ UNCHANGED <<desc, cached, cachedDesc, fetch, late, dialog, text, typed, timer, calls, txs, overlapped>>
  BY DEF Tree!Evict, Tree!Cache, Tree!Page
<1>2. BrainCalls' = BrainCalls /\ BrainTxs' = BrainTxs /\ BrainEvicts' \subseteq BrainEvicts
  BY <1>1 DEF BrainCalls, BrainTxs, BrainEvicts
<1>3. Tree!BrainCall(x.call) => key = Brains
  BY BrainKeys
<1> HIDE DEF key
<1>4. CASE key # Brains
  <2>1. memo'[Brains] = memo[Brains]
    BY <1>1, <1>4, OtherMemo
  <2>2. BrainEvicts' = BrainEvicts
    BY <1>1, <1>3, <1>4 DEF BrainEvicts
  <2> QED
    BY <1>1, <1>2, <2>1, <2>2, TextKept DEF TextInv
<1>5. CASE key = Brains
  <2>1. memo'[Brains] = Tree!Nothing
    BY <1>1, <1>5, BrainKeys DEF ListsInv, ListForms
  <2>2. KeptDesc'
    BY <2>1 DEF KeptDesc
  <2>3. (OneAtATime => OneAtATime') /\ (TextArrives => TextArrives')
    BY <1>1, <1>2 DEF OneAtATime, TextArrives, OnItsWay
  <2>4. OldDescs'
    BY <1>1, <1>2, <2>1 DEF TextInv, OldDescs, OnItsWay, Old
  <2> QED
    BY <1>1, <1>2, <2>2, <2>3, <2>4 DEF TextInv
<1> QED
  BY <1>4, <1>5

\* An answer has the list of its request asked for again.
LEMMA TextAnswered ==
    ASSUME RequestsInv, ListsInv, TextInv, NEW c \in calls, Tree!Answered(c)
    PROVE  TextInv'
<1> DEFINE key == Tree!keyOf(c.mode)
           again == cached[key] # -1 \/ fetch[key] = Tree!Idle
           new == IF again THEN Tree!Asked ELSE fetch[key]
           load == [key |-> key, list |-> fetch[key].list]
<1>1. /\ c.got = "ok" /\ calls' = calls \ {c} /\ fetch' = [fetch EXCEPT ![key] = new]
      /\ late' = IF again /\ fetch[key].at = "loading" THEN late \cup {load} ELSE late
      /\ ~\E x \in evicting : x.call.id = c.id /\ x.try = c.tries
      /\ UNCHANGED <<desc, cached, cachedDesc, text, typed, timer, txs, overlapped, memo, evicting>>
  BY DEF Tree!Answered, Tree!invalidateQueries, Tree!Backend, Tree!NotLoaded
<1>2. dialog'.mode \in {dialog.mode, "create-brain"}
  BY DEF Tree!Answered, Tree!Closed
<1>a. load.key = key /\ load.list = fetch[key].list
  OBVIOUS
<1>3. BrainTxs' = BrainTxs /\ BrainCalls' = BrainCalls \ {c} /\ BrainEvicts' = BrainEvicts
  BY <1>1 DEF BrainCalls, BrainTxs, BrainEvicts
<1>b. Tree!BrainCall(c) => key = Brains
  BY BrainKeys
<1> HIDE DEF key, load
<1>4. /\ key # Brains => fetch'[Brains] = fetch[Brains]
      /\ key = Brains => fetch'[Brains] = new
  BY <1>1, BrainKeys DEF ListsInv, ListForms
<1>c. Tree!Asked.at = "asked" /\ Tree!Idle.at = "idle"
  BY DEF Tree!Asked, Tree!Idle
<1>5. ~overlapped => \A x \in BrainTxs : x.call \in calls'
  BY <1>1 DEF TextInv, OneAtATime
<1>6. CASE ~(key = Brains /\ again)
  <2>1. fetch'[Brains] = fetch[Brains]
    BY <1>4, <1>6
  <2>2. ~Tree!BrainCall(c)
    <3> SUFFICES ASSUME Tree!BrainCall(c) PROVE FALSE
      OBVIOUS
    <3>1. key = Brains /\ c \in BrainCalls
      BY <1>b DEF BrainCalls
    <3>2. cached[Brains] # -1
      BY <3>1 DEF TextInv
    <3> QED
      BY <1>6, <3>1, <3>2
  <2>3. BrainCalls' = BrainCalls
    BY <1>3, <2>2 DEF BrainCalls
  <2>4. \A l \in late' : l.key = Brains => l \in late
    BY <1>1, <1>6, <1>a
  <2> QED
    BY <1>1, <1>2, <1>3, <1>5, <2>1, <2>3, <2>4, TextKept DEF TextInv
<1>7. CASE key = Brains /\ again
  <2>1. fetch'[Brains] = Tree!Asked /\ ~OnItsWay'
    BY <1>4, <1>7, <1>c DEF OnItsWay
  <2>2. ASSUME ~overlapped PROVE OneAtATime' /\ KeptDesc'
    <3>1. OneAtATime /\ KeptDesc
      BY <2>2 DEF TextInv
    <3>2. ASSUME NEW x \in BrainEvicts PROVE c \notin BrainCalls
      <4>1. PICK d \in BrainCalls : d.id = x.call.id /\ d.tries = x.try
        BY <3>1 DEF OneAtATime
      <4>2. d # c
        BY <1>1, <4>1 DEF BrainEvicts
      <4> QED
        BY <3>1, <4>2 DEF OneAtATime
    <3>3. OneAtATime'
      BY <1>1, <1>3, <1>5, <1>c, <2>1, <2>2, <3>1, <3>2 DEF OneAtATime
    <3>4. KeptDesc'
      BY <1>1, <1>3, <2>1, <3>1 DEF KeptDesc
    <3> QED
      BY <3>3, <3>4
  <2>3. ASSUME ~overlapped PROVE TextArrives'
    <3>1. OneAtATime /\ TextArrives
      BY <2>3 DEF TextInv
    <3>2. CASE timer # -1 \/ text = cachedDesc
      BY <1>1, <3>2 DEF TextArrives
    <3>3. ASSUME NEW d \in BrainCalls, d.desc # cachedDesc PROVE TextArrives'
      <4>1. CASE d = c
        <5>1. desc = d.desc
          BY <1>1, <3>1, <4>1 DEF OneAtATime
        <5> QED
          BY <1>1, <1>c, <2>1, <3>3, <5>1 DEF TextArrives
      <4>2. CASE d # c
        BY <1>1, <1>3, <3>3, <4>2 DEF TextArrives
      <4> QED
        BY <4>1, <4>2
    <3>4. CASE fetch[Brains].at \in {"asked", "loading"} /\ desc # cachedDesc
      BY <1>1, <1>c, <2>1, <3>4 DEF TextArrives
    <3>5. CASE fetch[Brains].at = "read" /\ fetch[Brains].list.desc # cachedDesc
      <4>1. desc # cachedDesc
        BY <3>1, <3>5 DEF OneAtATime
      <4> QED
        BY <1>1, <1>c, <2>1, <4>1 DEF TextArrives
    <3> QED
      BY <3>1, <3>2, <3>3, <3>4, <3>5 DEF TextArrives
  <2>4. \A l \in late' : l \in late \/ (l.list = fetch[Brains].list /\ OnItsWay)
    BY <1>1, <1>7, <1>a DEF OnItsWay
  <2>5. OldDescs'
    BY <1>1, <1>3, <2>1, <2>4 DEF TextInv, OldDescs, Old
  <2> QED
    BY <1>1, <1>2, <1>3, <2>2, <2>3, <2>5 DEF TextInv
<1> QED
  BY <1>6, <1>7

\* A request of the brain changes the description.
LEMMA TextCommits ==
    ASSUME RequestsInv, TextInv, NEW x \in txs, Tree!Commit(x)
    PROVE  TextInv'
<1> DEFINE g == IF Tree!Allowed(x.call) THEN "ok" ELSE "refused"
<1>1. Settled(x, g)
  BY DEF Tree!Commit, Settled
<1>2. UNCHANGED <<cached, cachedDesc, fetch, late, memo, dialog, text, typed, timer, overlapped>>
  BY DEF Tree!Commit, Tree!Cache, Tree!Page, Tree!Backend
<1>3. CASE ~Tree!BrainCall(x.call)
  <2>1. UNCHANGED desc /\ evicting' \in {evicting, evicting \cup {x}}
    BY <1>3 DEF Tree!Commit, Tree!Backend
  <2>2. BrainCalls' = BrainCalls /\ BrainTxs' = BrainTxs
    BY <1>1, <1>3, OthersSettle
  <2>3. BrainTxs # {} /\ ~overlapped => \A y \in BrainTxs : y.call \in calls => y.call \in calls'
    BY <2>2 DEF TextInv, OneAtATime, BrainCalls, BrainTxs
  <2>4. BrainEvicts' = BrainEvicts
    BY <1>3, <2>1 DEF BrainEvicts
  <2> QED
    BY <1>2, <2>1, <2>2, <2>3, <2>4, TextKept DEF TextInv
<1>4. CASE Tree!BrainCall(x.call)
  <2>1. Tree!Allowed(x.call)
    BY <1>4 DEF Tree!BrainCall, Tree!Allowed, Tree!Creates
  <2>2. Settled(x, "ok") /\ desc' = x.call.desc /\ evicting' = evicting \cup {x}
    BY <1>1, <1>4, <2>1 DEF Tree!Commit
  <2>3. x \in BrainTxs
    BY <1>4 DEF BrainTxs
  <2>4. cached[Brains] # -1 /\ Old(desc')
    BY <2>2, <2>3 DEF TextInv, OldDescs
  <2>5. BrainTxs' \subseteq BrainTxs /\ \A c \in BrainCalls' : \E d \in BrainCalls : c.desc = d.desc
    <3> DEFINE new(c) == IF c.id = x.call.id /\ c.tries = x.try THEN [c EXCEPT !.got = "ok"] ELSE c
    <3>1. txs' = txs \ {x} /\ calls' = {new(c) : c \in calls}
      BY <2>2 DEF Settled
    <3>2. ASSUME NEW c \in calls PROVE new(c).mode = c.mode /\ new(c).desc = c.desc
      BY GotKeepsForm DEF RequestsInv
    <3> HIDE DEF new
    <3> QED
      BY <3>1, <3>2 DEF BrainCalls, BrainTxs, Tree!BrainCall
  <2>6. ASSUME ~overlapped PROVE OneAtATime' /\ KeptDesc' /\ TextArrives'
    <3>1. OneAtATime /\ KeptDesc /\ TextArrives
      BY <2>6 DEF TextInv
    <3>2. /\ BrainTxs' = {} /\ BrainCalls' # {}
          /\ \A c \in BrainCalls' : /\ c.desc = x.call.desc /\ c.id = x.call.id /\ c.got = "ok"
                                    /\ c.tries = x.try
          /\ \A c, d \in BrainCalls' : c = d
      BY <1>4, <2>2, <3>1, BrainSettles
    <3>3. desc = cachedDesc /\ (OnItsWay => fetch[Brains].list.desc = desc)
      BY <2>3, <3>1 DEF OneAtATime
    <3>5. \A c \in BrainCalls : c.desc = x.call.desc /\ c.got = "none"
      BY <2>3, <3>1 DEF OneAtATime, BrainCalls, BrainTxs
    <3>7. BrainEvicts = {}
      BY <3>1, <3>5 DEF OneAtATime
    <3>8. BrainEvicts' = {x}
      BY <1>4, <2>2, <3>7 DEF BrainEvicts
    <3>4. OneAtATime'
      BY <1>2, <2>2, <3>2, <3>3, <3>8 DEF OneAtATime, OnItsWay
    <3>6. TextArrives'
      BY <1>2, <3>1, <3>2, <3>3, <3>5 DEF TextArrives, OnItsWay
    <3>9. KeptDesc'
      BY <1>2, <3>1, <3>2, <3>3, <3>7, <3>8 DEF KeptDesc, OnItsWay
    <3> QED
      BY <3>4, <3>6, <3>9
  <2>7. OldDescs'
    BY <1>2, <2>4, <2>5 DEF TextInv, OldDescs, OnItsWay, Old
  <2> QED
    BY <1>2, <2>4, <2>6, <2>7 DEF TextInv
<1> QED
  BY <1>3, <1>4

LEMMA TextStep ==
    ASSUME RequestsInv, EvictsInv, ListsInv, TextInv, [Tree!Next]_treeVars
    PROVE  TextInv'
<1>1. ASSUME NEW c \in calls, Tree!Answered(c) PROVE TextInv'
  BY <1>1, TextAnswered
<1>2. ASSUME NEW c \in calls, Tree!Throws(c) PROVE TextInv'
  <2>1. /\ calls' = calls \ {c} /\ overlapped' = (overlapped \/ Tree!BrainCall(c))
        /\ UNCHANGED <<desc, cached, cachedDesc, fetch, dialog, text, typed, timer, txs, memo, late, evicting>>
    BY <1>2 DEF Tree!Throws, Tree!Backend, Tree!Cache
  <2>2. BrainTxs' = BrainTxs /\ BrainCalls' = BrainCalls \ {c} /\ BrainEvicts' = BrainEvicts
    BY <2>1 DEF BrainCalls, BrainTxs, BrainEvicts
  <2>3. CASE Tree!BrainCall(c)
    BY <2>1, <2>2, <2>3 DEF TextInv, OldDescs, OnItsWay, Old
  <2>4. CASE ~Tree!BrainCall(c)
    <3>1. BrainCalls' = BrainCalls
      BY <2>2, <2>4 DEF BrainCalls
    <3>2. \A x \in BrainTxs : x.call \in calls => x.call \in calls'
      BY <2>1, <2>4 DEF BrainTxs
    <3> QED
      BY <2>1, <2>2, <3>1, <3>2, TextKept DEF TextInv
  <2> QED
    BY <2>3, <2>4
<1>3. ASSUME NEW x \in txs, Tree!Check(x) PROVE TextInv'
  <2>1. UNCHANGED <<desc, cached, cachedDesc, fetch, dialog, text, typed, timer, overlapped, memo, late, evicting>>
    BY <1>3 DEF Tree!Check, Tree!Backend, Tree!Cache, Tree!Page
  <2>2. ~Tree!BrainCall(x.call)
    BY <1>3 DEF Tree!Check, Tree!BrainCall, Tree!Creates
  <2>3. BrainCalls' = BrainCalls /\ BrainTxs' = BrainTxs
    <3>1. CASE unique[x.call.type] = 0
      <4>1. calls' = calls /\ txs' = (txs \ {x}) \cup {[x EXCEPT !.checked = TRUE]}
        BY <1>3, <3>1 DEF Tree!Check
      <4>2. [x EXCEPT !.checked = TRUE].call = x.call
        OBVIOUS
      <4>3. BrainTxs' = BrainTxs
        BY <2>2, <4>1, <4>2 DEF BrainTxs
      <4> QED
        BY <4>1, <4>3 DEF BrainCalls
    <3>2. CASE unique[x.call.type] # 0
      <4>1. Settled(x, "refused")
        BY <1>3, <3>2 DEF Tree!Check, Settled
      <4> QED
        BY <2>2, <4>1, OthersSettle
    <3> QED
      BY <3>1, <3>2
  <2>4. \A y \in BrainTxs : y.call \in calls => y.call \in calls'
    BY <2>3 DEF BrainCalls, BrainTxs
  <2>5. BrainEvicts' = BrainEvicts
    BY <2>1 DEF BrainEvicts
  <2> QED
    BY <2>1, <2>3, <2>4, <2>5, TextKept DEF TextInv
<1>4. ASSUME NEW x \in txs, Tree!Commit(x) PROVE TextInv'
  BY <1>4, TextCommits
<1>5. ASSUME NEW c \in calls, Tree!Retry(c) PROVE TextInv'
  <2> DEFINE d == [c EXCEPT !.tries = 2]
             tx == [call |-> c, try |-> 2, checked |-> FALSE]
  <2>1. /\ calls' = (calls \ {c}) \cup {d} /\ txs' = txs \cup {tx}
        /\ overlapped' = (overlapped \/ Tree!BrainCall(c))
        /\ UNCHANGED <<desc, cached, cachedDesc, fetch, dialog, text, typed, timer, memo, late, evicting>>
    BY <1>5 DEF Tree!Retry, Tree!Backend, Tree!Cache, Tree!Page
  <2>2. d.mode = c.mode /\ d.desc = c.desc /\ tx.call = c
    BY TriesKeepsForm DEF RequestsInv
  <2> HIDE DEF d, tx
  <2>e. BrainEvicts' = BrainEvicts
    BY <2>1 DEF BrainEvicts
  <2>3. CASE Tree!BrainCall(c)
    <3>1. BrainCalls' = (BrainCalls \ {c}) \cup {d} /\ BrainTxs' = BrainTxs \cup {tx} /\ c \in BrainCalls
      BY <2>1, <2>2, <2>3 DEF BrainCalls, BrainTxs, Tree!BrainCall
    <3> QED
      BY <2>1, <2>2, <2>3, <3>1 DEF TextInv, OldDescs, OnItsWay, Old
  <2>4. CASE ~Tree!BrainCall(c)
    <3>1. BrainCalls' = BrainCalls /\ BrainTxs' = BrainTxs
      BY <2>1, <2>2, <2>4 DEF BrainCalls, BrainTxs, Tree!BrainCall
    <3>2. \A x \in BrainTxs : x.call \in calls => x.call \in calls'
      BY <2>1, <2>4 DEF BrainTxs
    <3> QED
      BY <2>1, <2>e, <3>1, <3>2, TextKept DEF TextInv
  <2> QED
    BY <2>3, <2>4
<1>6. CASE Tree!saveDescription
  <2>1. /\ timer # -1 /\ timer' = -1 /\ Tree!Send("describe", "knowledge", timer)
        /\ UNCHANGED <<desc, cached, cachedDesc, fetch, dialog, text, typed, memo, late, evicting>>
    BY <1>6 DEF Tree!saveDescription, Tree!Backend, Tree!Cache, Tree!NoTimer
  <2>2. timer \in Nat /\ cached[Brains] # -1
    BY <2>1 DEF RequestsInv, TextInv
  <2> QED
    BY <2>1, <2>2, BrainSends
<1>7. CASE Tree!handleDialogSubmit
  <2>1. /\ \E t : Tree!Send(dialog.mode, t, 0)
        /\ UNCHANGED <<desc, cached, cachedDesc, fetch, dialog, text, typed, timer, memo, late, evicting>>
    BY <1>7 DEF Tree!handleDialogSubmit, Tree!Backend, Tree!Cache, Tree!Page
  <2>3. dialog.mode \in {"rename-brain", "describe"} => cached[Brains] # -1
    BY DEF TextInv
  <2> QED
    BY <2>1, <2>3, BrainSends
<1>8. ASSUME \/ \E m \in Tree!AllModes : Tree!onDelete(m)
             \/ \E t \in Types : Tree!handleSubmit(t)
      PROVE  TextInv'
  <2>1. /\ \E m \in {"delete-cluster", "delete-thought", "page-cluster"} : \E t : Tree!Send(m, t, 0)
        /\ UNCHANGED <<desc, cached, cachedDesc, fetch, dialog, text, typed, timer, memo, late, evicting>>
    BY <1>8 DEF Tree!onDelete, Tree!handleSubmit, Tree!Backend, Tree!Cache, Tree!Page
  <2> QED
    BY <2>1, BrainSends
<1>9. ASSUME NEW key \in Tree!Keys, Tree!Read(key) \/ Tree!Load(key) \/ Tree!Loaded(key) \/ Tree!Fetched(key)
      PROVE  TextInv'
  BY <1>9, TextRead, TextLoad, TextLoaded, TextFetched
<1>13. ASSUME NEW load \in late, Tree!LoadedLate(load) PROVE TextInv'
  BY <1>13, TextLoadedLate
<1>14. ASSUME NEW x \in evicting, Tree!Evict(x) PROVE TextInv'
  BY <1>14, TextEvicts
<1>10. CASE Tree!handleDescriptionChange
  <2>1. /\ typed' = typed + 1 /\ timer' = typed + 1 /\ cached[Brains] # -1
        /\ UNCHANGED <<desc, cached, cachedDesc, fetch, dialog, calls, txs, overlapped, memo, late, evicting>>
    BY <1>10 DEF Tree!handleDescriptionChange, Tree!Backend, Tree!Cache, Tree!NotLoaded, Brains
  <2>2. BrainCalls' = BrainCalls /\ BrainTxs' = BrainTxs /\ BrainEvicts' = BrainEvicts /\ typed \in Nat
    BY <2>1 DEF BrainCalls, BrainTxs, BrainEvicts, RequestsInv
  <2>3. \A v : Old(v) => Old(v)'
    BY <2>1, <2>2 DEF Old
  <2>4. (OneAtATime => OneAtATime') /\ (KeptDesc => KeptDesc')
    BY <2>1, <2>2 DEF OneAtATime, KeptDesc, OnItsWay
  <2>6. OldDescs'
    BY <2>1, <2>2, <2>3 DEF TextInv, OldDescs, OnItsWay
  <2>5. TextArrives'
    BY <2>1, <2>2 DEF TextArrives
  <2> QED
    BY <2>1, <2>2, <2>4, <2>5, <2>6 DEF TextInv
<1>11. ASSUME \/ UNCHANGED treeVars
              \/ \E t \in Types : Tree!onTypeChange(t)
              \/ Tree!CloseDialog \/ Tree!OpenCluster \/ Tree!CancelCluster
       PROVE  TextInv'
  <2>1. UNCHANGED <<desc, cached, cachedDesc, fetch, calls, txs, text, typed, timer, overlapped, memo, late, evicting>>
    BY <1>11 DEF treeVars, Tree!onTypeChange, Tree!CloseDialog, Tree!OpenCluster, Tree!CancelCluster,
                 Tree!Backend, Tree!Cache
  <2>2. dialog'.mode \in {dialog.mode, "create-brain"}
    <3>1. \/ dialog' = dialog \/ dialog' = Tree!Closed
          \/ \E t \in Types : dialog' = [dialog EXCEPT !.type = t]
      BY <1>11 DEF treeVars, Tree!onTypeChange, Tree!CloseDialog, Tree!OpenCluster, Tree!CancelCluster
    <3>2. Tree!Closed.mode = "create-brain"
      BY DEF Tree!Closed
    <3>3. \A t : [dialog EXCEPT !.type = t].mode = dialog.mode
      OBVIOUS
    <3> QED
      BY <3>1, <3>2, <3>3
  <2>3. BrainCalls' = BrainCalls /\ BrainTxs' = BrainTxs /\ BrainEvicts' = BrainEvicts
    BY <2>1 DEF BrainCalls, BrainTxs, BrainEvicts
  <2> QED
    BY <2>1, <2>2, <2>3, TextKept DEF TextInv
<1>12. ASSUME NEW m \in Tree!AllModes, Tree!handleCreate(m) PROVE TextInv'
  <2>1. UNCHANGED <<desc, cached, cachedDesc, fetch, calls, txs, text, typed, timer, overlapped, memo, late, evicting>>
    BY <1>12 DEF Tree!handleCreate, Tree!Backend, Tree!Cache
  <2>2. dialog'.mode = m
    BY <1>12 DEF Tree!handleCreate
  <2>3. m = "rename-brain" => cached[Brains] # -1
    <3>1. Tree!keyOf("rename-brain") = Brains
      BY DEF Tree!keyOf, Brains
    <3> QED
      BY <1>12, <3>1 DEF Tree!handleCreate, Tree!Offered, Tree!OfferedAbove, Tree!OfferedOnBrain,
         Tree!OfferedOnCluster, Tree!OfferedByThoughts, Tree!NotLoaded
  <2>4. BrainCalls' = BrainCalls /\ BrainTxs' = BrainTxs /\ BrainEvicts' = BrainEvicts
    BY <2>1 DEF BrainCalls, BrainTxs, BrainEvicts
  <2>5. dialog'.mode # "describe"
    BY <2>2 DEF Tree!AllModes
  <2> QED
    BY <2>1, <2>2, <2>3, <2>4, <2>5, TextKept DEF TextInv
<1> QED
  BY <1>1, <1>2, <1>3, <1>4, <1>5, <1>6, <1>7, <1>8, <1>9, <1>10, <1>11, <1>12, <1>13, <1>14 DEF Tree!Next, Tree!Runs

\* Renames and saves of the brain that wait for each other's fetch leave the text area with the
\* description that is stored, also when a rename erased it, and whatever else is created meanwhile, unless
\* the backend loaded the list before one of them and keeps it past the clearing.
THEOREM DescriptionIsShown == Spec => []TextIsSaved
<1>1. Init => RequestsInv /\ EvictsInv /\ ListsInv /\ TextInv
  BY RequestsAtFirst, EvictsAtFirst, ListsAtFirst, TextAtFirst DEF Init
<1>2. RequestsInv /\ EvictsInv /\ ListsInv /\ TextInv /\ [Next]_vars
        => (RequestsInv /\ EvictsInv /\ ListsInv /\ TextInv)'
  BY RequestsStep, EvictsStep, ListsStep, TextStep, PageSteps
<1>3. TextInv => TextIsSaved
  <2> SUFFICES ASSUME TextInv, fetch["brains"] = Tree!Idle, ~overlapped, timer = -1,
                      \A c \in calls : ~Tree!BrainCall(c)
               PROVE  text = desc
    BY DEF TextIsSaved, Tree!TextIsSaved, Tree!NoTimer
  <2>1. BrainCalls = {} /\ OneAtATime /\ TextArrives
    BY DEF TextInv, BrainCalls
  <2>2. fetch[Brains] = Tree!Idle /\ fetch[Brains].at = "idle" /\ fetch[Brains] # Tree!Asked
    BY DEF Brains, Tree!Idle, Tree!Asked
  <2>3. cachedDesc = desc
    BY <2>1, <2>2 DEF OneAtATime
  <2> QED
    BY <2>1, <2>2, <2>3 DEF TextArrives
<1> QED
  BY <1>1, <1>2, <1>3, PTL DEF Spec

-----------------------------------------------------------------------------
(* The page of a research cluster.                                         *)

Tasks == [kind: {"none", "generate", "update", "other"}, topic: Topics \cup {"none"},
          at: {"none", "queued", "started", "calling", "saving", "emitting"},
          to: {"none", "ready", "error"}, same: BOOLEAN]

RequestSet == [for: Research!Kinds \cup {"none"}, topics: SUBSET Topics,
               at: {"none", "sent", "open", "asking", "submitting", "ok", "refused", "broken"},
               read: Research!Statuses \cup {"none"}, try: {1, 2}]

Typed ==
    /\ row \in [Topics -> Research!Statuses \cup {"none"}]
    /\ job \in [Jobs -> Tasks] /\ waiting \in Seq(Jobs)
    /\ req \in [Requests -> RequestSet]

\* What is saved ends the status; what a request for a topic writes depends on what it is for.
WellFormed ==
    /\ \A j \in Jobs : job[j].at = "saving" => job[j].to \in {"ready", "error"}
    /\ \A q \in Requests : req[q].at # "none" => req[q].for \in Research!Kinds

OwedInv == Typed /\ WellFormed /\ Research!StatusOwed

LEMMA OwedInvInit ==
    ASSUME Research!Init
    PROVE  OwedInv
BY DEF Research!Init, OwedInv, Typed, WellFormed, Research!StatusOwed, Tasks, RequestSet, Research!NoJob, Research!NoRequest, Research!Statuses, Research!Busy, Research!Absent, Research!Kinds

\* The pool takes a task into a free place and leaves the others alone.
LEMMA Executed ==
    ASSUME Typed, NEW what \in {"generate", "update", "other"}, NEW t \in Topics \cup {"none"}, Research!execute(what, t)
    PROVE  \E k \in Jobs, at \in {"queued", "started"} :
             /\ job[k].at = "none"
             /\ job' = [job EXCEPT ![k] = [kind |-> what, topic |-> t, at |-> at, to |-> "none", same |-> FALSE]]
             /\ waiting' \in Seq(Jobs)
<1> DEFINE free == {j \in Jobs : job[j].at = "none"}
           k == CHOOSE i \in free : TRUE
           runs == threads < CoreSize \/ Len(waiting) >= QueueCapacity
<1>1. free # {}
  BY DEF Research!execute
<1>2. k \in Jobs /\ job[k].at = "none"
  BY <1>1
<1>3. job' = [job EXCEPT ![k] = [kind |-> what, topic |-> t, at |-> IF runs THEN "started" ELSE "queued",
                                 to |-> "none", same |-> FALSE]]
  BY DEF Research!execute
<1>4. waiting' = IF runs THEN waiting ELSE Append(waiting, k)
  BY DEF Research!execute
<1>5. waiting' \in Seq(Jobs)
  BY <1>2, <1>4 DEF Typed
<1> HIDE DEF k
<1> QED
  BY <1>2, <1>3, <1>5

\* Handing a task over keeps every task that is coming, and adds its own.
LEMMA ExecutedKeeps ==
    ASSUME Typed, WellFormed, NEW what \in {"generate", "update", "other"}, NEW t \in Topics \cup {"none"},
           Research!execute(what, t)
    PROVE  /\ job' \in [Jobs -> Tasks] /\ waiting' \in Seq(Jobs)
           /\ \A j \in Jobs : job'[j].at = "saving" => job'[j].to \in {"ready", "error"}
           /\ \A j \in Jobs : Research!WillWrite(job[j]) => job'[j] = job[j]
           /\ what # "other" => \E j \in Jobs : job'[j].topic = t /\ Research!WillWrite(job'[j])
<1>1. PICK k \in Jobs, at \in {"queued", "started"} :
        /\ job[k].at = "none"
        /\ job' = [job EXCEPT ![k] = [kind |-> what, topic |-> t, at |-> at, to |-> "none", same |-> FALSE]]
        /\ waiting' \in Seq(Jobs)
  BY Executed
<1>2. job' \in [Jobs -> Tasks]
  BY <1>1 DEF Typed, Tasks
<1>3. \A j \in Jobs : Research!WillWrite(job[j]) => job'[j] = job[j]
  BY <1>1 DEF Typed, Tasks, Research!WillWrite
<1>4. \A j \in Jobs : job'[j].at = "saving" => job'[j].to \in {"ready", "error"}
  BY <1>1 DEF Typed, Tasks, WellFormed
<1>5. job'[k].topic = t /\ (what # "other" => Research!WillWrite(job'[k]))
  BY <1>1 DEF Typed, Tasks, Research!WillWrite
<1> QED
  BY <1>1, <1>2, <1>3, <1>4, <1>5

\* A step that makes the task at j a new one starts no busy status, and ends a task that would end one only
\* together with it.
Answers(j, new) ==
    \A t \in Topics : row'[t] \in Research!Busy =>
      /\ row'[t] = row[t]
      /\ t \in lost => t \in lost'
      /\ t = job[j].topic => t \in lost' \/ ~Research!WillWrite(job[j]) \/ (new.topic = t /\ Research!WillWrite(new))

\* What a step of one task leaves of the others.
LEMMA TaskChanges ==
    ASSUME OwedInv, NEW j \in Jobs, NEW new \in Tasks, job' = [job EXCEPT ![j] = new],
           new.at = "saving" => new.to \in {"ready", "error"}, UNCHANGED <<req, waiting>>,
           row' \in [Topics -> Research!Statuses \cup {"none"}],
           Answers(j, new)
    PROVE  OwedInv'
<1>1. Typed' /\ WellFormed'
  BY DEF OwedInv, Typed, WellFormed
<1>2. ASSUME NEW t \in Topics, row'[t] \in Research!Busy
      PROVE  Research!Coming(t)' \/ t \in lost'
  <2>1. row[t] \in Research!Busy /\ (Research!Coming(t) \/ t \in lost')
    BY <1>2 DEF OwedInv, Research!StatusOwed, Answers
  <2>2. ASSUME NEW q \in Requests, req[q].at = "submitting" /\ t \in req[q].topics
        PROVE  Research!Coming(t)'
    BY <2>2 DEF Research!Coming
  <2>3. ASSUME NEW i \in Jobs, job[i].topic = t /\ Research!WillWrite(job[i])
        PROVE  Research!Coming(t)' \/ t \in lost'
    <3>1. CASE i = j
      <4>1. t \in lost' \/ (new.topic = t /\ Research!WillWrite(new))
        BY <1>2, <2>3, <3>1 DEF Answers
      <4>2. job'[j] = new
        BY DEF OwedInv, Typed
      <4> QED
        BY <4>1, <4>2 DEF Research!Coming, Research!WillWrite
    <3>2. CASE i # j
      <4>1. job'[i] = job[i]
        BY <3>2 DEF OwedInv, Typed
      <4> QED
        BY <2>3, <4>1 DEF Research!Coming, Research!WillWrite
    <3> QED
      BY <3>1, <3>2
  <2> QED
    BY <2>1, <2>2, <2>3 DEF Research!Coming
<1> QED
  BY <1>1, <1>2 DEF OwedInv, Research!StatusOwed

\* A step that makes the request at q a new one leaves a topic busy only when the request hands its task over or it
\* was busy before and the request had not its task to hand over.
Hands(q, new) ==
    \A t \in Topics : row'[t] \in Research!Busy =>
      \/ t \in lost'
      \/ new.at = "submitting" /\ t \in new.topics
      \/ /\ row[t] \in Research!Busy /\ (t \in lost => t \in lost')
         /\ req[q].at # "submitting" \/ t \notin req[q].topics

\* What a step of one request leaves of the others and of the pool.
LEMMA RequestChanges ==
    ASSUME OwedInv, NEW q \in Requests, NEW new \in RequestSet, req' = [req EXCEPT ![q] = new],
           new.at # "none" => new.for \in Research!Kinds, UNCHANGED <<job, waiting>>,
           row' \in [Topics -> Research!Statuses \cup {"none"}],
           Hands(q, new)
    PROVE  OwedInv'
<1>1. Typed' /\ WellFormed'
  BY DEF OwedInv, Typed, WellFormed
<1>2. req'[q] = new /\ \A p \in Requests \ {q} : req'[p] = req[p]
  BY DEF OwedInv, Typed
<1>3. ASSUME NEW t \in Topics, row'[t] \in Research!Busy
      PROVE  Research!Coming(t)' \/ t \in lost'
  <2>1. CASE new.at = "submitting" /\ t \in new.topics
    BY <1>2, <2>1 DEF Research!Coming
  <2>2. CASE /\ row[t] \in Research!Busy /\ (t \in lost => t \in lost')
             /\ req[q].at # "submitting" \/ t \notin req[q].topics
    <3>1. Research!Coming(t) \/ t \in lost
      BY <2>2 DEF OwedInv, Research!StatusOwed
    <3>2. Research!Coming(t) => Research!Coming(t)'
      BY <1>2, <2>2 DEF Research!Coming, Research!WillWrite
    <3> QED
      BY <2>2, <3>1, <3>2
  <2> QED
    BY <1>3, <2>1, <2>2 DEF Hands
<1> QED
  BY <1>1, <1>3 DEF OwedInv, Research!StatusOwed

-----------------------------------------------------------------------------
(* The tasks.                                                              *)

LEMMA TasksKeep ==
    ASSUME OwedInv, NEW j \in Jobs,
           \/ Research!OtherEnds(j) \/ Research!ReadTopic(j) \/ Research!Save(j) \/ Research!SaveFails(j) \/ Research!emit(j)
           \/ \E to \in {"ready", "error"} : Research!AiAnswers(j, to)
    PROVE  OwedInv'
<1> USE DEF Research!Rows, Research!Pool, Research!Page, Research!Fault, Research!Untold
<1>0. job[j] \in Tasks /\ row \in [Topics -> Research!Statuses \cup {"none"}] /\ Research!NoJob \in Tasks
  BY DEF OwedInv, Typed, Tasks, Research!NoJob
<1>1. CASE Research!OtherEnds(j)
  <2>1. job' = [job EXCEPT ![j] = Research!NoJob] /\ UNCHANGED <<row, req, waiting, lost>> /\ ~Research!WillWrite(job[j])
    BY <1>1 DEF Research!OtherEnds, Research!WillWrite
  <2> QED
    BY <1>0, <2>1, TaskChanges DEF Research!NoJob, Answers
<1>2. CASE Research!ReadTopic(j)
  <2> DEFINE new == IF row[job[j].topic] = "gone" THEN Research!NoJob ELSE [job[j] EXCEPT !.at = "calling"]
  <2>1. job' = [job EXCEPT ![j] = new] /\ UNCHANGED <<row, req, waiting, lost>>
    BY <1>2 DEF Research!ReadTopic
  <2>2. new \in Tasks /\ new.at # "saving"
    BY <1>0 DEF Tasks, Research!NoJob
  <2>3. row[job[j].topic] # "gone" => new.topic = job[j].topic /\ Research!WillWrite(new)
    BY <1>0, <1>2 DEF Research!ReadTopic, Tasks, Research!WillWrite
  <2> QED
    BY <1>0, <2>1, <2>2, <2>3, TaskChanges DEF Research!Busy, Answers
<1>3. CASE Research!Save(j)
  <2>1. job[j].at = "saving" /\ job[j].to \in {"ready", "error"}
    BY <1>3 DEF Research!Save, OwedInv, WellFormed
  <2>2. \E new \in Tasks : new.at # "saving" /\ job' = [job EXCEPT ![j] = new]
    <3>1. Research!NoJob.at # "saving" /\ [job[j] EXCEPT !.at = "emitting"] \in Tasks
      BY <1>0 DEF Research!NoJob, Tasks
    <3>2. [job[j] EXCEPT !.at = "emitting"].at # "saving"
      BY <1>0 DEF Tasks
    <3>3. job' = [job EXCEPT ![j] = Research!NoJob] \/ job' = [job EXCEPT ![j] = [job[j] EXCEPT !.at = "emitting"]]
      BY <1>3 DEF Research!Save
    <3> QED
      BY <1>0, <3>1, <3>2, <3>3
  <2>3. PICK new \in Tasks : new.at # "saving" /\ job' = [job EXCEPT ![j] = new]
    BY <2>2
  <2>4. UNCHANGED <<req, waiting>>
    BY <1>3 DEF Research!Save
  <2>5. CASE UNCHANGED <<row, lost>> /\ job[j].same
    <3>1. ~Research!WillWrite(job[j])
      BY <1>0, <2>1, <2>5 DEF Tasks, Research!WillWrite
    <3>2. Answers(j, new)
      BY <2>5, <3>1 DEF Answers
    <3> QED
      BY <1>0, <2>3, <2>4, <2>5, <3>2, TaskChanges
  <2>6. CASE UNCHANGED <<row, lost>> /\ row[job[j].topic] = "gone"
    <3>1. Answers(j, new)
      BY <2>6 DEF Answers, Research!Busy
    <3> QED
      BY <1>0, <2>3, <2>4, <2>6, <3>1, TaskChanges
  <2>7. CASE row' = [row EXCEPT ![job[j].topic] = job[j].to] /\ lost' = lost \ {job[j].topic}
    <3>1. row' \in [Topics -> Research!Statuses \cup {"none"}]
      BY <1>0, <2>1, <2>7 DEF Research!Statuses
    <3>2. Answers(j, new)
      BY <1>0, <2>1, <2>7 DEF Answers, Research!Busy
    <3> QED
      BY <2>3, <2>4, <3>1, <3>2, TaskChanges
  <2> QED
    BY <1>3, <2>5, <2>6, <2>7 DEF Research!Save
<1>4. CASE Research!SaveFails(j)
  <2>1. job' = [job EXCEPT ![j] = Research!NoJob] /\ UNCHANGED <<row, req, waiting>> /\ lost' = lost \cup {job[j].topic}
    BY <1>4 DEF Research!SaveFails
  <2> QED
    BY <1>0, <2>1, TaskChanges DEF Research!NoJob, Answers
<1>5. CASE Research!emit(j)
  <2>1. job' = [job EXCEPT ![j] = Research!NoJob] /\ UNCHANGED <<row, req, waiting, lost>> /\ ~Research!WillWrite(job[j])
    BY <1>5 DEF Research!emit, Research!WillWrite
  <2> QED
    BY <1>0, <2>1, TaskChanges DEF Research!NoJob, Answers
<1>6. ASSUME NEW to \in {"ready", "error"}, Research!AiAnswers(j, to)
      PROVE  OwedInv'
  <2> DEFINE same == row[job[j].topic] = to
             new == IF row[job[j].topic] = "gone" THEN [job[j] EXCEPT !.at = "emitting"]
                    ELSE [job[j] EXCEPT !.at = "saving", !.to = to, !.same = same]
  <2>1. job' = [job EXCEPT ![j] = new] /\ UNCHANGED <<row, req, waiting, lost>>
    BY <1>6 DEF Research!AiAnswers
  <2>2. same \in BOOLEAN
    OBVIOUS
  <2>3. new \in Tasks /\ (new.at = "saving" => new.to \in {"ready", "error"})
    <3> HIDE DEF same
    <3> QED
      BY <1>0, <2>2 DEF Tasks
  <2>4. row[job[j].topic] \in Research!Busy /\ Research!WillWrite(job[j]) => new.topic = job[j].topic /\ Research!WillWrite(new)
    <3>1. row[job[j].topic] \in Research!Busy => ~same
      BY DEF Research!Busy
    <3>2. row[job[j].topic] \in Research!Busy => new = [job[j] EXCEPT !.at = "saving", !.to = to, !.same = same]
      BY DEF Research!Busy
    <3> HIDE DEF same, new
    <3> QED
      BY <1>0, <3>1, <3>2 DEF Tasks, Research!WillWrite
  <2> HIDE DEF new, same
  <2> QED
    BY <1>0, <2>1, <2>3, <2>4, TaskChanges DEF Answers
<1> QED
  BY <1>1, <1>2, <1>3, <1>4, <1>5, <1>6

-----------------------------------------------------------------------------
(* The requests.                                                           *)

LEMMA BeginKeeps ==
    ASSUME OwedInv, NEW q \in Requests, Research!Begin(q)
    PROVE  OwedInv'
<1>1. req[q] \in RequestSet /\ req[q].at = "sent" /\ req[q].for \in Research!Kinds
  BY DEF Research!Begin, OwedInv, Typed, WellFormed
<1>2. UNCHANGED <<row, job, waiting, lost>> /\ row \in [Topics -> Research!Statuses \cup {"none"}]
  BY DEF Research!Begin, Research!Rows, Research!Pool, OwedInv, Typed
<1>3. \E new \in RequestSet : /\ req' = [req EXCEPT ![q] = new]
                              /\ new.for = req[q].for
  <2> DEFINE ready == {t \in Topics : row[t] = "ready"}
  <2>1. CASE req[q].for = "updateAll"
    <3> DEFINE new == [req[q] EXCEPT !.topics = ready, !.at = IF ready = {} THEN "ok" ELSE "open"]
    <3>1. req' = [req EXCEPT ![q] = new]
      BY <2>1 DEF Research!Begin, Research!Put
    <3>2. ready \in SUBSET Topics
      OBVIOUS
    <3> HIDE DEF ready
    <3>3. new \in RequestSet /\ new.for = req[q].for
      BY <1>1, <3>2 DEF RequestSet
    <3> QED
      BY <3>1, <3>3
  <2>2. CASE req[q].for = "create"
    <3> DEFINE new == [req[q] EXCEPT !.at = "open"]
    <3>1. req' = [req EXCEPT ![q] = new]
      BY <2>2 DEF Research!Begin, Research!Put
    <3>2. new \in RequestSet /\ new.for = req[q].for
      BY <1>1 DEF RequestSet
    <3> QED
      BY <3>1, <3>2
  <2>3. CASE req[q].for \in {"update", "delete", "expand"}
    <3>1. PICK t \in req[q].topics :
            req' = [req EXCEPT ![q] = [req[q] EXCEPT
                      !.at = IF row[t] = "gone" THEN "refused" ELSE IF req[q].for = "expand" THEN "asking" ELSE "open",
                      !.read = IF req[q].for = "update" THEN row[t] ELSE req[q].read]]
      BY <2>3 DEF Research!Begin, Research!Put
    <3> DEFINE at == IF row[t] = "gone" THEN "refused" ELSE IF req[q].for = "expand" THEN "asking" ELSE "open"
               read == IF req[q].for = "update" THEN row[t] ELSE req[q].read
               new == [req[q] EXCEPT !.at = at, !.read = read]
    <3>2. at \in {"refused", "asking", "open"} /\ read \in Research!Statuses \cup {"none"}
      BY <1>1, <1>2 DEF RequestSet
    <3>3. req' = [req EXCEPT ![q] = new]
      BY <3>1
    <3> HIDE DEF at, read
    <3>4. new \in RequestSet /\ new.for = req[q].for
      BY <1>1, <3>2 DEF RequestSet
    <3> QED
      BY <3>3, <3>4
  <2> QED
    BY <1>1, <2>1, <2>2, <2>3 DEF Research!Kinds
<1>4. PICK new \in RequestSet : req' = [req EXCEPT ![q] = new] /\ new.for = req[q].for
  BY <1>3
<1>5. Hands(q, new)
  BY <1>1, <1>2 DEF Hands
<1> QED
  BY <1>1, <1>2, <1>4, <1>5, RequestChanges

\* A request that only moves on, without being one that hands tasks over.
LEMMA MovesOn ==
    ASSUME OwedInv, NEW q \in Requests, req[q].at # "submitting", NEW new \in RequestSet,
           req' = [req EXCEPT ![q] = new], new.at # "none" => new.for \in Research!Kinds,
           UNCHANGED <<row, job, waiting, lost>>
    PROVE  OwedInv'
<1>1. Hands(q, new) /\ row' \in [Topics -> Research!Statuses \cup {"none"}]
  BY DEF Hands, OwedInv, Typed
<1> QED
  BY <1>1, RequestChanges

LEMMA ExpandedKeeps ==
    ASSUME OwedInv, NEW q \in Requests, NEW yes \in BOOLEAN, Research!Expanded(q, yes)
    PROVE  OwedInv'
<1>1. req[q] \in RequestSet /\ req[q].at = "asking" /\ req[q].for \in Research!Kinds
  BY DEF Research!Expanded, OwedInv, Typed, WellFormed
<1>2. UNCHANGED <<row, job, waiting, lost>> /\ row \in [Topics -> Research!Statuses \cup {"none"}]
  BY DEF Research!Expanded, Research!Rows, Research!Pool, OwedInv, Typed
<1>3. PICK t \in req[q].topics : \/ req' = [req EXCEPT ![q] = [req[q] EXCEPT !.at = "open", !.read = row[t]]]
                                \/ req' = [req EXCEPT ![q] = [req[q] EXCEPT !.at = "refused"]]
  BY DEF Research!Expanded, Research!Put, Research!Ends
<1>4. row[t] \in Research!Statuses \cup {"none"}
  BY <1>1, <1>2 DEF RequestSet
<1>5. /\ [req[q] EXCEPT !.at = "open", !.read = row[t]] \in RequestSet
      /\ [req[q] EXCEPT !.at = "open", !.read = row[t]].for = req[q].for
      /\ [req[q] EXCEPT !.at = "refused"] \in RequestSet
      /\ [req[q] EXCEPT !.at = "refused"].for = req[q].for
  BY <1>1, <1>4 DEF RequestSet
<1> QED
  BY <1>1, <1>2, <1>3, <1>5, MovesOn

LEMMA CommitKeeps ==
    ASSUME OwedInv, NEW q \in Requests, Research!Commit(q)
    PROVE  OwedInv'
<1>1. req[q] \in RequestSet /\ req[q].at = "open" /\ req[q].for \in Research!Kinds
  BY DEF Research!Commit, OwedInv, Typed, WellFormed
<1>2. UNCHANGED <<job, waiting>> /\ row \in [Topics -> Research!Statuses \cup {"none"}]
  BY DEF Research!Commit, Research!Pool, OwedInv, Typed
<1>3. ASSUME NEW at \in {"broken", "ok", "submitting"}
      PROVE  /\ [req[q] EXCEPT !.at = at] \in RequestSet
             /\ [req[q] EXCEPT !.at = at].for = req[q].for
             /\ [req[q] EXCEPT !.at = at].at = at
             /\ [req[q] EXCEPT !.at = at].topics = req[q].topics
  BY <1>1 DEF RequestSet
<1>4. CASE Research!Ends(q, "broken") /\ UNCHANGED <<row, lost>>
  BY <1>1, <1>2, <1>3, <1>4, MovesOn DEF Research!Ends, Research!Put
<1>5. CASE /\ row' = [t \in Topics |-> IF t \in req[q].topics /\ ~Research!Unwritten(req[q]) THEN Research!Written(req[q], t) ELSE row[t]]
           /\ lost' = IF req[q].for = "expand" THEN lost \cup {t \in req[q].topics : Research!WritesBack(req[q], t)}
                      ELSE lost \ req[q].topics
           /\ Research!Ends(q, IF req[q].for \in {"delete", "expand"} THEN "ok" ELSE "submitting")
  <2> DEFINE at == IF req[q].for \in {"delete", "expand"} THEN "ok" ELSE "submitting"
             new == [req[q] EXCEPT !.at = at]
  <2>1. req' = [req EXCEPT ![q] = new]
    BY <1>5 DEF Research!Ends, Research!Put
  <2>2. /\ new \in RequestSet /\ new.for = req[q].for /\ new.topics = req[q].topics
        /\ new.at = IF req[q].for \in {"delete", "expand"} THEN "ok" ELSE "submitting"
    BY <1>3
  <2>3. \A t \in Topics : Research!Written(req[q], t) \in Research!Statuses \cup {"none"}
    BY <1>1 DEF Research!Written, RequestSet, Research!Kinds, Research!Statuses, Research!Busy, Research!Absent
  <2>4. row' \in [Topics -> Research!Statuses \cup {"none"}]
    BY <1>2, <1>5, <2>3
  <2> HIDE DEF at, new
  <2>5. Hands(q, new)
    <3>1. CASE req[q].for = "expand"
      <4>1. \A t \in Topics : row'[t] \in Research!Busy => row[t] \in Research!Busy \/ t \in lost'
        BY <1>5, <3>1 DEF Research!Written, Research!WritesBack
      <4>2. \A t \in Topics : t \in lost => t \in lost'
        BY <1>5, <3>1
      <4> QED
        BY <1>1, <4>1, <4>2 DEF Hands
    <3>2. CASE req[q].for = "delete"
      <4>1. \A t \in Topics : row'[t] \in Research!Busy => t \notin req[q].topics /\ row'[t] = row[t]
        BY <1>5, <3>2 DEF Research!Written, Research!Unwritten, Research!Busy
      <4> QED
        BY <1>1, <1>5, <3>2, <4>1 DEF Hands
    <3>3. CASE req[q].for \in {"create", "update", "updateAll"}
      <4>1. new.at = "submitting"
        BY <2>2, <3>3
      <4>2. \A t \in Topics : t \notin req[q].topics => row'[t] = row[t] /\ (t \in lost => t \in lost')
        BY <1>5, <3>3
      <4> QED
        BY <1>1, <2>2, <4>1, <4>2 DEF Hands
    <3> QED
      BY <1>1, <3>1, <3>2, <3>3 DEF Research!Kinds
  <2> QED
    BY <1>1, <1>2, <2>1, <2>2, <2>4, <2>5, RequestChanges
<1> QED
  BY <1>4, <1>5 DEF Research!Commit

LEMMA SubmitKeeps ==
    ASSUME OwedInv, NEW q \in Requests, NEW t \in Topics, Research!Submit(q, t)
    PROVE  OwedInv'
<1> DEFINE what == IF req[q].for = "create" THEN "generate" ELSE "update"
           new == [req[q] EXCEPT !.topics = req[q].topics \ {t},
                                 !.at = IF req[q].topics = {t} THEN "ok" ELSE req[q].at]
<1>1. req[q] \in RequestSet /\ req[q].at = "submitting" /\ req[q].for \in Research!Kinds
  BY DEF Research!Submit, OwedInv, Typed, WellFormed
<1>2. Research!execute(what, t) /\ req' = [req EXCEPT ![q] = new] /\ UNCHANGED <<row, lost>>
  BY DEF Research!Submit, Research!Put, Research!Rows
<1>3. what \in {"generate", "update"}
  OBVIOUS
<1>4. /\ new \in RequestSet /\ new.for = req[q].for /\ new.topics = req[q].topics \ {t}
      /\ req[q].topics # {t} => new.at = "submitting"
  BY <1>1 DEF RequestSet
<1> HIDE DEF what, new
<1>5. /\ job' \in [Jobs -> Tasks] /\ waiting' \in Seq(Jobs)
      /\ \A j \in Jobs : job'[j].at = "saving" => job'[j].to \in {"ready", "error"}
      /\ \A j \in Jobs : Research!WillWrite(job[j]) => job'[j] = job[j]
      /\ \E j \in Jobs : job'[j].topic = t /\ Research!WillWrite(job'[j])
  BY <1>2, <1>3, ExecutedKeeps DEF OwedInv
<1>6. Typed' /\ WellFormed'
  BY <1>1, <1>2, <1>4, <1>5 DEF OwedInv, Typed, WellFormed
<1>7. ASSUME NEW u \in Topics, Research!Coming(u)
      PROVE  Research!Coming(u)'
  <2>1. ASSUME NEW j \in Jobs, job[j].topic = u /\ Research!WillWrite(job[j])
        PROVE  Research!Coming(u)'
    BY <1>5, <2>1 DEF Research!Coming, Research!WillWrite
  <2>2. ASSUME NEW p \in Requests, req[p].at = "submitting" /\ u \in req[p].topics
        PROVE  Research!Coming(u)'
    <3>1. CASE p # q
      BY <1>2, <2>2, <3>1 DEF Research!Coming, OwedInv, Typed
    <3>2. CASE p = q /\ u = t
      BY <1>5, <3>2 DEF Research!Coming, Research!WillWrite
    <3>3. CASE p = q /\ u # t
      <4>1. req'[q] = new
        BY <1>2 DEF OwedInv, Typed
      <4>2. new.at = "submitting" /\ u \in new.topics
        BY <1>4, <2>2, <3>3
      <4> QED
        BY <4>1, <4>2 DEF Research!Coming
    <3> QED
      BY <3>1, <3>2, <3>3
  <2> QED
    BY <1>7, <2>1, <2>2 DEF Research!Coming
<1> QED
  BY <1>2, <1>6, <1>7 DEF OwedInv, Research!StatusOwed

LEMMA RejectedKeeps ==
    ASSUME OwedInv, NEW q \in Requests, Research!Rejected(q)
    PROVE  OwedInv'
<1> DEFINE new == [req[q] EXCEPT !.at = "broken"]
<1>1. req[q] \in RequestSet /\ req[q].for \in Research!Kinds
  BY DEF Research!Rejected, OwedInv, Typed, WellFormed
<1>2. new \in RequestSet /\ new.for = req[q].for
  BY <1>1 DEF RequestSet
<1>3. /\ req' = [req EXCEPT ![q] = new] /\ UNCHANGED <<row, job, waiting>> /\ lost' = lost \cup req[q].topics
      /\ row' \in [Topics -> Research!Statuses \cup {"none"}]
  BY DEF Research!Rejected, Research!Ends, Research!Put, Research!Rows, Research!Pool, OwedInv, Typed
<1> HIDE DEF new
<1>4. Hands(q, new)
  BY <1>3 DEF Hands
<1> QED
  BY <1>1, <1>2, <1>3, <1>4, RequestChanges

LEMMA PageMovesOn ==
    ASSUME OwedInv, NEW q \in Requests,
           \/ Research!Answered(q) \/ Research!Retry(q)
    PROVE  OwedInv'
<1>1. req[q] \in RequestSet /\ (req[q].at # "none" => req[q].for \in Research!Kinds)
  BY DEF OwedInv, Typed, WellFormed
<1>2. CASE Research!Answered(q)
  <2>1. /\ req' = [req EXCEPT ![q] = Research!NoRequest] /\ UNCHANGED <<row, job, waiting, lost>>
        /\ req[q].at # "submitting"
    BY <1>2 DEF Research!Answered, Research!Put, Research!Rows, Research!Pool
  <2>2. Research!NoRequest \in RequestSet /\ Research!NoRequest.at = "none"
    BY DEF Research!NoRequest, RequestSet
  <2> QED
    BY <2>1, <2>2, MovesOn
<1>3. CASE Research!Retry(q)
  <2>1. PICK those \in Research!Again(q) :
          req' = [req EXCEPT ![q] = [req[q] EXCEPT !.at = "sent", !.topics = those, !.read = "none", !.try = 2]]
    BY <1>3 DEF Research!Retry, Research!Put
  <2>2. those \in SUBSET Topics
    BY <1>1, <2>1 DEF Research!Again, Research!Unused, RequestSet
  <2>3. req[q].at = "broken" /\ UNCHANGED <<row, job, waiting, lost>>
    BY <1>3 DEF Research!Retry, Research!Rows, Research!Pool
  <2>4. /\ [req[q] EXCEPT !.at = "sent", !.topics = those, !.read = "none", !.try = 2] \in RequestSet
        /\ [req[q] EXCEPT !.at = "sent", !.topics = those, !.read = "none", !.try = 2].for = req[q].for
    BY <1>1, <2>2 DEF RequestSet
  <2> QED
    BY <1>1, <2>1, <2>3, <2>4, MovesOn
<1> QED
  BY <1>2, <1>3

LEMMA SendKeeps ==
    ASSUME OwedInv, NEW for \in Research!Kinds, NEW those \in SUBSET Topics, Research!Send(for, those)
    PROVE  OwedInv'
<1> DEFINE free == {p \in Requests : req[p].at = "none"}
           q == CHOOSE p \in free : TRUE
           new == [Research!NoRequest EXCEPT !.for = for, !.topics = those, !.at = "sent"]
<1>1. q \in Requests /\ req[q].at = "none"
  BY DEF Research!Send
<1>2. req' = [req EXCEPT ![q] = new] /\ UNCHANGED <<row, job, waiting, lost>>
  BY DEF Research!Send, Research!Rows, Research!Pool
<1>3. new \in RequestSet /\ new.for = for
  BY DEF Research!NoRequest, RequestSet
<1> HIDE DEF q, new
<1> QED
  BY <1>1, <1>2, <1>3, MovesOn

-----------------------------------------------------------------------------
(* The pool, the process and the page.                                     *)

LEMMA TakeKeeps ==
    ASSUME OwedInv, Research!Take
    PROVE  OwedInv'
<1>1. /\ job' = [job EXCEPT ![Head(waiting)].at = "started"] /\ waiting' = Tail(waiting)
      /\ waiting # <<>> /\ waiting \in Seq(Jobs) /\ UNCHANGED <<row, req, lost>>
  BY DEF Research!Take, Research!Rows, OwedInv, Typed
<1>2. Head(waiting) \in Jobs /\ waiting' \in Seq(Jobs)
  BY <1>1
<1>3. job \in [Jobs -> Tasks]
  BY DEF OwedInv, Typed
<1>4. \A j \in Jobs : \/ job'[j] = job[j]
                     \/ /\ job'[j] = [job[j] EXCEPT !.at = "started"]
  BY <1>1, <1>3
<1>5. \A j \in Jobs : /\ [job[j] EXCEPT !.at = "started"] \in Tasks
                     /\ [job[j] EXCEPT !.at = "started"].at = "started"
                     /\ [job[j] EXCEPT !.at = "started"].topic = job[j].topic
                     /\ [job[j] EXCEPT !.at = "started"].kind = job[j].kind
  BY <1>3 DEF Tasks
<1>6. job' \in [Jobs -> Tasks]
  BY <1>1, <1>2, <1>3, <1>5
<1>7. \A j \in Jobs : job'[j].at = "saving" => job'[j] = job[j]
  BY <1>4, <1>5
<1>8. Typed' /\ WellFormed'
  BY <1>1, <1>2, <1>6, <1>7 DEF OwedInv, Typed, WellFormed
<1>9. \A j \in Jobs : Research!WillWrite(job[j]) => job'[j].topic = job[j].topic /\ Research!WillWrite(job'[j])
  BY <1>4, <1>5 DEF Research!WillWrite
<1>10. \A t \in Topics : Research!Coming(t) => Research!Coming(t)'
  BY <1>1, <1>9 DEF Research!Coming, Research!WillWrite
<1> QED
  BY <1>1, <1>8, <1>10 DEF OwedInv, Research!StatusOwed

LEMMA OtherTaskKeeps ==
    ASSUME OwedInv, Research!OtherTask
    PROVE  OwedInv'
<1>1. Research!execute("other", "none") /\ UNCHANGED <<row, req, lost>>
  BY DEF Research!OtherTask, Research!Rows
<1>2. /\ job' \in [Jobs -> Tasks] /\ waiting' \in Seq(Jobs)
      /\ \A j \in Jobs : job'[j].at = "saving" => job'[j].to \in {"ready", "error"}
      /\ \A j \in Jobs : Research!WillWrite(job[j]) => job'[j] = job[j]
  BY <1>1, ExecutedKeeps DEF OwedInv
<1>3. \A t \in Topics : Research!Coming(t) => Research!Coming(t)'
  BY <1>1, <1>2 DEF Research!Coming, Research!WillWrite
<1>4. Typed' /\ WellFormed'
  BY <1>1, <1>2 DEF OwedInv, Typed, WellFormed
<1> QED
  BY <1>1, <1>3, <1>4 DEF OwedInv, Research!StatusOwed

LEMMA RestartKeeps ==
    ASSUME OwedInv, Research!Restart
    PROVE  OwedInv'
<1>1. /\ job' = [j \in Jobs |-> Research!NoJob] /\ waiting' = <<>> /\ UNCHANGED row
      /\ lost' = {t \in Topics : row[t] \in Research!Busy}
  BY DEF Research!Restart, Research!Rows
<1>2. Research!NoJob \in Tasks /\ Research!NoJob.at = "none"
  BY DEF Research!NoJob, Tasks
<1>3. \A q \in Requests : /\ [req[q] EXCEPT !.at = "broken"] \in RequestSet
                         /\ [req[q] EXCEPT !.at = "broken"].for = req[q].for
  BY DEF OwedInv, Typed, RequestSet
<1>4. req' = [q \in Requests |-> IF req[q].at \in {"none", "ok", "refused", "broken"} THEN req[q]
                                ELSE [req[q] EXCEPT !.at = "broken"]]
  BY DEF Research!Restart
<1>5. req' \in [Requests -> RequestSet] /\ \A q \in Requests : req'[q].at # "none" => req'[q].for \in Research!Kinds
  BY <1>3, <1>4 DEF OwedInv, Typed, WellFormed
<1>6. job' \in [Jobs -> Tasks] /\ \A j \in Jobs : job'[j].at = "none"
  BY <1>1, <1>2
<1>7. Typed' /\ WellFormed'
  BY <1>1, <1>5, <1>6 DEF OwedInv, Typed, WellFormed
<1> QED
  BY <1>1, <1>7 DEF OwedInv, Research!StatusOwed

\* What the page does on its own leaves the backend alone.
LEMMA RestKeeps ==
    ASSUME OwedInv, UNCHANGED <<row, job, waiting, req, lost>>
    PROVE  OwedInv'
BY DEF OwedInv, Typed, WellFormed, Research!StatusOwed, Research!Coming, Research!WillWrite

LEMMA OwedInvNext ==
    ASSUME OwedInv, [Research!Next]_researchVars
    PROVE  OwedInv'
<1>1. CASE Research!Take
  BY <1>1, TakeKeeps
<1>2. CASE Research!OtherTask
  BY <1>2, OtherTaskKeeps
<1>3. ASSUME NEW j \in Jobs,
             \/ Research!OtherEnds(j) \/ Research!ReadTopic(j) \/ Research!Save(j) \/ Research!SaveFails(j) \/ Research!emit(j)
             \/ \E to \in {"ready", "error"} : Research!AiAnswers(j, to)
      PROVE  OwedInv'
  BY <1>3, TasksKeep
<1>4. ASSUME NEW q \in Requests,
             \/ Research!Begin(q) \/ Research!Commit(q) \/ Research!Rejected(q) \/ Research!Answered(q) \/ Research!Retry(q)
             \/ \E yes \in BOOLEAN : Research!Expanded(q, yes)
             \/ \E t \in Topics : Research!Submit(q, t)
      PROVE  OwedInv'
  BY <1>4, BeginKeeps, CommitKeeps, RejectedKeeps, PageMovesOn, ExpandedKeeps, SubmitKeeps
<1>5. CASE Research!Restart
  BY <1>5, RestartKeeps
<1>6. CASE Research!ListTopics \/ Research!Fetched \/ Research!Connect \/ Research!StreamEnds \/ Research!handleEvent
  BY <1>6, RestKeeps DEF Research!ListTopics, Research!Fetched, Research!Connect, Research!StreamEnds, Research!handleEvent, Research!Rows, Research!Pool
<1>7. CASE Research!handleCreate
  BY <1>7, SendKeeps DEF Research!handleCreate, Research!Unused, Research!Kinds
<1>8. ASSUME NEW t \in Topics, NEW for \in {"update", "delete", "expand"}, Research!handleTopic(for, t)
      PROVE  OwedInv'
  BY <1>8, SendKeeps DEF Research!handleTopic, Research!Kinds
<1>9. CASE Research!handleUpdateAll
  BY <1>9, SendKeeps DEF Research!handleUpdateAll, Research!Kinds
<1>10. CASE UNCHANGED researchVars
  BY <1>10, RestKeeps DEF researchVars
<1> QED
  BY <1>1, <1>2, <1>3, <1>4, <1>5, <1>6, <1>7, <1>8, <1>9, <1>10 DEF Research!Next

\* A topic that is generating or being updated has a task that will end it, in the pool or about to be handed to it,
\* unless a task of the topic was refused by the pool, died or could not save, or an expansion wrote back a busy
\* status that it had read before the task ended: for any number of topics, requests, threads, places and faults.
THEOREM StatusIsOwed == Spec => []StatusOwed
<1>1. Init => OwedInv
  BY OwedInvInit DEF Init
<1>2. OwedInv /\ [Next]_vars => OwedInv'
  BY OwedInvNext, PageSteps
<1>3. OwedInv => StatusOwed
  BY DEF OwedInv, StatusOwed
<1> QED
  BY <1>1, <1>2, <1>3, PTL DEF Spec

-----------------------------------------------------------------------------
(* What the page shows of the topics.                                      *)

\* The places in the queue are different tasks, which have not started.
QueueInv ==
    /\ \A i \in 1 .. Len(waiting) : job[waiting[i]].at = "queued"
    /\ \A i, k \in 1 .. Len(waiting) : waiting[i] = waiting[k] => i = k

CurrentTopics(l) == \A t \in Topics : l[t] = Research!Fetchable(t)

\* Something is on its way to the page that makes it ask again, or it was passed by.
ToBeTold ==
    \/ event \/ untold
    \/ \E j \in Jobs : job[j].at = "emitting"
    \/ \E q \in Requests : req[q].at \in {"submitting", "ok"}

\* What is shown, and what was read to be shown, has the stored statuses unless the page is still to be told.
\* An answer that arrives before the first list does not make the page ask again: what was read for the first
\* list has the stored statuses, or the page was passed by.
ToldInv ==
    /\ topicFetch = Research!Idle \/ topicFetch = Research!Asked \/ topicFetch.at = "read"
    /\ topics # Research!NotLoaded /\ topicFetch = Research!Idle => CurrentTopics(topics) \/ ToBeTold
    /\ topicFetch.at = "read" =>
         CurrentTopics(topicFetch.list) \/ untold \/ (topics # Research!NotLoaded /\ ToBeTold)

LEMMA ToldInvInit == ASSUME Research!Init PROVE QueueInv /\ ToldInv
BY DEF Research!Init, QueueInv, ToldInv, Research!Idle, Research!Asked

\* The statuses are as they were, and what is to be told is.
LEMMA ToldKept ==
    ASSUME ToldInv, UNCHANGED <<row, topics, topicFetch>>, untold => untold', ToBeTold => ToBeTold'
    PROVE  ToldInv'
<1>1. \A l : CurrentTopics(l) <=> CurrentTopics(l)'
  BY DEF CurrentTopics, Research!Fetchable
<1>2. CurrentTopics(topics)' <=> CurrentTopics(topics)
  BY DEF CurrentTopics, Research!Fetchable
<1>3. CurrentTopics(topicFetch.list)' <=> CurrentTopics(topicFetch.list)
  BY DEF CurrentTopics, Research!Fetchable
<1> QED
  BY <1>2, <1>3 DEF ToldInv

\* A status changes, and the page is to be told.
LEMMA ToldOfChange ==
    ASSUME ToldInv, UNCHANGED <<topics, topicFetch>>, Research!Untold(FALSE), ToBeTold'
    PROVE  ToldInv'
BY DEF ToldInv, Research!Untold

LEMMA PassedBy ==
    ASSUME ToldInv, UNCHANGED <<topics, topicFetch>>, untold'
    PROVE  ToldInv'
BY DEF ToldInv, ToBeTold

\* The page asks again, unless its first list is on its way.
LEMMA AsksAgain ==
    ASSUME ToldInv, UNCHANGED <<row, topics>>, untold' = untold, Research!invalidateQueries
    PROVE  ToldInv'
<1>1. CASE topics = Research!NotLoaded
  <2>1. CurrentTopics(topicFetch.list)' <=> CurrentTopics(topicFetch.list)
    BY <1>1 DEF CurrentTopics, Research!Fetchable, Research!invalidateQueries
  <2> QED
    BY <1>1, <2>1 DEF ToldInv, Research!invalidateQueries
<1>2. CASE topics # Research!NotLoaded
  BY <1>2 DEF ToldInv, Research!invalidateQueries, Research!Asked, Research!Idle
<1> QED
  BY <1>1, <1>2

\* A task that is not in the queue changes.
LEMMA QueueKept ==
    ASSUME Typed, QueueInv, NEW j \in Jobs, job[j].at # "queued", NEW new, job' = [job EXCEPT ![j] = new], waiting' = waiting
    PROVE  QueueInv'
<1>1. \A i \in 1 .. Len(waiting) : waiting[i] \in Jobs
  BY DEF Typed
<1>2. \A i \in 1 .. Len(waiting) : waiting[i] # j
  BY DEF QueueInv
<1>3. \A i \in 1 .. Len(waiting) : job'[waiting[i]] = job[waiting[i]]
  BY <1>1, <1>2 DEF Typed
<1> QED
  BY <1>3 DEF QueueInv

\* A task that does not emit, and is not in the queue, becomes another.
LEMMA TaskTold ==
    ASSUME Typed, QueueInv, ToldInv, NEW j \in Jobs, job[j].at \notin {"queued", "emitting"}, NEW new,
           job' = [job EXCEPT ![j] = new], UNCHANGED <<row, waiting, req, topics, topicFetch, event, untold>>
    PROVE  QueueInv' /\ ToldInv'
<1>1. \A i \in Jobs : job[i].at = "emitting" => job'[i].at = "emitting"
  BY DEF Typed
<1>2. ToBeTold => ToBeTold'
  BY <1>1 DEF ToBeTold
<1> QED
  BY <1>2, QueueKept, ToldKept

\* The pool takes a task: one place more in its queue, or none.
LEMMA ExecutedTold ==
    ASSUME Typed, QueueInv, NEW what, NEW t, Research!execute(what, t)
    PROVE  /\ QueueInv'
           /\ \A j \in Jobs : job[j].at = "emitting" => job'[j].at = "emitting"
<1> DEFINE free == {j \in Jobs : job[j].at = "none"}
           k == CHOOSE i \in free : TRUE
           runs == threads < CoreSize \/ Len(waiting) >= QueueCapacity
<1>1. free # {}
  BY DEF Research!execute
<1>2. k \in Jobs /\ job[k].at = "none"
  BY <1>1
<1>3. job' = [job EXCEPT ![k] = [kind |-> what, topic |-> t, at |-> IF runs THEN "started" ELSE "queued",
                                 to |-> "none", same |-> FALSE]]
  BY DEF Research!execute
<1>4. waiting' = IF runs THEN waiting ELSE Append(waiting, k)
  BY DEF Research!execute
<1> HIDE DEF k
<1>5. \A j \in Jobs : job[j].at = "emitting" => job'[j].at = "emitting"
  BY <1>2, <1>3 DEF Typed
<1>6. CASE runs
  BY <1>2, <1>3, <1>4, <1>5, <1>6, QueueKept
<1>7. CASE ~runs
  <2>1. waiting \in Seq(Jobs) /\ waiting' = Append(waiting, k) /\ job'[k].at = "queued"
    BY <1>2, <1>3, <1>4, <1>7 DEF Typed
  <2>2. Len(waiting') = Len(waiting) + 1 /\ waiting'[Len(waiting) + 1] = k
        /\ \A i \in 1 .. Len(waiting) : waiting'[i] = waiting[i] /\ waiting[i] \in Jobs
    BY <1>2, <2>1
  <2>3. \A i \in 1 .. Len(waiting) : waiting[i] # k
    BY <1>2 DEF QueueInv
  <2>4. \A i \in 1 .. Len(waiting) : job'[waiting[i]] = job[waiting[i]]
    BY <1>2, <1>3, <2>2, <2>3 DEF Typed
  <2>5. \A i \in 1 .. Len(waiting') : job'[waiting'[i]].at = "queued"
    BY <2>1, <2>2, <2>4 DEF QueueInv
  <2>6. \A i, m \in 1 .. Len(waiting') : waiting'[i] = waiting'[m] => i = m
    BY <2>1, <2>2, <2>3 DEF QueueInv
  <2> QED
    BY <1>5, <2>5, <2>6 DEF QueueInv
<1> QED
  BY <1>5, <1>6, <1>7

\* A request changes, and tells the page no less than before.
LEMMA RequestTold ==
    ASSUME Typed, QueueInv, ToldInv, NEW q \in Requests, NEW new, req' = [req EXCEPT ![q] = new],
           req[q].at \in {"submitting", "ok"} => new.at \in {"submitting", "ok"},
           UNCHANGED <<row, job, waiting, topics, topicFetch, event, untold>>
    PROVE  QueueInv' /\ ToldInv'
<1>1. \A p \in Requests : req[p].at \in {"submitting", "ok"} => req'[p].at \in {"submitting", "ok"}
  BY DEF Typed
<1>2. ToBeTold => ToBeTold'
  BY <1>1 DEF ToBeTold
<1> QED
  BY <1>2, ToldKept DEF QueueInv

LEMMA TasksTold ==
    ASSUME OwedInv, QueueInv, ToldInv, NEW j \in Jobs,
           \/ Research!OtherEnds(j) \/ Research!ReadTopic(j) \/ Research!Save(j) \/ Research!SaveFails(j) \/ Research!emit(j)
           \/ \E to \in {"ready", "error"} : Research!AiAnswers(j, to)
    PROVE  QueueInv' /\ ToldInv'
<1>1. CASE Research!OtherEnds(j) \/ Research!ReadTopic(j) \/ Research!SaveFails(j)
  <2>1. PICK new : job' = [job EXCEPT ![j] = new]
    BY <1>1 DEF Research!OtherEnds, Research!ReadTopic, Research!SaveFails
  <2>2. job[j].at \notin {"queued", "emitting"} /\ UNCHANGED <<row, waiting, req, topics, topicFetch, event, untold>>
    BY <1>1 DEF Research!OtherEnds, Research!ReadTopic, Research!SaveFails, Research!Rows, Research!Page
  <2> QED
    BY <2>1, <2>2, TaskTold DEF OwedInv
<1>2. ASSUME NEW to, Research!AiAnswers(j, to) PROVE QueueInv' /\ ToldInv'
  <2>1. PICK new : job' = [job EXCEPT ![j] = new]
    BY <1>2 DEF Research!AiAnswers
  <2>2. job[j].at \notin {"queued", "emitting"} /\ UNCHANGED <<row, waiting, req, topics, topicFetch, event, untold>>
    BY <1>2 DEF Research!AiAnswers, Research!Rows, Research!Page
  <2> QED
    BY <2>1, <2>2, TaskTold DEF OwedInv
<1>3. CASE Research!Save(j)
  <2>1. PICK new : job' = [job EXCEPT ![j] = new]
    BY <1>3 DEF Research!Save
  <2>2. job[j].at \notin {"queued", "emitting"} /\ UNCHANGED <<waiting, req, topics, topicFetch, event>>
    BY <1>3 DEF Research!Save, Research!Page
  <2>3. CASE UNCHANGED <<row, untold>>
    BY <2>1, <2>2, <2>3, TaskTold DEF OwedInv
  <2>4. CASE Research!Untold(FALSE) /\ job' = [job EXCEPT ![j].at = "emitting"]
    <3>1. job'[j].at = "emitting"
      BY <2>4 DEF OwedInv, Typed, Tasks
    <3>2. ToBeTold'
      BY <3>1 DEF ToBeTold
    <3> QED
      BY <2>1, <2>2, <2>4, <3>2, ToldOfChange, QueueKept DEF OwedInv
  <2> QED
    BY <1>3, <2>3, <2>4 DEF Research!Save, Research!Rows
<1>4. CASE Research!emit(j)
  <2>1. /\ job[j].at = "emitting" /\ job' = [job EXCEPT ![j] = Research!NoJob]
        /\ event' = (event \/ stream) /\ UNCHANGED <<row, waiting, req, topics, topicFetch>>
        /\ Research!Untold(~stream)
    BY <1>4 DEF Research!emit, Research!Rows
  <2>2. (event' \/ untold') /\ (untold => untold')
    BY <2>1 DEF Research!Untold
  <2>3. ToBeTold'
    BY <2>2 DEF ToBeTold
  <2>4. QueueInv'
    BY <2>1, QueueKept DEF OwedInv
  <2> QED
    BY <2>1, <2>2, <2>3, <2>4, ToldKept
<1> QED
  BY <1>1, <1>2, <1>3, <1>4

LEMMA TakeTold == ASSUME OwedInv, QueueInv, ToldInv, Research!Take PROVE QueueInv' /\ ToldInv'
<1>1. /\ waiting # <<>> /\ waiting \in Seq(Jobs) /\ waiting' = Tail(waiting)
      /\ UNCHANGED <<row, req, topics, topicFetch, event, untold>>
  BY DEF Research!Take, OwedInv, Typed, Research!Rows, Research!Page
<1> DEFINE j == Head(waiting)
           new == [job[j] EXCEPT !.at = "started"]
<1>2. job' = [job EXCEPT ![j] = new]
  BY DEF Research!Take
<1>3. /\ Len(waiting) \in Nat /\ Len(waiting) > 0 /\ j = waiting[1] /\ Len(waiting') = Len(waiting) - 1
      /\ \A i \in 1 .. Len(waiting) - 1 : waiting'[i] = waiting[i + 1]
      /\ \A i \in 1 .. Len(waiting) : waiting[i] \in Jobs
  BY <1>1
<1>4. j \in Jobs /\ job[j].at = "queued"
  BY <1>3 DEF QueueInv
<1> HIDE DEF new, j
<1>5. \A i \in 1 .. Len(waiting) - 1 : waiting[i + 1] # j /\ waiting[i + 1] \in Jobs
  BY <1>3 DEF QueueInv
<1>6. \A i \in 1 .. Len(waiting) - 1 : job'[waiting'[i]] = job[waiting[i + 1]]
  BY <1>2, <1>3, <1>4, <1>5 DEF OwedInv, Typed
<1>7. \A i \in 1 .. Len(waiting') : job'[waiting'[i]].at = "queued"
  BY <1>3, <1>6 DEF QueueInv
<1>8. \A i, k \in 1 .. Len(waiting') : waiting'[i] = waiting'[k] => i = k
  BY <1>3 DEF QueueInv
<1>9. \A i \in Jobs : job[i].at = "emitting" => job'[i].at = "emitting"
  BY <1>2, <1>4 DEF OwedInv, Typed
<1>10. ToBeTold => ToBeTold'
  BY <1>1, <1>9 DEF ToBeTold
<1> QED
  BY <1>1, <1>7, <1>8, <1>10, ToldKept DEF QueueInv

\* The requests of the page, which hand tasks over and are answered.
LEMMA RequestsTold ==
    ASSUME OwedInv, QueueInv, ToldInv, NEW q \in Requests,
           \/ Research!Begin(q) \/ Research!Commit(q) \/ Research!Rejected(q) \/ Research!Answered(q) \/ Research!Retry(q)
           \/ \E yes \in BOOLEAN : Research!Expanded(q, yes)
           \/ \E t \in Topics : Research!Submit(q, t)
    PROVE  QueueInv' /\ ToldInv'
<1>1. CASE Research!Begin(q) \/ Research!Retry(q) \/ \E yes \in BOOLEAN : Research!Expanded(q, yes)
  <2>1. PICK new : req' = [req EXCEPT ![q] = new]
    BY <1>1 DEF Research!Begin, Research!Retry, Research!Expanded, Research!Put, Research!Ends
  <2>2. req[q].at \notin {"submitting", "ok"} /\ UNCHANGED <<row, job, waiting, topics, topicFetch, event, untold>>
    BY <1>1 DEF Research!Begin, Research!Retry, Research!Expanded, Research!Rows, Research!Page, Research!Pool
  <2> QED
    BY <2>1, <2>2, RequestTold DEF OwedInv
<1>2. CASE Research!Commit(q)
  <2>1. UNCHANGED <<job, waiting, topics, topicFetch, event>> /\ req[q].at = "open"
    BY <1>2 DEF Research!Commit, Research!Pool, Research!Page
  <2>2. CASE Research!Ends(q, "broken") /\ UNCHANGED <<row, untold>>
    <3>1. PICK new : req' = [req EXCEPT ![q] = new]
      BY <2>2 DEF Research!Ends, Research!Put
    <3> QED
      BY <2>1, <2>2, <3>1, RequestTold DEF OwedInv
  <2>3. CASE Research!Untold(FALSE) /\ \E how \in {"ok", "submitting"} : Research!Ends(q, how)
    <3>1. PICK how \in {"ok", "submitting"} : req' = [req EXCEPT ![q] = [req[q] EXCEPT !.at = how]]
      BY <2>3 DEF Research!Ends, Research!Put
    <3>2. req'[q].at \in {"submitting", "ok"}
      BY <3>1 DEF OwedInv, Typed, RequestSet
    <3>3. ToBeTold'
      BY <3>2 DEF ToBeTold
    <3> QED
      BY <2>1, <2>3, <3>3, ToldOfChange DEF QueueInv
  <2>4. \/ Research!Ends(q, "broken") /\ UNCHANGED <<row, untold>>
        \/ Research!Untold(FALSE) /\ Research!Ends(q, IF req[q].for \in {"delete", "expand"} THEN "ok" ELSE "submitting")
    BY <1>2 DEF Research!Commit
  <2> QED
    BY <2>2, <2>3, <2>4
<1>3. CASE Research!Rejected(q)
  <2>1. untold' /\ UNCHANGED <<job, waiting, topics, topicFetch>>
    BY <1>3 DEF Research!Rejected, Research!Pool, Research!Page
  <2> QED
    BY <2>1, PassedBy DEF QueueInv
<1>4. CASE Research!Answered(q)
  <2>1. UNCHANGED <<row, job, waiting, topics, event, untold>> /\ req' = [req EXCEPT ![q] = Research!NoRequest]
    BY <1>4 DEF Research!Answered, Research!Put, Research!Rows, Research!Pool
  <2>2. CASE req[q].at = "ok"
    BY <1>4, <2>1, <2>2, AsksAgain DEF Research!Answered, QueueInv
  <2>3. CASE req[q].at # "ok"
    <3>1. req[q].at \notin {"submitting", "ok"} /\ topicFetch' = topicFetch
      BY <1>4, <2>3 DEF Research!Answered
    <3> QED
      BY <2>1, <3>1, RequestTold DEF OwedInv
  <2> QED
    BY <2>2, <2>3
<1>5. ASSUME NEW t \in Topics, Research!Submit(q, t) PROVE QueueInv' /\ ToldInv'
  <2>1. PICK what : Research!execute(what, t)
    BY <1>5 DEF Research!Submit
  <2>2. QueueInv' /\ UNCHANGED <<row, topics, topicFetch, event, untold>>
    BY <1>5, <2>1, ExecutedTold DEF Research!Submit, OwedInv, Research!Rows, Research!Page
  <2>3. PICK new : req' = [req EXCEPT ![q] = new] /\ new.at \in {"submitting", "ok"}
    <3>1. req[q] \in RequestSet /\ req[q].at = "submitting"
      BY <1>5 DEF OwedInv, Typed, Research!Submit
    <3>2. req' = [req EXCEPT ![q] = [req[q] EXCEPT !.topics = @ \ {t}, !.at = IF req[q].topics = {t} THEN "ok" ELSE @]]
      BY <1>5 DEF Research!Submit, Research!Put
    <3> DEFINE r == [req[q] EXCEPT !.topics = @ \ {t}, !.at = IF req[q].topics = {t} THEN "ok" ELSE @]
    <3>3. r.at \in {"submitting", "ok"}
      BY <3>1 DEF RequestSet
    <3> HIDE DEF r
    <3> QED
      BY <3>2, <3>3 DEF r
  <2>4. req'[q].at \in {"submitting", "ok"}
    BY <2>3 DEF OwedInv, Typed
  <2>5. ToBeTold'
    BY <2>4 DEF ToBeTold
  <2> QED
    BY <2>2, <2>5, ToldKept
<1> QED
  BY <1>1, <1>2, <1>3, <1>4, <1>5

LEMMA SendTold == ASSUME OwedInv, QueueInv, ToldInv, NEW for, NEW set, Research!Send(for, set) PROVE QueueInv' /\ ToldInv'
<1> DEFINE free == {q \in Requests : req[q].at = "none"}
           q == CHOOSE p \in free : TRUE
<1>1. free # {}
  BY DEF Research!Send
<1>2. q \in Requests /\ req[q].at = "none"
  BY <1>1
<1>3. PICK new : req' = [req EXCEPT ![q] = new]
  BY DEF Research!Send
<1>4. UNCHANGED <<row, job, waiting, topics, topicFetch, event, untold>>
  BY DEF Research!Send, Research!Rows, Research!Pool, Research!Page
<1> HIDE DEF q
<1> QED
  BY <1>2, <1>3, <1>4, RequestTold DEF OwedInv

\* The list, and the events.
LEMMA PageTold ==
    ASSUME QueueInv, ToldInv,
           Research!ListTopics \/ Research!Fetched \/ Research!Connect \/ Research!StreamEnds \/ Research!handleEvent
    PROVE  QueueInv' /\ ToldInv'
<1>1. QueueInv'
  BY DEF Research!ListTopics, Research!Fetched, Research!Connect, Research!StreamEnds, Research!handleEvent, Research!Pool,
     QueueInv
<1>2. CASE Research!ListTopics
  <2>1. topicFetch' = [at |-> "read", list |-> [t \in Topics |-> Research!Fetchable(t)]] /\ row' = row
    BY <1>2 DEF Research!ListTopics, Research!Rows
  <2>2. CurrentTopics(topicFetch.list)'
    BY <2>1 DEF CurrentTopics, Research!Fetchable
  <2> QED
    BY <1>1, <2>1, <2>2 DEF ToldInv, Research!Idle
<1>3. CASE Research!Fetched
  <2>1. /\ topicFetch.at = "read" /\ topics' = topicFetch.list /\ topicFetch' = Research!Idle
        /\ UNCHANGED <<row, job, req, event, untold>>
    BY <1>3 DEF Research!Fetched, Research!Rows, Research!Pool
  <2>2. CurrentTopics(topicFetch.list) => CurrentTopics(topics)'
    BY <2>1 DEF CurrentTopics, Research!Fetchable
  <2>3. ToBeTold' <=> ToBeTold
    BY <2>1 DEF ToBeTold
  <2>4. untold => ToBeTold
    BY DEF ToBeTold
  <2> QED
    BY <1>1, <2>1, <2>2, <2>3, <2>4 DEF ToldInv, Research!Idle
<1>4. CASE Research!Connect
  <2>1. UNCHANGED <<row, job, req, topics, topicFetch, event, untold>>
    BY <1>4 DEF Research!Connect, Research!Rows, Research!Pool
  <2>2. ToBeTold => ToBeTold'
    BY <2>1 DEF ToBeTold
  <2> QED
    BY <1>1, <2>1, <2>2, ToldKept
<1>5. CASE Research!StreamEnds
  <2>1. UNCHANGED <<row, job, req, topics, topicFetch>> /\ untold' = (untold \/ event)
    BY <1>5 DEF Research!StreamEnds, Research!Rows, Research!Pool
  <2>2. ToBeTold => ToBeTold'
    BY <2>1 DEF ToBeTold
  <2>3. untold => untold'
    BY <2>1
  <2> QED
    BY <1>1, <2>1, <2>2, <2>3, ToldKept
<1>6. CASE Research!handleEvent
  BY <1>1, <1>6, AsksAgain DEF Research!handleEvent, Research!Rows
<1> QED
  BY <1>2, <1>3, <1>4, <1>5, <1>6

LEMMA ToldInvNext == OwedInv /\ QueueInv /\ ToldInv /\ [Research!Next]_researchVars => QueueInv' /\ ToldInv'
<1> SUFFICES ASSUME OwedInv, QueueInv, ToldInv, [Research!Next]_researchVars PROVE QueueInv' /\ ToldInv'
  OBVIOUS
<1>1. CASE Research!OtherTask
  <2>1. Research!execute("other", "none") /\ UNCHANGED <<row, req, topics, topicFetch, event, untold>>
    BY <1>1 DEF Research!OtherTask, Research!Rows, Research!Page
  <2>2. QueueInv' /\ \A j \in Jobs : job[j].at = "emitting" => job'[j].at = "emitting"
    BY <2>1, ExecutedTold DEF OwedInv
  <2>3. ToBeTold => ToBeTold'
    BY <2>1, <2>2 DEF ToBeTold
  <2> QED
    BY <2>1, <2>2, <2>3, ToldKept
<1>2. CASE Research!Restart
  <2>1. waiting' = <<>> /\ untold' /\ UNCHANGED <<topics, topicFetch>>
    BY <1>2 DEF Research!Restart
  <2> QED
    BY <2>1, PassedBy DEF QueueInv
<1>3. CASE Research!handleCreate \/ Research!handleUpdateAll \/ \E t \in Topics, for \in {"update", "delete", "expand"} : Research!handleTopic(for, t)
  BY <1>3, SendTold DEF Research!handleCreate, Research!handleUpdateAll, Research!handleTopic
<1>4. CASE UNCHANGED researchVars
  <2>1. UNCHANGED <<row, job, waiting, req, topics, topicFetch, event, untold>>
    BY <1>4 DEF researchVars
  <2>2. (ToBeTold => ToBeTold') /\ QueueInv'
    BY <2>1 DEF ToBeTold, QueueInv
  <2> QED
    BY <2>1, <2>2, ToldKept
<1> QED
  BY <1>1, <1>2, <1>3, <1>4, TakeTold, TasksTold, RequestsTold, PageTold DEF Research!Next

\* The page of a research cluster: once its requests, fetches and events have arrived it shows the statuses that
\* are stored, in whatever order they were committed, emitted and read, unless a change passed it by.
THEOREM TopicsAreCurrent == Spec => []TopicsFollow
<1>1. Init => OwedInv /\ QueueInv /\ ToldInv
  BY OwedInvInit, ToldInvInit DEF Init
<1>2. OwedInv /\ QueueInv /\ ToldInv /\ [Next]_vars => (OwedInv /\ QueueInv /\ ToldInv)'
  BY OwedInvNext, ToldInvNext, PageSteps
<1>3. OwedInv /\ QueueInv /\ ToldInv => TopicsFollow
  BY DEF ToldInv, ToBeTold, CurrentTopics, TopicsFollow, Research!TopicsFollow, Research!NoRequest
<1> QED
  BY <1>1, <1>2, <1>3, PTL DEF Spec

-----------------------------------------------------------------------------
(* Types of the sidebar and the brain page.                                *)

CallModes == Modes \cup {"describe", "page-cluster"}
Descriptions == 0 .. MaxTyped

\* Requests are of the modes whose lists the pages have, and bring descriptions that were typed.
TreeRows == ver \in [Tree!Keys -> Nat] /\ desc \in Descriptions /\ unique \in [Tree!UniqueTypes -> Nat]
TreeLists == [ver: Nat, desc: Descriptions, types: SUBSET Tree!UniqueTypes]
TreeCache ==
    /\ cached \in [Tree!Keys -> Nat \cup {Tree!NotLoaded}] /\ cachedDesc \in Descriptions
    /\ fetch \in [Tree!Keys -> {Tree!Idle, Tree!Asked} \cup [at: {"loading", "read"}, list: TreeLists]]
    /\ \A k \in Tree!Keys : fetch[k].at = "loading" => k \in Tree!Memoized
TreeMemo ==
    /\ memo \in [Tree!Keys -> TreeLists \cup {Tree!Nothing}]
    /\ \A load \in late : load.key \in Tree!Keys \cap Tree!Memoized /\ load.list \in TreeLists
TreeForms ==
    /\ dialog \in [open: BOOLEAN, mode: Tree!AllModes, type: Types \cup {"knowledge"}]
    /\ dialog.open => dialog.mode \in Modes
    /\ creating \in {"closed", "open", "busy"}
TreeText == text \in Descriptions /\ typed \in Descriptions /\ timer \in {Tree!NoTimer} \cup Descriptions
TreeCounts == sent \in 0 .. MaxSends /\ retries \in 0 .. MaxSends
TreeHistory == crossed \subseteq Tree!Keys /\ overtaken \subseteq Tree!Keys /\ overlapped \in BOOLEAN
TreeCalls ==
    /\ \A c \in calls : c.mode \in CallModes /\ c.desc \in Descriptions
    /\ \A x \in txs : x.call.mode \in CallModes /\ x.call.desc \in Descriptions

TreeTypes == TreeRows /\ TreeCache /\ TreeMemo /\ TreeForms /\ TreeText /\ TreeCounts /\ TreeHistory /\ TreeCalls

LEMMA TreeKeys == \A m \in CallModes : Tree!keyOf(m) \in Tree!Keys
BY DEF CallModes, Tree!Keys

LEMMA TreeTypesAtFirst == ASSUME Tree!Init PROVE TreeTypes
<1>1. 0 \in Descriptions /\ 0 \in 0 .. MaxSends
  BY BoundsAssumption DEF Descriptions
<1>2. TreeRows
  BY <1>1 DEF Tree!Init, TreeRows
<1>3. TreeCache
  BY <1>1 DEF Tree!Init, TreeCache, Tree!Asked
<1>7. TreeMemo
  BY DEF Tree!Init, TreeMemo
<1>4. TreeForms
  BY DEF Tree!Init, Tree!Closed, TreeForms, Tree!AllModes
<1>5. TreeText /\ TreeCounts /\ TreeHistory
  BY <1>1 DEF Tree!Init, TreeText, TreeCounts, TreeHistory
<1>6. TreeCalls
  BY DEF Tree!Init, TreeCalls
<1> QED
  BY <1>2, <1>3, <1>4, <1>5, <1>6, <1>7 DEF TreeTypes

LEMMA TreeTypesOK == ASSUME TreeTypes PROVE Tree!TypeOK
<1>1. \A k \in Tree!Keys : fetch[k].at \in {"idle", "asked", "loading", "read"}
  <2> SUFFICES ASSUME NEW k \in Tree!Keys PROVE fetch[k].at \in {"idle", "asked", "loading", "read"}
    OBVIOUS
  <2>1. fetch[k] \in {Tree!Idle, Tree!Asked} \cup [at: {"loading", "read"}, list: TreeLists]
    BY DEF TreeTypes, TreeCache
  <2> QED
    BY <2>1 DEF Tree!Idle, Tree!Asked
<1>2. DOMAIN memo = Tree!Keys /\ \A load \in late : load.key \in Tree!Memoized
  BY DEF TreeTypes, TreeMemo
<1> QED
  BY <1>1, <1>2 DEF TreeTypes, TreeRows, TreeCache, TreeForms, TreeText, TreeCounts, TreeHistory, Descriptions, Tree!TypeOK

LEMMA TreeTypesSend ==
    ASSUME TreeTypes, NEW m \in CallModes, NEW t, NEW v \in Descriptions, Tree!Send(m, t, v),
           UNCHANGED <<crossed, overtaken>>
    PROVE  TreeCounts' /\ TreeHistory' /\ TreeCalls'
<1> DEFINE call == [id |-> sent, mode |-> m, type |-> t, desc |-> v, tries |-> 1, got |-> "none"]
           tx == [call |-> call, try |-> 1, checked |-> FALSE]
<1>1. calls' = calls \cup {call} /\ txs' = txs \cup {tx} /\ sent' = sent + 1 /\ sent + retries < MaxSends /\ retries' = retries
  BY DEF Tree!Send
<1>2. call.mode = m /\ call.desc = v /\ tx.call = call
  OBVIOUS
<1>3. overlapped' \in BOOLEAN
  BY DEF Tree!Send
<1> HIDE DEF call, tx
<1>4. TreeCalls'
  BY <1>1, <1>2 DEF TreeTypes, TreeCalls
<1>5. TreeCounts'
  BY <1>1, BoundsAssumption DEF TreeTypes, TreeCounts
<1> QED
  BY <1>3, <1>4, <1>5 DEF TreeTypes, TreeHistory

LEMMA TreeTypesSettle ==
    ASSUME TreeTypes, RequestsInv, NEW x \in txs, NEW g, Settled(x, g)
    PROVE  TreeCalls'
<1>1. \A c \in calls : [c EXCEPT !.got = g].mode = c.mode /\ [c EXCEPT !.got = g].desc = c.desc
  BY GotKeepsForm DEF RequestsInv
<1> QED
  BY <1>1 DEF TreeTypes, TreeCalls, Settled

LEMMA TreeTypesStep ==
    ASSUME TreeTypes, RequestsInv, TreeInv, [Tree!Next]_treeVars
    PROVE  TreeTypes'
<1> USE DEF TreeTypes
<1>1. ASSUME NEW c \in calls, Tree!Answered(c) PROVE TreeTypes'
  <2> DEFINE key == Tree!keyOf(c.mode)
             again == cached[key] # Tree!NotLoaded \/ fetch[key] = Tree!Idle
             load == [key |-> key, list |-> fetch[key].list]
  <2>1. /\ UNCHANGED <<ver, desc, unique, cached, cachedDesc, text, typed, timer, sent, retries, overlapped, txs, memo, overtaken>>
        /\ calls' = calls \ {c} /\ crossed' \in {crossed, crossed \cup {key}}
        /\ fetch' = [fetch EXCEPT ![key] = IF again THEN Tree!Asked ELSE @]
        /\ late' = IF again /\ fetch[key].at = "loading" THEN late \cup {load} ELSE late
    BY <1>1 DEF Tree!Answered, Tree!Backend, Tree!invalidateQueries
  <2>5. key \in Tree!Keys
    BY TreeKeys DEF TreeCalls
  <2>6. fetch[key].at = "loading" => key \in Tree!Memoized /\ fetch[key].list \in TreeLists
    <3>1. fetch[key] \in {Tree!Idle, Tree!Asked} \cup [at: {"loading", "read"}, list: TreeLists]
      BY <2>5 DEF TreeCache
    <3>2. fetch[key].at = "loading" => fetch[key].list \in TreeLists
      BY <3>1 DEF Tree!Idle, Tree!Asked
    <3> QED
      BY <2>5, <3>2 DEF TreeCache
  <2>7. load.key = key /\ load.list = fetch[key].list
    OBVIOUS
  <2> HIDE DEF key, again, load
  <2>2. TreeRows' /\ TreeText' /\ TreeCounts' /\ TreeHistory' /\ TreeCalls'
    BY <2>1, <2>5 DEF TreeRows, TreeText, TreeCounts, TreeHistory, TreeCalls
  <2>8. Tree!Asked.at # "loading"
    BY DEF Tree!Asked
  <2>3. TreeCache'
    BY <2>1, <2>5, <2>8 DEF TreeCache
  <2>9. TreeMemo'
    BY <2>1, <2>5, <2>6, <2>7 DEF TreeMemo
  <2>4. TreeForms'
    BY <1>1 DEF TreeForms, Tree!Answered, Tree!Closed, Tree!AllModes
  <2> QED
    BY <2>2, <2>3, <2>4, <2>9
<1>2. ASSUME NEW c \in calls, Tree!Throws(c) PROVE TreeTypes'
  <2>1. UNCHANGED <<ver, desc, unique, cached, cachedDesc, fetch, memo, late, overtaken, dialog, text, typed, timer, sent, retries, txs>> /\ calls' = calls \ {c}
    BY <1>2 DEF Tree!Throws, Tree!Backend, Tree!Cache
  <2>2. TreeRows' /\ TreeCache' /\ TreeMemo' /\ TreeText' /\ TreeCounts' /\ TreeCalls'
    BY <2>1 DEF TreeRows, TreeCache, TreeMemo, TreeText, TreeCounts, TreeCalls
  <2>3. TreeForms'
    BY <1>2, <2>1 DEF TreeForms, Tree!Throws
  <2>4. overlapped' \in BOOLEAN /\ overtaken' \subseteq Tree!Keys
    BY <1>2, <2>1 DEF Tree!Throws, TreeHistory
  <2>5. crossed' \subseteq Tree!Keys
    BY <1>2, TreeKeys DEF Tree!Throws, TreeHistory, TreeCalls
  <2> QED
    BY <2>2, <2>3, <2>4, <2>5 DEF TreeHistory
<1>3. ASSUME NEW x \in txs, Tree!Check(x) PROVE TreeTypes'
  <2>1. UNCHANGED <<ver, desc, unique, cached, cachedDesc, fetch, memo, late, overtaken, dialog, creating, text, typed, timer, sent, retries, crossed, overlapped>>
    BY <1>3 DEF Tree!Check, Tree!Backend, Tree!Cache, Tree!Page
  <2>2. TreeRows' /\ TreeCache' /\ TreeMemo' /\ TreeForms' /\ TreeText' /\ TreeCounts' /\ TreeHistory'
    BY <2>1 DEF TreeRows, TreeCache, TreeMemo, TreeForms, TreeText, TreeCounts, TreeHistory
  <2>3. Settled(x, "refused") \/ (txs' = (txs \ {x}) \cup {[x EXCEPT !.checked = TRUE]} /\ calls' = calls)
    BY <1>3 DEF Tree!Check, Settled
  <2>4. [x EXCEPT !.checked = TRUE].call = x.call
    BY CheckedKeepsForm DEF RequestsInv
  <2>5. TreeCalls'
    BY <2>3, <2>4, TreeTypesSettle DEF TreeCalls
  <2> QED
    BY <2>2, <2>5
<1>4. ASSUME NEW x \in txs, Tree!Commit(x) PROVE TreeTypes'
  <2>1. UNCHANGED <<cached, cachedDesc, fetch, memo, late, overtaken, dialog, creating, text, typed, timer, sent, retries, overlapped>>
    BY <1>4 DEF Tree!Commit, Tree!Cache, Tree!Page, Tree!Backend
  <2>2. TreeCache' /\ TreeMemo' /\ TreeForms' /\ TreeText' /\ TreeCounts'
    BY <2>1 DEF TreeCache, TreeMemo, TreeForms, TreeText, TreeCounts
  <2>3. TreeCalls'
    <3>1. Settled(x, IF Tree!Allowed(x.call) THEN "ok" ELSE "refused")
      BY <1>4 DEF Tree!Commit, Settled
    <3> QED
      BY <3>1, TreeTypesSettle
  <2>4. TreeHistory'
    BY <1>4, <2>1, TreeKeys DEF Tree!Commit, Tree!Backend, TreeHistory, TreeCalls
  <2>5. ver' \in [Tree!Keys -> Nat]
    BY <1>4 DEF Tree!Commit, Tree!Backend, TreeRows
  <2>6. desc' \in Descriptions
    BY <1>4 DEF Tree!Commit, Tree!Backend, TreeRows, TreeCalls
  <2>7. unique' \in [Tree!UniqueTypes -> Nat]
    <3>1. CASE ~Tree!Allowed(x.call)
      BY <1>4, <3>1 DEF Tree!Commit, Tree!Backend, TreeRows
    <3>2. CASE Tree!Allowed(x.call)
      <4>1. unique' = [t \in Tree!UniqueTypes |->
                         IF t # x.call.type THEN unique[t]
                         ELSE IF Tree!Creates(x.call) THEN unique[t] + 1 ELSE unique[t] - 1]
        BY <1>4, <3>2 DEF Tree!Commit
      <4>2. ASSUME x.call.type \in Tree!UniqueTypes, ~Tree!Creates(x.call) PROVE unique[x.call.type] > 0
        BY <3>2, <4>2 DEF TreeInv, OfClusters, Tree!Creates, Tree!Allowed
      <4>3. \A t \in Tree!UniqueTypes : unique[t] \in Nat
        BY DEF TreeRows
      <4>4. \A t \in Tree!UniqueTypes : (IF t # x.call.type THEN unique[t]
                         ELSE IF Tree!Creates(x.call) THEN unique[t] + 1 ELSE unique[t] - 1) \in Nat
        BY <4>2, <4>3
      <4> QED
        BY <4>1, <4>4
    <3> QED
      BY <3>1, <3>2
  <2> QED
    BY <2>2, <2>3, <2>4, <2>5, <2>6, <2>7 DEF TreeRows
<1>5. ASSUME NEW c \in calls, Tree!Retry(c) PROVE TreeTypes'
  <2>1. /\ UNCHANGED <<ver, desc, unique, cached, cachedDesc, fetch, memo, late, overtaken, dialog, creating, text, typed, timer, sent, crossed>>
        /\ sent + retries < MaxSends /\ retries' = retries + 1
        /\ calls' = (calls \ {c}) \cup {[c EXCEPT !.tries = 2]}
        /\ txs' = txs \cup {[call |-> c, try |-> 2, checked |-> FALSE]}
    BY <1>5 DEF Tree!Retry, Tree!Backend, Tree!Cache, Tree!Page
  <2>2. TreeRows' /\ TreeCache' /\ TreeMemo' /\ TreeForms' /\ TreeText'
    BY <2>1 DEF TreeRows, TreeCache, TreeMemo, TreeForms, TreeText
  <2>3. TreeCounts'
    BY <2>1, BoundsAssumption DEF TreeCounts
  <2>4. [c EXCEPT !.tries = 2].mode = c.mode /\ [c EXCEPT !.tries = 2].desc = c.desc
    BY TriesKeepsForm DEF RequestsInv
  <2>5. TreeCalls'
    <3> DEFINE again == [c EXCEPT !.tries = 2]
               tx == [call |-> c, try |-> 2, checked |-> FALSE]
    <3>1. again.mode = c.mode /\ again.desc = c.desc /\ tx.call = c
      BY <2>4
    <3>2. calls' = (calls \ {c}) \cup {again} /\ txs' = txs \cup {tx}
      BY <2>1
    <3> HIDE DEF again, tx
    <3> QED
      BY <3>1, <3>2 DEF TreeCalls
  <2>6. overlapped' \in BOOLEAN
    BY <1>5 DEF Tree!Retry
  <2> QED
    BY <2>1, <2>2, <2>3, <2>5, <2>6 DEF TreeHistory
<1>a. ASSUME NEW k \in Tree!Keys PROVE Tree!Stored(k) \in TreeLists
  <2>1. ver[k] \in Nat /\ desc \in Descriptions /\ 0 \in Descriptions
    BY BoundsAssumption DEF TreeRows, Descriptions
  <2> QED
    BY <2>1 DEF Tree!Stored, TreeLists
<1>6. ASSUME NEW k \in Tree!Keys, Tree!Read(k) PROVE TreeTypes'
  <2> DEFINE given == IF k \in Tree!Memoized THEN memo[k] ELSE Tree!Stored(k)
             new == [at |-> "read", list |-> given]
  <2>1. /\ UNCHANGED <<ver, desc, unique, cached, cachedDesc, memo, late, overtaken, dialog, creating, text, typed, timer,
                       sent, retries, crossed, overlapped, calls, txs>>
        /\ fetch' = [fetch EXCEPT ![k] = new] /\ given # Tree!Nothing
    BY <1>6 DEF Tree!Read, Tree!Backend, Tree!Page
  <2>2. TreeRows' /\ TreeMemo' /\ TreeForms' /\ TreeText' /\ TreeCounts' /\ TreeHistory' /\ TreeCalls'
    BY <2>1 DEF TreeRows, TreeMemo, TreeForms, TreeText, TreeCounts, TreeHistory, TreeCalls
  <2>4. given \in TreeLists
    BY <1>a, <2>1 DEF TreeMemo
  <2>5. new.at = "read" /\ new \in [at: {"loading", "read"}, list: TreeLists]
    BY <2>4
  <2> HIDE DEF new
  <2>3. TreeCache'
    BY <2>1, <2>5 DEF TreeCache
  <2> QED
    BY <2>2, <2>3
<1>15. ASSUME NEW k \in Tree!Keys, Tree!Load(k) PROVE TreeTypes'
  <2> DEFINE new == [at |-> "loading", list |-> Tree!Stored(k)]
  <2>1. /\ UNCHANGED <<ver, desc, unique, cached, cachedDesc, late, overtaken, dialog, creating, text, typed, timer,
                       sent, retries, crossed, overlapped, calls, txs>>
        /\ fetch' = [fetch EXCEPT ![k] = new] /\ memo' = [memo EXCEPT ![k] = Tree!Nothing] /\ k \in Tree!Memoized
    BY <1>15 DEF Tree!Load, Tree!Page
  <2>2. TreeRows' /\ TreeMemo' /\ TreeForms' /\ TreeText' /\ TreeCounts' /\ TreeHistory' /\ TreeCalls'
    BY <2>1 DEF TreeRows, TreeMemo, TreeForms, TreeText, TreeCounts, TreeHistory, TreeCalls
  <2>5. new \in [at: {"loading", "read"}, list: TreeLists]
    BY <1>a
  <2> HIDE DEF new
  <2>3. TreeCache'
    BY <2>1, <2>5 DEF TreeCache
  <2> QED
    BY <2>2, <2>3
<1>16. ASSUME NEW k \in Tree!Keys, NEW given \in TreeLists, Tree!Keep(k, given), late' \subseteq late,
              UNCHANGED fetch \/ fetch' = [fetch EXCEPT ![k] = [at |-> "read", list |-> given]]
       PROVE  TreeTypes'
  <2> DEFINE new == [at |-> "read", list |-> given]
  <2>1. /\ UNCHANGED <<ver, desc, unique, cached, cachedDesc, dialog, creating, text, typed, timer, sent, retries, crossed, calls, txs>>
        /\ memo' = [memo EXCEPT ![k] = given]
    BY <1>16 DEF Tree!Keep, Tree!Page
  <2>2. TreeRows' /\ TreeMemo' /\ TreeForms' /\ TreeText' /\ TreeCounts' /\ TreeCalls'
    BY <1>16, <2>1 DEF TreeRows, TreeMemo, TreeForms, TreeText, TreeCounts, TreeCalls
  <2>3. overlapped' \in BOOLEAN
    BY <1>16 DEF Tree!Keep
  <2>4. overtaken' \subseteq Tree!Keys
    BY <1>16 DEF Tree!Keep, TreeHistory
  <2>5. new.at = "read" /\ new \in [at: {"loading", "read"}, list: TreeLists]
    OBVIOUS
  <2>6. UNCHANGED fetch \/ fetch' = [fetch EXCEPT ![k] = new]
    BY <1>16
  <2> HIDE DEF new
  <2>7. TreeCache'
    BY <2>1, <2>5, <2>6 DEF TreeCache
  <2> QED
    BY <2>1, <2>2, <2>3, <2>4, <2>7 DEF TreeHistory
<1>17. ASSUME NEW k \in Tree!Keys, Tree!Loaded(k) PROVE TreeTypes'
  <2>1. fetch[k] \in {Tree!Idle, Tree!Asked} \cup [at: {"loading", "read"}, list: TreeLists]
    BY DEF TreeCache
  <2>2. fetch[k].list \in TreeLists
    BY <1>17, <2>1 DEF Tree!Loaded, Tree!Idle, Tree!Asked
  <2> QED
    BY <1>16, <1>17, <2>2 DEF Tree!Loaded
<1>18. ASSUME NEW load \in late, Tree!LoadedLate(load) PROVE TreeTypes'
  <2>1. load.key \in Tree!Keys /\ load.list \in TreeLists
    BY DEF TreeMemo
  <2> QED
    BY <1>16, <1>18, <2>1 DEF Tree!LoadedLate
<1>19. ASSUME NEW x \in evicting, Tree!Evict(x) PROVE TreeTypes'
  <2>1. /\ UNCHANGED <<ver, desc, unique, cached, cachedDesc, fetch, late, dialog, creating, text, typed, timer,
                       sent, retries, crossed, overlapped, calls, txs>>
        /\ memo' = [memo EXCEPT ![Tree!keyOf(x.call.mode)] = Tree!Nothing] /\ overtaken' \subseteq overtaken
    BY <1>19 DEF Tree!Evict, Tree!Cache, Tree!Page
  <2> QED
    BY <2>1 DEF TreeRows, TreeCache, TreeMemo, TreeForms, TreeText, TreeCounts, TreeHistory, TreeCalls
<1>7. ASSUME NEW k \in Tree!Keys, Tree!Fetched(k) PROVE TreeTypes'
  <2>1. UNCHANGED <<ver, desc, unique, memo, late, overtaken, dialog, creating, typed, timer, sent, retries, crossed, overlapped, calls, txs>>
    BY <1>7 DEF Tree!Fetched, Tree!Backend
  <2>2. TreeRows' /\ TreeMemo' /\ TreeForms' /\ TreeCounts' /\ TreeHistory' /\ TreeCalls'
    BY <2>1 DEF TreeRows, TreeMemo, TreeForms, TreeCounts, TreeHistory, TreeCalls
  <2>6. fetch[k] \in {Tree!Idle, Tree!Asked} \cup [at: {"loading", "read"}, list: TreeLists]
    BY DEF TreeCache
  <2>3. fetch[k].list.ver \in Nat /\ fetch[k].list.desc \in Descriptions
    BY <1>7, <2>6 DEF Tree!Fetched, Tree!Idle, Tree!Asked, TreeLists
  <2>7. /\ cached' = [cached EXCEPT ![k] = fetch[k].list.ver] /\ fetch' = [fetch EXCEPT ![k] = Tree!Idle]
        /\ cachedDesc' \in {cachedDesc, fetch[k].list.desc} /\ text' \in {text, fetch[k].list.desc}
    BY <1>7 DEF Tree!Fetched
  <2>8. Tree!Idle.at # "loading"
    BY DEF Tree!Idle
  <2>4. TreeCache'
    BY <2>3, <2>7, <2>8 DEF TreeCache
  <2>5. TreeText'
    BY <2>1, <2>3, <2>7 DEF TreeText
  <2> QED
    BY <2>2, <2>4, <2>5
<1>8. CASE Tree!saveDescription
  <2>1. UNCHANGED <<ver, desc, unique, cached, cachedDesc, fetch, memo, late, overtaken, dialog, creating, text, typed, crossed>>
    BY <1>8 DEF Tree!saveDescription, Tree!Backend, Tree!Cache
  <2>2. timer \in Descriptions /\ timer' = -1 /\ Tree!Send("describe", "knowledge", timer)
    BY <1>8 DEF Tree!saveDescription, TreeText, Tree!NoTimer
  <2>3. TreeRows' /\ TreeCache' /\ TreeMemo' /\ TreeForms' /\ TreeText'
    BY <2>1, <2>2 DEF TreeRows, TreeCache, TreeMemo, TreeForms, TreeText, Tree!NoTimer
  <2>4. "describe" \in CallModes
    BY DEF CallModes
  <2> QED
    BY <2>1, <2>2, <2>3, <2>4, TreeTypesSend
<1>9. CASE Tree!handleDialogSubmit
  <2>1. UNCHANGED <<ver, desc, unique, cached, cachedDesc, fetch, memo, late, overtaken, dialog, creating, text, typed, timer, crossed>>
    BY <1>9 DEF Tree!handleDialogSubmit, Tree!Backend, Tree!Cache, Tree!Page
  <2>2. TreeRows' /\ TreeCache' /\ TreeMemo' /\ TreeForms' /\ TreeText'
    BY <2>1 DEF TreeRows, TreeCache, TreeMemo, TreeForms, TreeText
  <2>3. dialog.mode \in CallModes /\ 0 \in Descriptions
    BY <1>9, BoundsAssumption DEF Tree!handleDialogSubmit, TreeForms, CallModes, Descriptions
  <2>4. PICK t : Tree!Send(dialog.mode, t, 0)
    BY <1>9 DEF Tree!handleDialogSubmit
  <2> QED
    BY <2>1, <2>2, <2>3, <2>4, TreeTypesSend
<1>10. ASSUME NEW m \in Tree!AllModes, Tree!onDelete(m) PROVE TreeTypes'
  <2>1. UNCHANGED <<ver, desc, unique, cached, cachedDesc, fetch, memo, late, overtaken, dialog, creating, text, typed, timer, crossed>>
    BY <1>10 DEF Tree!onDelete, Tree!Backend, Tree!Cache, Tree!Page
  <2>2. TreeRows' /\ TreeCache' /\ TreeMemo' /\ TreeForms' /\ TreeText'
    BY <2>1 DEF TreeRows, TreeCache, TreeMemo, TreeForms, TreeText
  <2>3. m \in CallModes /\ 0 \in Descriptions
    BY <1>10, BoundsAssumption DEF Tree!onDelete, Tree!Offered, CallModes, Descriptions
  <2>4. PICK t : Tree!Send(m, t, 0)
    BY <1>10 DEF Tree!onDelete
  <2> QED
    BY <2>1, <2>2, <2>3, <2>4, TreeTypesSend
<1>11. ASSUME NEW t \in Types, Tree!handleSubmit(t) PROVE TreeTypes'
  <2>1. UNCHANGED <<ver, desc, unique, cached, cachedDesc, fetch, memo, late, overtaken, dialog, text, typed, timer, crossed>> /\ creating' = "busy"
    BY <1>11 DEF Tree!handleSubmit, Tree!Backend, Tree!Cache
  <2>2. TreeRows' /\ TreeCache' /\ TreeMemo' /\ TreeForms' /\ TreeText'
    BY <2>1 DEF TreeRows, TreeCache, TreeMemo, TreeForms, TreeText
  <2>3. "page-cluster" \in CallModes /\ 0 \in Descriptions
    BY BoundsAssumption DEF CallModes, Descriptions
  <2>4. Tree!Send("page-cluster", t, 0)
    BY <1>11 DEF Tree!handleSubmit
  <2> QED
    BY <2>1, <2>2, <2>3, <2>4, TreeTypesSend
<1>12. CASE Tree!handleDescriptionChange
  <2>1. UNCHANGED <<ver, desc, unique, cached, cachedDesc, fetch, memo, late, overtaken, dialog, creating, sent, retries, crossed, overlapped, calls, txs>>
    BY <1>12 DEF Tree!handleDescriptionChange, Tree!Backend, Tree!Cache
  <2>2. TreeRows' /\ TreeCache' /\ TreeMemo' /\ TreeForms' /\ TreeCounts' /\ TreeHistory' /\ TreeCalls'
    BY <2>1 DEF TreeRows, TreeCache, TreeMemo, TreeForms, TreeCounts, TreeHistory, TreeCalls
  <2>3. typed < MaxTyped /\ typed' = typed + 1 /\ text' = typed' /\ timer' = typed'
    BY <1>12 DEF Tree!handleDescriptionChange
  <2>4. TreeText'
    BY <2>3, BoundsAssumption DEF TreeText, Descriptions
  <2> QED
    BY <2>2, <2>4
<1>13. ASSUME \/ \E m \in Tree!AllModes : Tree!handleCreate(m)
              \/ \E t \in Types : Tree!onTypeChange(t)
              \/ Tree!CloseDialog \/ Tree!OpenCluster \/ Tree!CancelCluster
       PROVE  TreeTypes'
  <2>1. UNCHANGED <<ver, desc, unique, cached, cachedDesc, fetch, memo, late, overtaken, text, typed, timer, sent, retries, crossed, overlapped, calls, txs>>
    BY <1>13 DEF Tree!handleCreate, Tree!onTypeChange, Tree!CloseDialog, Tree!OpenCluster, Tree!CancelCluster, Tree!Backend, Tree!Cache
  <2>2. TreeRows' /\ TreeCache' /\ TreeMemo' /\ TreeText' /\ TreeCounts' /\ TreeHistory' /\ TreeCalls'
    BY <2>1 DEF TreeRows, TreeCache, TreeMemo, TreeText, TreeCounts, TreeHistory, TreeCalls
  <2>3. TreeForms'
    <3>1. ASSUME NEW m \in Tree!AllModes, Tree!handleCreate(m) PROVE TreeForms'
      BY <3>1 DEF TreeForms, Tree!handleCreate, Tree!Offered
    <3>2. ASSUME NEW t \in Types, Tree!onTypeChange(t) PROVE TreeForms'
      BY <3>2 DEF TreeForms, Tree!onTypeChange
    <3>3. CASE Tree!CloseDialog
      BY <3>3 DEF TreeForms, Tree!CloseDialog, Tree!Closed, Tree!AllModes
    <3>4. CASE Tree!OpenCluster \/ Tree!CancelCluster
      BY <3>4 DEF TreeForms, Tree!OpenCluster, Tree!CancelCluster
    <3> QED
      BY <1>13, <3>1, <3>2, <3>3, <3>4
  <2> QED
    BY <2>2, <2>3
<1>14. CASE UNCHANGED treeVars
  BY <1>14 DEF treeVars, TreeRows, TreeCache, TreeMemo, TreeForms, TreeText, TreeCounts, TreeHistory, TreeCalls
<1> QED
  BY <1>1, <1>2, <1>3, <1>4, <1>5, <1>6, <1>7, <1>8, <1>9, <1>10, <1>11, <1>12, <1>13, <1>14,
     <1>15, <1>17, <1>18, <1>19 DEF Tree!Next, Tree!Runs

-----------------------------------------------------------------------------
(* Types of the page of a research cluster: what its invariants leave.     *)

\* A task that runs is one of a kind, and what writes a topic has one.
TaskOf(task) ==
    /\ task.at # "none" => task.kind # "none"
    /\ task.at \in {"calling", "saving", "emitting"} => task.kind # "other"
    /\ task.kind \in {"generate", "update"} => task.topic \in Topics
JobTypes == \A j \in Jobs : TaskOf(job[j])

\* An expansion has read the status that it writes back.
HasRead(r) == r.for = "expand" /\ r.at = "open" => r.read # "none"
Reads == \A q \in Requests : HasRead(req[q])

RowTypes == (\A t \in Topics : row[t] # "none") /\ outlined \subseteq Topics /\ lost \subseteq Topics
TopicTypes ==
    /\ topics \in [Topics -> Research!Statuses \cup {"unknown", "none"}]
    /\ topicFetch \in {Research!Idle, Research!Asked} \cup [at: {"read"}, list: [Topics -> Research!Statuses \cup {"none"}]]
    /\ stream \in BOOLEAN /\ event \in BOOLEAN /\ untold \in BOOLEAN
PoolTypes == threads \in 0 .. MaxSize /\ asked \in 0 .. MaxRequests /\ faults \in 0 .. MaxFaults
ResearchTypes == JobTypes /\ Reads /\ RowTypes /\ TopicTypes /\ PoolTypes

LEMMA ResearchTypesAtFirst == ASSUME Research!Init PROVE ResearchTypes
<1>1. JobTypes /\ Reads
  BY DEF Research!Init, JobTypes, TaskOf, Reads, HasRead, Research!NoJob, Research!NoRequest
<1>2. RowTypes /\ TopicTypes
  BY PoolAssumption DEF Research!Init, RowTypes, TopicTypes, Research!NotLoaded
<1>3. PoolTypes
  BY PoolAssumption, BoundsAssumption DEF Research!Init, PoolTypes
<1> QED
  BY <1>1, <1>2, <1>3 DEF ResearchTypes

LEMMA ResearchTypesOK == ASSUME OwedInv, ResearchTypes PROVE Research!TypeOK
<1>1. row \in [Topics -> Research!Statuses]
  BY DEF OwedInv, Typed, ResearchTypes, RowTypes
<1>2. topicFetch.at \in {"idle", "asked", "read"}
  BY DEF ResearchTypes, TopicTypes, Research!Idle, Research!Asked
<1> QED
  BY <1>1, <1>2 DEF OwedInv, Typed, Tasks, RequestSet, ResearchTypes, RowTypes, TopicTypes, PoolTypes, Research!TypeOK

\* The tasks.
LEMMA JobChanges ==
    ASSUME OwedInv, JobTypes, NEW j \in Jobs, NEW new, TaskOf(new), job' = [job EXCEPT ![j] = new]
    PROVE  JobTypes'
BY DEF OwedInv, Typed, JobTypes, TaskOf

LEMMA JobTypesStep == ASSUME OwedInv, QueueInv, JobTypes, [Research!Next]_researchVars PROVE JobTypes'
<1>1. TaskOf(Research!NoJob)
  BY DEF Research!NoJob, TaskOf
<1>2. CASE Research!Take
  <2>1. /\ job' = [job EXCEPT ![Head(waiting)].at = "started"] /\ Head(waiting) \in Jobs
        /\ job[Head(waiting)] \in Tasks /\ job[Head(waiting)].at = "queued" /\ TaskOf(job[Head(waiting)])
    BY <1>2 DEF Research!Take, OwedInv, Typed, QueueInv, JobTypes
  <2>2. TaskOf([job[Head(waiting)] EXCEPT !.at = "started"])
    BY <2>1 DEF TaskOf, Tasks
  <2> QED
    BY <2>1, <2>2, JobChanges
<1>3. ASSUME NEW what \in {"generate", "update", "other"}, NEW t \in Topics \cup {"none"}, Research!execute(what, t),
             what # "other" => t \in Topics
      PROVE  JobTypes'
  <2>1. PICK k \in Jobs, at \in {"queued", "started"} :
          job' = [job EXCEPT ![k] = [kind |-> what, topic |-> t, at |-> at, to |-> "none", same |-> FALSE]]
    BY <1>3, Executed DEF OwedInv
  <2>2. TaskOf([kind |-> what, topic |-> t, at |-> at, to |-> "none", same |-> FALSE])
    BY <1>3 DEF TaskOf
  <2> QED
    BY <2>1, <2>2, JobChanges
<1>4. CASE Research!OtherTask
  BY <1>3, <1>4 DEF Research!OtherTask
<1>5. ASSUME NEW q \in Requests, NEW t \in Topics, Research!Submit(q, t) PROVE JobTypes'
  BY <1>3, <1>5 DEF Research!Submit
<1>6. ASSUME NEW j \in Jobs, NEW new, \/ new = Research!NoJob
                                      \/ /\ job[j].at \in {"calling", "saving"} \/ (job[j].kind # "other" /\ job[j].at = "started")
                                         /\ \E at \in {"calling", "saving", "emitting"}, to \in {"ready", "error"}, same \in BOOLEAN :
                                              new \in {[job[j] EXCEPT !.at = at], [job[j] EXCEPT !.at = at, !.to = to, !.same = same]},
             job' = [job EXCEPT ![j] = new]
      PROVE  JobTypes'
  <2>1. job[j] \in Tasks /\ TaskOf(job[j])
    BY DEF OwedInv, Typed, JobTypes
  <2>2. TaskOf(new)
    BY <1>1, <1>6, <2>1 DEF TaskOf, Tasks
  <2> QED
    BY <1>6, <2>2, JobChanges
<1>7. ASSUME NEW j \in Jobs, Research!OtherEnds(j) \/ Research!SaveFails(j) \/ Research!emit(j) PROVE JobTypes'
  BY <1>6, <1>7 DEF Research!OtherEnds, Research!SaveFails, Research!emit
<1>8. ASSUME NEW j \in Jobs, Research!ReadTopic(j) PROVE JobTypes'
  <2>1. job[j].kind # "other" /\ job[j].at = "started"
        /\ \E new \in {Research!NoJob, [job[j] EXCEPT !.at = "calling"]} : job' = [job EXCEPT ![j] = new]
    BY <1>8 DEF Research!ReadTopic
  <2> QED
    BY <1>6, <2>1
<1>9. ASSUME NEW j \in Jobs, Research!Save(j) PROVE JobTypes'
  <2>1. job[j].at = "saving"
        /\ \E new \in {Research!NoJob, [job[j] EXCEPT !.at = "emitting"]} : job' = [job EXCEPT ![j] = new]
    BY <1>9 DEF Research!Save
  <2> QED
    BY <1>6, <2>1
<1>10. ASSUME NEW j \in Jobs, NEW to \in {"ready", "error"}, Research!AiAnswers(j, to) PROVE JobTypes'
  <2> DEFINE same == row[job[j].topic] = to
  <2>1. job[j].at = "calling"
        /\ \E new \in {[job[j] EXCEPT !.at = "emitting"], [job[j] EXCEPT !.at = "saving", !.to = to, !.same = same]} :
             job' = [job EXCEPT ![j] = new]
    BY <1>10 DEF Research!AiAnswers
  <2>2. same \in BOOLEAN
    OBVIOUS
  <2> HIDE DEF same
  <2> QED
    BY <1>6, <2>1, <2>2
<1>11. CASE Research!Restart
  BY <1>1, <1>11 DEF Research!Restart, JobTypes
<1>12. CASE job' = job
  BY <1>12 DEF JobTypes
<1>13. ASSUME NEW q \in Requests, \/ Research!Begin(q) \/ Research!Commit(q) \/ Research!Rejected(q) \/ Research!Answered(q)
                                  \/ Research!Retry(q) \/ \E yes \in BOOLEAN : Research!Expanded(q, yes)
       PROVE  JobTypes'
  BY <1>12, <1>13 DEF Research!Begin, Research!Commit, Research!Rejected, Research!Answered, Research!Retry, Research!Expanded, Research!Pool
<1>14. CASE \/ Research!ListTopics \/ Research!Fetched \/ Research!Connect \/ Research!StreamEnds \/ Research!handleEvent
            \/ Research!handleCreate \/ Research!handleUpdateAll
            \/ \E t \in Topics, for \in {"update", "delete", "expand"} : Research!handleTopic(for, t)
            \/ UNCHANGED researchVars
  BY <1>12, <1>14 DEF Research!ListTopics, Research!Fetched, Research!Connect, Research!StreamEnds, Research!handleEvent,
        Research!handleCreate, Research!handleUpdateAll, Research!handleTopic, Research!Send, Research!Pool, researchVars
<1> QED
  BY <1>2, <1>4, <1>5, <1>7, <1>8, <1>9, <1>10, <1>11, <1>13, <1>14 DEF Research!Next

\* The requests.
LEMMA ReadChanges ==
    ASSUME OwedInv, Reads, NEW q \in Requests, NEW new, HasRead(new), req' = [req EXCEPT ![q] = new]
    PROVE  Reads'
BY DEF OwedInv, Typed, Reads, HasRead

LEMMA ReadsStep == ASSUME OwedInv, RowTypes, Reads, [Research!Next]_researchVars PROVE Reads'
<1>1. \A q \in Requests : req[q] \in RequestSet /\ HasRead(req[q]) /\ (req[q].at # "none" => req[q].for \in Research!Kinds)
  BY DEF OwedInv, Typed, WellFormed, Reads
<1>2. ASSUME NEW q \in Requests, NEW at \in {"ok", "refused", "broken", "submitting", "asking"}, NEW those,
             \/ req' = [req EXCEPT ![q] = [req[q] EXCEPT !.at = at]]
             \/ req' = [req EXCEPT ![q] = [req[q] EXCEPT !.topics = those, !.at = at]]
      PROVE  Reads'
  <2>1. HasRead([req[q] EXCEPT !.at = at]) /\ HasRead([req[q] EXCEPT !.topics = those, !.at = at])
    BY <1>1 DEF HasRead, RequestSet
  <2> QED
    BY <1>2, <2>1, ReadChanges
<1>3. ASSUME NEW q \in Requests, Research!Begin(q) PROVE Reads'
  <2>1. req[q] \in RequestSet /\ req[q].for \in Research!Kinds
    BY <1>1, <1>3 DEF Research!Begin
  <2>2. CASE req[q].for = "updateAll"
    <3>1. PICK those, at : req' = [req EXCEPT ![q] = [req[q] EXCEPT !.topics = those, !.at = at]]
      BY <1>3, <2>2 DEF Research!Begin, Research!Put
    <3>2. HasRead([req[q] EXCEPT !.topics = those, !.at = at])
      BY <2>1, <2>2 DEF HasRead, RequestSet
    <3> QED
      BY <3>1, <3>2, ReadChanges
  <2>3. CASE req[q].for = "create"
    <3>1. req' = [req EXCEPT ![q] = [req[q] EXCEPT !.at = "open"]]
      BY <1>3, <2>3 DEF Research!Begin, Research!Put
    <3>2. HasRead([req[q] EXCEPT !.at = "open"])
      BY <2>1, <2>3 DEF HasRead, RequestSet
    <3> QED
      BY <3>1, <3>2, ReadChanges
  <2>4. CASE req[q].for \in {"update", "delete", "expand"}
    <3>1. PICK at, read : /\ req' = [req EXCEPT ![q] = [req[q] EXCEPT !.at = at, !.read = read]]
                          /\ req[q].for = "expand" => at # "open"
      <4>1. PICK t \in req[q].topics :
              req' = [req EXCEPT ![q] = [req[q] EXCEPT
                        !.at = IF row[t] = "gone" THEN "refused" ELSE IF req[q].for = "expand" THEN "asking" ELSE "open",
                        !.read = IF req[q].for = "update" THEN row[t] ELSE req[q].read]]
        BY <1>3, <2>4 DEF Research!Begin, Research!Put
      <4>2. req[q].for = "expand" => (IF row[t] = "gone" THEN "refused" ELSE IF req[q].for = "expand" THEN "asking" ELSE "open") # "open"
        OBVIOUS
      <4> QED
        BY <4>1, <4>2
    <3>2. HasRead([req[q] EXCEPT !.at = at, !.read = read])
      BY <2>1, <3>1 DEF HasRead, RequestSet
    <3> QED
      BY <3>1, <3>2, ReadChanges
  <2> QED
    BY <2>1, <2>2, <2>3, <2>4 DEF Research!Kinds
<1>4. ASSUME NEW q \in Requests, NEW yes \in BOOLEAN, Research!Expanded(q, yes) PROVE Reads'
  <2>1. PICK t \in req[q].topics : \/ req' = [req EXCEPT ![q] = [req[q] EXCEPT !.at = "open", !.read = row[t]]]
                                  \/ req' = [req EXCEPT ![q] = [req[q] EXCEPT !.at = "refused"]]
    BY <1>4 DEF Research!Expanded, Research!Put, Research!Ends
  <2>2. row[t] # "none"
    BY <1>1, <2>1 DEF RequestSet, RowTypes
  <2>3. HasRead([req[q] EXCEPT !.at = "open", !.read = row[t]])
    BY <1>1, <2>2 DEF HasRead, RequestSet
  <2> QED
    BY <1>2, <2>1, <2>3, ReadChanges
<1>5. ASSUME NEW q \in Requests, Research!Commit(q) \/ Research!Rejected(q) PROVE Reads'
  <2>1. PICK at \in {"ok", "broken", "submitting"} : req' = [req EXCEPT ![q] = [req[q] EXCEPT !.at = at]]
    BY <1>5 DEF Research!Commit, Research!Rejected, Research!Ends, Research!Put
  <2> QED
    BY <1>2, <2>1
<1>6. ASSUME NEW q \in Requests, NEW t \in Topics, Research!Submit(q, t) PROVE Reads'
  <2>1. req' = [req EXCEPT ![q] = [req[q] EXCEPT !.topics = req[q].topics \ {t},
                                                 !.at = IF req[q].topics = {t} THEN "ok" ELSE req[q].at]]
        /\ req[q].at = "submitting"
    BY <1>6 DEF Research!Submit, Research!Put
  <2>2. PICK at \in {"ok", "submitting"} : req' = [req EXCEPT ![q] = [req[q] EXCEPT !.topics = req[q].topics \ {t}, !.at = at]]
    BY <2>1
  <2> QED
    BY <1>2, <2>2
<1>7. ASSUME NEW q \in Requests, Research!Answered(q) \/ Research!Retry(q) PROVE Reads'
  <2>1. HasRead(Research!NoRequest)
    BY DEF HasRead, Research!NoRequest
  <2>2. CASE Research!Answered(q)
    BY <2>1, <2>2, ReadChanges DEF Research!Answered, Research!Put
  <2>3. CASE Research!Retry(q)
    <3>1. PICK those : req' = [req EXCEPT ![q] = [req[q] EXCEPT !.at = "sent", !.topics = those, !.read = "none", !.try = 2]]
      BY <2>3 DEF Research!Retry, Research!Put
    <3>2. HasRead([req[q] EXCEPT !.at = "sent", !.topics = those, !.read = "none", !.try = 2])
      BY <1>1 DEF HasRead, RequestSet
    <3> QED
      BY <3>1, <3>2, ReadChanges
  <2> QED
    BY <1>7, <2>2, <2>3
<1>8. ASSUME NEW for, NEW those, Research!Send(for, those) PROVE Reads'
  <2> DEFINE free == {p \in Requests : req[p].at = "none"}
             q == CHOOSE p \in free : TRUE
             new == [Research!NoRequest EXCEPT !.for = for, !.topics = those, !.at = "sent"]
  <2>1. q \in Requests
    BY <1>8 DEF Research!Send
  <2>2. req' = [req EXCEPT ![q] = new]
    BY <1>8 DEF Research!Send
  <2>3. HasRead(new)
    BY DEF HasRead, Research!NoRequest
  <2> HIDE DEF q, new
  <2> QED
    BY <2>1, <2>2, <2>3, ReadChanges
<1>9. CASE Research!Restart
  <2> SUFFICES ASSUME NEW q \in Requests PROVE HasRead(req[q])'
    BY DEF Reads
  <2>1. req'[q] \in {req[q], [req[q] EXCEPT !.at = "broken"]}
    BY <1>9 DEF Research!Restart
  <2> QED
    BY <1>1, <2>1 DEF HasRead, RequestSet
<1>10. CASE req' = req
  BY <1>10 DEF Reads, HasRead
<1>11. ASSUME NEW j \in Jobs,
              \/ Research!OtherEnds(j) \/ Research!ReadTopic(j) \/ Research!Save(j) \/ Research!SaveFails(j) \/ Research!emit(j)
              \/ \E to \in {"ready", "error"} : Research!AiAnswers(j, to)
       PROVE  Reads'
  BY <1>10, <1>11 DEF Research!OtherEnds, Research!ReadTopic, Research!Save, Research!SaveFails, Research!emit, Research!AiAnswers
<1>12. CASE \/ Research!Take \/ Research!OtherTask
            \/ Research!ListTopics \/ Research!Fetched \/ Research!Connect \/ Research!StreamEnds \/ Research!handleEvent
            \/ UNCHANGED researchVars
  BY <1>10, <1>12 DEF Research!Take, Research!OtherTask, Research!ListTopics, Research!Fetched, Research!Connect, Research!StreamEnds,
        Research!handleEvent, researchVars
<1>13. CASE \/ Research!handleCreate \/ Research!handleUpdateAll
            \/ \E t \in Topics, for \in {"update", "delete", "expand"} : Research!handleTopic(for, t)
  BY <1>8, <1>13 DEF Research!handleCreate, Research!handleUpdateAll, Research!handleTopic
<1> QED
  BY <1>3, <1>4, <1>5, <1>6, <1>7, <1>9, <1>11, <1>12, <1>13 DEF Research!Next

\* The rows.
LEMMA RowTypesStep == ASSUME OwedInv, JobTypes, Reads, RowTypes, [Research!Next]_researchVars PROVE RowTypes'
<1> USE DEF RowTypes
<1>1. CASE UNCHANGED <<row, outlined, lost>>
  BY <1>1
<1>2. ASSUME NEW j \in Jobs, Research!Save(j) PROVE RowTypes'
  <2>1. job[j] \in Tasks /\ TaskOf(job[j]) /\ job[j].at = "saving" /\ job[j].to \in {"ready", "error"}
    BY <1>2 DEF OwedInv, Typed, WellFormed, JobTypes, Research!Save
  <2>2. job[j].kind \in {"generate", "update"} /\ job[j].topic \in Topics
    BY <2>1 DEF TaskOf, Tasks
  <2>3. /\ UNCHANGED row \/ row' = [row EXCEPT ![job[j].topic] = job[j].to]
        /\ lost' \subseteq lost /\ outlined' \subseteq outlined \cup {job[j].topic}
    BY <1>2 DEF Research!Save, Research!Rows
  <2>4. \A t \in Topics : row'[t] # "none"
    BY <2>1, <2>2, <2>3 DEF OwedInv, Typed
  <2> QED
    BY <2>2, <2>3, <2>4
<1>3. ASSUME NEW j \in Jobs, Research!SaveFails(j) PROVE RowTypes'
  <2>1. job[j].topic \in Topics
    BY <1>3 DEF OwedInv, Typed, Tasks, JobTypes, TaskOf, Research!SaveFails
  <2> QED
    BY <1>3, <2>1 DEF Research!SaveFails, Research!Rows
<1>4. ASSUME NEW q \in Requests, Research!Commit(q) PROVE RowTypes'
  <2> DEFINE r == req[q]
  <2>1. r \in RequestSet /\ r.at = "open" /\ r.for \in Research!Kinds /\ HasRead(r)
    BY <1>4 DEF OwedInv, Typed, WellFormed, Reads, Research!Commit
  <2>2. \A t \in Topics : Research!Written(r, t) # "none"
    BY <2>1 DEF Research!Written, Research!Kinds, HasRead
  <2>3. UNCHANGED row \/ row' = [t \in Topics |-> IF t \in r.topics /\ ~Research!Unwritten(r) THEN Research!Written(r, t) ELSE row[t]]
    BY <1>4 DEF Research!Commit
  <2>4. lost' \subseteq lost \cup r.topics /\ outlined' = outlined
    BY <1>4 DEF Research!Commit
  <2>5. r.topics \subseteq Topics
    BY <2>1 DEF RequestSet
  <2> QED
    BY <2>2, <2>3, <2>4, <2>5
<1>5. ASSUME NEW q \in Requests, Research!Rejected(q) PROVE RowTypes'
  <2>1. req[q].topics \subseteq Topics
    BY DEF OwedInv, Typed, RequestSet
  <2> QED
    BY <1>5, <2>1 DEF Research!Rejected, Research!Rows
<1>6. CASE Research!Restart
  BY <1>6 DEF Research!Restart, Research!Rows
<1>7. ASSUME NEW j \in Jobs, \/ Research!OtherEnds(j) \/ Research!ReadTopic(j) \/ Research!emit(j)
                             \/ \E to \in {"ready", "error"} : Research!AiAnswers(j, to)
      PROVE  RowTypes'
  BY <1>1, <1>7 DEF Research!OtherEnds, Research!ReadTopic, Research!emit, Research!AiAnswers, Research!Rows
<1>8. ASSUME NEW q \in Requests, \/ Research!Begin(q) \/ Research!Answered(q) \/ Research!Retry(q)
                                 \/ \E yes \in BOOLEAN : Research!Expanded(q, yes)
                                 \/ \E t \in Topics : Research!Submit(q, t)
      PROVE  RowTypes'
  BY <1>1, <1>8 DEF Research!Begin, Research!Answered, Research!Retry, Research!Expanded, Research!Submit, Research!Rows
<1>9. CASE \/ Research!Take \/ Research!OtherTask
           \/ Research!ListTopics \/ Research!Fetched \/ Research!Connect \/ Research!StreamEnds \/ Research!handleEvent
           \/ UNCHANGED researchVars
  BY <1>1, <1>9 DEF Research!Take, Research!OtherTask, Research!ListTopics, Research!Fetched, Research!Connect, Research!StreamEnds,
        Research!handleEvent, Research!Rows, researchVars
<1>10. CASE \/ Research!handleCreate \/ Research!handleUpdateAll
            \/ \E t \in Topics, for \in {"update", "delete", "expand"} : Research!handleTopic(for, t)
  BY <1>1, <1>10 DEF Research!handleCreate, Research!handleUpdateAll, Research!handleTopic, Research!Send, Research!Rows
<1> QED
  BY <1>2, <1>3, <1>4, <1>5, <1>6, <1>7, <1>8, <1>9, <1>10 DEF Research!Next

\* The page.
LEMMA TopicTypesStep == ASSUME OwedInv, RowTypes, TopicTypes, [Research!Next]_researchVars PROVE TopicTypes'
<1> USE DEF TopicTypes
<1>1. CASE UNCHANGED <<topics, topicFetch, stream, event>> /\ untold' \in BOOLEAN
  BY <1>1
<1>2. ASSUME NEW q \in Requests, Research!Answered(q) PROVE TopicTypes'
  BY <1>2 DEF Research!Answered, Research!invalidateQueries
<1>3. CASE Research!ListTopics
  <2>1. \A t \in Topics : Research!Fetchable(t) \in Research!Statuses \cup {"none"}
    BY DEF OwedInv, Typed, Research!Fetchable
  <2> QED
    BY <1>3, <2>1 DEF Research!ListTopics
<1>4. CASE Research!Fetched
  <2>1. topicFetch \in [at: {"read"}, list: [Topics -> Research!Statuses \cup {"none"}]]
    BY <1>4 DEF Research!Fetched, Research!Idle, Research!Asked
  <2>2. topics' = topicFetch.list /\ topicFetch' = Research!Idle /\ UNCHANGED <<stream, event, untold>>
    BY <1>4 DEF Research!Fetched
  <2>3. topics' \in [Topics -> Research!Statuses \cup {"unknown", "none"}]
    BY <2>1, <2>2
  <2> QED
    BY <2>2, <2>3
<1>5. CASE Research!Connect \/ Research!StreamEnds \/ Research!handleEvent
  BY <1>5 DEF Research!Connect, Research!StreamEnds, Research!handleEvent, Research!invalidateQueries
<1>6. CASE Research!Restart
  BY <1>6 DEF Research!Restart
<1>7. ASSUME NEW j \in Jobs, Research!emit(j) PROVE TopicTypes'
  BY <1>7 DEF Research!emit, Research!Untold
<1>8. ASSUME NEW j \in Jobs, \/ Research!OtherEnds(j) \/ Research!ReadTopic(j) \/ Research!Save(j) \/ Research!SaveFails(j)
                             \/ \E to \in {"ready", "error"} : Research!AiAnswers(j, to)
      PROVE  TopicTypes'
  BY <1>1, <1>8 DEF Research!OtherEnds, Research!ReadTopic, Research!Save, Research!SaveFails, Research!AiAnswers, Research!Page, Research!Untold
<1>9. ASSUME NEW q \in Requests, \/ Research!Begin(q) \/ Research!Commit(q) \/ Research!Rejected(q) \/ Research!Retry(q)
                                 \/ \E yes \in BOOLEAN : Research!Expanded(q, yes)
                                 \/ \E t \in Topics : Research!Submit(q, t)
      PROVE  TopicTypes'
  BY <1>1, <1>9 DEF Research!Begin, Research!Commit, Research!Rejected, Research!Retry, Research!Expanded, Research!Submit, Research!Page,
        Research!Untold
<1>10. CASE Research!Take \/ Research!OtherTask \/ UNCHANGED researchVars
  BY <1>1, <1>10 DEF Research!Take, Research!OtherTask, Research!Page, researchVars
<1>11. CASE \/ Research!handleCreate \/ Research!handleUpdateAll
            \/ \E t \in Topics, for \in {"update", "delete", "expand"} : Research!handleTopic(for, t)
  BY <1>1, <1>11 DEF Research!handleCreate, Research!handleUpdateAll, Research!handleTopic, Research!Send, Research!Page
<1> QED
  BY <1>2, <1>3, <1>4, <1>5, <1>6, <1>7, <1>8, <1>9, <1>10, <1>11 DEF Research!Next

\* The pool, which starts no thread above its maximum, and the bounds.
LEMMA PoolTypesStep == ASSUME OwedInv, PoolTypes, [Research!Next]_researchVars PROVE PoolTypes'
<1> USE PoolAssumption, BoundsAssumption DEF PoolTypes
<1>1. CASE UNCHANGED <<threads, asked, faults>>
  BY <1>1
<1>2. ASSUME NEW what, NEW t, Research!execute(what, t) PROVE threads' \in 0 .. MaxSize
  <2>1. Len(waiting) \in Nat
    BY DEF OwedInv, Typed
  <2>2. \/ threads' = threads
        \/ /\ threads' = threads + 1 /\ (threads < CoreSize \/ Len(waiting) >= QueueCapacity)
           /\ threads < CoreSize \/ Len(waiting) < QueueCapacity \/ threads < MaxSize
    BY <1>2 DEF Research!execute, Research!Accepts
  <2> QED
    BY <2>1, <2>2
<1>3. CASE Research!OtherTask
  BY <1>2, <1>3 DEF Research!OtherTask
<1>4. ASSUME NEW q \in Requests, NEW t \in Topics, Research!Submit(q, t) PROVE PoolTypes'
  BY <1>2, <1>4 DEF Research!Submit
<1>5. ASSUME NEW j \in Jobs, Research!SaveFails(j) PROVE PoolTypes'
  BY <1>5 DEF Research!SaveFails, Research!Fault
<1>6. CASE Research!Restart \/ Research!StreamEnds
  BY <1>6 DEF Research!Restart, Research!StreamEnds, Research!Fault, Research!Pool
<1>7. ASSUME NEW j \in Jobs, \/ Research!OtherEnds(j) \/ Research!ReadTopic(j) \/ Research!Save(j) \/ Research!emit(j)
                             \/ \E to \in {"ready", "error"} : Research!AiAnswers(j, to)
      PROVE  PoolTypes'
  BY <1>1, <1>7 DEF Research!OtherEnds, Research!ReadTopic, Research!Save, Research!emit, Research!AiAnswers
<1>8. ASSUME NEW q \in Requests, \/ Research!Begin(q) \/ Research!Commit(q) \/ Research!Rejected(q) \/ Research!Answered(q)
                                 \/ Research!Retry(q) \/ \E yes \in BOOLEAN : Research!Expanded(q, yes)
      PROVE  PoolTypes'
  BY <1>1, <1>8 DEF Research!Begin, Research!Commit, Research!Rejected, Research!Answered, Research!Retry, Research!Expanded, Research!Pool
<1>9. CASE \/ Research!Take \/ Research!ListTopics \/ Research!Fetched \/ Research!Connect \/ Research!handleEvent
           \/ UNCHANGED researchVars
  BY <1>1, <1>9 DEF Research!Take, Research!ListTopics, Research!Fetched, Research!Connect, Research!handleEvent, Research!Pool, researchVars
<1>10. CASE \/ Research!handleCreate \/ Research!handleUpdateAll
            \/ \E t \in Topics, for \in {"update", "delete", "expand"} : Research!handleTopic(for, t)
  <2>1. ASSUME NEW for, NEW those, Research!Send(for, those) PROVE PoolTypes'
    BY <2>1 DEF Research!Send, Research!Pool
  <2> QED
    BY <1>10, <2>1 DEF Research!handleCreate, Research!handleUpdateAll, Research!handleTopic
<1> QED
  BY <1>3, <1>4, <1>5, <1>6, <1>7, <1>8, <1>9, <1>10 DEF Research!Next

LEMMA ResearchTypesStep ==
    ASSUME OwedInv, QueueInv, ResearchTypes, [Research!Next]_researchVars
    PROVE  ResearchTypes'
BY JobTypesStep, ReadsStep, RowTypesStep, TopicTypesStep, PoolTypesStep DEF ResearchTypes

-----------------------------------------------------------------------------
TreeGood == TreeInv /\ RequestsInv /\ TreeTypes
ListGood == TagsInv /\ ListTypes
ProjectGood == StatusInv /\ ProjectTypes
TaskGood == ViewInv /\ TaskTypes
ResearchGood == OwedInv /\ QueueInv /\ ToldInv /\ ResearchTypes
Good == page \in PageNames /\ TreeGood /\ ListGood /\ ProjectGood /\ PanelTypes /\ TaskGood /\ ReviewTypes /\ ResearchGood

\* Every page has its types whichever of them is open: what is counted, cached, asked for and drawn keeps the form
\* that the other theorems suppose, the pool starts no thread above its maximum and no bound is passed.
THEOREM PagesTypeCorrect == Spec => []TypeOK
<1>1. Init => Good
  <2> SUFFICES ASSUME Init PROVE Good
    OBVIOUS
  <2>1. TreeGood
    BY TreeAtFirst, RequestsAtFirst, TreeTypesAtFirst DEF Init, TreeGood
  <2>2. ListGood
    BY TagsAtFirst, ListTypesAtFirst DEF Init, ListGood
  <2>3. ProjectGood
    BY StatusAtFirst, ProjectTypesAtFirst DEF Init, ProjectGood
  <2>4. TaskGood
    BY ViewAtFirst, TaskTypesAtFirst DEF Init, TaskGood
  <2>5. ResearchGood
    BY OwedInvInit, ToldInvInit, ResearchTypesAtFirst DEF Init, ResearchGood
  <2> QED
    BY <2>1, <2>2, <2>3, <2>4, <2>5, PanelTypesAtFirst, ReviewTypesAtFirst DEF Init, Good
<1>2. Good /\ [Next]_vars => Good'
  <2> SUFFICES ASSUME Good, [Next]_vars PROVE Good'
    OBVIOUS
  <2>1. page' = page
    BY DEF Next, Only, vars
  <2>2. TreeGood'
    BY TreeStep, RequestsStep, TreeTypesStep, PageSteps DEF Good, TreeGood
  <2>3. ListGood'
    BY TagsInvStep, ListTypesStep, PageSteps DEF Good, ListGood
  <2>4. ProjectGood'
    BY StatusStep, ProjectTypesStep, PageSteps DEF Good, ProjectGood
  <2>5. TaskGood'
    BY ViewInvStep, TaskTypesStep, PageSteps DEF Good, TaskGood
  <2>6. ResearchGood'
    BY OwedInvNext, ToldInvNext, ResearchTypesStep, PageSteps DEF Good, ResearchGood
  <2> QED
    BY <2>1, <2>2, <2>3, <2>4, <2>5, <2>6, PanelTypesStep, ReviewTypesStep, PageSteps DEF Good
<1>3. Good => TypeOK
  BY TreeTypesOK, ListTypesOK, ProjectTypesOK, PanelTypesOK, TaskTypesOK, ReviewTypesOK, ResearchTypesOK
     DEF Good, TreeGood, ListGood, ProjectGood, TaskGood, ResearchGood, TypeOK
<1> QED
  BY <1>1, <1>2, <1>3, PTL DEF Spec
=============================================================================
