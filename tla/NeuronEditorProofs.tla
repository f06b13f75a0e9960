------------------------- MODULE NeuronEditorProofs -------------------------
(***************************************************************************)
(* Theorems about NeuronEditor, for every number of tabs and calls, any    *)
(* contents and any number of retries.                                     *)
(***************************************************************************)
EXTENDS NeuronEditor, TLAPS

LEMMA SomeDocType == SomeDoc \in Contents
  BY EditorAssumption DEF SomeDoc

LEMMA NullsType == NewTab \in TabStates /\ NoCall \in CallStates
  BY SomeDocType DEF NewTab, TabStates, NoCall, CallStates

(* A call that starts is well formed. *)
LEMMA CallType ==
  ASSUME TypeOK, NEW t \in Tabs, NEW s \in Slots, NEW kind \in {"put", "restore"},
         NEW d \in Contents, NEW v \in Nat, Call(t, s, kind, d, v)
  PROVE  calls' \in [Ids -> CallStates]
<1> DEFINE c == [kind |-> kind, at |-> "sent", doc |-> d, v |-> v, base |-> tab[t].base,
                 attempt |-> 1]
<1>1. tab[t] \in TabStates /\ <<t, s>> \in Ids
  BY DEF TypeOK, Ids
<1>2. c \in CallStates
  BY <1>1 DEF TabStates, CallStates
<1>3. calls' = [calls EXCEPT ![<<t, s>>] = c] /\ calls \in [Ids -> CallStates]
  BY DEF Call, TypeOK
<1> HIDE DEF c
<1> QED BY <1>1, <1>2, <1>3

LEMMA TangledType ==
  ASSUME TypeOK, NEW t \in Tabs, NEW kind
  PROVE  Tangled(t, kind) \in {"no", "saves", "restore"}
<1>1. tab[t] \in TabStates
  BY DEF TypeOK
<1> QED BY <1>1 DEF TabStates, Tangled

(* What the server does to a cell. *)
LEMMA ApplyCell ==
  ASSUME TypeOK, NEW kind \in {"put", "restore"}, NEW v, NEW d \in Contents, Apply(kind, v, d)
  PROVE  /\ kind = "put" => v = version
         /\ content' = d /\ version' = version + 1 /\ present' = present
         /\ content' \in Contents /\ version' \in Nat /\ present' \in BOOLEAN
<1>1. version \in Nat /\ present \in BOOLEAN
  BY DEF TypeOK
<1> QED BY <1>1 DEF Apply, Cell!Save, Cell!RestoreContent, Cell!Replace

LEMMA SettleType ==
  ASSUME TypeOK, NEW i \in Ids, Settle(i)
  PROVE  calls' \in [Ids -> CallStates]
  BY NullsType DEF TypeOK, Settle

LEMMA EndType ==
  ASSUME TypeOK, NEW i \in Ids, Saved(i) \/ Failed(i)
  PROVE  tab' \in [Tabs -> TabStates]
<1>1. i[1] \in Tabs /\ tab \in [Tabs -> TabStates] /\ calls[i] \in CallStates
  BY DEF Ids, TypeOK
<1>2. tab[i[1]] \in TabStates /\ calls[i].doc \in Contents
  BY <1>1 DEF CallStates
<1>3. CASE Saved(i)
  <2> DEFINE r == [tab[i[1]] EXCEPT !.known = @ + 1, !.status = "saved", !.base = calls[i].doc]
  <2>0. tab[i[1]].known + 1 \in Nat
    BY <1>2 DEF TabStates
  <2>1. r \in TabStates
    BY <1>2, <2>0 DEF TabStates
  <2>2. tab' = [tab EXCEPT ![i[1]] = r]
    BY <1>3 DEF Saved
  <2> HIDE DEF r
  <2> QED BY <1>1, <2>1, <2>2
<1>4. CASE Failed(i)
  <2> DEFINE r == [tab[i[1]] EXCEPT !.status = "error"]
  <2>1. r \in TabStates
    BY <1>2 DEF TabStates
  <2>2. tab' = [tab EXCEPT ![i[1]] = r] \/ tab' = tab
    BY <1>4 DEF Failed
  <2> HIDE DEF r
  <2> QED BY <1>1, <2>1, <2>2
<1> QED BY <1>3, <1>4

-----------------------------------------------------------------------------
LEMMA EditorTypeStep ==
  ASSUME TypeOK, [Next]_vars
  PROVE  TypeOK'
<1> USE DEF cell
<1>0. /\ content \in Contents /\ version \in Nat /\ present \in BOOLEAN
      /\ tab \in [Tabs -> TabStates] /\ calls \in [Ids -> CallStates]
      /\ stray \in SUBSET Strays /\ ops \in Nat
  BY DEF TypeOK
<1>1. ASSUME NEW t \in Tabs, Load(t) PROVE TypeOK'
  <2> DEFINE r == [NewTab EXCEPT !.at = "open", !.doc = content, !.base = content,
                                 !.known = version]
  <2>1. r \in TabStates
    BY <1>0, NullsType DEF TabStates
  <2>2. tab' = [tab EXCEPT ![t] = r] /\ UNCHANGED <<cell, calls, stray, ops>>
    BY <1>1 DEF Load
  <2> HIDE DEF r
  <2>3. tab' \in [Tabs -> TabStates]
    BY <1>0, <2>1, <2>2
  <2> QED BY <1>0, <2>2, <2>3 DEF TypeOK
<1>2. ASSUME NEW t \in Tabs, NEW d \in Contents, Edit(t, d) PROVE TypeOK'
  <2> DEFINE r == [tab[t] EXCEPT !.doc = d, !.timer = TRUE, !.armed = TRUE]
  <2>1. r \in TabStates
    BY <1>0 DEF TabStates
  <2>2. tab' = [tab EXCEPT ![t] = r] /\ ops' = ops + 1 /\ UNCHANGED <<cell, calls, stray>>
    BY <1>2 DEF Edit
  <2> HIDE DEF r
  <2>3. tab' \in [Tabs -> TabStates]
    BY <1>0, <2>1, <2>2
  <2> QED BY <1>0, <2>2, <2>3 DEF TypeOK
<1>3. ASSUME NEW t \in Tabs, NEW s \in Slots, SaveContent(t, s) PROVE TypeOK'
  <2> DEFINE k == Tangled(t, "put")
  <2> DEFINE r == [tab[t] EXCEPT !.timer = FALSE, !.status = "saving", !.tangle = k]
  <2>0. k \in {"no", "saves", "restore"}
    BY TangledType
  <2>1. tab' = [tab EXCEPT ![t] = r] /\ UNCHANGED <<cell, stray, ops>>
    BY <1>3 DEF SaveContent
  <2> HIDE DEF k
  <2>2. r \in TabStates
    BY <1>0, <2>0 DEF TabStates
  <2>3. calls' \in [Ids -> CallStates]
    <3>1. tab[t].doc \in Contents /\ tab[t].known \in Nat
      BY <1>0 DEF TabStates
    <3>2. Call(t, s, "put", tab[t].doc, tab[t].known)
      BY <1>3 DEF SaveContent
    <3> QED BY <3>1, <3>2, CallType
  <2> HIDE DEF r
  <2>4. tab' \in [Tabs -> TabStates]
    BY <1>0, <2>1, <2>2
  <2> QED BY <1>0, <2>1, <2>3, <2>4 DEF TypeOK
<1>4. ASSUME NEW t \in Tabs, NEW s \in Slots, NEW c \in Contents, HandleRestore(t, s, c)
      PROVE  TypeOK'
  <2> DEFINE k == Tangled(t, "restore")
  <2> DEFINE r == [tab[t] EXCEPT !.tangle = k]
  <2>0. k \in {"no", "saves", "restore"}
    BY TangledType
  <2>1. tab' = [tab EXCEPT ![t] = r] /\ ops' = ops + 1 /\ UNCHANGED <<cell, stray>>
    BY <1>4 DEF HandleRestore
  <2> HIDE DEF k
  <2>2. r \in TabStates
    BY <1>0, <2>0 DEF TabStates
  <2>3. calls' \in [Ids -> CallStates]
    <3>1. Call(t, s, "restore", c, 0)
      BY <1>4 DEF HandleRestore
    <3> QED BY <3>1, CallType
  <2> HIDE DEF r
  <2>4. tab' \in [Tabs -> TabStates]
    BY <1>0, <2>1, <2>2
  <2> QED BY <1>0, <2>1, <2>3, <2>4 DEF TypeOK
<1>5. ASSUME NEW t \in Tabs, Unmount(t) PROVE TypeOK'
  <2> DEFINE k == Tangled(t, "put")
  <2> DEFINE r == [tab[t] EXCEPT !.at = "gone", !.timer = FALSE, !.status = "saving",
                                 !.tangle = k]
  <2> DEFINE q == [tab[t] EXCEPT !.at = "gone"]
  <2>0. k \in {"no", "saves", "restore"}
    BY TangledType
  <2>1. (tab' = [tab EXCEPT ![t] = r] \/ tab' = [tab EXCEPT ![t] = q])
        /\ UNCHANGED <<cell, stray, ops>>
    BY <1>5 DEF Unmount
  <2> HIDE DEF k
  <2>2. r \in TabStates /\ q \in TabStates
    BY <1>0, <2>0 DEF TabStates
  <2>3. calls' \in [Ids -> CallStates]
    <3>1. tab[t].doc \in Contents /\ tab[t].known \in Nat
      BY <1>0 DEF TabStates
    <3>2. calls' = calls \/ \E s \in Slots : Call(t, s, "put", tab[t].doc, tab[t].known)
      BY <1>5 DEF Unmount
    <3> QED BY <1>0, <3>1, <3>2, CallType
  <2> HIDE DEF r, q
  <2>4. tab' \in [Tabs -> TabStates]
    BY <1>0, <2>1, <2>2
  <2> QED BY <1>0, <2>1, <2>3, <2>4 DEF TypeOK
<1>6. ASSUME NEW i \in Ids, Serve(i) PROVE TypeOK'
  <2>1. calls[i] \in CallStates
    BY <1>0
  <2>2. content' \in Contents /\ version' \in Nat /\ present' \in BOOLEAN
    BY <1>6, <2>1, ApplyCell DEF Serve, CallStates
  <2> DEFINE w == IF calls[i].kind = "put" THEN calls[i].v ELSE version + 1
  <2> DEFINE c == [calls[i] EXCEPT !.at = "ok", !.v = w]
  <2>3. w \in Nat
    BY <1>0, <2>1 DEF CallStates
  <2>4. calls' = [calls EXCEPT ![i] = c] /\ UNCHANGED <<tab, stray, ops>>
    BY <1>6 DEF Serve
  <2> HIDE DEF w
  <2>5. c \in CallStates
    BY <2>1, <2>3 DEF CallStates
  <2> HIDE DEF c
  <2>6. calls' \in [Ids -> CallStates]
    BY <1>0, <2>4, <2>5
  <2> QED BY <1>0, <2>2, <2>4, <2>6 DEF TypeOK
<1>7. ASSUME NEW i \in Ids, Refuse(i) PROVE TypeOK'
  <2> DEFINE c == [calls[i] EXCEPT !.at = "refused"]
  <2>1. c \in CallStates
    BY <1>0 DEF CallStates
  <2>2. calls' = [calls EXCEPT ![i] = c] /\ UNCHANGED <<cell, tab, stray, ops>>
    BY <1>7 DEF Refuse
  <2> HIDE DEF c
  <2>3. calls' \in [Ids -> CallStates]
    BY <1>0, <2>1, <2>2
  <2> QED BY <1>0, <2>2, <2>3 DEF TypeOK
<1>8. ASSUME NEW i \in Ids, PutAnswered(i) PROVE TypeOK'
  <2> DEFINE c == [calls[i] EXCEPT !.at = "patch"]
  <2>1. c \in CallStates
    BY <1>0 DEF CallStates
  <2>2. (calls' = [calls EXCEPT ![i] = c] /\ tab' = tab) \/ (Saved(i) /\ Settle(i))
    BY <1>8 DEF PutAnswered
  <2> HIDE DEF c
  <2>3. calls' \in [Ids -> CallStates]
    BY <1>0, <2>1, <2>2, SettleType
  <2>4. tab' \in [Tabs -> TabStates]
    BY <1>0, <2>2, EndType
  <2> QED BY <1>0, <1>8, <2>3, <2>4 DEF TypeOK, PutAnswered
<1>9. ASSUME NEW i \in Ids, PatchAnswered(i) PROVE TypeOK'
  BY <1>0, <1>9, SettleType, EndType DEF TypeOK, PatchAnswered
<1>10. ASSUME NEW i \in Ids, RestoreAnswered(i) PROVE TypeOK'
  <2> DEFINE c == calls[i]
  <2> DEFINE r == [tab[i[1]] EXCEPT !.doc = c.doc, !.base = c.doc, !.known = c.v]
  <2>1. i[1] \in Tabs /\ c.doc \in Contents /\ c.v \in Nat
    BY <1>0 DEF Ids, CallStates
  <2>3. tab' = [tab EXCEPT ![i[1]] = r]
    BY <1>10 DEF RestoreAnswered
  <2> HIDE DEF c
  <2>2. r \in TabStates
    BY <1>0, <2>1 DEF TabStates
  <2> HIDE DEF r
  <2>4. tab' \in [Tabs -> TabStates]
    BY <1>0, <2>1, <2>2, <2>3
  <2> QED BY <1>0, <1>10, <2>4, SettleType DEF TypeOK, RestoreAnswered
<1>11. ASSUME NEW i \in Ids, Refused(i) PROVE TypeOK'
  BY <1>0, <1>11, SettleType, EndType DEF TypeOK, Refused
<1>12. ASSUME NEW i \in Ids, LoseAnswer(i) PROVE TypeOK'
  <2> DEFINE n == calls[i].attempt + 1
  <2> DEFINE c == [calls[i] EXCEPT !.at = "sent", !.attempt = n]
  <2> DEFINE m == [from |-> i[1], kind |-> calls[i].kind, doc |-> calls[i].doc, v |-> calls[i].v,
                   base |-> calls[i].base]
  <2>0. i[1] \in Tabs /\ calls[i] \in CallStates
    BY <1>0 DEF Ids
  <2>1. n \in Nat
    BY <2>0 DEF CallStates
  <2>2. (calls' = [calls EXCEPT ![i] = c] /\ tab' = tab) \/ (Failed(i) /\ Settle(i))
    BY <1>12 DEF LoseAnswer
  <2>3. stray' = stray \/ stray' = stray \cup {m}
    BY <1>12 DEF LoseAnswer
  <2>4. m \in Strays
    BY <2>0 DEF Strays, CallStates
  <2> HIDE DEF n, m
  <2>5. c \in CallStates
    BY <2>0, <2>1 DEF CallStates
  <2> HIDE DEF c
  <2>6. calls' \in [Ids -> CallStates]
    BY <1>0, <2>2, <2>5, SettleType
  <2>7. tab' \in [Tabs -> TabStates]
    BY <1>0, <2>2, EndType
  <2>8. stray' \in SUBSET Strays
    BY <1>0, <2>3, <2>4
  <2> QED BY <1>0, <1>12, <2>6, <2>7, <2>8 DEF TypeOK, LoseAnswer
<1>13. ASSUME ServeStray PROVE TypeOK'
  <2>1. PICK m \in stray :
          /\ Apply(m.kind, m.v, m.doc) \/ UNCHANGED cell
          /\ stray' = stray \ {m}
          /\ UNCHANGED <<tab, calls, ops>>
    BY <1>13 DEF ServeStray
  <2>2. m.kind \in {"put", "restore"} /\ m.doc \in Contents
    BY <1>0 DEF Strays
  <2>3. content' \in Contents /\ version' \in Nat /\ present' \in BOOLEAN
    BY <1>0, <2>1, <2>2, ApplyCell
  <2> QED BY <1>0, <2>1, <2>3 DEF TypeOK
<1>14. ASSUME Vanish PROVE TypeOK'
  BY <1>0, <1>14 DEF TypeOK, Vanish, Cell!Remove
<1>15. ASSUME UNCHANGED vars PROVE TypeOK'
  BY <1>0, <1>15 DEF TypeOK, vars
<1> QED
  BY <1>1, <1>2, <1>3, <1>4, <1>5, <1>6, <1>7, <1>8, <1>9, <1>10, <1>11, <1>12, <1>13, <1>14,
     <1>15 DEF Next, Settling

(* Every variable has its type in every reachable state. *)
THEOREM EditorTypeCorrect == Spec => []TypeOK
<1>1. Init => TypeOK
  BY NullsType DEF Init, TypeOK, Cell!Init
<1>2. TypeOK /\ [Next]_vars => TypeOK'
  BY EditorTypeStep
<1> QED BY <1>1, <1>2, PTL DEF Spec

-----------------------------------------------------------------------------
(* NoBlindOverwrite is not inductive: an answer moves versionRef, so the    *)
(* invariant says what versionRef may be while calls are in any state.      *)

(* A tab that knows the server's version knows the content of that version. *)
TabFresh(t) ==
  tab[t].at # "closed" /\ tab[t].tangle # "restore" =>
    /\ tab[t].known <= version
    /\ tab[t].known = version => tab[t].base = content

(* A PUT that may still be applied carries a version its tab has known; one *)
(* that was applied replaced the version that the tab still has.            *)
PutFresh(i) ==
  calls[i].kind = "put" /\ tab[i[1]].tangle # "restore" =>
    /\ calls[i].v <= tab[i[1]].known
    /\ calls[i].at \in {"sent", "refused"} /\ calls[i].v = version => calls[i].base = content
    /\ calls[i].at \in {"ok", "patch"} =>
         /\ calls[i].v = tab[i[1]].known
         /\ calls[i].v < version
         /\ calls[i].v + 1 = version => calls[i].doc = content

RestoreFresh(i) ==
  calls[i].kind = "restore" =>
    /\ calls[i].at # "patch"
    /\ calls[i].at = "ok" =>
         calls[i].v <= version /\ (calls[i].v = version => calls[i].doc = content)

CallFresh(i) == Busy(i) => tab[i[1]].at # "closed" /\ PutFresh(i) /\ RestoreFresh(i)

(* Restores keep apart from other calls, and no two PUTs are both applied.  *)
Apart(i, j) ==
  i # j /\ i[1] = j[1] /\ Busy(i) /\ Busy(j) /\ tab[i[1]].tangle # "restore" =>
    /\ calls[i].kind = "put" /\ calls[j].kind = "put"
    /\ ~(calls[i].at \in {"ok", "patch"} /\ calls[j].at \in {"ok", "patch"})

StrayFresh(m) ==
  /\ tab[m.from].at # "closed"
  /\ m.kind = "put" /\ tab[m.from].tangle # "restore" =>
       /\ m.v <= version
       /\ m.v = version => m.base = content

Fresh ==
  /\ \A t \in Tabs : TabFresh(t)
  /\ \A i \in Ids : CallFresh(i)
  /\ \A i, j \in Ids : Apart(i, j)
  /\ \A m \in stray : StrayFresh(m)

(* What changes neither the server nor what a tab knows, and at most sends  *)
(* a call again, refuses it, ends it or goes on to its PATCH.               *)
LEMMA FreshQuiet ==
  ASSUME TypeOK, TypeOK', Fresh, content' = content, version' = version,
         \A t \in Tabs :
           /\ tab[t].at # "closed" => tab'[t].at # "closed"
           /\ tab'[t].at # "closed" => tab[t].at # "closed"
           /\ tab'[t].known = tab[t].known /\ tab'[t].base = tab[t].base
           /\ tab'[t].tangle = tab[t].tangle,
         \A i \in Ids : calls'[i].at # "free" =>
           /\ calls[i].at # "free"
           /\ calls'[i].kind = calls[i].kind /\ calls'[i].doc = calls[i].doc
           /\ calls'[i].v = calls[i].v /\ calls'[i].base = calls[i].base
           /\ \/ calls'[i].at = calls[i].at
              \/ calls'[i].at \in {"sent", "refused"}
              \/ calls[i].at = "ok" /\ calls'[i].at = "patch" /\ calls[i].kind = "put",
         \A m \in stray' : m \in stray \/ StrayFresh(m)
  PROVE  Fresh'
<1>0. /\ version \in Nat /\ tab \in [Tabs -> TabStates] /\ calls \in [Ids -> CallStates]
      /\ calls' \in [Ids -> CallStates] /\ \A i \in Ids : i[1] \in Tabs
      /\ stray \in SUBSET Strays /\ stray' \in SUBSET Strays
  BY DEF TypeOK, Ids
<1>1. ASSUME NEW t \in Tabs PROVE TabFresh(t)'
  BY <1>0 DEF Fresh, TabFresh
<1>2. ASSUME NEW i \in Ids, calls'[i].at # "free" PROVE PutFresh(i)'
  <2>1. i[1] \in Tabs /\ calls[i] \in CallStates /\ calls[i].at # "free"
    BY <1>0, <1>2
  <2>2. PutFresh(i)
    BY <2>1 DEF Fresh, CallFresh, Busy
  <2>3. calls[i].v \in Nat /\ calls[i].at \in {"sent", "ok", "refused", "patch"}
    BY <2>1 DEF CallStates
  <2> QED BY <1>0, <1>2, <2>1, <2>2, <2>3 DEF PutFresh
<1>3. ASSUME NEW i \in Ids, calls'[i].at # "free" PROVE RestoreFresh(i)'
  <2>1. calls[i] \in CallStates /\ RestoreFresh(i)
    BY <1>0, <1>3 DEF Fresh, CallFresh, Busy
  <2> QED BY <1>0, <1>3, <2>1 DEF RestoreFresh, CallStates
<1>4. ASSUME NEW i \in Ids PROVE CallFresh(i)'
  BY <1>0, <1>2, <1>3 DEF Fresh, CallFresh, Busy
<1>5. ASSUME NEW i \in Ids, NEW j \in Ids PROVE Apart(i, j)'
  <2>1. i[1] \in Tabs /\ Apart(i, j)
    BY <1>0 DEF Fresh
  <2> QED BY <2>1 DEF Apart, Busy
<1>6. ASSUME NEW m \in stray' PROVE StrayFresh(m)'
  <2>1. StrayFresh(m) /\ m.from \in Tabs
    BY <1>0 DEF Fresh, Strays
  <2> QED BY <2>1 DEF StrayFresh
<1> QED BY <1>1, <1>4, <1>5, <1>6 DEF Fresh

(* A call starts. *)
LEMMA FreshCall ==
  ASSUME TypeOK, TypeOK', Fresh, UNCHANGED <<cell, stray>>,
         NEW t \in Tabs, NEW s \in Slots, NEW kind \in {"put", "restore"}, NEW d, NEW v \in Nat,
         Call(t, s, kind, d, v), kind = "put" => v = tab[t].known,
         tab[t].at # "closed", tab'[t].at # "closed",
         tab'[t].known = tab[t].known, tab'[t].base = tab[t].base,
         tab'[t].tangle = Tangled(t, kind),
         \A u \in Tabs : u # t => tab'[u] = tab[u]
  PROVE  Fresh'
<1> DEFINE k == <<t, s>>
<1>0. /\ version \in Nat /\ tab \in [Tabs -> TabStates] /\ calls \in [Ids -> CallStates]
      /\ \A i \in Ids : i[1] \in Tabs
      /\ stray \in SUBSET Strays /\ k \in Ids /\ k[1] = t
      /\ content' = content /\ version' = version /\ stray' = stray
  BY DEF TypeOK, Ids, cell
<1>1. /\ ~Busy(k)
      /\ calls'[k].kind = kind /\ calls'[k].at = "sent" /\ calls'[k].v = v
      /\ calls'[k].base = tab[t].base
      /\ \A i \in Ids : i # k => calls'[i] = calls[i]
  BY <1>0 DEF Call
<1> HIDE DEF k
<1>2. tab'[t].tangle # "restore" =>
        /\ tab[t].tangle # "restore"
        /\ \A i \in Ids : i[1] = t /\ Busy(i) => kind = "put" /\ calls[i].kind = "put"
  <2>1. \A i \in Ids : i[1] = t => i \in CallsOf(t)
    BY DEF CallsOf
  <2>2. \A i \in Ids : calls[i].kind \in {"put", "restore"}
    BY <1>0 DEF CallStates
  <2> QED BY <2>1, <2>2 DEF Tangled, InFlight, Restoring
<1>3. ASSUME NEW u \in Tabs PROVE TabFresh(u)'
  BY <1>0, <1>2 DEF Fresh, TabFresh
<1>4. ASSUME NEW i \in Ids PROVE CallFresh(i)'
  <2>1. CASE i = k
    <3>1. TabFresh(t) /\ tab[t].known \in Nat
      BY <1>0 DEF Fresh, TabStates
    <3> QED BY <1>0, <1>1, <1>2, <2>1, <3>1 DEF CallFresh, PutFresh, RestoreFresh, TabFresh
  <2>2. CASE i # k
    <3>1. calls'[i] = calls[i] /\ CallFresh(i) /\ i[1] \in Tabs
      BY <1>0, <1>1, <2>2 DEF Fresh
    <3>2. tab'[i[1]].known = tab[i[1]].known /\ (tab'[i[1]].tangle # "restore" => tab[i[1]].tangle # "restore")
          /\ (tab[i[1]].at # "closed" => tab'[i[1]].at # "closed")
      BY <1>2, <3>1
    <3> QED BY <1>0, <3>1, <3>2 DEF CallFresh, Busy, PutFresh, RestoreFresh
  <2> QED BY <2>1, <2>2
<1>5. ASSUME NEW i \in Ids, NEW j \in Ids PROVE Apart(i, j)'
  <2>1. Apart(i, j) /\ i[1] \in Tabs /\ j[1] \in Tabs
    BY <1>0 DEF Fresh
  <2>2. CASE i # k /\ j # k
    BY <1>1, <1>2, <2>1, <2>2 DEF Apart, Busy
  <2>3. CASE i = k /\ j # k
    BY <1>0, <1>1, <1>2, <2>1, <2>3 DEF Apart, Busy
  <2>4. CASE i # k /\ j = k
    BY <1>0, <1>1, <1>2, <2>1, <2>4 DEF Apart, Busy
  <2>5. CASE i = k /\ j = k
    BY <2>5 DEF Apart
  <2> QED BY <2>2, <2>3, <2>4, <2>5
<1>6. ASSUME NEW m \in stray' PROVE StrayFresh(m)'
  <2>1. StrayFresh(m) /\ m.from \in Tabs
    BY <1>0 DEF Fresh, Strays
  <2> QED BY <1>0, <1>2, <2>1 DEF StrayFresh
<1> QED BY <1>3, <1>4, <1>5, <1>6 DEF Fresh

(* The server applies a request: what it had not applied before is stale.   *)
LEMMA FreshServe ==
  ASSUME TypeOK, TypeOK', Fresh, NEW i \in Ids, Serve(i)
  PROVE  Fresh'
<1>0. /\ version \in Nat /\ tab \in [Tabs -> TabStates] /\ calls \in [Ids -> CallStates]
      /\ \A j \in Ids : j[1] \in Tabs
      /\ stray \in SUBSET Strays /\ stray' = stray /\ tab' = tab
  BY DEF TypeOK, Ids, Serve
<1>1. /\ calls[i].at = "sent" /\ calls[i] \in CallStates
      /\ calls[i].kind = "put" => calls[i].v = version
      /\ content' = calls[i].doc /\ version' = version + 1
  <2>1. calls[i].kind \in {"put", "restore"} /\ calls[i].doc \in Contents
    BY <1>0 DEF CallStates
  <2> QED BY <1>0, <2>1, ApplyCell DEF Serve
<1>2. /\ calls'[i].at = "ok" /\ calls'[i].kind = calls[i].kind /\ calls'[i].doc = calls[i].doc
      /\ calls[i].kind = "put" => calls'[i].v = calls[i].v
      /\ calls[i].kind # "put" => calls'[i].v = version + 1
      /\ \A j \in Ids : j # i => calls'[j] = calls[j]
  BY <1>0 DEF Serve
<1>3. ASSUME NEW t \in Tabs PROVE TabFresh(t)'
  <2>1. TabFresh(t) /\ tab[t].known \in Nat
    BY <1>0 DEF Fresh, TabStates
  <2> QED BY <1>0, <1>1, <2>1 DEF TabFresh
<1>4. ASSUME NEW j \in Ids, calls[j].kind = "put", tab[j[1]].tangle # "restore", Busy(j)
      PROVE  /\ calls[j].v <= tab[j[1]].known /\ tab[j[1]].known <= version
             /\ calls[j].v \in Nat /\ tab[j[1]].known \in Nat
  <2>1. CallFresh(j) /\ TabFresh(j[1]) /\ calls[j] \in CallStates /\ tab[j[1]] \in TabStates
    BY <1>0 DEF Fresh
  <2> QED BY <1>4, <2>1 DEF CallFresh, PutFresh, TabFresh, CallStates, TabStates
<1>5. ASSUME NEW j \in Ids PROVE CallFresh(j)'
  <2>1. CallFresh(j) /\ calls[j] \in CallStates
    BY <1>0 DEF Fresh
  <2>2. CASE j = i
    <3>1. Busy(j)
      BY <1>1, <2>2 DEF Busy
    <3>2. calls[j].kind = "put" /\ tab[j[1]].tangle # "restore" =>
            tab[j[1]].known = version /\ calls[j].v = version
      BY <1>0, <1>1, <1>4, <2>2, <3>1
    <3> QED BY <1>0, <1>1, <1>2, <2>1, <2>2, <3>1, <3>2
          DEF CallFresh, PutFresh, RestoreFresh, CallStates
  <2>3. CASE j # i
    <3>1. calls'[j] = calls[j] /\ calls[j].v \in Nat
      BY <1>2, <2>1, <2>3 DEF CallStates
    <3>2. Busy(j) => PutFresh(j)'
      BY <1>0, <1>1, <1>4, <2>1, <3>1 DEF CallFresh, PutFresh
    <3>3. Busy(j) => RestoreFresh(j)'
      BY <1>0, <1>1, <2>1, <3>1 DEF CallFresh, RestoreFresh
    <3> QED BY <1>0, <2>1, <3>1, <3>2, <3>3 DEF CallFresh, Busy
  <2> QED BY <2>2, <2>3
<1>6. ASSUME NEW j \in Ids, j # i, j[1] = i[1], Busy(j), tab[i[1]].tangle # "restore"
      PROVE  calls[i].kind = "put" /\ calls[j].kind = "put" /\ calls[j].at \notin {"ok", "patch"}
  <2>1. calls[i].kind = "put" /\ calls[j].kind = "put" /\ Busy(i)
    BY <1>1, <1>6 DEF Fresh, Apart, Busy
  <2>2. tab[i[1]].known = version
    BY <1>1, <1>4, <1>6, <2>1
  <2>3. calls[j].at \in {"ok", "patch"} => calls[j].v = tab[j[1]].known /\ calls[j].v < version
    BY <1>6, <2>1 DEF Fresh, CallFresh, PutFresh
  <2> QED BY <1>0, <1>6, <2>1, <2>2, <2>3
<1>7. ASSUME NEW j \in Ids, NEW k \in Ids PROVE Apart(j, k)'
  <2>1. Apart(j, k)
    BY DEF Fresh
  <2>2. CASE j # i /\ k # i
    BY <1>0, <1>2, <2>1, <2>2 DEF Apart, Busy
  <2>3. CASE j = i /\ k # i
    BY <1>0, <1>2, <1>6, <2>3 DEF Apart, Busy
  <2>4. CASE j # i /\ k = i
    BY <1>0, <1>2, <1>6, <2>4 DEF Apart, Busy
  <2>5. CASE j = i /\ k = i
    BY <2>5 DEF Apart
  <2> QED BY <2>2, <2>3, <2>4, <2>5
<1>8. ASSUME NEW m \in stray' PROVE StrayFresh(m)'
  <2>1. StrayFresh(m) /\ m.from \in Tabs /\ m.v \in Nat
    BY <1>0 DEF Fresh, Strays
  <2>2. TabFresh(m.from) /\ tab[m.from].known \in Nat
    BY <1>0, <2>1 DEF Fresh, TabStates
  <2> QED BY <1>0, <1>1, <2>1, <2>2 DEF StrayFresh, TabFresh
<1> QED BY <1>3, <1>5, <1>7, <1>8 DEF Fresh

(* A request its client has given up on is applied. *)
LEMMA FreshStray ==
  ASSUME TypeOK, TypeOK', Fresh, NEW m \in stray, Apply(m.kind, m.v, m.doc),
         stray' = stray \ {m}, UNCHANGED <<tab, calls, ops>>
  PROVE  Fresh'
<1>0. /\ version \in Nat /\ tab \in [Tabs -> TabStates] /\ calls \in [Ids -> CallStates]
      /\ \A j \in Ids : j[1] \in Tabs
      /\ stray \in SUBSET Strays /\ tab' = tab /\ calls' = calls
  BY DEF TypeOK, Ids
<1>1. version' = version + 1
  <2>1. m.kind \in {"put", "restore"} /\ m.doc \in Contents
    BY <1>0 DEF Strays
  <2> QED BY <2>1, ApplyCell
<1>2. ASSUME NEW t \in Tabs PROVE TabFresh(t)'
  <2>1. TabFresh(t) /\ tab[t].known \in Nat
    BY <1>0 DEF Fresh, TabStates
  <2> QED BY <1>0, <1>1, <2>1 DEF TabFresh
<1>3. ASSUME NEW j \in Ids PROVE CallFresh(j)'
  <2>1. /\ CallFresh(j) /\ TabFresh(j[1])
        /\ calls[j].v \in Nat /\ tab[j[1]].known \in Nat
    BY <1>0 DEF Fresh, CallStates, TabStates
  <2>2. Busy(j) => PutFresh(j)'
    BY <1>0, <1>1, <2>1 DEF CallFresh, PutFresh, TabFresh
  <2>3. Busy(j) => RestoreFresh(j)'
    BY <1>0, <1>1, <2>1 DEF CallFresh, RestoreFresh
  <2> QED BY <1>0, <2>1, <2>2, <2>3 DEF CallFresh, Busy
<1>4. ASSUME NEW j \in Ids, NEW k \in Ids PROVE Apart(j, k)'
  BY <1>0 DEF Fresh, Apart, Busy
<1>5. ASSUME NEW n \in stray' PROVE StrayFresh(n)'
  <2>1. StrayFresh(n) /\ n.from \in Tabs /\ n.v \in Nat
    BY <1>0 DEF Fresh, Strays
  <2>2. TabFresh(n.from) /\ tab[n.from].known \in Nat
    BY <1>0, <2>1 DEF Fresh, TabStates
  <2> QED BY <1>0, <1>1, <2>1, <2>2 DEF StrayFresh, TabFresh
<1> QED BY <1>2, <1>3, <1>4, <1>5 DEF Fresh

(* A save is over: the version that versionRef reaches is at most the one   *)
(* its PUT produced.                                                        *)
LEMMA FreshSaved ==
  ASSUME TypeOK, TypeOK', Fresh, NEW i \in Ids, Saved(i), Settle(i), UNCHANGED <<cell, stray>>,
         calls[i].kind = "put", calls[i].at \in {"ok", "patch"}
  PROVE  Fresh'
<1> DEFINE t == i[1]
<1>0. /\ version \in Nat /\ tab \in [Tabs -> TabStates] /\ calls \in [Ids -> CallStates]
      /\ \A j \in Ids : j[1] \in Tabs
      /\ stray \in SUBSET Strays /\ t \in Tabs
      /\ content' = content /\ version' = version /\ stray' = stray
  BY DEF TypeOK, Ids, cell
<1>1. /\ tab'[t].known = tab[t].known + 1 /\ tab'[t].base = calls[i].doc
      /\ tab'[t].at = tab[t].at /\ tab'[t].tangle = tab[t].tangle
      /\ \A u \in Tabs : u # t => tab'[u] = tab[u]
  BY <1>0 DEF Saved, TabStates
<1>2. calls'[i].at = "free" /\ \A j \in Ids : j # i => calls'[j] = calls[j]
  BY <1>0 DEF Settle, NoCall
<1>3. /\ tab[t].known \in Nat
      /\ tab[t].tangle # "restore" =>
           /\ calls[i].v = tab[t].known /\ calls[i].v < version
           /\ calls[i].v + 1 = version => calls[i].doc = content
  BY <1>0 DEF Fresh, CallFresh, PutFresh, Busy, TabStates
<1> HIDE DEF t
<1>4. ASSUME NEW u \in Tabs PROVE TabFresh(u)'
  BY <1>0, <1>1, <1>3 DEF Fresh, TabFresh
<1>5. ASSUME NEW j \in Ids PROVE CallFresh(j)'
  <2>1. CASE j = i
    BY <1>2, <2>1 DEF CallFresh, Busy
  <2>2. CASE j # i
    <3>1. CallFresh(j) /\ calls'[j] = calls[j] /\ j[1] \in Tabs /\ calls[j].v \in Nat
      BY <1>0, <1>2, <2>2 DEF Fresh, CallStates
    <3>2. CASE j[1] = t
      <4>1. Busy(j) /\ tab[t].tangle # "restore" =>
              calls[j].kind = "put" /\ calls[j].at \notin {"ok", "patch"}
        <5>1. Apart(i, j) /\ Busy(i)
          BY DEF Fresh, Busy
        <5> QED BY <2>2, <3>2, <5>1 DEF Apart, t
      <4>2. Busy(j) => PutFresh(j)'
        BY <1>0, <1>1, <1>3, <3>1, <3>2, <4>1 DEF CallFresh, PutFresh
      <4>3. Busy(j) => RestoreFresh(j)'
        BY <1>0, <3>1 DEF CallFresh, RestoreFresh
      <4> QED BY <1>1, <3>1, <3>2, <4>2, <4>3 DEF CallFresh, Busy
    <3>3. CASE j[1] # t
      BY <1>0, <1>1, <3>1, <3>3 DEF CallFresh, Busy, PutFresh, RestoreFresh
    <3> QED BY <3>2, <3>3
  <2> QED BY <2>1, <2>2
<1>6. ASSUME NEW j \in Ids, NEW k \in Ids PROVE Apart(j, k)'
  <2>1. Apart(j, k) /\ j[1] \in Tabs /\ tab'[j[1]].tangle = tab[j[1]].tangle
    BY <1>0, <1>1 DEF Fresh
  <2> QED BY <1>2, <2>1 DEF Apart, Busy
<1>7. ASSUME NEW m \in stray' PROVE StrayFresh(m)'
  <2>1. StrayFresh(m) /\ m.from \in Tabs /\ m.v \in Nat
    BY <1>0 DEF Fresh, Strays
  <2> QED BY <1>0, <1>1, <1>3, <2>1 DEF StrayFresh
<1> QED BY <1>4, <1>5, <1>6, <1>7 DEF Fresh

(* A restore is over, and no other call of the tab has been in flight. *)
LEMMA FreshRestored ==
  ASSUME TypeOK, TypeOK', Fresh, NEW i \in Ids, RestoreAnswered(i)
  PROVE  Fresh'
<1> DEFINE t == i[1]
<1>0. /\ version \in Nat /\ tab \in [Tabs -> TabStates] /\ calls \in [Ids -> CallStates]
      /\ \A j \in Ids : j[1] \in Tabs
      /\ stray \in SUBSET Strays /\ t \in Tabs
      /\ content' = content /\ version' = version /\ stray' = stray
      /\ calls[i].kind = "restore" /\ calls[i].at = "ok"
  BY DEF TypeOK, Ids, cell, RestoreAnswered
<1>1. /\ tab'[t].known = calls[i].v /\ tab'[t].base = calls[i].doc
      /\ tab'[t].at = tab[t].at /\ tab'[t].tangle = tab[t].tangle
      /\ \A u \in Tabs : u # t => tab'[u] = tab[u]
  BY <1>0 DEF RestoreAnswered, TabStates
<1>2. calls'[i].at = "free" /\ \A j \in Ids : j # i => calls'[j] = calls[j]
  BY <1>0 DEF RestoreAnswered, Settle, NoCall
<1>3. calls[i].v <= version /\ (calls[i].v = version => calls[i].doc = content)
  BY <1>0 DEF Fresh, CallFresh, RestoreFresh, Busy
<1> HIDE DEF t
<1>4. ASSUME NEW u \in Tabs PROVE TabFresh(u)'
  BY <1>0, <1>1, <1>3 DEF Fresh, TabFresh
<1>5. ASSUME NEW j \in Ids PROVE CallFresh(j)'
  <2>1. CASE j = i
    BY <1>2, <2>1 DEF CallFresh, Busy
  <2>2. CASE j # i
    <3>1. CallFresh(j) /\ calls'[j] = calls[j] /\ j[1] \in Tabs
      BY <1>0, <1>2, <2>2 DEF Fresh
    <3>2. CASE j[1] = t
      <4>1. Busy(j) => tab[t].tangle = "restore"
        <5>1. Apart(i, j) /\ Busy(i)
          BY <1>0 DEF Fresh, Busy
        <5> QED BY <1>0, <2>2, <3>2, <5>1 DEF Apart, t
      <4> QED BY <1>0, <1>1, <3>1, <3>2, <4>1 DEF CallFresh, Busy, PutFresh, RestoreFresh
    <3>3. CASE j[1] # t
      BY <1>0, <1>1, <3>1, <3>3 DEF CallFresh, Busy, PutFresh, RestoreFresh
    <3> QED BY <3>2, <3>3
  <2> QED BY <2>1, <2>2
<1>6. ASSUME NEW j \in Ids, NEW k \in Ids PROVE Apart(j, k)'
  <2>1. Apart(j, k) /\ j[1] \in Tabs /\ tab'[j[1]].tangle = tab[j[1]].tangle
    BY <1>0, <1>1 DEF Fresh
  <2> QED BY <1>2, <2>1 DEF Apart, Busy
<1>7. ASSUME NEW m \in stray' PROVE StrayFresh(m)'
  <2>1. StrayFresh(m) /\ m.from \in Tabs /\ m.v \in Nat
    BY <1>0 DEF Fresh, Strays
  <2> QED BY <1>0, <1>1, <1>3, <2>1 DEF StrayFresh
<1> QED BY <1>4, <1>5, <1>6, <1>7 DEF Fresh

LEMMA FreshLoaded ==
  ASSUME TypeOK, TypeOK', Fresh, NEW t \in Tabs, Load(t)
  PROVE  Fresh'
<1>0. /\ version \in Nat /\ tab \in [Tabs -> TabStates]
      /\ \A j \in Ids : j[1] \in Tabs
      /\ stray \in SUBSET Strays
      /\ content' = content /\ version' = version /\ stray' = stray /\ calls' = calls
  BY DEF TypeOK, Ids, cell, Load
<1>1. /\ tab[t].at = "closed"
      /\ tab'[t].known = version /\ tab'[t].base = content
      /\ \A u \in Tabs : u # t => tab'[u] = tab[u]
  BY <1>0 DEF Load, NewTab
<1>2. \A j \in Ids : Busy(j) => j[1] # t
  BY <1>1 DEF Fresh, CallFresh
<1>3. ASSUME NEW u \in Tabs PROVE TabFresh(u)'
  BY <1>0, <1>1 DEF Fresh, TabFresh
<1>4. ASSUME NEW j \in Ids PROVE CallFresh(j)'
  <2>1. CallFresh(j) /\ j[1] \in Tabs
    BY <1>0 DEF Fresh
  <2> QED BY <1>0, <1>1, <1>2, <2>1 DEF CallFresh, Busy, PutFresh, RestoreFresh
<1>5. ASSUME NEW j \in Ids, NEW k \in Ids PROVE Apart(j, k)'
  <2>1. Apart(j, k) /\ j[1] \in Tabs
    BY <1>0 DEF Fresh
  <2> QED BY <1>0, <1>1, <1>2, <2>1 DEF Apart, Busy
<1>6. ASSUME NEW m \in stray' PROVE StrayFresh(m)'
  <2>1. StrayFresh(m) /\ m.from \in Tabs
    BY <1>0 DEF Fresh, Strays
  <2> QED BY <1>0, <1>1, <2>1 DEF StrayFresh
<1> QED BY <1>3, <1>4, <1>5, <1>6 DEF Fresh

LEMMA FreshStep ==
  ASSUME TypeOK, TypeOK', Fresh, [Next]_vars
  PROVE  Fresh'
<1> USE DEF cell
<1>0. /\ version \in Nat /\ tab \in [Tabs -> TabStates] /\ calls \in [Ids -> CallStates]
      /\ \A i \in Ids : i[1] \in Tabs
  BY DEF TypeOK, Ids
<1>1. ASSUME NEW t \in Tabs, Load(t) PROVE Fresh'
  BY <1>1, FreshLoaded
<1>2. ASSUME NEW t \in Tabs, NEW d \in Contents, Edit(t, d) PROVE Fresh'
  <2>1. \A u \in Tabs : /\ tab'[u].at = tab[u].at /\ tab'[u].known = tab[u].known
                        /\ tab'[u].base = tab[u].base /\ tab'[u].tangle = tab[u].tangle
    BY <1>0, <1>2 DEF Edit, TabStates
  <2> QED BY <1>2, <2>1, FreshQuiet DEF Edit
<1>3. ASSUME NEW t \in Tabs, NEW s \in Slots, SaveContent(t, s) PROVE Fresh'
  <2>1. /\ tab[t].at = "open" /\ tab'[t].at = "open" /\ tab'[t].known = tab[t].known
        /\ tab'[t].base = tab[t].base /\ tab'[t].tangle = Tangled(t, "put")
        /\ \A u \in Tabs : u # t => tab'[u] = tab[u]
    BY <1>0, <1>3 DEF SaveContent, TabStates
  <2>2. Call(t, s, "put", tab[t].doc, tab[t].known) /\ UNCHANGED <<cell, stray>>
    BY <1>3 DEF SaveContent
  <2>3. tab[t].known \in Nat
    BY <1>0 DEF TabStates
  <2> QED BY <2>1, <2>2, <2>3, FreshCall
<1>4. ASSUME NEW t \in Tabs, NEW s \in Slots, NEW c \in Contents, HandleRestore(t, s, c)
      PROVE  Fresh'
  <2>1. /\ tab[t].at = "open" /\ tab'[t].at = "open" /\ tab'[t].known = tab[t].known
        /\ tab'[t].base = tab[t].base /\ tab'[t].tangle = Tangled(t, "restore")
        /\ \A u \in Tabs : u # t => tab'[u] = tab[u]
    BY <1>0, <1>4 DEF HandleRestore, TabStates
  <2>2. Call(t, s, "restore", c, 0) /\ UNCHANGED <<cell, stray>>
    BY <1>4 DEF HandleRestore
  <2> QED BY <2>1, <2>2, FreshCall
<1>5. ASSUME NEW t \in Tabs, Unmount(t) PROVE Fresh'
  <2>1. /\ tab[t].at = "open" /\ tab'[t].at = "gone" /\ tab'[t].known = tab[t].known
        /\ tab'[t].base = tab[t].base
        /\ \A u \in Tabs : u # t => tab'[u] = tab[u]
        /\ UNCHANGED <<cell, stray>>
    BY <1>0, <1>5 DEF Unmount, TabStates
  <2>2. CASE tab[t].armed
    <3>1. PICK s \in Slots : Call(t, s, "put", tab[t].doc, tab[t].known)
      BY <1>5, <2>2 DEF Unmount
    <3>2. tab'[t].tangle = Tangled(t, "put")
      BY <1>0, <1>5, <2>2 DEF Unmount, TabStates
    <3>3. tab[t].known \in Nat
      BY <1>0 DEF TabStates
    <3> QED BY <2>1, <3>1, <3>2, <3>3, FreshCall
  <2>3. CASE ~tab[t].armed
    <3>1. calls' = calls /\ tab'[t].tangle = tab[t].tangle
      BY <1>0, <1>5, <2>3 DEF Unmount, TabStates
    <3>2. \A u \in Tabs : /\ tab[u].at # "closed" => tab'[u].at # "closed"
                          /\ tab'[u].at # "closed" => tab[u].at # "closed"
                          /\ tab'[u].known = tab[u].known
                          /\ tab'[u].base = tab[u].base /\ tab'[u].tangle = tab[u].tangle
      BY <2>1, <3>1
    <3> QED BY <2>1, <3>1, <3>2, FreshQuiet
  <2> QED BY <2>2, <2>3
<1>6. ASSUME NEW i \in Ids, Serve(i) PROVE Fresh'
  BY <1>6, FreshServe
<1>7. ASSUME NEW i \in Ids, Refuse(i) PROVE Fresh'
  <2>1. \A j \in Ids : /\ calls'[j].kind = calls[j].kind /\ calls'[j].doc = calls[j].doc
                       /\ calls'[j].v = calls[j].v /\ calls'[j].base = calls[j].base
                       /\ calls'[j].at = calls[j].at
                            \/ (calls'[j].at = "refused" /\ calls[j].at = "sent")
    BY <1>0, <1>7 DEF Refuse, CallStates
  <2>2. UNCHANGED <<content, version, tab, stray>>
    BY <1>7 DEF Refuse
  <2> QED BY <2>1, <2>2, FreshQuiet
(* The call ends, or fails. *)
<1>a. ASSUME NEW i \in Ids, Failed(i)
      PROVE  \A u \in Tabs : /\ tab'[u].at = tab[u].at /\ tab'[u].known = tab[u].known
                             /\ tab'[u].base = tab[u].base /\ tab'[u].tangle = tab[u].tangle
  BY <1>0, <1>a DEF Failed, TabStates
<1>b. ASSUME NEW i \in Ids, Settle(i)
      PROVE  calls'[i].at = "free" /\ \A j \in Ids : j # i => calls'[j] = calls[j]
  BY <1>0, <1>b DEF Settle, NoCall
<1>8. ASSUME NEW i \in Ids, PutAnswered(i) PROVE Fresh'
  <2>1. CASE Saved(i) /\ Settle(i)
    BY <1>8, <2>1, FreshSaved DEF PutAnswered
  <2>2. CASE calls' = [calls EXCEPT ![i].at = "patch"] /\ UNCHANGED tab
    <3>1. calls[i].kind = "put" /\ calls[i].at = "ok"
      BY <1>8 DEF PutAnswered
    <3>2. \A j \in Ids : /\ calls'[j].kind = calls[j].kind /\ calls'[j].doc = calls[j].doc
                         /\ calls'[j].v = calls[j].v /\ calls'[j].base = calls[j].base
                         /\ calls'[j].at = calls[j].at \/ (j = i /\ calls'[j].at = "patch")
      BY <1>0, <2>2 DEF CallStates
    <3> QED BY <1>8, <2>2, <3>1, <3>2, FreshQuiet DEF PutAnswered
  <2> QED BY <1>8, <2>1, <2>2 DEF PutAnswered
<1>9. ASSUME NEW i \in Ids, PatchAnswered(i) PROVE Fresh'
  <2>0. Settle(i) /\ calls[i].at = "patch" /\ UNCHANGED <<cell, stray, ops>>
    BY <1>9 DEF PatchAnswered
  <2>1. CASE Saved(i)
    <3>1. calls[i].kind = "put"
      BY <1>0, <2>0 DEF Fresh, CallFresh, RestoreFresh, Busy, CallStates
    <3> QED BY <2>0, <2>1, <3>1, FreshSaved
  <2>2. CASE Failed(i)
    BY <1>a, <1>b, <2>0, <2>2, FreshQuiet
  <2> QED BY <1>9, <2>1, <2>2 DEF PatchAnswered
<1>10. ASSUME NEW i \in Ids, RestoreAnswered(i) PROVE Fresh'
  BY <1>10, FreshRestored
<1>11. ASSUME NEW i \in Ids, Refused(i) PROVE Fresh'
  BY <1>a, <1>b, <1>11, FreshQuiet DEF Refused
<1>12. ASSUME NEW i \in Ids, LoseAnswer(i) PROVE Fresh'
  <2> DEFINE m == [from |-> i[1], kind |-> calls[i].kind, doc |-> calls[i].doc, v |-> calls[i].v,
                   base |-> calls[i].base]
  <2>1. UNCHANGED <<content, version>> /\ calls[i].at \in {"sent", "ok", "refused"}
    BY <1>12 DEF LoseAnswer
  <2>2. \A n \in stray' : n \in stray \/ StrayFresh(n)
    <3>1. CASE calls[i].at = "sent"
      <4>1. CallFresh(i) /\ TabFresh(i[1]) /\ Busy(i)
        BY <1>0, <3>1 DEF Fresh, Busy
      <4>2. calls[i].v \in Nat /\ tab[i[1]].known \in Nat
        BY <1>0 DEF CallStates, TabStates
      <4>3. StrayFresh(m)
        BY <1>0, <3>1, <4>1, <4>2 DEF StrayFresh, CallFresh, PutFresh, TabFresh
      <4>4. stray' = stray \cup {m}
        BY <1>12, <3>1 DEF LoseAnswer
      <4> QED BY <4>3, <4>4
    <3>2. CASE calls[i].at # "sent"
      BY <1>12, <3>2 DEF LoseAnswer
    <3> QED BY <3>1, <3>2
  <2> HIDE DEF m
  <2>3. CASE calls' = [calls EXCEPT ![i].at = "sent", ![i].attempt = @ + 1] /\ UNCHANGED tab
    <3>1. \A j \in Ids : /\ calls'[j].kind = calls[j].kind /\ calls'[j].doc = calls[j].doc
                         /\ calls'[j].v = calls[j].v /\ calls'[j].base = calls[j].base
                         /\ calls'[j].at = calls[j].at \/ (j = i /\ calls'[j].at = "sent")
      BY <1>0, <2>3 DEF CallStates
    <3> QED BY <2>1, <2>2, <2>3, <3>1, FreshQuiet
  <2>4. CASE Failed(i) /\ Settle(i)
    BY <1>a, <1>b, <2>1, <2>2, <2>4, FreshQuiet
  <2> QED BY <1>12, <2>3, <2>4 DEF LoseAnswer
<1>13. ASSUME ServeStray PROVE Fresh'
  <2>1. PICK m \in stray :
          /\ Apply(m.kind, m.v, m.doc) \/ UNCHANGED cell
          /\ stray' = stray \ {m}
          /\ UNCHANGED <<tab, calls, ops>>
    BY <1>13 DEF ServeStray
  <2>2. CASE Apply(m.kind, m.v, m.doc)
    BY <2>1, <2>2, FreshStray
  <2>3. CASE UNCHANGED cell
    BY <2>1, <2>3, FreshQuiet
  <2> QED BY <2>1, <2>2, <2>3
<1>14. ASSUME Vanish PROVE Fresh'
  <2>1. UNCHANGED <<content, version, tab, calls, stray>>
    BY <1>14 DEF Vanish, Cell!Remove
  <2> QED BY <2>1, FreshQuiet
<1>15. ASSUME UNCHANGED vars PROVE Fresh'
  <2>1. UNCHANGED <<content, version, tab, calls, stray>>
    BY <1>15 DEF vars
  <2> QED BY <2>1, FreshQuiet
<1> QED
  BY <1>1, <1>2, <1>3, <1>4, <1>5, <1>6, <1>7, <1>8, <1>9, <1>10, <1>11, <1>12, <1>13, <1>14,
     <1>15 DEF Next, Settling

LEMMA EditorInit == Init => TypeOK /\ Fresh
<1> SUFFICES ASSUME Init PROVE TypeOK /\ Fresh
  OBVIOUS
<1>1. TypeOK
  BY NullsType DEF Init, TypeOK, Cell!Init
<1>2. /\ \A t \in Tabs : tab[t].at = "closed"
      /\ \A i \in Ids : ~Busy(i)
      /\ stray = {}
  BY DEF Init, NewTab, NoCall, Busy
<1>3. Fresh
  BY <1>2 DEF Fresh, TabFresh, CallFresh, Apart
<1> QED BY <1>1, <1>3

(* A save that the server accepts replaces the content that the tab it      *)
(* comes from has seen, whatever is lost, retried, late or overlapping.     *)
THEOREM SavesSeeWhatTheyReplace == Spec => []NoBlindOverwrite
<1>1. Init => TypeOK /\ Fresh
  BY EditorInit
<1>2. TypeOK /\ Fresh /\ [Next]_vars => (TypeOK /\ Fresh)'
  BY EditorTypeStep, FreshStep
<1>3. TypeOK /\ Fresh => NoBlindOverwrite
  <2> SUFFICES ASSUME TypeOK, Fresh PROVE NoBlindOverwrite
    OBVIOUS
  <2>1. \A m \in stray : StrayFresh(m)
    BY DEF Fresh
  <2>2. \A i \in Ids : calls[i].at = "sent" => PutFresh(i)
    BY DEF Fresh, CallFresh, Busy
  <2> QED BY <2>1, <2>2 DEF NoBlindOverwrite, StrayFresh, PutFresh
<1> QED BY <1>1, <1>2, <1>3, PTL DEF Spec

-----------------------------------------------------------------------------
(* EditNotForgotten depends on what the answer of the call in flight will   *)
(* leave: a put must carry the document on the screen unless the timer runs *)
(* again, and a restore may fail without a word.                            *)
Calm(t) == tab[t].at = "open" /\ tab[t].tangle = "no"

Carried(i) ==
  LET own == tab[i[1]] IN
  IF calls[i].kind = "put" THEN own.timer \/ calls[i].doc = own.doc
  ELSE own.timer \/ own.status = "error" \/ own.doc = own.base

(* A calm tab has one call at most, and whatever becomes of that call no    *)
(* edit is forgotten.                                                       *)
KeptTab(t) ==
  Calm(t) =>
    /\ EditKept(t)
    /\ \A i \in CallsOf(t) : Busy(i) => Carried(i)
    /\ \A i, j \in CallsOf(t) : Busy(i) /\ Busy(j) => i = j

LEMMA KeptElsewhere ==
  ASSUME NEW t \in Tabs, KeptTab(t), tab'[t] = tab[t],
         \A i \in CallsOf(t) : calls'[i] = calls[i]
  PROVE  KeptTab(t)'
<1>1. \A i \in CallsOf(t) : i[1] = t
  BY DEF CallsOf
<1>2. CallsOf(t)' = CallsOf(t)
  BY DEF CallsOf
<1> QED BY <1>1, <1>2 DEF KeptTab, Calm, EditKept, InFlight, Busy, Carried

(* A call that goes on without ending. *)
LEMMA KeptOnWay ==
  ASSUME TypeOK, NEW i \in Ids, NEW t \in Tabs, KeptTab(t), tab' = tab,
         NEW c, calls' = [calls EXCEPT ![i] = c], Busy(i),
         c.at # "free", c.kind = calls[i].kind, c.doc = calls[i].doc
  PROVE  KeptTab(t)'
<1>0. calls \in [Ids -> CallStates] /\ CallsOf(t) \subseteq Ids /\ CallsOf(t)' = CallsOf(t)
  BY DEF TypeOK, CallsOf
<1>1. \A j \in CallsOf(t) : /\ Busy(j)' <=> Busy(j)
                            /\ calls'[j].kind = calls[j].kind /\ calls'[j].doc = calls[j].doc
  BY <1>0 DEF Busy
<1>2. InFlight(t) => InFlight(t)'
  BY <1>0, <1>1 DEF InFlight
<1> QED BY <1>0, <1>1, <1>2 DEF KeptTab, Calm, EditKept, Carried

(* A call starts: of a calm tab it is the only one. *)
LEMMA KeptStart ==
  ASSUME TypeOK, NEW t \in Tabs, NEW s \in Slots, NEW kind \in {"put", "restore"}, NEW d, NEW v,
         KeptTab(t), Call(t, s, kind, d, v),
         NEW r, tab' = [tab EXCEPT ![t] = r], r.tangle = Tangled(t, kind),
         r.at = tab[t].at, r.doc = tab[t].doc, r.base = tab[t].base,
         IF kind = "put" THEN d = r.doc
         ELSE r.timer = tab[t].timer /\ r.status = tab[t].status
  PROVE  KeptTab(t)'
<1> DEFINE k == <<t, s>>
<1>0. /\ tab \in [Tabs -> TabStates] /\ calls \in [Ids -> CallStates]
      /\ k \in CallsOf(t) /\ k \in Ids /\ k[1] = t /\ CallsOf(t) \subseteq Ids
      /\ CallsOf(t)' = CallsOf(t) /\ \A i \in CallsOf(t) : i[1] = t
  BY DEF TypeOK, CallsOf, Ids
<1>1. /\ calls'[k].kind = kind /\ calls'[k].at = "sent" /\ calls'[k].doc = d
      /\ \A i \in Ids : i # k => calls'[i] = calls[i]
  BY <1>0 DEF Call
<1> HIDE DEF k
<1>2. tab'[t] = r
  BY <1>0
<1> SUFFICES ASSUME Calm(t)' PROVE KeptTab(t)'
  BY DEF KeptTab
<1>3. r.at = "open" /\ r.tangle = "no"
  BY <1>2 DEF Calm
<1>4. tab[t].tangle = "no" /\ ~InFlight(t)
  BY <1>3 DEF Tangled
<1>5. Calm(t)
  BY <1>3, <1>4 DEF Calm
<1>6. \A i \in CallsOf(t) : Busy(i)' => i = k
  BY <1>0, <1>1, <1>4 DEF InFlight, Busy
<1>7. EditKept(t)'
  BY <1>0, <1>1 DEF EditKept, InFlight, Busy
<1>8. Carried(k)'
  <2>1. CASE kind = "put"
    BY <1>0, <1>1, <1>2, <2>1 DEF Carried
  <2>2. CASE kind = "restore"
    <3>1. r.doc # r.base => r.timer \/ r.status = "error"
      BY <1>4, <1>5, <2>2 DEF KeptTab, EditKept, Calm
    <3> QED BY <1>0, <1>1, <1>2, <2>2, <3>1 DEF Carried
  <2> QED BY <2>1, <2>2
<1> QED BY <1>0, <1>6, <1>7, <1>8 DEF KeptTab

(* A call ends with its tab brought to r: no call of a calm tab remains.    *)
LEMMA KeptEnd ==
  ASSUME TypeOK, NEW i \in Ids, Busy(i), KeptTab(i[1]), Settle(i),
         NEW r, tab' = [tab EXCEPT ![i[1]] = r], r.tangle = tab[i[1]].tangle,
         r.at = tab[i[1]].at,
         Calm(i[1]) => r.doc = r.base \/ r.timer \/ r.status = "error"
  PROVE  KeptTab(i[1])'
<1> DEFINE t == i[1]
<1>0. /\ tab \in [Tabs -> TabStates] /\ calls \in [Ids -> CallStates]
      /\ t \in Tabs /\ i \in CallsOf(t) /\ CallsOf(t) \subseteq Ids /\ CallsOf(t)' = CallsOf(t)
  BY DEF TypeOK, CallsOf, Ids
<1>1. /\ calls'[i].at = "free"
      /\ \A j \in Ids : j # i => calls'[j] = calls[j]
  BY <1>0 DEF Settle, NoCall
<1>2. tab'[t] = r
  BY <1>0
<1> HIDE DEF t
<1> SUFFICES ASSUME Calm(t)' PROVE KeptTab(t)'
  BY DEF KeptTab, t
<1>3. Calm(t)
  BY <1>2 DEF Calm, t
<1>4. \A j \in CallsOf(t) : ~Busy(j)'
  BY <1>0, <1>1, <1>3 DEF KeptTab, Busy, t
<1>5. EditKept(t)'
  BY <1>2, <1>3 DEF EditKept, t
<1> QED BY <1>0, <1>4, <1>5 DEF KeptTab

(* What the answer of a call makes of its tab. *)
LEMMA KeptSaved ==
  ASSUME TypeOK, NEW i \in Ids, Busy(i), KeptTab(i[1]), Settle(i), calls[i].kind = "put", Saved(i)
  PROVE  KeptTab(i[1])'
<1> DEFINE own == tab[i[1]]
<1> DEFINE r == [own EXCEPT !.known = @ + 1, !.status = "saved", !.base = calls[i].doc]
<1>1. own \in TabStates /\ i \in CallsOf(i[1])
  BY DEF TypeOK, Ids, CallsOf
<1>2. tab' = [tab EXCEPT ![i[1]] = r]
  BY DEF Saved
<1>3. /\ r.tangle = own.tangle /\ r.at = own.at /\ r.doc = own.doc /\ r.timer = own.timer
      /\ r.base = calls[i].doc
  BY <1>1 DEF TabStates
<1>4. Calm(i[1]) => own.timer \/ calls[i].doc = own.doc
  BY <1>1 DEF KeptTab, Carried
<1> HIDE DEF r
<1> QED BY <1>2, <1>3, <1>4, KeptEnd

LEMMA KeptFailed ==
  ASSUME TypeOK, NEW i \in Ids, Busy(i), KeptTab(i[1]), Settle(i), Failed(i)
  PROVE  KeptTab(i[1])'
<1> DEFINE own == tab[i[1]]
<1> DEFINE r == IF calls[i].kind = "put" THEN [own EXCEPT !.status = "error"] ELSE own
<1>1. own \in TabStates /\ i \in CallsOf(i[1]) /\ i[1] \in Tabs /\ tab \in [Tabs -> TabStates]
  BY DEF TypeOK, Ids, CallsOf
<1>2. tab' = [tab EXCEPT ![i[1]] = r]
  BY <1>1 DEF Failed
<1>3. /\ r.tangle = own.tangle /\ r.at = own.at
      /\ Calm(i[1]) => r.doc = r.base \/ r.timer \/ r.status = "error"
  <2>1. CASE calls[i].kind = "put"
    BY <1>1, <2>1 DEF TabStates
  <2>2. CASE calls[i].kind # "put"
    BY <1>1, <2>2 DEF KeptTab, Carried
  <2> QED BY <2>1, <2>2
<1> HIDE DEF r
<1> QED BY <1>2, <1>3, KeptEnd

LEMMA KeptElse ==
  ASSUME TypeOK, NEW i \in Ids, NEW t \in Tabs, t # i[1], KeptTab(t), NEW r, NEW c,
         tab' = [tab EXCEPT ![i[1]] = r] \/ tab' = tab,
         calls' = [calls EXCEPT ![i] = c] \/ calls' = calls
  PROVE  KeptTab(t)'
<1>1. i[1] \in Tabs /\ tab \in [Tabs -> TabStates] /\ calls \in [Ids -> CallStates]
  BY DEF TypeOK, Ids
<1>2. tab'[t] = tab[t]
  BY <1>1
<1>3. \A j \in CallsOf(t) : calls'[j] = calls[j]
  BY <1>1 DEF CallsOf
<1> QED BY <1>2, <1>3, KeptElsewhere

(* Every step keeps it. *)
LEMMA KeptStep ==
  ASSUME TypeOK, Fresh, \A t \in Tabs : KeptTab(t), [Next]_vars, NEW t \in Tabs
  PROVE  KeptTab(t)'
<1> USE DEF cell
<1>0. /\ tab \in [Tabs -> TabStates] /\ calls \in [Ids -> CallStates]
      /\ KeptTab(t) /\ tab[t] \in TabStates
      /\ \A i \in Ids : i[1] \in Tabs /\ KeptTab(i[1]) /\ calls[i] \in CallStates
  BY DEF TypeOK, Ids
<1>a. ASSUME NEW u \in Tabs, NEW r, tab' = [tab EXCEPT ![u] = r], u # t,
             \A i \in CallsOf(t) : calls'[i] = calls[i]
      PROVE  KeptTab(t)'
  BY <1>0, <1>a, KeptElsewhere
<1>b. ASSUME NEW u \in Tabs, NEW s \in Slots, NEW kind, NEW d, NEW v, Call(u, s, kind, d, v),
             u # t
      PROVE  \A i \in CallsOf(t) : calls'[i] = calls[i]
  BY <1>0, <1>b DEF Call, CallsOf
<1>1. ASSUME NEW u \in Tabs, Load(u) PROVE KeptTab(t)'
  <2> DEFINE r == [NewTab EXCEPT !.at = "open", !.doc = content, !.base = content,
                                 !.known = version]
  <2>1. tab' = [tab EXCEPT ![u] = r] /\ calls' = calls /\ tab[u].at = "closed"
    BY <1>1 DEF Load
  <2>2. r.doc = r.base
    BY NullsType DEF TabStates
  <2> HIDE DEF r
  <2>3. CASE u = t
    <3>1. tab'[t] = r /\ \A i \in CallsOf(t) : ~Busy(i)'
      BY <1>0, <2>1, <2>3 DEF Fresh, CallFresh, CallsOf, Busy
    <3>2. CallsOf(t)' = CallsOf(t)
      BY DEF CallsOf
    <3> QED BY <2>2, <3>1, <3>2 DEF KeptTab, EditKept
  <2> QED BY <1>a, <2>1, <2>3
<1>2. ASSUME NEW u \in Tabs, NEW d \in Contents, Edit(u, d) PROVE KeptTab(t)'
  <2> DEFINE r == [tab[u] EXCEPT !.doc = d, !.timer = TRUE, !.armed = TRUE]
  <2>1. tab' = [tab EXCEPT ![u] = r] /\ calls' = calls
    BY <1>2 DEF Edit
  <2>2. r.timer /\ r.at = tab[u].at /\ r.tangle = tab[u].tangle
    BY <1>0 DEF TabStates
  <2> HIDE DEF r
  <2>3. CASE u = t
    <3>1. tab'[t] = r /\ CallsOf(t)' = CallsOf(t) /\ \A i \in CallsOf(t) : i[1] = t
      BY <1>0, <2>1, <2>3 DEF CallsOf
    <3> QED BY <1>0, <2>1, <2>2, <2>3, <3>1 DEF KeptTab, Calm, EditKept, Busy, Carried
  <2> QED BY <1>a, <2>1, <2>3
<1>3. ASSUME NEW u \in Tabs, NEW s \in Slots, SaveContent(u, s) PROVE KeptTab(t)'
  <2> DEFINE k == Tangled(u, "put")
  <2> DEFINE r == [tab[u] EXCEPT !.timer = FALSE, !.status = "saving", !.tangle = k]
  <2>1. tab' = [tab EXCEPT ![u] = r] /\ Call(u, s, "put", tab[u].doc, tab[u].known)
    BY <1>3 DEF SaveContent
  <2> HIDE DEF k
  <2>2. /\ r.tangle = k /\ r.at = tab[u].at /\ r.doc = tab[u].doc /\ r.base = tab[u].base
    BY <1>0 DEF TabStates
  <2> HIDE DEF r
  <2>3. KeptTab(u)
    BY <1>0
  <2>4. CASE u = t
    BY <2>1, <2>2, <2>3, <2>4, KeptStart DEF k
  <2> QED BY <1>a, <1>b, <2>1, <2>4
<1>4. ASSUME NEW u \in Tabs, NEW s \in Slots, NEW c \in Contents, HandleRestore(u, s, c)
      PROVE  KeptTab(t)'
  <2> DEFINE k == Tangled(u, "restore")
  <2> DEFINE r == [tab[u] EXCEPT !.tangle = k]
  <2>1. tab' = [tab EXCEPT ![u] = r] /\ Call(u, s, "restore", c, 0)
    BY <1>4 DEF HandleRestore
  <2> HIDE DEF k
  <2>2. /\ r.tangle = k /\ r.at = tab[u].at /\ r.doc = tab[u].doc /\ r.base = tab[u].base
        /\ r.status = tab[u].status
    BY <1>0 DEF TabStates
  <2>3. r.timer = tab[u].timer
    BY <1>0 DEF TabStates
  <2> HIDE DEF r
  <2>4. CASE u = t
    BY <1>0, <2>1, <2>2, <2>3, <2>4, KeptStart DEF k
  <2> QED BY <1>a, <1>b, <2>1, <2>4
<1>5. ASSUME NEW u \in Tabs, Unmount(u) PROVE KeptTab(t)'
  <2>1. CASE u = t
    <3>1. tab'[t].at = "gone"
      BY <1>0, <1>5, <2>1 DEF Unmount, TabStates
    <3> QED BY <3>1 DEF KeptTab, Calm
  <2>2. CASE u # t
    <3>1. tab'[t] = tab[t]
      BY <1>0, <1>5, <2>2 DEF Unmount
    <3>2. \A i \in CallsOf(t) : calls'[i] = calls[i]
      BY <1>5, <1>b, <2>2 DEF Unmount
    <3> QED BY <1>0, <3>1, <3>2, KeptElsewhere
  <2> QED BY <2>1, <2>2
<1>c. ASSUME NEW i \in Ids, Busy(i), Settle(i), Failed(i) PROVE KeptTab(t)'
  <2>1. CASE t = i[1]
    BY <1>c, <1>0, <2>1, KeptFailed
  <2>2. CASE t # i[1]
    <3>1. \/ tab' = [tab EXCEPT ![i[1]] = [tab[i[1]] EXCEPT !.status = "error"]]
          \/ tab' = tab
      BY <1>c DEF Failed
    <3> QED BY <1>c, <1>0, <2>2, <3>1, KeptElse DEF Settle
  <2> QED BY <2>1, <2>2
<1>d. ASSUME NEW i \in Ids, Busy(i), Settle(i), calls[i].kind = "put", Saved(i)
      PROVE  KeptTab(t)'
  <2>1. CASE t = i[1]
    BY <1>d, <1>0, <2>1, KeptSaved
  <2>2. CASE t # i[1]
    BY <1>d, <1>0, <2>2, KeptElse DEF Settle, Saved
  <2> QED BY <2>1, <2>2
<1>6. ASSUME NEW i \in Ids, Serve(i) PROVE KeptTab(t)'
  <2> DEFINE w == IF calls[i].kind = "put" THEN calls[i].v ELSE version + 1
  <2> DEFINE c == [calls[i] EXCEPT !.at = "ok", !.v = w]
  <2>1. calls' = [calls EXCEPT ![i] = c] /\ tab' = tab /\ Busy(i)
    BY <1>6 DEF Serve, Busy
  <2>2. c.at # "free" /\ c.kind = calls[i].kind /\ c.doc = calls[i].doc
    BY <1>0 DEF CallStates
  <2> HIDE DEF c
  <2> QED BY <1>0, <2>1, <2>2, KeptOnWay
<1>7. ASSUME NEW i \in Ids, Refuse(i) PROVE KeptTab(t)'
  <2> DEFINE c == [calls[i] EXCEPT !.at = "refused"]
  <2>1. calls' = [calls EXCEPT ![i] = c] /\ tab' = tab /\ Busy(i)
    BY <1>7 DEF Refuse, Busy
  <2>2. c.at # "free" /\ c.kind = calls[i].kind /\ c.doc = calls[i].doc
    BY <1>0 DEF CallStates
  <2> HIDE DEF c
  <2> QED BY <1>0, <2>1, <2>2, KeptOnWay
<1>8. ASSUME NEW i \in Ids, PutAnswered(i) PROVE KeptTab(t)'
  <2> DEFINE c == [calls[i] EXCEPT !.at = "patch"]
  <2>1. Busy(i) /\ calls[i].kind = "put"
        /\ ((calls' = [calls EXCEPT ![i] = c] /\ tab' = tab) \/ (Saved(i) /\ Settle(i)))
    BY <1>8 DEF PutAnswered, Busy
  <2>2. c.at # "free" /\ c.kind = calls[i].kind /\ c.doc = calls[i].doc
    BY <1>0 DEF CallStates
  <2> HIDE DEF c
  <2> QED BY <1>0, <1>d, <2>1, <2>2, KeptOnWay
<1>9. ASSUME NEW i \in Ids, PatchAnswered(i) PROVE KeptTab(t)'
  <2>1. Busy(i) /\ Settle(i) /\ (Saved(i) \/ Failed(i)) /\ calls[i].at = "patch"
    BY <1>9 DEF PatchAnswered, Busy
  <2>2. calls[i].kind = "put"
    BY <1>0, <2>1 DEF Fresh, CallFresh, RestoreFresh, CallStates
  <2> QED BY <1>c, <1>d, <2>1, <2>2
<1>10. ASSUME NEW i \in Ids, RestoreAnswered(i) PROVE KeptTab(t)'
  <2> DEFINE own == tab[i[1]]
  <2> DEFINE r == [own EXCEPT !.doc = calls[i].doc, !.base = calls[i].doc, !.known = calls[i].v]
  <2>1. Busy(i) /\ Settle(i) /\ tab' = [tab EXCEPT ![i[1]] = r]
    BY <1>10 DEF RestoreAnswered, Busy
  <2>2. r.tangle = own.tangle /\ r.at = own.at /\ r.doc = r.base
    BY <1>0 DEF TabStates
  <2> HIDE DEF r
  <2>3. CASE t = i[1]
    BY <1>0, <2>1, <2>2, <2>3, KeptEnd
  <2>4. CASE t # i[1]
    BY <1>0, <2>1, <2>4, KeptElse DEF Settle
  <2> QED BY <2>3, <2>4
<1>11. ASSUME NEW i \in Ids, Refused(i) PROVE KeptTab(t)'
  BY <1>11, <1>c DEF Refused, Busy
<1>12. ASSUME NEW i \in Ids, LoseAnswer(i) PROVE KeptTab(t)'
  <2> DEFINE c == [calls[i] EXCEPT !.at = "sent", !.attempt = @ + 1]
  <2>1. Busy(i) /\ ((calls' = [calls EXCEPT ![i] = c] /\ tab' = tab) \/ (Failed(i) /\ Settle(i)))
    BY <1>12 DEF LoseAnswer, Busy
  <2>2. c.at # "free" /\ c.kind = calls[i].kind /\ c.doc = calls[i].doc
    BY <1>0 DEF CallStates
  <2> HIDE DEF c
  <2> QED BY <1>0, <1>c, <2>1, <2>2, KeptOnWay
<1>13. ASSUME ServeStray \/ Vanish \/ UNCHANGED vars PROVE KeptTab(t)'
  <2>1. tab' = tab /\ calls' = calls
    BY <1>13 DEF ServeStray, Vanish, vars
  <2> QED BY <1>0, <2>1, KeptElsewhere
<1> QED
  BY <1>1, <1>2, <1>3, <1>4, <1>5, <1>6, <1>7, <1>8, <1>9, <1>10, <1>11, <1>12, <1>13
     DEF Next, Settling

(* As long as the writes of a tab do not overlap, an edit the server does   *)
(* not have is due, under way or reported as failed, whatever is lost.      *)
THEOREM EditsAreNotForgotten == Spec => []EditNotForgotten
<1> DEFINE Inv == TypeOK /\ Fresh /\ \A t \in Tabs : KeptTab(t)
<1>1. Init => Inv
  <2> SUFFICES ASSUME Init PROVE Inv
    OBVIOUS
  <2>1. \A t \in Tabs : tab[t].at = "closed"
    BY DEF Init, NewTab
  <2>2. \A t \in Tabs : KeptTab(t)
    BY <2>1 DEF KeptTab, Calm
  <2> QED BY <2>2, EditorInit
<1>2. Inv /\ [Next]_vars => Inv'
  BY EditorTypeStep, FreshStep, KeptStep
<1>3. Inv => EditNotForgotten
  BY DEF EditNotForgotten, KeptTab, Calm, EditKept
<1> QED BY <1>1, <1>2, <1>3, PTL DEF Spec

=============================================================================
