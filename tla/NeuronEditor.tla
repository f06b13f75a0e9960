---------------------------- MODULE NeuronEditor ----------------------------
(***************************************************************************)
(* The neuron page of the web client: debounced auto-save, optimistic      *)
(* locking with versionRef, restoring a revision, the flush when the page  *)
(* unmounts (neuron/[neuronId]/page.tsx), over the retrying request        *)
(* function of lib/api.ts.                                                 *)
(*                                                                         *)
(* The server is the versioned cell that NeuronStore implements when the   *)
(* requests it serves do not overlap.  A tab is one mount of the page; a   *)
(* call is one request() with its retries.  The tabs and the server share  *)
(* nothing but messages, which may be lost or arrive after the client has  *)
(* given up on them.                                                       *)
(***************************************************************************)
EXTENDS Naturals

CONSTANTS
  Tabs,             \* mounts of the page
  Slots,            \* names for the calls a tab may have in flight at once
  Contents,         \* documents
  MaxAttempts,      \* MAX_RETRIES + 1
  MaxOps            \* bound on the edits and restores of a behaviour

ASSUME EditorAssumption ==
  /\ Contents # {}
  /\ MaxAttempts \in Nat \ {0}
  /\ MaxOps \in Nat

VARIABLES
  content, version, present,    \* the neuron on the server
  tab,                          \* the refs and the state of each mount
  calls,                        \* the requests in flight
  stray,                        \* requests the client gave up on, still on their way
  ops                           \* number of edits and restores

cell == <<content, version, present>>
vars == <<content, version, present, tab, calls, stray, ops>>

(* No page of the web client sends a PATCH that carries a content. *)
Cell == INSTANCE VersionedCell WITH PatchContents <- {}

Ids == Tabs \X Slots
CallsOf(t) == {i \in Ids : i[1] = t}

(* doc is latestDoc.current, known versionRef.current.  timer says that the *)
(* debounce timer runs, armed that saveTimeout.current is set: it still is  *)
(* after the timer has fired.  base is the content that the tab knows to be *)
(* that of version known.  tangle records that writes of this tab have been *)
(* in flight together, "restore" if one of them was a restore.              *)
TabStates ==
  [at : {"closed", "open", "gone"}, doc : Contents, base : Contents, known : Nat,
   timer : BOOLEAN, armed : BOOLEAN, status : {"idle", "saving", "saved", "error"},
   tangle : {"no", "saves", "restore"}]

(* A PUT of the content carries doc and v = clientVersion, base is what the *)
(* tab knew then.  A restore that is "ok" carries what the server answered. *)
CallStates ==
  [kind : {"put", "restore"}, at : {"free", "sent", "ok", "refused", "patch"},
   doc : Contents, v : Nat, base : Contents, attempt : Nat]

Strays == [from : Tabs, kind : {"put", "restore"}, doc : Contents, v : Nat, base : Contents]

SomeDoc == CHOOSE c \in Contents : TRUE
NewTab == [at |-> "closed", doc |-> SomeDoc, base |-> SomeDoc, known |-> 1, timer |-> FALSE,
           armed |-> FALSE, status |-> "idle", tangle |-> "no"]
NoCall == [kind |-> "put", at |-> "free", doc |-> SomeDoc, v |-> 0, base |-> SomeDoc, attempt |-> 0]

Busy(i) == calls[i].at # "free"
InFlight(t) == \E i \in CallsOf(t) : Busy(i)
Restoring(t) == \E i \in CallsOf(t) : Busy(i) /\ calls[i].kind = "restore"

Init ==
  /\ Cell!Init
  /\ tab = [t \in Tabs |-> NewTab]
  /\ calls = [i \in Ids |-> NoCall]
  /\ stray = {}
  /\ ops = 0

-----------------------------------------------------------------------------
(* The page. *)

(* The effect that loads the neuron. *)
Load(t) ==
  /\ tab[t].at = "closed"
  /\ present
  /\ tab' = [tab EXCEPT ![t] = [NewTab EXCEPT !.at = "open", !.doc = content, !.base = content,
                                              !.known = version]]
  /\ UNCHANGED <<cell, calls, stray, ops>>

(* Mutant: an edit made while a save is under way sets no timer. *)
EditUntimed(t, d) ==
  /\ tab[t].at = "open"
  /\ ops < MaxOps
  /\ ops' = ops + 1
  /\ tab' = [tab EXCEPT ![t].doc = d, ![t].timer = ~InFlight(t), ![t].armed = TRUE]
  /\ UNCHANGED <<cell, calls, stray>>

(* handleDocumentChange (handleTitleChange when the document stays as it    *)
(* is), with debouncedSave.                                                 *)
Edit(t, d) ==
  /\ tab[t].at = "open"
  /\ ops < MaxOps
  /\ ops' = ops + 1
  /\ tab' = [tab EXCEPT ![t].doc = d, ![t].timer = TRUE, ![t].armed = TRUE]
  /\ UNCHANGED <<cell, calls, stray>>

Tangled(t, kind) ==
  IF ~InFlight(t) THEN tab[t].tangle
  ELSE IF kind = "restore" \/ Restoring(t) \/ tab[t].tangle = "restore" THEN "restore"
  ELSE "saves"

Call(t, s, kind, d, v) ==
  /\ ~Busy(<<t, s>>)
  /\ calls' = [calls EXCEPT ![<<t, s>>] = [kind |-> kind, at |-> "sent", doc |-> d, v |-> v,
                                           base |-> tab[t].base, attempt |-> 1]]

(* The timer fires: saveContent up to its await. *)
SaveContent(t, s) ==
  /\ tab[t].at = "open" /\ tab[t].timer
  /\ Call(t, s, "put", tab[t].doc, tab[t].known)
  /\ tab' = [tab EXCEPT ![t].timer = FALSE, ![t].status = "saving",
                        ![t].tangle = Tangled(t, "put")]
  /\ UNCHANGED <<cell, stray, ops>>

(* handleRestore up to its await; the revision may have any content.        *)
HandleRestore(t, s, c) ==
  /\ tab[t].at = "open"
  /\ ops < MaxOps
  /\ ~Restoring(t)
  /\ Call(t, s, "restore", c, 0)
  /\ tab' = [tab EXCEPT ![t].tangle = Tangled(t, "restore")]
  /\ ops' = ops + 1
  /\ UNCHANGED <<cell, stray>>

(* The page unmounts, and saves if a timer was ever set. *)
Unmount(t) ==
  /\ tab[t].at = "open"
  /\ IF tab[t].armed
       THEN /\ \E s \in Slots : Call(t, s, "put", tab[t].doc, tab[t].known)
            /\ tab' = [tab EXCEPT ![t].at = "gone", ![t].timer = FALSE,
                                  ![t].status = "saving", ![t].tangle = Tangled(t, "put")]
       ELSE tab' = [tab EXCEPT ![t].at = "gone"] /\ UNCHANGED calls
  /\ UNCHANGED <<cell, stray, ops>>

-----------------------------------------------------------------------------
(* The server. *)

(* PUT content with the current version, POST restore of a revision. *)
Apply(kind, v, d) ==
  IF kind = "put" THEN Cell!Save(v, d) ELSE Cell!RestoreContent(d)

Serve(i) ==
  /\ calls[i].at = "sent"
  /\ Apply(calls[i].kind, calls[i].v, calls[i].doc)
  /\ calls' = [calls EXCEPT ![i].at = "ok",
                            ![i].v = IF calls[i].kind = "put" THEN @ ELSE version + 1]
  /\ UNCHANGED <<tab, stray, ops>>

(* 409 for another version or an archived neuron or one in the trash, 404   *)
(* for one that is gone.                                                    *)
Refuse(i) ==
  /\ calls[i].at = "sent"
  /\ calls' = [calls EXCEPT ![i].at = "refused"]
  /\ UNCHANGED <<cell, tab, stray, ops>>

(* A request that its client has given up on arrives, or never does. *)
ServeStray ==
  \E m \in stray :
    /\ Apply(m.kind, m.v, m.doc) \/ UNCHANGED cell
    /\ stray' = stray \ {m}
    /\ UNCHANGED <<tab, calls, ops>>

Vanish ==
  /\ Cell!Remove
  /\ UNCHANGED <<tab, calls, stray, ops>>

-----------------------------------------------------------------------------
(* The answers. *)

Settle(i) == calls' = [calls EXCEPT ![i] = NoCall]

(* Mutant: the version is fetched anew. *)
SavedLatest(i) ==
  tab' = [tab EXCEPT ![i[1]].known = version, ![i[1]].status = "saved",
                     ![i[1]].base = calls[i].doc]

(* The end of the try block. *)
Saved(i) ==
  tab' = [tab EXCEPT ![i[1]].known = @ + 1, ![i[1]].status = "saved",
                     ![i[1]].base = calls[i].doc]

(* The catch block of saveContent; handleRestore has none. *)
Failed(i) ==
  IF calls[i].kind = "put" THEN tab' = [tab EXCEPT ![i[1]].status = "error"] ELSE UNCHANGED tab

(* api.put succeeds: a PATCH follows if the title is not the loaded one.    *)
PutAnswered(i) ==
  /\ calls[i].kind = "put" /\ calls[i].at = "ok"
  /\ \/ /\ calls' = [calls EXCEPT ![i].at = "patch"]
        /\ UNCHANGED tab
     \/ Saved(i) /\ Settle(i)
  /\ UNCHANGED <<cell, stray, ops>>

PatchAnswered(i) ==
  /\ calls[i].at = "patch"
  /\ Saved(i) \/ Failed(i)
  /\ Settle(i)
  /\ UNCHANGED <<cell, stray, ops>>

RestoreAnswered(i) ==
  /\ calls[i].kind = "restore" /\ calls[i].at = "ok"
  /\ tab' = [tab EXCEPT ![i[1]].doc = calls[i].doc, ![i[1]].base = calls[i].doc,
                        ![i[1]].known = calls[i].v]
  /\ Settle(i)
  /\ UNCHANGED <<cell, stray, ops>>

Refused(i) ==
  /\ calls[i].at = "refused"
  /\ Failed(i) /\ Settle(i)
  /\ UNCHANGED <<cell, stray, ops>>

(* request() sees a network error or an error of the server: it sends the   *)
(* same body again, or throws after the last attempt; a timeout throws at   *)
(* once.  What was on its way to the server may still get there.            *)
LoseAnswer(i) ==
  LET c == calls[i] IN
  /\ c.at \in {"sent", "ok", "refused"}
  /\ \/ /\ c.attempt < MaxAttempts
        /\ calls' = [calls EXCEPT ![i].at = "sent", ![i].attempt = @ + 1]
        /\ UNCHANGED tab
     \/ Failed(i) /\ Settle(i)
  /\ IF c.at = "sent"
       THEN stray' = stray \cup {[from |-> i[1], kind |-> c.kind, doc |-> c.doc, v |-> c.v,
                                  base |-> c.base]}
       ELSE UNCHANGED stray
  /\ UNCHANGED <<cell, ops>>

-----------------------------------------------------------------------------
Settling(i) ==
  \/ Serve(i) \/ Refuse(i)
  \/ PutAnswered(i) \/ PatchAnswered(i) \/ RestoreAnswered(i) \/ Refused(i)
  \/ LoseAnswer(i)

Next ==
  \/ \E t \in Tabs :
       \/ Load(t)
       \/ \E d \in Contents : Edit(t, d)
       \/ \E s \in Slots : SaveContent(t, s)
       \/ \E s \in Slots, c \in Contents : HandleRestore(t, s, c)
       \/ Unmount(t)
  \/ \E i \in Ids : Settling(i)
  \/ ServeStray
  \/ Vanish

Spec == Init /\ [][Next]_vars

(* The browser runs timers that are due, and request() always returns.      *)
FairSpec ==
  /\ Spec
  /\ \A t \in Tabs : WF_vars(\E s \in Slots : SaveContent(t, s))
  /\ \A i \in Ids : WF_vars(Settling(i))

-----------------------------------------------------------------------------
TypeOK ==
  /\ content \in Contents /\ version \in Nat /\ present \in BOOLEAN
  /\ tab \in [Tabs -> TabStates]
  /\ calls \in [Ids -> CallStates]
  /\ stray \in SUBSET Strays
  /\ ops \in Nat

(* A PUT that would be accepted now replaces the content that its tab has   *)
(* seen, though its saves overlap, are retried after an answer was lost, or *)
(* arrive after the client gave up.  Only a restore in flight together with *)
(* a save defeats versionRef: the answer of the save then counts it up from *)
(* the version of the restored content.                                     *)
NoBlindOverwrite ==
  /\ \A i \in Ids :
       calls[i].kind = "put" /\ calls[i].at = "sent" /\ calls[i].v = version
         /\ tab[i[1]].tangle # "restore"
       => calls[i].base = content
  /\ \A m \in stray :
       m.kind = "put" /\ m.v = version /\ tab[m.from].tangle # "restore" => m.base = content

(* The page shows no rest while it holds an edit the server does not have:  *)
(* a save is due, under way or reported to have failed.                     *)
EditKept(t) ==
  tab[t].at = "open" /\ tab[t].doc # tab[t].base =>
    tab[t].timer \/ InFlight(t) \/ tab[t].status = "error"

(* No edit is forgotten while the tab's writes do not overlap. *)
EditNotForgotten == \A t \in Tabs : tab[t].tangle = "no" => EditKept(t)

(* versionRef is updated on a successful save: when a save whose PUT has    *)
(* been answered with success is over, versionRef is past the version that  *)
(* the PUT replaced.                                                        *)
VersionRefUpdated ==
  [][\A i \in Ids :
       calls[i].at = "patch" /\ calls'[i].at = "free" => tab'[i[1]].known > calls[i].v]_vars

(* Every edit is saved, restored over or reported as failed in the end. *)
EditSettles ==
  \A t \in Tabs :
    tab[t].at = "open" /\ tab[t].doc # tab[t].base /\ tab[t].tangle = "no"
    ~> tab[t].at # "open" \/ tab[t].doc = tab[t].base \/ tab[t].status = "error"
         \/ tab[t].tangle # "no"

=============================================================================
