-------------------------- MODULE NotePanelsProofs --------------------------
(***************************************************************************)
(* Theorems about what the note page keeps in rows of the backend: the     *)
(* reminders, the list of sections with its files, and the item of the     *)
(* review queue.  As in NotePageProofs, each part has an invariant of its  *)
(* own variables.  At the end, the types of the whole page.                *)
(***************************************************************************)
EXTENDS NotePageProofs

-----------------------------------------------------------------------------
(* Reminders.                                                              *)

Call == [op: {"create", "update", "delete"}, r: Remind!Reminders, list: SUBSET Remind!Reminders,
         mount: Nat, n: Nat, got: {"none", "ok", "refused"}]

Clock == {2 * k + 1 : k \in 0 .. LastTick}

Mount == [n: Nat, open: BOOLEAN, loaded: BOOLEAN]
Dialog == [open: BOOLEAN, for: SUBSET Remind!Reminders, title: SUBSET Remind!Titles, save: {"none", "ok", "refused"}]

RemindType ==
    /\ now \in Clock /\ looked \in Clock
    /\ db \subseteq Remind!Reminders /\ found \subseteq Remind!Reminders
    /\ list \subseteq Remind!Reminders /\ rows \subseteq Remind!Reminders
    /\ mount \in Mount /\ saves \in Nat
    /\ calls \subseteq Call
    /\ dialog \in Dialog

OneEach(set) == \A q, r \in set : q.id = r.id => q = r
Known(set) == \A r \in set : r.id \in used
Asking(c) == c.op = "create" /\ c.got = "none"

\* The reminders the backend has, and those the panel shows or showed, have ids that were given, each its own;
\* a creation that is not answered has an id that no reminder and no other request has.
KnownInv ==
    /\ OneEach(db) /\ Known(db) /\ Known(list)
    /\ \A c \in calls : Known(c.list) /\ (c.got = "ok" => c.r.id \in used)
    /\ \A c \in calls : Asking(c) => c.r.id \notin used /\ \A d \in calls : d.r.id = c.r.id => d = c

Told(r) == <<r.id, r.at>> \in notified

\* What became a notification was past when the scheduler looked, and is neither stored nor found any more.
OnceInv ==
    /\ ~twice
    /\ \A id \in ReminderIds, at \in Remind!Moments : <<id, at>> \in notified => at <= looked
    /\ \A r \in db : ~Told(r)
    /\ OneEach(found) /\ \A r \in found : r.at <= looked /\ ~Told(r)
    /\ looked <= now

NotifyInv == RemindType /\ KnownInv /\ OnceInv

\* What a set is once a reminder was put in place of the one with its id.
LEMMA PutReplaces ==
    ASSUME NEW set, NEW r, NEW x \in Remind!Put(set, r)
    PROVE  (x = r /\ \E y \in set : y.id = r.id) \/ (x \in set /\ x.id # r.id)
BY DEF Remind!Put

\* Triggers are even and the clock is odd: what is not before it is after it.
LEMMA TriggersAreBetween ==
    ASSUME NEW t \in Remind!Moments, NEW m \in Clock
    PROVE  t \in Nat /\ m \in Nat /\ (t >= m => t > m)
BY RemindersAssumption DEF Remind!Moments, Clock

\* A recurring reminder has a next trigger, after the scheduler's look.
LEMMA NextIsLater ==
    ASSUME looked \in Clock, NEW r
    PROVE  Remind!computeNextTrigger(r) \in Remind!Moments /\ Remind!computeNextTrigger(r) > looked
<1>1. PICK k \in 0 .. LastTick : looked = 2 * k + 1
  BY DEF Clock
<1>2. k + 1 \in 1 .. LastTick + 1 /\ 2 * (k + 1) > looked /\ 2 * (k + 1) < looked + 2
  BY <1>1, RemindersAssumption
<1>3. \E t \in Remind!Moments : t > looked /\ t < looked + 2
  BY <1>2 DEF Remind!Moments
<1> QED
  BY <1>3 DEF Remind!computeNextTrigger

LEMMA RemindTypeInit == Remind!Init => RemindType
<1> SUFFICES ASSUME Remind!Init PROVE RemindType
  OBVIOUS
<1>1. now \in Clock /\ looked \in Clock
  <2>1. 0 \in 0 .. LastTick /\ now = 2 * 0 + 1 /\ looked = 2 * 0 + 1
    BY RemindersAssumption DEF Remind!Init
  <2> QED
    BY <2>1 DEF Clock
<1>2. 2 \in Remind!Moments
  <2>1. 1 \in 1 .. LastTick + 1 /\ 2 = 2 * 1
    BY RemindersAssumption
  <2> QED
    BY <2>1 DEF Remind!Moments
<1>3. \A id \in DOMAIN FirstTypes : Remind!First(id, FirstTypes[id]) \in Remind!Reminders
  BY <1>2, RemindersAssumption DEF Remind!First, Remind!Reminders, Remind!Titles, Remind!Types
<1>4. db \subseteq Remind!Reminders
  BY <1>3 DEF Remind!Init
<1> QED
  BY <1>1, <1>4 DEF RemindType, Mount, Dialog, Remind!Init, Remind!NoDialog

LEMMA NotifyInvInit == Remind!Init => NotifyInv
<1> SUFFICES ASSUME Remind!Init PROVE NotifyInv
  OBVIOUS
<1>1. \A r \in db : \E id \in DOMAIN FirstTypes : r = Remind!First(id, FirstTypes[id]) /\ r.id = id
  BY DEF Remind!Init, Remind!First
<1>2. OneEach(db) /\ Known(db)
  BY <1>1 DEF OneEach, Known, Remind!Init
<1>3. KnownInv
  BY <1>2 DEF KnownInv, Known, Remind!Init
<1>4. OnceInv
  <2>1. now = 1 /\ looked = 1 /\ found = {} /\ notified = {} /\ ~twice
    BY DEF Remind!Init
  <2> QED
    BY <2>1 DEF OnceInv, OneEach, Told
<1> QED
  BY <1>3, <1>4, RemindTypeInit DEF NotifyInv

\* What the panel asks for is a request that no answer has come for.
LEMMA SendAdds ==
    ASSUME RemindType, NEW op \in {"create", "update", "delete"}, NEW r \in Remind!Reminders, Remind!Send(op, r)
    PROVE  /\ RemindType'
           /\ \E c \in Call : c.op = op /\ c.r = r /\ c.list = list /\ c.got = "none" /\ calls' = calls \cup {c}
           /\ UNCHANGED <<now, db, used, looked, found, notified, twice, list>>
<1> DEFINE new == [op |-> op, r |-> r, list |-> list, mount |-> mount.n, n |-> saves, got |-> "none"]
<1>1. calls' = calls \cup {new} /\ saves' = saves + 1
      /\ UNCHANGED <<now, db, used, looked, found, notified, twice, list, mount, rows, dialog>>
  BY DEF Remind!Send, Remind!Scheduler, Remind!Page
<1>2. new \in Call
  BY DEF RemindType, Call, Mount
<1>3. RemindType'
  BY <1>1, <1>2 DEF RemindType
<1> QED
  BY <1>1, <1>2, <1>3

\* The dialog for one reminder, and its title.
LEMMA DialogIsOne ==
    ASSUME NEW d \in Dialog, NEW r \in Remind!Reminders, NEW t \in Remind!Titles
    PROVE  /\ [d EXCEPT !.open = TRUE, !.for = {r}, !.title = {t}] \in Dialog
           /\ [d EXCEPT !.open = TRUE, !.for = {r}, !.title = d.title] \in Dialog
           /\ [d EXCEPT !.title = {t}] \in Dialog
<1>1. [d EXCEPT !.open = TRUE, !.for = {r}, !.title = {t}] \in Dialog
  BY DEF Dialog
<1>2. [d EXCEPT !.open = TRUE, !.for = {r}, !.title = d.title] \in Dialog
  BY DEF Dialog
<1>3. [d EXCEPT !.title = {t}] \in Dialog
  BY DEF Dialog
<1> QED
  BY <1>1, <1>2, <1>3

\* Its being open, and its save.
LEMMA DialogIsShown ==
    ASSUME NEW d \in Dialog, NEW o \in BOOLEAN, NEW s \in {"none", "ok", "refused"}
    PROVE  /\ [d EXCEPT !.open = o] \in Dialog /\ [d EXCEPT !.save = s] \in Dialog
           /\ [d EXCEPT !.open = o, !.save = s] \in Dialog
<1>1. [d EXCEPT !.open = o] \in Dialog
  BY DEF Dialog
<1>2. [d EXCEPT !.save = s] \in Dialog
  BY DEF Dialog
<1>3. [d EXCEPT !.open = o, !.save = s] \in Dialog
  BY DEF Dialog
<1> QED
  BY <1>1, <1>2, <1>3

\* The panel, as it opens, closes and has its list.
LEMMA MountIsShown ==
    ASSUME NEW m \in Mount
    PROVE  /\ [m EXCEPT !.loaded = TRUE] \in Mount
           /\ [n |-> IF m.open THEN m.n ELSE m.n + 1, open |-> ~m.open, loaded |-> FALSE] \in Mount
<1>1. [m EXCEPT !.loaded = TRUE] \in Mount
  BY DEF Mount
<1>2. [n |-> IF m.open THEN m.n ELSE m.n + 1, open |-> ~m.open, loaded |-> FALSE] \in Mount
  BY DEF Mount
<1> QED
  BY <1>1, <1>2

LEMMA RemindTypeStep == RemindType /\ [Remind!Next]_remindVars => RemindType'
<1> SUFFICES ASSUME RemindType, [Remind!Next]_remindVars PROVE RemindType'
  OBVIOUS
<1> USE DEF RemindType
<1>1. CASE Remind!Tick
  <2>1. PICK k \in 0 .. LastTick : now = 2 * k + 1
    BY DEF Clock
  <2>2. k + 1 \in 0 .. LastTick /\ now' = 2 * (k + 1) + 1
    BY <1>1, <2>1, RemindersAssumption DEF Remind!Tick
  <2>3. now' \in Clock
    BY <2>2 DEF Clock
  <2> QED
    BY <1>1, <2>3 DEF Remind!Tick, Remind!Panel, Remind!Page
<1>2. CASE Remind!processReminders
  BY <1>2 DEF Remind!processReminders, Remind!Panel, Remind!Page
<1>3. ASSUME NEW r \in found, Remind!processReminder(r) PROVE RemindType'
  <2>1. [r EXCEPT !.at = Remind!computeNextTrigger(r)] \in Remind!Reminders
    BY NextIsLater DEF Remind!Reminders
  <2>2. db' \in {db, db \ Remind!Stored(r.id), Remind!Put(db, [r EXCEPT !.at = Remind!computeNextTrigger(r)])}
    BY <1>3 DEF Remind!processReminder
  <2>3. db' \subseteq Remind!Reminders
    BY <2>1, <2>2, PutReplaces
  <2> QED
    BY <1>3, <2>3 DEF Remind!processReminder, Remind!Panel, Remind!Page
<1>4. CASE Remind!ListLoaded \/ Remind!ListFails \/ Remind!toggleReminder
  <2>1. mount' \in Mount
    <3>1. \/ mount' = [mount EXCEPT !.loaded = TRUE]
          \/ mount' = [n |-> IF mount.open THEN mount.n ELSE mount.n + 1, open |-> ~mount.open, loaded |-> FALSE]
      BY <1>4 DEF Remind!ListLoaded, Remind!ListFails, Remind!toggleReminder
    <3> QED
      BY <3>1, MountIsShown
  <2>2. list' \in {db, {}} /\ UNCHANGED <<now, looked, db, found, rows, calls, saves, dialog>>
    BY <1>4 DEF Remind!ListLoaded, Remind!ListFails, Remind!toggleReminder, Remind!Scheduler, Remind!Page
  <2> QED
    BY <2>1, <2>2
<1>5. CASE Remind!onCancel \/ \E f \in ReminderIds \cup {"new"} : Remind!OpenForm(f)
  BY <1>5 DEF Remind!onCancel, Remind!OpenForm, Remind!Scheduler, Remind!Page
<1>6. ASSUME NEW at \in Remind!Moments, Remind!handleSave(at) PROVE RemindType'
  <2>1. CASE reminderForm = "new"
    <3>1. PICK id \in ReminderIds : Remind!Send("create", [Remind!First(id, "ONCE") EXCEPT !.at = at])
      BY <1>6, <2>1 DEF Remind!handleSave
    <3>2. [Remind!First(id, "ONCE") EXCEPT !.at = at] \in Remind!Reminders
      BY DEF Remind!First, Remind!Reminders, Remind!Types, Remind!Titles
    <3> QED
      BY <3>1, <3>2, SendAdds
  <2>2. CASE reminderForm # "new"
    <3>1. PICK r \in list : Remind!Send("update", [r EXCEPT !.at = at, !.title.edit = 1])
      BY <1>6, <2>2 DEF Remind!handleSave
    <3>2. [r EXCEPT !.at = at, !.title.edit = 1] \in Remind!Reminders
      BY DEF Remind!Reminders, Remind!Titles
    <3> QED
      BY <3>1, <3>2, SendAdds
  <2> QED
    BY <2>1, <2>2
<1>7. ASSUME NEW r \in list, Remind!handleDelete(r) PROVE RemindType'
  BY <1>7, SendAdds DEF Remind!handleDelete
<1>8. ASSUME NEW c \in calls, Remind!Commit(c) PROVE RemindType'
  <2>1. c \in Call /\ c.r \in Remind!Reminders
    BY DEF Call
  <2>2. [c EXCEPT !.got = "ok"] \in Call /\ [c EXCEPT !.got = "refused"] \in Call
    BY <2>1 DEF Call
  <2>3. calls' \subseteq Call
    BY <1>8, <2>2 DEF Remind!Commit
  <2>4. db' \in {db, db \cup {c.r}, Remind!Put(db, c.r), db \ Remind!Stored(c.r.id)}
    BY <1>8, <2>1 DEF Remind!Commit, Call
  <2>5. db' \subseteq Remind!Reminders
    BY <2>1, <2>4, PutReplaces
  <2> QED
    BY <1>8, <2>3, <2>5 DEF Remind!Commit, Remind!Scheduler, Remind!Page
<1>9. ASSUME NEW c \in calls, \/ Remind!handleCreated(c) \/ Remind!handleUpdated(c)
                              \/ Remind!handleDeleted(c) \/ Remind!SaveFails(c)
      PROVE  RemindType'
  <2>1. c.r \in Remind!Reminders /\ c.list \subseteq Remind!Reminders
    BY DEF Call
  <2>2. list' \in {list, list \cup {c.r}, Remind!Put(list, c.r), {r \in c.list : r.id # c.r.id}}
    BY <1>9 DEF Remind!handleCreated, Remind!handleUpdated, Remind!handleDeleted, Remind!SaveFails
  <2>3. list' \subseteq Remind!Reminders
    BY <2>1, <2>2, PutReplaces
  <2>4. calls' \subseteq Call
    BY <1>9 DEF Remind!handleCreated, Remind!handleUpdated, Remind!handleDeleted, Remind!SaveFails
  <2>5. UNCHANGED <<now, looked, db, found, rows, mount, saves, dialog>>
    BY <1>9 DEF Remind!handleCreated, Remind!handleUpdated, Remind!handleDeleted, Remind!SaveFails,
                Remind!Scheduler, Remind!Page
  <2> QED
    BY <2>3, <2>4, <2>5
<1>10. ASSUME NEW r \in rows, Remind!OpenDialog(r) \/ Remind!setTitle(r) PROVE RemindType'
  <2>1. r \in Remind!Reminders /\ r.title \in Remind!Titles /\ [of |-> r.id, edit |-> 1] \in Remind!Titles
    BY DEF Remind!Reminders, Remind!Titles
  <2>2. [dialog EXCEPT !.open = TRUE, !.for = {r}, !.title = {r.title}] \in Dialog
        /\ [dialog EXCEPT !.open = TRUE, !.for = {r}, !.title = dialog.title] \in Dialog
        /\ [dialog EXCEPT !.title = {[of |-> r.id, edit |-> 1]}] \in Dialog
    BY <2>1, DialogIsOne
  <2>3. dialog' \in Dialog
    BY <1>10, <2>2 DEF Remind!OpenDialog, Remind!setTitle
  <2> QED
    BY <1>10, <2>3 DEF Remind!OpenDialog, Remind!setTitle, Remind!Scheduler, Remind!Panel
<1>11. ASSUME NEW r \in dialog.for, NEW t \in dialog.title, Remind!SaveDialog(r, t) \/ Remind!handleSaved(r, t)
       PROVE  RemindType'
  <2>1. r \in Remind!Reminders /\ t \in Remind!Titles
    BY DEF Dialog
  <2>2. [r EXCEPT !.title = t] \in Remind!Reminders
    BY <2>1 DEF Remind!Reminders
  <2>3. db' \in {db, Remind!Put(db, [r EXCEPT !.title = t])} /\ rows' \in {rows, Remind!Put(rows, [r EXCEPT !.title = t])}
    BY <1>11 DEF Remind!SaveDialog, Remind!handleSaved
  <2>4. db' \subseteq Remind!Reminders /\ rows' \subseteq Remind!Reminders
    BY <2>2, <2>3, PutReplaces
  <2>5. dialog' \in Dialog
    BY <1>11, DialogIsShown DEF Remind!SaveDialog, Remind!handleSaved
  <2> QED
    BY <1>11, <2>4, <2>5 DEF Remind!SaveDialog, Remind!handleSaved, Remind!Scheduler, Remind!Panel
<1>12. CASE Remind!onOpenChange \/ Remind!NotSaved
  BY <1>12, DialogIsShown DEF Remind!onOpenChange, Remind!NotSaved, Remind!Scheduler, Remind!Panel
<1>13. CASE UNCHANGED remindVars
  BY <1>13 DEF remindVars
<1> QED
  BY <1>1, <1>2, <1>3, <1>4, <1>5, <1>6, <1>7, <1>8, <1>9, <1>10, <1>11, <1>12, <1>13 DEF Remind!Next

\* Putting a reminder in the place of the one with its id leaves one each, and no new ids.
LEMMA PutKeepsOne ==
    ASSUME NEW set, NEW r, OneEach(set)
    PROVE  OneEach(Remind!Put(set, r))
BY PutReplaces DEF OneEach

LEMMA KnownInvStep == RemindType /\ KnownInv /\ [Remind!Next]_remindVars => KnownInv'
<1> SUFFICES ASSUME RemindType, KnownInv, [Remind!Next]_remindVars PROVE KnownInv'
  OBVIOUS
<1>1. CASE UNCHANGED <<db, used, calls>> /\ (list' = list \/ list' = db \/ list' = {})
  BY <1>1 DEF KnownInv, OneEach, Known, Asking
<1>2. ASSUME NEW r \in found, Remind!processReminder(r) PROVE KnownInv'
  <2> DEFINE new == [r EXCEPT !.at = Remind!computeNextTrigger(r)]
  <2>1. UNCHANGED <<used, calls, list>>
    BY <1>2 DEF Remind!processReminder, Remind!Panel
  <2>2. new.id = r.id
    BY DEF RemindType, Remind!Reminders
  <2> HIDE DEF new
  <2>3. db' \in {db, db \ Remind!Stored(r.id), Remind!Put(db, new)}
    BY <1>2 DEF Remind!processReminder, new
  <2>4. OneEach(db') /\ \A x \in db' : x.id \in used
    <3>1. CASE db' \subseteq db
      BY <3>1 DEF KnownInv, OneEach, Known
    <3>2. CASE db' = Remind!Put(db, new)
      BY <3>2, PutKeepsOne, PutReplaces DEF KnownInv, Known
    <3> QED
      BY <2>3, <3>1, <3>2
  <2> QED
    BY <2>1, <2>4 DEF KnownInv, OneEach, Known, Asking
<1>3. ASSUME NEW op \in {"create", "update", "delete"}, NEW r \in Remind!Reminders, Remind!Send(op, r),
             \A c \in calls : Asking(c) => c.r.id # r.id,
             op = "create" => r.id \notin used \cup {c.r.id : c \in calls}
      PROVE  KnownInv'
  <2>1. PICK c \in Call : /\ c.op = op /\ c.r = r /\ c.list = list /\ c.got = "none" /\ calls' = calls \cup {c}
                          /\ UNCHANGED <<db, used, list>>
    BY <1>3, SendAdds
  <2>2. \A d \in calls' : Known(d.list) /\ (d.got = "ok" => d.r.id \in used)
    BY <2>1 DEF KnownInv
  <2>3. ASSUME NEW d \in calls', Asking(d) PROVE d.r.id \notin used /\ \A e \in calls' : e.r.id = d.r.id => e = d
    <3>1. CASE d = c
      BY <1>3, <2>1, <2>3, <3>1 DEF Asking
    <3>2. CASE d \in calls
      BY <1>3, <2>1, <2>3, <3>2 DEF KnownInv
    <3> QED
      BY <2>1, <3>1, <3>2
  <2> QED
    BY <2>1, <2>2, <2>3 DEF KnownInv, OneEach, Known, Asking
<1>4. ASSUME NEW at \in Remind!Moments, Remind!handleSave(at) PROVE KnownInv'
  <2>1. CASE reminderForm = "new"
    <3>1. PICK id \in ReminderIds \ (used \cup {c.r.id : c \in calls}) :
                 Remind!Send("create", [Remind!First(id, "ONCE") EXCEPT !.at = at])
      BY <1>4, <2>1 DEF Remind!handleSave
    <3>2. [Remind!First(id, "ONCE") EXCEPT !.at = at] \in Remind!Reminders
          /\ [Remind!First(id, "ONCE") EXCEPT !.at = at].id = id
      BY DEF Remind!First, Remind!Reminders, Remind!Types, Remind!Titles
    <3> QED
      BY <1>3, <3>1, <3>2
  <2>2. CASE reminderForm # "new"
    <3>1. PICK r \in list : Remind!Send("update", [r EXCEPT !.at = at, !.title.edit = 1])
      BY <1>4, <2>2 DEF Remind!handleSave
    <3>2. [r EXCEPT !.at = at, !.title.edit = 1] \in Remind!Reminders
          /\ [r EXCEPT !.at = at, !.title.edit = 1].id = r.id
      BY DEF RemindType, Remind!Reminders, Remind!Titles
    <3>3. \A c \in calls : Asking(c) => c.r.id # r.id
      BY DEF KnownInv, Known
    <3> QED
      BY <1>3, <3>1, <3>2, <3>3
  <2> QED
    BY <2>1, <2>2
<1>5. ASSUME NEW r \in list, Remind!handleDelete(r) PROVE KnownInv'
  <2>1. r \in Remind!Reminders /\ \A c \in calls : Asking(c) => c.r.id # r.id
    BY DEF RemindType, KnownInv, Known
  <2> QED
    BY <1>3, <1>5, <2>1 DEF Remind!handleDelete
<1>6. ASSUME NEW c \in calls, Remind!Commit(c) PROVE KnownInv'
  <2>1. c \in Call /\ c.got = "none" /\ UNCHANGED list
    BY <1>6 DEF RemindType, Remind!Commit
  <2> DEFINE After(got) ==
        /\ calls' = (calls \ {c}) \cup {[c EXCEPT !.got = got]}
        /\ used' = IF got = "ok" THEN used \cup {c.r.id} ELSE used
        /\ \/ db' = db
           \/ got = "ok" /\ c.op = "create" /\ db' = db \cup {c.r}
           \/ got = "ok" /\ c.op # "create" /\ db' = Remind!Put(db, c.r)
           \/ db' = db \ Remind!Stored(c.r.id)
  <2>2. PICK got \in {"ok", "refused"} : After(got)
    <3> DEFINE ok == CASE c.op = "create" -> Remind!Cardinality(db) < Limit /\ Remind!applyRequest(c.r)
                       [] c.op = "update" -> Remind!Stored(c.r.id) # {} /\ Remind!applyRequest(c.r)
                       [] c.op = "delete" -> Remind!Stored(c.r.id) # {}
    <3>1. /\ calls' = (calls \ {c}) \cup {[c EXCEPT !.got = IF ok THEN "ok" ELSE "refused"]}
          /\ db' = IF ~ok THEN db
                   ELSE CASE c.op = "create" -> db \cup {c.r}
                          [] c.op = "update" -> Remind!Put(db, c.r)
                          [] c.op = "delete" -> db \ Remind!Stored(c.r.id)
          /\ used' = IF ok THEN used \cup {c.r.id} ELSE used
      BY <1>6 DEF Remind!Commit
    <3>2. c.op \in {"create", "update", "delete"}
      BY <2>1 DEF Call
    <3> HIDE DEF ok
    <3>3. ASSUME ~ok PROVE After("refused")
      BY <3>1, <3>3
    <3>4. ASSUME ok PROVE After("ok")
      BY <3>1, <3>2, <3>4
    <3> QED
      BY <3>3, <3>4
  <2>3. PICK d \in Call : d.op = c.op /\ d.r = c.r /\ d.list = c.list /\ d.got = got /\ calls' = (calls \ {c}) \cup {d}
    <3>1. [c EXCEPT !.got = got] \in Call
      BY <2>1 DEF Call
    <3> QED
      BY <2>1, <2>2, <3>1 DEF Call
  <2>4. OneEach(db') /\ \A x \in db' : x.id \in used'
    <3>1. CASE db' \subseteq db
      BY <2>2, <3>1 DEF KnownInv, OneEach, Known
    <3>2. CASE got = "ok" /\ c.op = "create" /\ db' = db \cup {c.r}
      <4>1. c.r.id \notin used
        BY <2>1, <3>2 DEF KnownInv, Asking
      <4> QED
        BY <2>2, <3>2, <4>1 DEF KnownInv, OneEach, Known
    <3>3. CASE db' = Remind!Put(db, c.r)
      BY <2>2, <3>3, PutKeepsOne, PutReplaces DEF KnownInv, Known
    <3> QED
      BY <2>2, <3>1, <3>2, <3>3
  <2>5. \A e \in calls' : (\A x \in e.list : x.id \in used') /\ (e.got = "ok" => e.r.id \in used')
    BY <2>2, <2>3 DEF KnownInv, Known
  <2>6. ASSUME NEW e \in calls', e.op = "create" /\ e.got = "none"
        PROVE  e.r.id \notin used' /\ \A f \in calls' : f.r.id = e.r.id => f = e
    <3>1. e \in calls \ {c} /\ Asking(e)
      BY <2>2, <2>3, <2>6 DEF Asking
    <3>2. e.r.id \notin used /\ e.r.id # c.r.id /\ \A f \in calls : f.r.id = e.r.id => f = e
      BY <3>1 DEF KnownInv
    <3> QED
      BY <2>2, <2>3, <3>2
  <2> QED
    BY <2>1, <2>2, <2>4, <2>5, <2>6 DEF KnownInv, OneEach, Known, Asking
<1>7. ASSUME NEW c \in calls, \/ Remind!handleCreated(c) \/ Remind!handleUpdated(c)
                              \/ Remind!handleDeleted(c) \/ Remind!SaveFails(c)
      PROVE  KnownInv'
  <2>1. UNCHANGED <<db, used>> /\ calls' = calls \ {c}
    BY <1>7 DEF Remind!handleCreated, Remind!handleUpdated, Remind!handleDeleted, Remind!SaveFails
  <2>2. \/ list' = list
        \/ list' = list \cup {c.r} /\ c.got = "ok"
        \/ list' = Remind!Put(list, c.r)
        \/ list' = {r \in c.list : r.id # c.r.id}
    BY <1>7 DEF Remind!handleCreated, Remind!handleUpdated, Remind!handleDeleted, Remind!SaveFails
  <2>3. \A x \in list' : x.id \in used
    BY <2>2, PutReplaces DEF KnownInv, Known
  <2> QED
    BY <2>1, <2>3 DEF KnownInv, OneEach, Known, Asking
<1>8. ASSUME NEW r \in dialog.for, NEW t \in dialog.title, Remind!SaveDialog(r, t) PROVE KnownInv'
  <2> DEFINE new == [r EXCEPT !.title = t]
  <2>1. UNCHANGED <<used, calls, list>>
    BY <1>8 DEF Remind!SaveDialog, Remind!Panel
  <2>2. db' \in {db, Remind!Put(db, new)}
    BY <1>8 DEF Remind!SaveDialog
  <2>3. new.id = r.id
    BY DEF RemindType, Dialog, Remind!Reminders
  <2> HIDE DEF new
  <2>4. OneEach(db') /\ \A x \in db' : x.id \in used
    BY <2>2, PutKeepsOne, PutReplaces DEF KnownInv, Known
  <2> QED
    BY <2>1, <2>4 DEF KnownInv, OneEach, Known, Asking
<1>9. CASE \/ Remind!Tick \/ Remind!processReminders \/ Remind!ListLoaded \/ Remind!ListFails
           \/ Remind!toggleReminder \/ Remind!onCancel \/ Remind!onOpenChange \/ Remind!NotSaved
  BY <1>1, <1>9 DEF Remind!Tick, Remind!processReminders, Remind!ListLoaded, Remind!ListFails, Remind!toggleReminder,
     Remind!onCancel, Remind!onOpenChange, Remind!NotSaved, Remind!Panel
<1>10. ASSUME NEW f, Remind!OpenForm(f) PROVE KnownInv'
  BY <1>1, <1>10 DEF Remind!OpenForm
<1>11. ASSUME NEW r, NEW t, Remind!OpenDialog(r) \/ Remind!setTitle(r) \/ Remind!handleSaved(r, t) PROVE KnownInv'
  BY <1>1, <1>11 DEF Remind!OpenDialog, Remind!setTitle, Remind!handleSaved, Remind!Panel
<1>12. CASE UNCHANGED remindVars
  BY <1>1, <1>12 DEF remindVars
<1> QED
  BY <1>2, <1>4, <1>5, <1>6, <1>7, <1>8, <1>9, <1>10, <1>11, <1>12 DEF Remind!Next

\* What becomes of the notifications when the scheduler takes up one it found.
LEMMA ProcessedOnce ==
    ASSUME NotifyInv, NEW r \in found, Remind!processReminder(r)
    PROVE  OnceInv'
<1> DEFINE new == [r EXCEPT !.at = Remind!computeNextTrigger(r)]
<1>1. r \in Remind!Reminders /\ r.at <= looked /\ ~Told(r)
  BY DEF NotifyInv, RemindType, OnceInv
<1>2. /\ new.id = r.id /\ r.id \in ReminderIds /\ new.at \in Remind!Moments /\ new.at > looked
      /\ looked \in Nat /\ new.at \in Nat /\ r.at \in Nat
  <2>1. looked \in Clock /\ r.at \in Remind!Moments
    BY <1>1 DEF NotifyInv, RemindType, Remind!Reminders
  <2>2. new.id = r.id /\ r.id \in ReminderIds /\ new.at = Remind!computeNextTrigger(r)
    BY <1>1 DEF Remind!Reminders
  <2>3. new.at \in Remind!Moments /\ new.at > looked
    BY <2>1, <2>2, NextIsLater
  <2> QED
    BY <2>1, <2>2, <2>3, TriggersAreBetween
<1> HIDE DEF new
<1>3. found' = found \ {r} /\ now' = now /\ looked' = looked
  BY DEF Remind!processReminder
<1>4. CASE UNCHANGED <<db, notified, twice>>
  BY <1>3, <1>4 DEF NotifyInv, OnceInv, OneEach, Told
<1>5. CASE /\ notified' = notified \cup {<<r.id, r.at>>}
           /\ twice' = (twice \/ <<r.id, r.at>> \in notified)
           /\ db' = IF r.type = "ONCE" THEN db \ Remind!Stored(r.id) ELSE Remind!Put(db, new)
  <2>1. ~twice'
    BY <1>1, <1>5 DEF NotifyInv, OnceInv, Told
  <2>2. \A id \in ReminderIds, at \in Remind!Moments : <<id, at>> \in notified' => at <= looked
    BY <1>1, <1>5 DEF NotifyInv, OnceInv
  <2>3. ASSUME NEW x \in db' PROVE <<x.id, x.at>> \notin notified'
    <3>1. (x \in db /\ x.id # r.id) \/ x = new
      BY <1>2, <1>5, PutReplaces DEF Remind!Stored
    <3>2. CASE x \in db /\ x.id # r.id
      BY <1>5, <3>2 DEF NotifyInv, OnceInv, Told
    <3>3. CASE x = new
      <4>1. x.id \in ReminderIds /\ x.at \in Remind!Moments /\ x.at # r.at
        BY <1>1, <1>2, <3>3
      <4>2. <<x.id, x.at>> \notin notified
        BY <1>2, <3>3, <4>1 DEF NotifyInv, OnceInv
      <4> QED
        BY <1>5, <4>1, <4>2
    <3> QED
      BY <3>1, <3>2, <3>3
  <2>4. ASSUME NEW x \in found' PROVE x.at <= looked /\ <<x.id, x.at>> \notin notified'
    <3>1. x \in found /\ x.id # r.id
      BY <1>3 DEF NotifyInv, OnceInv, OneEach
    <3> QED
      BY <1>5, <3>1 DEF NotifyInv, OnceInv, Told
  <2>5. OneEach(found') /\ looked' <= now'
    BY <1>3 DEF NotifyInv, OnceInv, OneEach
  <2>6. Remind!Moments' = Remind!Moments /\ \A id \in ReminderIds, at \in Remind!Moments : <<id, at>> \in notified' => at <= looked'
    BY <1>3, <2>2 DEF Remind!Moments
  <2>7. \A x \in found' : x.at <= looked' /\ ~Told(x)'
    BY <1>3, <2>4 DEF Told
  <2>8. \A x \in db' : ~Told(x)'
    BY <2>3 DEF Told
  <2> QED
    BY <2>1, <2>5, <2>6, <2>7, <2>8 DEF OnceInv, OneEach
<1> QED
  BY <1>4, <1>5 DEF Remind!processReminder, new

\* A reminder that is stored again, or is new, is one that is to come.
LEMMA StoredIsToCome ==
    ASSUME NotifyInv, UNCHANGED <<now, looked, found, notified, twice>>,
           NEW r \in Remind!Reminders, \/ db' \subseteq db
                                       \/ r.at >= now /\ db' \in {db \cup {r}, Remind!Put(db, r)}
    PROVE  OnceInv'
<1>1. ASSUME NEW x \in db', x = r, r.at >= now PROVE <<x.id, x.at>> \notin notified
  <2>1. x.id \in ReminderIds /\ x.at \in Remind!Moments
    BY <1>1 DEF Remind!Reminders
  <2>2. x.at > now /\ x.at \in Nat /\ now \in Nat
    BY <1>1, <2>1, TriggersAreBetween DEF NotifyInv, RemindType
  <2>3. looked \in Nat
    BY <2>1, TriggersAreBetween DEF NotifyInv, RemindType
  <2>4. x.at > looked
    BY <2>2, <2>3 DEF NotifyInv, OnceInv
  <2> QED
    BY <2>1, <2>2, <2>3, <2>4 DEF NotifyInv, OnceInv
<1>2. \A x \in db' : x \in db \/ (x = r /\ r.at >= now)
  BY PutReplaces
<1>3. \A x \in db' : <<x.id, x.at>> \notin notified
  BY <1>1, <1>2 DEF NotifyInv, OnceInv, Told
<1> QED
  BY <1>3 DEF NotifyInv, OnceInv, OneEach, Told

LEMMA OnceInvStep == NotifyInv /\ [Remind!Next]_remindVars => OnceInv'
<1> SUFFICES ASSUME NotifyInv, [Remind!Next]_remindVars PROVE OnceInv'
  OBVIOUS
<1>1. CASE Remind!Tick
  <2>1. now \in Nat /\ now' = now + 2 /\ UNCHANGED <<db, looked, found, notified, twice>>
    BY <1>1, RemindersAssumption DEF Remind!Tick, NotifyInv, RemindType, Clock
  <2>2. looked \in Nat /\ looked <= now'
    BY <2>1, RemindersAssumption DEF NotifyInv, RemindType, OnceInv, Clock
  <2>3. \A x \in found : x.at \in Remind!Moments
    BY DEF NotifyInv, RemindType, Remind!Reminders
  <2> QED
    BY <2>1, <2>2, <2>3 DEF NotifyInv, OnceInv, OneEach, Told
<1>2. CASE Remind!processReminders
  <2>1. found' = {x \in db : x.at <= now} /\ looked' = now /\ UNCHANGED <<now, db, notified, twice>>
    BY <1>2 DEF Remind!processReminders
  <2>2. now \in Nat /\ looked \in Nat /\ looked <= now /\ \A at \in Remind!Moments : at \in Nat
    BY RemindersAssumption, TriggersAreBetween DEF NotifyInv, RemindType, OnceInv, Clock
  <2>3. \A id \in ReminderIds, at \in Remind!Moments : <<id, at>> \in notified => at <= now
    BY <2>2 DEF NotifyInv, OnceInv
  <2> QED
    BY <2>1, <2>2, <2>3 DEF NotifyInv, KnownInv, OnceInv, OneEach, Told
<1>3. CASE UNCHANGED <<now, looked, db, found, notified, twice>>
  BY <1>3 DEF NotifyInv, OnceInv, OneEach, Told
<1>4. CASE \/ Remind!ListLoaded \/ Remind!ListFails \/ Remind!toggleReminder \/ Remind!onCancel
           \/ Remind!onOpenChange \/ Remind!NotSaved \/ UNCHANGED remindVars
  BY <1>3, <1>4 DEF Remind!ListLoaded, Remind!ListFails, Remind!toggleReminder, Remind!onCancel, Remind!onOpenChange,
     Remind!NotSaved, remindVars, Remind!Scheduler
<1>5. ASSUME NEW f, NEW r, NEW t, Remind!OpenForm(f) \/ Remind!OpenDialog(r) \/ Remind!setTitle(r) \/ Remind!handleSaved(r, t)
      PROVE  OnceInv'
  BY <1>3, <1>5 DEF Remind!OpenForm, Remind!OpenDialog, Remind!setTitle, Remind!handleSaved, Remind!Scheduler
<1>6. ASSUME NEW at, Remind!handleSave(at) PROVE OnceInv'
  BY <1>3, <1>6 DEF Remind!handleSave, Remind!Send, Remind!Scheduler
<1>7. ASSUME NEW r, Remind!handleDelete(r) PROVE OnceInv'
  BY <1>3, <1>7 DEF Remind!handleDelete, Remind!Send, Remind!Scheduler
<1>8. ASSUME NEW c, Remind!handleCreated(c) \/ Remind!handleUpdated(c) \/ Remind!handleDeleted(c) \/ Remind!SaveFails(c)
      PROVE  OnceInv'
  BY <1>3, <1>8 DEF Remind!handleCreated, Remind!handleUpdated, Remind!handleDeleted, Remind!SaveFails, Remind!Scheduler
<1>9. ASSUME NEW c \in calls, Remind!Commit(c) PROVE OnceInv'
  <2>1. c.r \in Remind!Reminders /\ c.op \in {"create", "update", "delete"}
    BY DEF NotifyInv, RemindType, Call
  <2>2. \/ db' \subseteq db
        \/ c.r.at >= now /\ db' \in {db \cup {c.r}, Remind!Put(db, c.r)}
    <3> DEFINE ok == CASE c.op = "create" -> Remind!Cardinality(db) < Limit /\ Remind!applyRequest(c.r)
                       [] c.op = "update" -> Remind!Stored(c.r.id) # {} /\ Remind!applyRequest(c.r)
                       [] c.op = "delete" -> Remind!Stored(c.r.id) # {}
    <3>1. db' = IF ~ok THEN db
                ELSE CASE c.op = "create" -> db \cup {c.r}
                       [] c.op = "update" -> Remind!Put(db, c.r)
                       [] c.op = "delete" -> db \ Remind!Stored(c.r.id)
      BY <1>9 DEF Remind!Commit
    <3>2. ok /\ c.op # "delete" => c.r.at >= now
      BY <2>1 DEF Remind!applyRequest
    <3> HIDE DEF ok
    <3> QED
      BY <2>1, <3>1, <3>2
  <2>3. UNCHANGED <<now, looked, found, notified, twice>>
    BY <1>9 DEF Remind!Commit, Remind!Scheduler
  <2> QED
    BY <2>1, <2>2, <2>3, StoredIsToCome
<1>10. ASSUME NEW r \in dialog.for, NEW t \in dialog.title, Remind!SaveDialog(r, t) PROVE OnceInv'
  <2> DEFINE new == [r EXCEPT !.title = t]
  <2>1. r \in Remind!Reminders /\ t \in Remind!Titles
    BY DEF NotifyInv, RemindType, Dialog
  <2>2. new \in Remind!Reminders
    BY <2>1 DEF Remind!Reminders
  <2>3. db' = IF Remind!Stored(r.id) # {} /\ new.at >= now THEN Remind!Put(db, new) ELSE db
    BY <1>10 DEF Remind!SaveDialog, Remind!applyRequest
  <2>4. UNCHANGED <<now, looked, found, notified, twice>>
    BY <1>10 DEF Remind!SaveDialog, Remind!Scheduler
  <2> HIDE DEF new
  <2> QED
    BY <2>2, <2>3, <2>4, StoredIsToCome
<1> QED
  BY <1>1, <1>2, <1>4, <1>5, <1>6, <1>7, <1>8, <1>9, <1>10, ProcessedOnce DEF Remind!Next

\* ReminderScheduler and ReminderService: an occurrence becomes one notification, whatever was saved, created or
\* deleted between the scheduler's reading of it and its processing, for any number of reminders and ticks.
THEOREM OccurrencesAreToldOnce == Spec => []NotifiedOnce
<1>1. Init => NotifyInv
  BY NotifyInvInit DEF Init
<1>2. NotifyInv /\ [Next]_vars => NotifyInv'
  BY RemindTypeStep, KnownInvStep, OnceInvStep, PartSteps DEF NotifyInv
<1>3. NotifyInv => NotifiedOnce
  BY DEF NotifyInv, OnceInv, NotifiedOnce, Remind!NotifiedOnce
<1> QED
  BY <1>1, <1>2, <1>3, PTL DEF Spec

-----------------------------------------------------------------------------
(* The list of the panel.                                                  *)

Shows(id) == {r \in list : r.id = id}
Done(op, id) == {c \in calls : c.op = op /\ c.got = "ok" /\ c.r.id = id}

\* What the panel shows of a reminder, and what the backend has of it, differ by the answers that are to come.
FollowsOne(id) ==
    /\ Done("delete", id) # {} => Remind!Stored(id) = {}
    /\ \A c \in Done("create", id) : Remind!Stored(id) = {c.r} /\ Shows(id) = {}
    /\ \A c \in Done("update", id) :
         Done("delete", id) = {} => Remind!Stored(id) = IF Shows(id) = {} THEN {} ELSE {c.r}
    /\ (\A op \in {"create", "update", "delete"} : Done(op, id) = {}) => Shows(id) = Remind!Stored(id)

\* A reminder that is being created is in no other request, and one update of a reminder is asked for at a time.
AskedOnce ==
    /\ \A c, d \in calls : c.op = "create" /\ c.got # "refused" /\ d.r.id = c.r.id => d = c
    /\ \A c, d \in calls : c.op = "update" /\ d.op = "update" /\ d.r.id = c.r.id => d = c

PanelOpen == Remind!Shown /\ ~disturbed

ShownInv ==
    PanelOpen =>
      /\ icon = (list # {})
      /\ \A c \in calls : c.mount = mount.n
      /\ AskedOnce
      /\ \A id \in ReminderIds : FollowsOne(id)

LEMMA PutOne ==
    ASSUME NEW set, NEW x, NEW id
    PROVE  LET has == {r \in set : r.id = id} IN
           {r \in Remind!Put(set, x) : r.id = id} = IF id = x.id THEN (IF has = {} THEN {} ELSE {x}) ELSE has
BY DEF Remind!Put

LEMMA PutOthers ==
    ASSUME NEW set, NEW x, NEW id, id # x.id
    PROVE  {r \in Remind!Put(set, x) : r.id = id} = {r \in set : r.id = id}
BY DEF Remind!Put

\* A reminder that a step does not concern.
LEMMA OthersFollow ==
    ASSUME NEW id, FollowsOne(id), \A op : Done(op, id)' = Done(op, id), Shows(id)' = Shows(id),
           Remind!Stored(id)' = Remind!Stored(id)
    PROVE  FollowsOne(id)'
BY DEF FollowsOne

LEMMA PanelKept ==
    ASSUME ShownInv, UNCHANGED <<db, list, icon, calls, mount, disturbed>>
    PROVE  ShownInv'
<1>1. \A id : (FollowsOne(id)' <=> FollowsOne(id))
  BY DEF FollowsOne, Done, Shows, Remind!Stored
<1>2. (PanelOpen' <=> PanelOpen) /\ (AskedOnce' <=> AskedOnce)
  BY DEF PanelOpen, AskedOnce, Remind!Shown
<1> QED
  BY <1>1, <1>2 DEF ShownInv

\* The list arrives, and nothing is on its way.
LEMMA LoadedFollows == ASSUME Remind!ListLoaded PROVE ShownInv'
<1>1. calls' = calls /\ db' = db /\ list' = db /\ icon' = (db # {}) /\ disturbed' = (calls # {})
  BY DEF Remind!ListLoaded
<1>2. CASE calls # {}
  BY <1>1, <1>2 DEF ShownInv, PanelOpen
<1>3. CASE calls = {}
  <2>1. \A id : FollowsOne(id)'
    BY <1>1, <1>3 DEF FollowsOne, Done, Shows, Remind!Stored
  <2>2. AskedOnce' /\ icon' = (list' # {}) /\ \A c \in calls' : c.mount = mount'.n
    BY <1>1, <1>3 DEF AskedOnce
  <2> QED
    BY <2>1, <2>2 DEF ShownInv
<1> QED
  BY <1>2, <1>3

\* A request that is sent is one more that has no answer.
LEMMA SentFollows ==
    ASSUME NotifyInv, ShownInv, NEW op \in {"create", "update", "delete"}, NEW r \in Remind!Reminders, Remind!Send(op, r),
           op = "create" => r.id \notin {c.r.id : c \in calls},
           op # "create" => \E x \in list : x.id = r.id,
           op = "update" => ~\E c \in calls : c.mount = mount.n /\ c.op = "update" /\ c.r.id = r.id
    PROVE  ShownInv'
<1> DEFINE new == [op |-> op, r |-> r, list |-> list, mount |-> mount.n, n |-> saves, got |-> "none"]
<1>1. calls' = calls \cup {new} /\ UNCHANGED <<db, list, mount, icon, disturbed>>
  BY DEF Remind!Send
<1>2. new.op = op /\ new.r = r /\ new.mount = mount.n /\ new.got = "none"
  OBVIOUS
<1> HIDE DEF new
<1> SUFFICES ASSUME PanelOpen'
             PROVE  icon' = (list' # {}) /\ (\A c \in calls' : c.mount = mount'.n) /\ AskedOnce'
                    /\ \A id \in ReminderIds : FollowsOne(id)'
  BY DEF ShownInv
<1>3. PanelOpen /\ icon = (list # {}) /\ (\A c \in calls : c.mount = mount.n) /\ AskedOnce
      /\ \A id \in ReminderIds : FollowsOne(id)
  BY <1>1 DEF ShownInv, PanelOpen, Remind!Shown
<1>4. \A id \in ReminderIds : FollowsOne(id)'
  <2> SUFFICES ASSUME NEW id \in ReminderIds PROVE FollowsOne(id)'
    OBVIOUS
  <2>1. \A o : Done(o, id)' = Done(o, id)
    BY <1>1, <1>2 DEF Done
  <2>2. Shows(id)' = Shows(id) /\ Remind!Stored(id)' = Remind!Stored(id)
    BY <1>1 DEF Shows, Remind!Stored
  <2> QED
    BY <1>3, <2>1, <2>2, OthersFollow
<1>5. op # "create" => ~\E c \in calls : c.op = "create" /\ c.got # "refused" /\ c.r.id = r.id
  <2> SUFFICES ASSUME NEW x \in list, x.id = r.id, NEW c \in calls, c.op = "create", c.got # "refused", c.r.id = r.id PROVE FALSE
    OBVIOUS
  <2>1. r.id \in used /\ r.id \in ReminderIds /\ Shows(r.id) # {}
    BY DEF NotifyInv, KnownInv, Known, Remind!Reminders, Shows
  <2>2. c.got \in {"none", "ok", "refused"}
    BY DEF NotifyInv, RemindType, Call
  <2>3. CASE c.got = "none"
    BY <2>1, <2>3 DEF NotifyInv, KnownInv, Asking
  <2>4. CASE c.got = "ok"
    BY <1>3, <2>1, <2>4 DEF FollowsOne, Done
  <2> QED
    BY <2>2, <2>3, <2>4
<1>6. AskedOnce'
  <2>1. ASSUME NEW c \in calls', NEW d \in calls', c.op = "create", c.got # "refused", d.r.id = c.r.id PROVE d = c
    BY <1>1, <1>2, <1>3, <1>5, <2>1 DEF AskedOnce
  <2>2. ASSUME NEW c \in calls', NEW d \in calls', c.op = "update", d.op = "update", d.r.id = c.r.id PROVE d = c
    BY <1>1, <1>2, <1>3, <2>2 DEF AskedOnce
  <2> QED
    BY <2>1, <2>2 DEF AskedOnce
<1> QED
  BY <1>1, <1>2, <1>3, <1>4, <1>6

\* What the backend does with a request.
LEMMA CommitCases ==
    ASSUME NotifyInv, NEW c \in calls, Remind!Commit(c)
    PROVE  \E d :
             /\ d.op = c.op /\ d.r = c.r /\ d.mount = c.mount /\ c.got = "none"
             /\ calls' = (calls \ {c}) \cup {d} /\ UNCHANGED <<list, mount, icon, disturbed>>
             /\ \/ d.got = "refused" /\ db' = db
                \/ d.got = "ok" /\ c.op = "create" /\ db' = db \cup {c.r}
                \/ d.got = "ok" /\ c.op = "update" /\ Remind!Stored(c.r.id) # {} /\ db' = Remind!Put(db, c.r)
                \/ d.got = "ok" /\ c.op = "delete" /\ db' = db \ Remind!Stored(c.r.id)
<1> DEFINE ok == CASE c.op = "create" -> Remind!Cardinality(db) < Limit /\ Remind!applyRequest(c.r)
                   [] c.op = "update" -> Remind!Stored(c.r.id) # {} /\ Remind!applyRequest(c.r)
                   [] c.op = "delete" -> Remind!Stored(c.r.id) # {}
           d == [c EXCEPT !.got = IF ok THEN "ok" ELSE "refused"]
<1>1. c \in Call /\ c.op \in {"create", "update", "delete"}
  BY DEF NotifyInv, RemindType, Call
<1>2. /\ c.got = "none" /\ calls' = (calls \ {c}) \cup {d} /\ UNCHANGED <<list, mount, icon, disturbed>>
      /\ db' = IF ~ok THEN db
               ELSE CASE c.op = "create" -> db \cup {c.r}
                      [] c.op = "update" -> Remind!Put(db, c.r)
                      [] c.op = "delete" -> db \ Remind!Stored(c.r.id)
  BY DEF Remind!Commit
<1>3. ok /\ c.op = "update" => Remind!Stored(c.r.id) # {}
  OBVIOUS
<1> HIDE DEF ok
<1>4. d.op = c.op /\ d.r = c.r /\ d.mount = c.mount /\ d.got = IF ok THEN "ok" ELSE "refused"
  BY <1>1 DEF Call
<1> HIDE DEF d
<1>5. CASE ok
  BY <1>1, <1>2, <1>3, <1>4, <1>5
<1>6. CASE ~ok
  BY <1>2, <1>4, <1>6
<1> QED
  BY <1>5, <1>6

LEMMA CommitFollows == ASSUME NotifyInv, ShownInv, NEW c \in calls, Remind!Commit(c) PROVE ShownInv'
<1>1. PICK d :
        /\ d.op = c.op /\ d.r = c.r /\ d.mount = c.mount /\ c.got = "none"
        /\ calls' = (calls \ {c}) \cup {d} /\ UNCHANGED <<list, mount, icon, disturbed>>
        /\ \/ d.got = "refused" /\ db' = db
           \/ d.got = "ok" /\ c.op = "create" /\ db' = db \cup {c.r}
           \/ d.got = "ok" /\ c.op = "update" /\ Remind!Stored(c.r.id) # {} /\ db' = Remind!Put(db, c.r)
           \/ d.got = "ok" /\ c.op = "delete" /\ db' = db \ Remind!Stored(c.r.id)
  BY CommitCases
<1> SUFFICES ASSUME PanelOpen'
             PROVE  icon' = (list' # {}) /\ (\A e \in calls' : e.mount = mount'.n) /\ AskedOnce'
                    /\ \A id \in ReminderIds : FollowsOne(id)'
  BY DEF ShownInv
<1>2. PanelOpen /\ icon = (list # {}) /\ (\A e \in calls : e.mount = mount.n) /\ AskedOnce
      /\ \A id \in ReminderIds : FollowsOne(id)
  BY <1>1 DEF ShownInv, PanelOpen, Remind!Shown
<1>3. c.r.id \in ReminderIds /\ c.op \in {"create", "update", "delete"}
  BY DEF NotifyInv, RemindType, Call, Remind!Reminders
<1>4. AskedOnce'
  <2>1. ASSUME NEW e \in calls', NEW f \in calls', e.op = "create", e.got # "refused", f.r.id = e.r.id PROVE f = e
    BY <1>1, <1>2, <2>1 DEF AskedOnce
  <2>2. ASSUME NEW e \in calls', NEW f \in calls', e.op = "update", f.op = "update", f.r.id = e.r.id PROVE f = e
    BY <1>1, <1>2, <2>2 DEF AskedOnce
  <2> QED
    BY <2>1, <2>2 DEF AskedOnce
<1>5. ASSUME NEW id \in ReminderIds, id # c.r.id PROVE FollowsOne(id)'
  <2>1. \A op : Done(op, id)' = Done(op, id)
    BY <1>1, <1>5 DEF Done
  <2>2. Shows(id)' = Shows(id)
    BY <1>1 DEF Shows
  <2>3. Remind!Stored(id)' = Remind!Stored(id)
    <3>1. {r \in Remind!Put(db, c.r) : r.id = id} = {r \in db : r.id = id}
      BY <1>5, PutOthers
    <3>2. CASE db' = db \/ db' = db \cup {c.r} \/ db' = db \ Remind!Stored(c.r.id)
      BY <1>5, <3>2 DEF Remind!Stored
    <3>3. CASE db' = Remind!Put(db, c.r)
      BY <3>1, <3>3 DEF Remind!Stored
    <3> QED
      BY <1>1, <3>2, <3>3
  <2> QED
    BY <1>2, <2>1, <2>2, <2>3, OthersFollow
<1> DEFINE k == c.r.id
<1>6. Shows(k)' = Shows(k) /\ FollowsOne(k)
  BY <1>1, <1>2, <1>3 DEF Shows
<1>7. CASE d.got = "refused" /\ db' = db
  <2>1. \A op : Done(op, k)' = Done(op, k)
    BY <1>1, <1>7 DEF Done
  <2>2. Remind!Stored(k)' = Remind!Stored(k)
    BY <1>7 DEF Remind!Stored
  <2> QED
    BY <1>1, <1>2, <1>4, <1>5, <1>6, <2>1, <2>2, OthersFollow
<1>8. CASE d.got = "ok" /\ c.op = "create" /\ db' = db \cup {c.r}
  <2>1. \A e \in calls : e.r.id = k => e = c
    BY <1>1, <1>2, <1>8 DEF AskedOnce
  <2>2. Done("create", k)' = {d} /\ Done("update", k)' = {} /\ Done("delete", k)' = {}
    BY <1>1, <1>8, <2>1 DEF Done
  <2>3. k \notin used
    BY <1>1, <1>8 DEF NotifyInv, KnownInv, Asking
  <2>4. Remind!Stored(k)' = {c.r} /\ Shows(k) = {}
    BY <1>8, <2>3 DEF Remind!Stored, Shows, NotifyInv, KnownInv, Known
  <2>5. FollowsOne(k)'
    BY <1>1, <1>6, <2>2, <2>4 DEF FollowsOne
  <2> QED
    BY <1>1, <1>2, <1>4, <1>5, <2>5
<1>9. CASE d.got = "ok" /\ c.op = "update" /\ Remind!Stored(k) # {} /\ db' = Remind!Put(db, c.r)
  <2>1. \A e \in calls : e.r.id = k /\ (e.op = "update" \/ (e.op = "create" /\ e.got # "refused")) => e = c
    BY <1>1, <1>2, <1>9 DEF AskedOnce
  <2>2. Done("create", k) = {} /\ Done("update", k) = {} /\ Done("delete", k) = {}
    BY <1>1, <1>6, <1>9, <2>1 DEF Done, FollowsOne
  <2>3. Done("create", k)' = {} /\ Done("update", k)' = {d} /\ Done("delete", k)' = {}
    BY <1>1, <1>9, <2>1, <2>2 DEF Done
  <2>4. Shows(k) # {}
    BY <1>6, <1>9, <2>2 DEF FollowsOne
  <2>5. Remind!Stored(k)' = {c.r}
    BY <1>9, PutOne DEF Remind!Stored
  <2>6. FollowsOne(k)'
    BY <1>1, <1>6, <2>3, <2>4, <2>5 DEF FollowsOne
  <2> QED
    BY <1>1, <1>2, <1>4, <1>5, <2>6
<1>10. CASE d.got = "ok" /\ c.op = "delete" /\ db' = db \ Remind!Stored(k)
  <2>1. Remind!Stored(k)' = {} /\ Done("delete", k)' # {}
    BY <1>1, <1>10 DEF Remind!Stored, Done
  <2>2. Done("create", k)' = {}
    BY <1>1, <1>2, <1>10 DEF Done, AskedOnce
  <2>3. FollowsOne(k)'
    BY <2>1, <2>2 DEF FollowsOne
  <2> QED
    BY <1>1, <1>2, <1>4, <1>5, <2>3
<1> QED
  BY <1>1, <1>7, <1>8, <1>9, <1>10

\* An answer arrives, and its request is no more.
LEMMA LessAsked ==
    ASSUME AskedOnce, NEW c, calls' = calls \ {c}, \A e \in calls : e.mount = mount.n, mount' = mount
    PROVE  AskedOnce' /\ \A e \in calls' : e.mount = mount'.n
<1>1. ASSUME NEW e \in calls', NEW f \in calls', e.op = "create", e.got # "refused", f.r.id = e.r.id PROVE f = e
  BY <1>1 DEF AskedOnce
<1>2. ASSUME NEW e \in calls', NEW f \in calls', e.op = "update", f.op = "update", f.r.id = e.r.id PROVE f = e
  BY <1>2 DEF AskedOnce
<1> QED
  BY <1>1, <1>2 DEF AskedOnce

LEMMA CreatedFollows == ASSUME NotifyInv, ShownInv, NEW c \in calls, Remind!handleCreated(c) PROVE ShownInv'
<1> SUFFICES ASSUME PanelOpen'
             PROVE  icon' = (list' # {}) /\ (\A e \in calls' : e.mount = mount'.n) /\ AskedOnce'
                    /\ \A id \in ReminderIds : FollowsOne(id)'
  BY DEF ShownInv
<1>1. /\ c.op = "create" /\ c.got = "ok" /\ calls' = calls \ {c} /\ icon' = TRUE /\ db' = db /\ mount' = mount
      /\ list' = list \cup {c.r} /\ disturbed' = disturbed
  BY DEF Remind!handleCreated, PanelOpen
<1>2. PanelOpen /\ (\A e \in calls : e.mount = mount.n) /\ AskedOnce /\ \A id \in ReminderIds : FollowsOne(id)
  BY <1>1 DEF ShownInv, PanelOpen, Remind!Shown
<1>3. c.r.id \in ReminderIds
  BY DEF NotifyInv, RemindType, Call, Remind!Reminders
<1>4. ASSUME NEW id \in ReminderIds, id # c.r.id PROVE FollowsOne(id)'
  <2>1. (\A op : Done(op, id)' = Done(op, id)) /\ Shows(id)' = Shows(id) /\ Remind!Stored(id)' = Remind!Stored(id)
    BY <1>1, <1>4 DEF Done, Shows, Remind!Stored
  <2> QED
    BY <1>2, <2>1, OthersFollow
<1> DEFINE k == c.r.id
<1>5. FollowsOne(k)'
  <2>1. \A e \in calls : e.r.id = k => e = c
    BY <1>1, <1>2 DEF AskedOnce
  <2>2. \A op : Done(op, k)' = {}
    BY <1>1, <2>1 DEF Done
  <2>3. Remind!Stored(k) = {c.r} /\ Shows(k) = {}
    BY <1>1, <1>2, <1>3 DEF FollowsOne, Done
  <2>4. Remind!Stored(k)' = {c.r} /\ Shows(k)' = {c.r}
    BY <1>1, <2>3 DEF Remind!Stored, Shows
  <2> QED
    BY <2>2, <2>4 DEF FollowsOne
<1> QED
  BY <1>1, <1>2, <1>4, <1>5, LessAsked

LEMMA UpdatedFollows == ASSUME NotifyInv, ShownInv, NEW c \in calls, Remind!handleUpdated(c) PROVE ShownInv'
<1> SUFFICES ASSUME PanelOpen'
             PROVE  icon' = (list' # {}) /\ (\A e \in calls' : e.mount = mount'.n) /\ AskedOnce'
                    /\ \A id \in ReminderIds : FollowsOne(id)'
  BY DEF ShownInv
<1>1. /\ c.op = "update" /\ c.got = "ok" /\ calls' = calls \ {c} /\ icon' = icon /\ db' = db /\ mount' = mount
      /\ list' = Remind!Put(list, c.r) /\ disturbed' = disturbed
  BY DEF Remind!handleUpdated, PanelOpen
<1>2. /\ PanelOpen /\ icon = (list # {}) /\ (\A e \in calls : e.mount = mount.n) /\ AskedOnce
      /\ \A id \in ReminderIds : FollowsOne(id)
  BY <1>1 DEF ShownInv, PanelOpen, Remind!Shown
<1>3. c.r.id \in ReminderIds
  BY DEF NotifyInv, RemindType, Call, Remind!Reminders
<1>4. list' # {} <=> list # {}
  BY <1>1 DEF Remind!Put
<1>5. ASSUME NEW id \in ReminderIds, id # c.r.id PROVE FollowsOne(id)'
  <2>1. (\A op : Done(op, id)' = Done(op, id)) /\ Remind!Stored(id)' = Remind!Stored(id)
    BY <1>1, <1>5 DEF Done, Remind!Stored
  <2>2. {r \in Remind!Put(list, c.r) : r.id = id} = {r \in list : r.id = id}
    BY <1>5, PutOthers
  <2>3. Shows(id)' = Shows(id)
    BY <1>1, <2>2 DEF Shows
  <2> QED
    BY <1>2, <2>1, <2>3, OthersFollow
<1> DEFINE k == c.r.id
<1>6. FollowsOne(k)'
  <2>1. \A e \in calls : e.r.id = k /\ (e.op = "update" \/ (e.op = "create" /\ e.got # "refused")) => e = c
    BY <1>1, <1>2 DEF AskedOnce
  <2>2. Done("create", k)' = {} /\ Done("update", k)' = {} /\ Done("delete", k)' = Done("delete", k)
    BY <1>1, <2>1 DEF Done
  <2>3. /\ Done("delete", k) # {} => Remind!Stored(k) = {}
        /\ Done("delete", k) = {} => Remind!Stored(k) = IF Shows(k) = {} THEN {} ELSE {c.r}
    BY <1>1, <1>2, <1>3 DEF FollowsOne, Done
  <2>4. {r \in Remind!Put(list, c.r) : r.id = k} = IF Shows(k) = {} THEN {} ELSE {c.r}
    BY PutOne DEF Shows
  <2>5. Shows(k)' = (IF Shows(k) = {} THEN {} ELSE {c.r}) /\ Remind!Stored(k)' = Remind!Stored(k)
    BY <1>1, <2>4 DEF Shows, Remind!Stored
  <2> QED
    BY <2>2, <2>3, <2>5 DEF FollowsOne
<1> QED
  BY <1>1, <1>2, <1>4, <1>5, <1>6, LessAsked

LEMMA DeletedFollows == ASSUME NotifyInv, ShownInv, NEW c \in calls, Remind!handleDeleted(c) PROVE ShownInv'
<1> SUFFICES ASSUME PanelOpen'
             PROVE  icon' = (list' # {}) /\ (\A e \in calls' : e.mount = mount'.n) /\ AskedOnce'
                    /\ \A id \in ReminderIds : FollowsOne(id)'
  BY DEF ShownInv
<1> DEFINE k == c.r.id
<1>1. /\ c.op = "delete" /\ c.got = "ok" /\ calls' = calls \ {c} /\ db' = db /\ mount' = mount
      /\ list' = {r \in list : r.id # k} /\ icon' = (list' # {}) /\ ~disturbed
  BY DEF Remind!handleDeleted, PanelOpen
<1>2. PanelOpen /\ (\A e \in calls : e.mount = mount.n) /\ AskedOnce /\ \A id \in ReminderIds : FollowsOne(id)
  BY <1>1 DEF ShownInv, PanelOpen, Remind!Shown
<1>3. k \in ReminderIds
  BY DEF NotifyInv, RemindType, Call, Remind!Reminders
<1>4. ASSUME NEW id \in ReminderIds, id # k PROVE FollowsOne(id)'
  <2>1. (\A op : Done(op, id)' = Done(op, id)) /\ Shows(id)' = Shows(id) /\ Remind!Stored(id)' = Remind!Stored(id)
    BY <1>1, <1>4 DEF Done, Shows, Remind!Stored
  <2> QED
    BY <1>2, <2>1, OthersFollow
<1>5. FollowsOne(k)'
  <2>1. Done("delete", k) # {}
    BY <1>1 DEF Done
  <2>2. Remind!Stored(k) = {} /\ Done("create", k) = {}
    BY <1>2, <1>3, <2>1 DEF FollowsOne
  <2>3. Remind!Stored(k)' = {} /\ Done("create", k)' = {} /\ Shows(k)' = {}
    BY <1>1, <2>2 DEF Remind!Stored, Done, Shows
  <2> QED
    BY <2>3 DEF FollowsOne
<1> QED
  BY <1>1, <1>2, <1>4, <1>5, LessAsked

LEMMA RefusedFollows == ASSUME NotifyInv, ShownInv, NEW c \in calls, Remind!SaveFails(c) PROVE ShownInv'
<1> SUFFICES ASSUME PanelOpen'
             PROVE  icon' = (list' # {}) /\ (\A e \in calls' : e.mount = mount'.n) /\ AskedOnce'
                    /\ \A id \in ReminderIds : FollowsOne(id)'
  BY DEF ShownInv
<1>1. c.got = "refused" /\ calls' = calls \ {c} /\ UNCHANGED <<db, list, mount, icon, disturbed>>
  BY DEF Remind!SaveFails
<1>2. /\ PanelOpen /\ icon = (list # {}) /\ (\A e \in calls : e.mount = mount.n) /\ AskedOnce
      /\ \A id \in ReminderIds : FollowsOne(id)
  BY <1>1 DEF ShownInv, PanelOpen, Remind!Shown
<1>3. \A id \in ReminderIds : FollowsOne(id)'
  <2> SUFFICES ASSUME NEW id \in ReminderIds PROVE FollowsOne(id)'
    OBVIOUS
  <2>1. (\A op : Done(op, id)' = Done(op, id)) /\ Shows(id)' = Shows(id) /\ Remind!Stored(id)' = Remind!Stored(id)
    BY <1>1 DEF Done, Shows, Remind!Stored
  <2> QED
    BY <1>2, <2>1, OthersFollow
<1> QED
  BY <1>1, <1>2, <1>3, LessAsked

\* A reminder's form is saved: a new one has an id of its own, another is one of the list.
LEMMA SaveFollows == ASSUME NotifyInv, ShownInv, NEW at \in Remind!Moments, Remind!handleSave(at) PROVE ShownInv'
<1>1. CASE reminderForm = "new"
  <2>1. PICK id \in ReminderIds \ (used \cup {c.r.id : c \in calls}) :
          Remind!Send("create", [Remind!First(id, "ONCE") EXCEPT !.at = at])
    BY <1>1 DEF Remind!handleSave
  <2>2. PICK r : r = [Remind!First(id, "ONCE") EXCEPT !.at = at]
    OBVIOUS
  <2>3. r \in Remind!Reminders /\ r.id = id
    BY <2>2 DEF Remind!First, Remind!Reminders, Remind!Titles, Remind!Types
  <2>4. Remind!Send("create", r)
    BY <2>1, <2>2
  <2> QED
    BY <2>1, <2>3, <2>4, SentFollows
<1>2. CASE reminderForm # "new"
  <2>1. PICK q \in list : q.id = reminderForm /\ Remind!Send("update", [q EXCEPT !.at = at, !.title.edit = 1])
    BY <1>2 DEF Remind!handleSave
  <2>2. PICK r : r = [q EXCEPT !.at = at, !.title.edit = 1]
    OBVIOUS
  <2>3. q \in Remind!Reminders
    BY DEF NotifyInv, RemindType
  <2>4. r \in Remind!Reminders /\ r.id = q.id
    BY <2>2, <2>3 DEF Remind!Reminders, Remind!Titles
  <2>5. Remind!Send("update", r)
    BY <2>1, <2>2
  <2>6. ~\E c \in calls : c.mount = mount.n /\ c.op = "update" /\ c.r.id = r.id
    BY <1>2, <2>1, <2>4 DEF Remind!handleSave
  <2>7. \E x \in list : x.id = r.id
    BY <2>4
  <2> QED
    BY <2>4, <2>5, <2>6, <2>7, SentFollows
<1> QED
  BY <1>1, <1>2

LEMMA ShownInvInit == Remind!Init => ShownInv
BY DEF Remind!Init, ShownInv, PanelOpen, Remind!Shown

LEMMA ShownInvStep == NotifyInv /\ ShownInv /\ [Remind!Next]_remindVars => ShownInv'
<1> SUFFICES ASSUME NotifyInv, ShownInv, [Remind!Next]_remindVars PROVE ShownInv'
  OBVIOUS
<1>1. CASE UNCHANGED <<db, list, icon, calls, mount, disturbed>>
  BY <1>1, PanelKept
<1>2. CASE \/ Remind!Tick \/ Remind!processReminders \/ Remind!onCancel \/ Remind!onOpenChange \/ Remind!NotSaved
           \/ UNCHANGED remindVars
  BY <1>1, <1>2 DEF Remind!Tick, Remind!processReminders, Remind!onCancel, Remind!onOpenChange, Remind!NotSaved,
     remindVars, Remind!Panel
<1>3. ASSUME NEW f, NEW r, NEW t, Remind!OpenForm(f) \/ Remind!OpenDialog(r) \/ Remind!setTitle(r) \/ Remind!handleSaved(r, t)
      PROVE  ShownInv'
  BY <1>1, <1>3 DEF Remind!OpenForm, Remind!OpenDialog, Remind!setTitle, Remind!handleSaved, Remind!Panel
<1>4. CASE disturbed' = TRUE
  BY <1>4 DEF ShownInv, PanelOpen
<1>5. ASSUME NEW r, Remind!processReminder(r) PROVE ShownInv'
  BY <1>1, <1>4, <1>5 DEF Remind!processReminder, Remind!Panel
<1>6. ASSUME NEW r, NEW t, Remind!SaveDialog(r, t) PROVE ShownInv'
  <2> DEFINE ok == Remind!Stored(r.id) # {} /\ Remind!applyRequest([r EXCEPT !.title = t])
  <2>1. disturbed' = (disturbed \/ ok) /\ (~ok => db' = db) /\ UNCHANGED <<list, icon, calls, mount>>
    BY <1>6 DEF Remind!SaveDialog, Remind!Panel
  <2> HIDE DEF ok
  <2>2. CASE ok
    BY <1>4, <2>1, <2>2
  <2>3. CASE ~ok
    <3>1. (disturbed' <=> disturbed) /\ UNCHANGED <<db, list, icon, calls, mount>>
      BY <2>1, <2>3
    <3>2. \A id : (FollowsOne(id)' <=> FollowsOne(id))
      BY <3>1 DEF FollowsOne, Done, Shows, Remind!Stored
    <3>3. (PanelOpen' <=> PanelOpen) /\ (AskedOnce' <=> AskedOnce)
      BY <3>1 DEF PanelOpen, AskedOnce, Remind!Shown
    <3> QED
      BY <3>1, <3>2, <3>3 DEF ShownInv
  <2> QED
    BY <2>2, <2>3
<1>7. CASE Remind!ListFails
  BY <1>4, <1>7 DEF Remind!ListFails
<1>8. CASE Remind!toggleReminder
  BY <1>8 DEF Remind!toggleReminder, ShownInv, PanelOpen, Remind!Shown
<1>9. ASSUME NEW r \in list, Remind!handleDelete(r) PROVE ShownInv'
  <2>1. r \in Remind!Reminders
    BY DEF NotifyInv, RemindType
  <2> QED
    BY <1>9, <2>1, SentFollows DEF Remind!handleDelete
<1> QED
  BY <1>2, <1>3, <1>5, <1>6, <1>7, <1>8, <1>9, SaveFollows, LoadedFollows, CommitFollows, CreatedFollows, UpdatedFollows,
     DeletedFollows, RefusedFollows DEF Remind!Next

\* RemindersPanel and the note's toolbar: once the panel's requests have ended it shows the reminders the backend
\* has, and the icon tells if there are any, in whatever order they were sent, served and answered, and for any
\* number of them.
THEOREM PanelIsCurrent == Spec => []PanelFollows
<1>1. Init => NotifyInv /\ ShownInv
  BY NotifyInvInit, ShownInvInit DEF Init
<1>2. NotifyInv /\ ShownInv /\ [Next]_vars => (NotifyInv /\ ShownInv)'
  BY RemindTypeStep, KnownInvStep, OnceInvStep, ShownInvStep, PartSteps DEF NotifyInv
<1>3. NotifyInv /\ ShownInv => PanelFollows
  <2> SUFFICES ASSUME NotifyInv, ShownInv, PanelOpen, calls = {} PROVE list = db /\ icon = (db # {})
    BY DEF PanelFollows, Remind!PanelFollows, PanelOpen
  <2>1. \A id \in ReminderIds : Shows(id) = Remind!Stored(id)
    BY DEF ShownInv, FollowsOne, Done
  <2>2. \A r \in list \cup db : r.id \in ReminderIds
    BY DEF NotifyInv, RemindType, Remind!Reminders
  <2>3. \A r \in list \cup db : r \in list <=> r \in db
    BY <2>1, <2>2 DEF Shows, Remind!Stored
  <2>4. list = db
    BY <2>3
  <2> QED
    BY <2>4 DEF ShownInv
<1> QED
  BY <1>1, <1>2, <1>3, PTL DEF Spec

-----------------------------------------------------------------------------
(* The sections, their files, and which of them are locked.                *)

\* Sections with an id each, and no file in common.
Distinct(d) ==
    \A i, j \in DOMAIN d : i # j => d[i].id # d[j].id /\ (d[i].file # 0 => d[i].file # d[j].file)

\* The files of the sections are there, or came back with a restore; those of the uploads are no section's and no
\* other upload's.
FilesInv ==
    /\ doc \in Seq(List!Section) /\ Distinct(doc)
    /\ sent \in Nat
    /\ uploads \subseteq [sec: List!Ids, file: Nat, text: Nat]
    /\ \A i \in DOMAIN doc : doc[i].file # 0 => doc[i].file \in files \cup revived
    /\ \A i \in DOMAIN doc : doc[i].file < sent + 100
    /\ \A u \in uploads : u.file \in 1 .. sent + 99 /\ \A i \in DOMAIN doc : doc[i].file # u.file
    /\ \A u, v \in uploads : u.file = v.file => u = v
    /\ List!FilesOf(stored) \subseteq files \cup revived \/ due \/ failed

\* The row, its revisions, and the answers of restores are documents that were on the screen once.
Kept == {stored} \cup {r.doc : r \in revisions} \cup {a.doc : a \in restored}

AsShown(d) ==
    /\ d \in Seq(List!Section) /\ Distinct(d)
    /\ \A i \in DOMAIN d : d[i].file < sent + 100
    /\ \A u \in uploads : \A i \in DOMAIN d : d[i].file # u.file
    /\ List!LockedOrder(d) = List!LockedOrder(doc)

KeptInv == \A d \in Kept : AsShown(d)

\* A function on the first numbers is a sequence.
LEMMA NumberedIsSeq ==
    ASSUME NEW T, NEW n \in Nat, NEW f \in [1 .. n -> T]
    PROVE  f \in Seq(T) /\ Len(f) = n /\ DOMAIN f = 1 .. n
OBVIOUS

\* What a sequence is without its i-th element.
LEMMA Removed ==
    ASSUME NEW T, NEW s \in Seq(T), NEW i \in 1 .. Len(s)
    PROVE  /\ List!RemoveAt(s, i) \in Seq(T) /\ Len(List!RemoveAt(s, i)) = Len(s) - 1
           /\ \A k \in 1 .. Len(s) - 1 : List!RemoveAt(s, i)[k] = IF k < i THEN s[k] ELSE s[k + 1]
<1> DEFINE front == SubSeq(s, 1, i - 1)
           back == SubSeq(s, i + 1, Len(s))
<1>1. Len(s) \in Nat /\ i \in Nat /\ i >= 1 /\ i <= Len(s) /\ \A k \in 1 .. Len(s) : s[k] \in T
  OBVIOUS
<1>2. front \in Seq(T) /\ Len(front) = i - 1 /\ \A k \in 1 .. i - 1 : front[k] = s[k]
  BY <1>1, SubSeqProperties, Z3
<1>3. back \in Seq(T) /\ Len(back) = Len(s) - i /\ \A k \in 1 .. Len(s) - i : back[k] = s[k + i]
  BY <1>1, SubSeqProperties, Z3
<1> HIDE DEF front, back
<1>4. /\ front \o back \in Seq(T) /\ Len(front \o back) = Len(s) - 1
      /\ \A k \in 1 .. Len(s) - 1 : (front \o back)[k] = IF k < i THEN s[k] ELSE s[k + 1]
  <2>1. /\ front \o back \in Seq(T) /\ Len(front \o back) = Len(front) + Len(back)
        /\ \A k \in 1 .. Len(front) + Len(back) :
             (front \o back)[k] = IF k <= Len(front) THEN front[k] ELSE back[k - Len(front)]
    BY <1>2, <1>3, ConcatProperties
  <2>2. Len(front) + Len(back) = Len(s) - 1
    BY <1>1, <1>2, <1>3
  <2>3. ASSUME NEW k \in 1 .. Len(s) - 1 PROVE (front \o back)[k] = IF k < i THEN s[k] ELSE s[k + 1]
    <3>1. ASSUME k < i PROVE (front \o back)[k] = s[k]
      BY <1>1, <1>2, <2>1, <2>2, <3>1
    <3>2. ASSUME ~(k < i) PROVE (front \o back)[k] = s[k + 1]
      <4>1. k - (i - 1) \in 1 .. Len(s) - i /\ ~(k <= Len(front)) /\ k - (i - 1) + i = k + 1
        BY <1>1, <1>2, <3>2
      <4>2. (front \o back)[k] = back[k - (i - 1)]
        BY <1>2, <2>1, <2>2, <4>1
      <4> QED
        BY <1>1, <1>3, <3>2, <4>1, <4>2
    <3> QED
      BY <3>1, <3>2
  <2> QED
    BY <2>1, <2>2, <2>3
<1> QED
  BY <1>4 DEF List!RemoveAt, front, back

LEMMA RemovedSection ==
    ASSUME NEW s \in Seq(List!Section), NEW i \in 1 .. Len(s)
    PROVE  /\ List!RemoveAt(s, i) \in Seq(List!Section) /\ Len(List!RemoveAt(s, i)) = Len(s) - 1
           /\ \A k \in 1 .. Len(s) - 1 : List!RemoveAt(s, i)[k] = IF k < i THEN s[k] ELSE s[k + 1]
BY Removed, Zenon

\* t is s with e put in at the i-th place.
With(s, i, e, t) ==
    /\ Len(t) = Len(s) + 1
    /\ \A k \in 1 .. Len(s) + 1 : t[k] = IF k < i THEN s[k] ELSE IF k = i THEN e ELSE s[k - 1]

LEMMA Inserted ==
    ASSUME NEW T, NEW s \in Seq(T), NEW i \in 1 .. Len(s) + 1, NEW e \in T
    PROVE  List!InsertAt(s, i, e) \in Seq(T) /\ With(s, i, e, List!InsertAt(s, i, e))
<1> DEFINE front == SubSeq(s, 1, i - 1)
           back == SubSeq(s, i, Len(s))
           begin == front \o <<e>>
<1>1. Len(s) \in Nat /\ i \in Nat /\ i >= 1 /\ i <= Len(s) + 1 /\ \A k \in 1 .. Len(s) : s[k] \in T
  OBVIOUS
<1>2. front \in Seq(T) /\ Len(front) = i - 1 /\ \A k \in 1 .. i - 1 : front[k] = s[k]
  BY <1>1, SubSeqProperties, Z3
<1>3. back \in Seq(T) /\ Len(back) = Len(s) - i + 1 /\ \A k \in 1 .. Len(s) - i + 1 : back[k] = s[k + i - 1]
  BY <1>1, SubSeqProperties, Z3
<1> HIDE DEF front, back
<1>4. begin \in Seq(T) /\ Len(begin) = i /\ \A k \in 1 .. i : begin[k] = IF k < i THEN s[k] ELSE e
  <2>1. <<e>> \in Seq(T) /\ Len(<<e>>) = 1 /\ <<e>>[1] = e
    OBVIOUS
  <2>2. /\ begin \in Seq(T) /\ Len(begin) = Len(front) + 1
        /\ \A k \in 1 .. Len(front) + 1 : begin[k] = IF k <= Len(front) THEN front[k] ELSE <<e>>[k - Len(front)]
    BY <1>2, <2>1, ConcatProperties
  <2> QED
    BY <1>1, <1>2, <2>1, <2>2
<1> HIDE DEF begin
<1>5. /\ begin \o back \in Seq(T) /\ Len(begin \o back) = Len(s) + 1
      /\ \A k \in 1 .. Len(s) + 1 : (begin \o back)[k] = IF k < i THEN s[k] ELSE IF k = i THEN e ELSE s[k - 1]
  <2>1. /\ begin \o back \in Seq(T) /\ Len(begin \o back) = Len(begin) + Len(back)
        /\ \A k \in 1 .. Len(begin) + Len(back) :
             (begin \o back)[k] = IF k <= Len(begin) THEN begin[k] ELSE back[k - Len(begin)]
    BY <1>3, <1>4, ConcatProperties
  <2>2. \A k \in 1 .. Len(s) + 1 : ~(k <= i) => k - i \in 1 .. Len(s) - i + 1
    BY <1>1
  <2> QED
    BY <1>1, <1>3, <1>4, <2>1, <2>2
<1> QED
  BY <1>5 DEF With, List!InsertAt, front, back, begin

\* Numbering changes the order of the sections, not what they are.
LEMMA NumberedKeeps ==
    ASSUME NEW d \in Seq(List!Section)
    PROVE  /\ List!Numbered(d) \in Seq(List!Section) /\ Len(List!Numbered(d)) = Len(d)
           /\ \A k \in 1 .. Len(d) : /\ List!Numbered(d)[k].id = d[k].id /\ List!Numbered(d)[k].file = d[k].file
                                     /\ List!Numbered(d)[k].locked = d[k].locked
<1> DEFINE e == List!Numbered(d)
<1>1. Len(d) \in Nat /\ DOMAIN d = 1 .. Len(d) /\ \A k \in 1 .. Len(d) : d[k] \in List!Section
  OBVIOUS
<1>2. e = [k \in 1 .. Len(d) |-> [d[k] EXCEPT !.order = k - 1]]
  BY <1>1 DEF List!Numbered
<1>3. ASSUME NEW k \in 1 .. Len(d)
      PROVE  e[k] \in List!Section /\ e[k].id = d[k].id /\ e[k].file = d[k].file /\ e[k].locked = d[k].locked
  <2>1. d[k] \in List!Section /\ k - 1 \in Nat /\ e[k] = [d[k] EXCEPT !.order = k - 1]
    BY <1>1, <1>2
  <2> QED
    BY <2>1 DEF List!Section
<1>4. e \in [1 .. Len(d) -> List!Section]
  BY <1>2, <1>3
<1> HIDE DEF e
<1>5. e \in Seq(List!Section) /\ Len(e) = Len(d)
  BY <1>1, <1>4, NumberedIsSeq
<1> QED
  BY <1>3, <1>5 DEF e

\* The locked sections are those there were, in their order.
LockedStay == List!LockedOrder(doc') = List!LockedOrder(doc)

\* Where the locked sections of b were in a.
Follows(a, b, place) ==
    /\ \A k \in DOMAIN b : b[k].locked => place[k] \in DOMAIN a /\ a[place[k]].locked /\ a[place[k]].id = b[k].id
    /\ \A j, k \in DOMAIN b : b[j].locked /\ b[k].locked => (j <= k <=> place[j] <= place[k])
    /\ \A m \in DOMAIN a : a[m].locked => \E k \in DOMAIN b : place[k] = m /\ b[k].locked

LEMMA FollowingKeepsOrder ==
    ASSUME NEW a, NEW b, NEW place, Follows(a, b, place)
    PROVE  List!LockedOrder(b) = List!LockedOrder(a)
<1> DEFINE At(d) == {i \in DOMAIN d : d[i].locked}
           Pairs(d) == {q \in At(d) \X At(d) : q[1] <= q[2]}
           Order(d) == {<<d[p[1]].id, d[p[2]].id>> : p \in Pairs(d)}
<1>1. \A j, k \in At(b) : j <= k => <<b[j].id, b[k].id>> \in Order(a)
  <2>1. SUFFICES ASSUME NEW j \in At(b), NEW k \in At(b), j <= k PROVE <<b[j].id, b[k].id>> \in Order(a)
    OBVIOUS
  <2>2. /\ <<place[j], place[k]>> \in Pairs(a) /\ a[place[j]].id = b[j].id /\ a[place[k]].id = b[k].id
    BY <2>1 DEF Follows
  <2> QED
    BY <2>2
<1>2. \A m, n \in At(a) : m <= n => <<a[m].id, a[n].id>> \in Order(b)
  <2>1. SUFFICES ASSUME NEW m \in At(a), NEW n \in At(a), m <= n PROVE <<a[m].id, a[n].id>> \in Order(b)
    OBVIOUS
  <2>2. PICK j \in At(b), k \in At(b) : place[j] = m /\ place[k] = n
    BY DEF Follows
  <2>3. <<j, k>> \in Pairs(b) /\ a[m].id = b[j].id /\ a[n].id = b[k].id
    BY <2>1, <2>2 DEF Follows
  <2> QED
    BY <2>3
<1>3. Order(b) \subseteq Order(a) /\ Order(a) \subseteq Order(b)
  BY <1>1, <1>2
<1>4. List!LockedOrder(a) = Order(a) /\ List!LockedOrder(b) = Order(b)
  BY DEF List!LockedOrder
<1> QED
  BY <1>3, <1>4

\* A list that is made of the sections there are, one place each, keeps the invariant, whatever their order.
LEMMA RearrangedKeepsInv ==
    ASSUME FilesInv, NEW d \in Seq(List!Section), NEW place \in [1 .. Len(d) -> 1 .. Len(doc)],
           \A k \in 1 .. Len(d) : d[k].id = doc[place[k]].id /\ d[k].file = doc[place[k]].file,
           \A j, k \in 1 .. Len(d) : j # k => place[j] # place[k],
           Follows(doc, d, place),
           List!updateSections(List!Numbered(d)),
           UNCHANGED <<uploads, sent, stored, failed, revived>>,
           files' \in SUBSET files, \A k \in 1 .. Len(d) : d[k].file # 0 /\ d[k].file \in files => d[k].file \in files'
    PROVE  FilesInv' /\ LockedStay
<1>1. doc' = List!Numbered(d) /\ due'
  BY DEF List!updateSections
<1>2. doc \in Seq(List!Section) /\ DOMAIN doc = 1 .. Len(doc)
  BY DEF FilesInv
<1>3. /\ doc' \in Seq(List!Section) /\ DOMAIN doc' = 1 .. Len(d)
      /\ \A k \in 1 .. Len(d) : doc'[k].id = d[k].id /\ doc'[k].file = d[k].file /\ doc'[k].locked = d[k].locked
  <2>1. Len(doc') = Len(d) /\ doc' \in Seq(List!Section)
    BY <1>1, NumberedKeeps
  <2>2. DOMAIN doc' = 1 .. Len(doc')
    BY <2>1
  <2> QED
    BY <1>1, <2>1, <2>2, NumberedKeeps
<1>4. \A k \in DOMAIN doc' : place[k] \in DOMAIN doc /\ doc'[k].id = doc[place[k]].id /\ doc'[k].file = doc[place[k]].file
  BY <1>2, <1>3
<1>5. Distinct(doc')
  <2>1. SUFFICES ASSUME NEW i \in DOMAIN doc', NEW j \in DOMAIN doc', i # j
                 PROVE  doc'[i].id # doc'[j].id /\ (doc'[i].file # 0 => doc'[i].file # doc'[j].file)
    BY DEF Distinct
  <2>2. i \in 1 .. Len(d) /\ j \in 1 .. Len(d) /\ place[i] \in DOMAIN doc /\ place[j] \in DOMAIN doc
    BY <1>3, <1>4
  <2>3. place[i] # place[j]
    BY <2>1, <2>2
  <2>4. Distinct(doc)
    BY DEF FilesInv
  <2>5. doc[place[i]].id # doc[place[j]].id /\ (doc[place[i]].file # 0 => doc[place[i]].file # doc[place[j]].file)
    BY <2>2, <2>3, <2>4 DEF Distinct
  <2> QED
    BY <1>3, <1>4, <2>2, <2>5
<1>6. \A k \in DOMAIN doc' : doc'[k].file # 0 => doc'[k].file \in files' \cup revived
  BY <1>3, <1>4 DEF FilesInv
<1>7. \A k \in DOMAIN doc' : doc'[k].file < sent + 100
  BY <1>4 DEF FilesInv
<1>8. \A u \in uploads : u.file \in 1 .. sent + 99 /\ \A k \in DOMAIN doc' : doc'[k].file # u.file
  BY <1>4 DEF FilesInv
<1>9. LockedStay
  <2>1. DOMAIN d = DOMAIN doc'
    BY <1>3
  <2>2. Follows(doc, doc', place)
    BY <1>3, <2>1 DEF Follows
  <2> QED
    BY <2>2, FollowingKeepsOrder DEF LockedStay
<1> QED
  BY <1>1, <1>3, <1>5, <1>6, <1>7, <1>8, <1>9 DEF FilesInv

\* A new section has an id of its own and no file.
LEMMA AddingKeepsInv ==
    ASSUME FilesInv, NEW kind \in NewKinds, NEW after \in 0 .. Len(doc), List!addSection(kind, after)
    PROVE  FilesInv' /\ LockedStay
<1>1. PICK id \in List!Ids :
        /\ \A k \in DOMAIN doc : doc[k].id # id
        /\ List!updateSections(List!Numbered(List!InsertAt(doc, after + 1, List!createSection(id, kind, after))))
  BY DEF List!addSection, List!Unused
<1> DEFINE new == List!createSection(id, kind, after)
           d == List!InsertAt(doc, after + 1, new)
           n == Len(doc)
<1>2. doc \in Seq(List!Section) /\ DOMAIN doc = 1 .. n /\ n \in Nat /\ after \in Nat /\ after + 1 \in 1 .. n + 1
  BY DEF FilesInv
<1>3. new \in List!Section /\ new.id = id /\ new.file = 0 /\ ~new.locked
  BY <1>2, SectionsAssumption DEF List!createSection, List!Section, List!NoFile
<1> HIDE DEF new
<1>a. d \in Seq(List!Section) /\ With(doc, after + 1, new, d)
  BY <1>2, <1>3, Inserted
<1> HIDE DEF d
<1>4. /\ d \in Seq(List!Section) /\ Len(d) = n + 1
      /\ \A k \in 1 .. n + 1 : d[k] = IF k < after + 1 THEN doc[k] ELSE IF k = after + 1 THEN new ELSE doc[k - 1]
  BY <1>a DEF With
<1>5. doc' = List!Numbered(d) /\ due' /\ UNCHANGED <<uploads, files, sent, stored, failed, revived>>
  BY <1>1 DEF List!addSection, List!updateSections, List!Files, List!Saved, List!Restores, d, new
<1>6. doc' \in Seq(List!Section) /\ Len(doc') = n + 1
      /\ \A k \in 1 .. n + 1 : doc'[k].id = d[k].id /\ doc'[k].file = d[k].file /\ doc'[k].locked = d[k].locked
  BY <1>4, <1>5, NumberedKeeps
<1>7. DOMAIN doc' = 1 .. n + 1
  BY <1>6
<1> DEFINE place(k) == IF k < after + 1 THEN k ELSE k - 1
<1>8. ASSUME NEW k \in 1 .. n + 1, k # after + 1
      PROVE  /\ place(k) \in DOMAIN doc /\ doc'[k].id = doc[place(k)].id /\ doc'[k].file = doc[place(k)].file
             /\ doc'[k].locked = doc[place(k)].locked
  <2>1. place(k) \in 1 .. n /\ d[k] = doc[place(k)]
    BY <1>2, <1>4, <1>8
  <2> QED
    BY <1>2, <1>6, <2>1
<1>9. doc'[after + 1].id = id /\ doc'[after + 1].file = 0 /\ ~doc'[after + 1].locked
  <2>1. after + 1 \in 1 .. n + 1 /\ d[after + 1] = new
    BY <1>2, <1>4
  <2> QED
    BY <1>3, <1>6, <2>1
<1>10. \A i \in DOMAIN doc : doc[i].id # id
  BY <1>1
<1>11. Distinct(doc')
  <2>1. SUFFICES ASSUME NEW i \in 1 .. n + 1, NEW j \in 1 .. n + 1, i # j
                 PROVE  doc'[i].id # doc'[j].id /\ (doc'[i].file # 0 => doc'[i].file # doc'[j].file)
    BY <1>7 DEF Distinct
  <2>2. CASE i = after + 1
    BY <1>8, <1>9, <1>10, <2>1, <2>2
  <2>3. CASE j = after + 1
    BY <1>8, <1>9, <1>10, <2>1, <2>3
  <2>4. CASE i # after + 1 /\ j # after + 1
    <3>1. place(i) # place(j)
      BY <1>2, <2>1, <2>4
    <3>2. /\ place(i) \in DOMAIN doc /\ doc'[i].id = doc[place(i)].id /\ doc'[i].file = doc[place(i)].file
          /\ place(j) \in DOMAIN doc /\ doc'[j].id = doc[place(j)].id /\ doc'[j].file = doc[place(j)].file
      BY <1>8, <2>4
    <3> HIDE DEF place
    <3> QED
      BY <3>1, <3>2 DEF FilesInv, Distinct
  <2> QED
    BY <2>2, <2>3, <2>4
<1>12. \A k \in DOMAIN doc' : doc'[k].file = 0 \/ \E i \in DOMAIN doc : doc'[k].file = doc[i].file
  BY <1>7, <1>8, <1>9
<1>13. sent \in Nat /\ \A u \in uploads : u.file # 0
  BY DEF FilesInv
<1>14. \A k \in DOMAIN doc' : doc'[k].file < sent + 100
  BY <1>12, <1>13 DEF FilesInv
<1>15. \A u \in uploads : u.file \in 1 .. sent + 99 /\ \A k \in DOMAIN doc' : doc'[k].file # u.file
  BY <1>12, <1>13 DEF FilesInv
<1>16. \A k \in DOMAIN doc' : doc'[k].file # 0 => doc'[k].file \in files \cup revived
  BY <1>12 DEF FilesInv
<1>17. LockedStay
  <2> DEFINE from == [k \in 1 .. n + 1 |-> place(k)]
  <2>1. \A k \in 1 .. n + 1 : doc'[k].locked => /\ k # after + 1 /\ from[k] \in 1 .. n
                                              /\ doc'[k].id = doc[from[k]].id /\ doc[from[k]].locked
    BY <1>2, <1>8, <1>9
  <2>2. \A k, m \in 1 .. n + 1 : k # after + 1 /\ m # after + 1 => (k <= m <=> from[k] <= from[m])
    BY <1>2
  <2>3. ASSUME NEW m \in 1 .. n, doc[m].locked PROVE \E k \in 1 .. n + 1 : from[k] = m /\ doc'[k].locked
    <3>1. PICK k \in 1 .. n + 1 : k # after + 1 /\ place(k) = m
      <4>1. CASE m < after + 1
        BY <1>2, <4>1
      <4>2. CASE ~(m < after + 1)
        <5>1. m + 1 \in 1 .. n + 1 /\ m + 1 # after + 1 /\ place(m + 1) = m
          BY <1>2, <4>2
        <5> QED
          BY <5>1
      <4> QED
        BY <4>1, <4>2
    <3> QED
      BY <1>8, <2>3, <3>1
  <2> HIDE DEF from
  <2>4. Follows(doc, doc', from)
    BY <1>2, <1>7, <2>1, <2>2, <2>3 DEF Follows
  <2> QED
    BY <2>4, FollowingKeepsOrder DEF LockedStay
<1> QED
  BY <1>5, <1>6, <1>11, <1>14, <1>15, <1>16, <1>17 DEF FilesInv

\* The file of a section that is deleted was no other section's.
LEMMA DeletingKeepsInv ==
    ASSUME FilesInv, NEW i \in DOMAIN doc, List!deleteSection(i)
    PROVE  FilesInv' /\ LockedStay
<1> DEFINE d == List!RemoveAt(doc, i)
           n == Len(doc)
           place == [k \in 1 .. n - 1 |-> IF k < i THEN k ELSE k + 1]
<1>1. doc \in Seq(List!Section) /\ DOMAIN doc = 1 .. n /\ n \in Nat /\ i \in 1 .. n
  BY DEF FilesInv
<1>2. /\ d \in Seq(List!Section) /\ Len(d) = n - 1
      /\ \A k \in 1 .. n - 1 : d[k] = IF k < i THEN doc[k] ELSE doc[k + 1]
  BY <1>1, RemovedSection, Zenon
<1>3. /\ List!updateSections(List!Numbered(d)) /\ UNCHANGED <<uploads, sent, stored, failed, revived>>
      /\ files' \in {files, files \ {doc[i].file}} /\ ~doc[i].locked
  BY DEF List!deleteSection, List!Offered, List!Saved, List!Restores
<1> HIDE DEF d
<1>4. place \in [1 .. Len(d) -> 1 .. n]
  BY <1>1, <1>2
<1>5. \A k \in 1 .. Len(d) : place[k] # i /\ d[k] = doc[place[k]]
  BY <1>1, <1>2, SMTT(30)
<1>6. \A j, k \in 1 .. Len(d) : j # k => place[j] # place[k]
  BY <1>1, <1>2
<1>a. ASSUME NEW m \in 1 .. n, doc[m].locked PROVE \E k \in 1 .. Len(d) : place[k] = m
  <2>1. CASE m < i
    <3>1. m \in 1 .. n - 1 /\ place[m] = m
      BY <1>1, <2>1
    <3> QED
      BY <1>2, <3>1
  <2>2. CASE m > i
    <3>1. m - 1 \in 1 .. n - 1 /\ ~(m - 1 < i) /\ (m - 1) + 1 = m
      <4> HIDE DEF n, place
      <4> QED
        BY <1>1, <2>2
    <3>2. place[m - 1] = (m - 1) + 1
      <4> HIDE DEF n
      <4> QED
        BY <3>1
    <3> QED
      BY <1>2, <3>1, <3>2
  <2> HIDE DEF n, place
  <2>3. m # i
    BY <1>3, <1>a
  <2>4. m < i \/ m > i
    BY <1>1, <2>3
  <2> QED
    BY <2>1, <2>2, <2>4
<1>b. \A j, k \in 1 .. Len(d) : j <= k <=> place[j] <= place[k]
  BY <1>1, <1>2
<1> HIDE DEF place
<1>c. Follows(doc, d, place)
  <2>1. DOMAIN d = 1 .. Len(d)
    BY <1>2
  <2>2. \A m \in 1 .. n : doc[m].locked => \E k \in 1 .. Len(d) : place[k] = m /\ d[k].locked
    BY <1>5, <1>a
  <2>3. \A k \in 1 .. Len(d) : place[k] \in 1 .. n
    BY <1>4
  <2> HIDE DEF n
  <2> QED
    BY <1>1, <1>5, <1>b, <2>1, <2>2, <2>3 DEF Follows
<1>7. \A k \in 1 .. Len(d) : d[k].file # 0 => d[k].file # doc[i].file
  BY <1>1, <1>4, <1>5 DEF FilesInv, Distinct
<1>8. files' \in SUBSET files /\ \A k \in 1 .. Len(d) : d[k].file # 0 /\ d[k].file \in files => d[k].file \in files'
  BY <1>3, <1>7
<1>9. \A k \in 1 .. Len(d) : d[k].id = doc[place[k]].id /\ d[k].file = doc[place[k]].file
  BY <1>5
<1> QED
  BY <1>2, <1>3, <1>4, <1>6, <1>8, <1>9, <1>c, RearrangedKeepsInv

LEMMA MovingKeepsInv ==
    ASSUME FilesInv, NEW i \in DOMAIN doc, NEW to \in DOMAIN doc, List!moveSection(i, to)
    PROVE  FilesInv' /\ LockedStay
<1> DEFINE d == [doc EXCEPT ![i] = doc[to], ![to] = doc[i]]
           n == Len(doc)
           place == [k \in 1 .. n |-> IF k = to THEN i ELSE IF k = i THEN to ELSE k]
<1>1. doc \in Seq(List!Section) /\ DOMAIN doc = 1 .. n /\ n \in Nat /\ doc \in [1 .. n -> List!Section]
  BY DEF FilesInv
<1>2. d \in [1 .. n -> List!Section] /\ \A k \in 1 .. n : d[k] = IF k = to THEN doc[i] ELSE IF k = i THEN doc[to] ELSE doc[k]
  BY <1>1
<1>3. /\ List!updateSections(List!Numbered(d)) /\ UNCHANGED <<uploads, files, sent, stored, failed, revived>>
      /\ ~doc[i].locked /\ to \in {i - 1, i + 1}
  BY DEF List!moveSection, List!Offered, List!Files, List!Saved, List!Restores
<1> HIDE DEF d
<1>4. d \in Seq(List!Section) /\ Len(d) = n
  BY <1>1, <1>2, NumberedIsSeq
<1>5. place \in [1 .. Len(d) -> 1 .. n] /\ \A k \in 1 .. n : d[k] = doc[place[k]]
  BY <1>1, <1>2, <1>4
<1>6. \A j, k \in 1 .. Len(d) : j # k => place[j] # place[k]
  BY <1>1, <1>4
<1>a. ASSUME NEW j \in 1 .. n, NEW k \in 1 .. n, d[j].locked, d[k].locked PROVE j <= k <=> place[j] <= place[k]
  <2>1. j # to /\ k # to
    BY <1>2, <1>3, <1>a
  <2> QED
    BY <1>1, <1>3, <2>1
<1>b. \A m \in 1 .. n : place[m] \in 1 .. n /\ place[place[m]] = m
  BY <1>1
<1> HIDE DEF place
<1>c. Follows(doc, d, place)
  <2>1. DOMAIN d = 1 .. n
    BY <1>2
  <2>2. \A m \in 1 .. n : \E k \in 1 .. n : place[k] = m
    BY <1>b
  <2> QED
    BY <1>1, <1>5, <1>a, <1>b, <2>1, <2>2 DEF Follows
<1>7. \A k \in 1 .. Len(d) : d[k].id = doc[place[k]].id /\ d[k].file = doc[place[k]].file
  BY <1>4, <1>5
<1>8. files' \in SUBSET files /\ \A k \in 1 .. Len(d) : d[k].file # 0 /\ d[k].file \in files => d[k].file \in files'
  BY <1>3
<1> QED
  BY <1>3, <1>4, <1>5, <1>6, <1>7, <1>8, <1>c, RearrangedKeepsInv

LEMMA DraggingKeepsInv ==
    ASSUME FilesInv, NEW i \in DOMAIN doc, NEW to \in DOMAIN doc, List!handleDragEnd(i, to)
    PROVE  FilesInv' /\ LockedStay
<1> DEFINE n == Len(doc)
           rest == List!RemoveAt(doc, i)
           d == List!InsertAt(rest, to, doc[i])
           from(k) == IF k < i THEN k ELSE k + 1
           place == [k \in 1 .. n |-> IF k < to THEN from(k) ELSE IF k = to THEN i ELSE from(k - 1)]
<1>1. doc \in Seq(List!Section) /\ DOMAIN doc = 1 .. n /\ n \in Nat /\ i \in 1 .. n /\ to \in 1 .. n /\ doc[i] \in List!Section
  BY DEF FilesInv
<1>2. /\ rest \in Seq(List!Section) /\ Len(rest) = n - 1
      /\ \A k \in 1 .. n - 1 : rest[k] = IF k < i THEN doc[k] ELSE doc[k + 1]
  BY <1>1, RemovedSection, Zenon
<1> HIDE DEF rest
<1>3. d \in Seq(List!Section) /\ With(rest, to, doc[i], d)
  <2>1. to \in 1 .. Len(rest) + 1
    BY <1>1, <1>2
  <2> QED
    BY <1>1, <1>2, <2>1, Inserted
<1>4. /\ List!updateSections(List!Numbered(d)) /\ UNCHANGED <<uploads, files, sent, stored, failed, revived>>
      /\ ~doc[i].locked
  BY DEF List!handleDragEnd, List!Offered, List!Files, List!Saved, List!Restores, rest
<1> HIDE DEF d
<1>5. d \in Seq(List!Section) /\ Len(d) = n
      /\ \A k \in 1 .. n : d[k] = IF k < to THEN rest[k] ELSE IF k = to THEN doc[i] ELSE rest[k - 1]
  BY <1>1, <1>2, <1>3 DEF With
<1>6. place \in [1 .. n -> 1 .. n]
  BY <1>1
<1>7. ASSUME NEW k \in 1 .. n PROVE d[k] = doc[place[k]]
  <2>1. CASE k < to
    <3>1. k \in 1 .. n - 1
      BY <1>1, <2>1
    <3>2. d[k] = rest[k] /\ rest[k] = doc[from(k)] /\ place[k] = from(k)
      BY <1>2, <1>5, <2>1, <3>1
    <3> QED
      BY <3>2
  <2>2. CASE k = to
    BY <1>1, <1>5, <2>2
  <2>3. CASE k > to
    <3>1. k - 1 \in 1 .. n - 1 /\ ~(k < to) /\ k # to
      BY <1>1, <2>3
    <3>2. d[k] = rest[k - 1] /\ rest[k - 1] = doc[from(k - 1)] /\ place[k] = from(k - 1)
      BY <1>2, <1>5, <3>1
    <3> QED
      BY <3>2
  <2> QED
    BY <1>1, <2>1, <2>2, <2>3
<1>8. \A j, k \in 1 .. n : j # k => place[j] # place[k]
  BY <1>1
<1>a. \A j, k \in 1 .. n : j # to /\ k # to => (j <= k <=> place[j] <= place[k])
  BY <1>1
<1>b. ASSUME NEW m \in 1 .. n PROVE \E k \in 1 .. n : place[k] = m
  <2> DEFINE out == IF m < i THEN m ELSE m - 1
             back == IF m = i THEN to ELSE IF out < to THEN out ELSE out + 1
  <2>1. back \in 1 .. n /\ place[back] = m
    BY <1>1
  <2> QED
    BY <2>1
<1>c. place[to] = i
  BY <1>1
<1> HIDE DEF place
<1>d. Follows(doc, d, place)
  <2>1. DOMAIN d = 1 .. n
    BY <1>5
  <2>2. \A k \in 1 .. n : d[k].locked => k # to
    BY <1>4, <1>7, <1>c
  <2>3. \A k \in 1 .. n : place[k] \in 1 .. n /\ d[k] = doc[place[k]]
    BY <1>6, <1>7
  <2>4. ASSUME NEW m \in 1 .. n, doc[m].locked PROVE \E k \in 1 .. n : place[k] = m /\ d[k].locked
    <3>1. PICK k \in 1 .. n : place[k] = m
      BY <1>b
    <3>2. d[k].locked
      BY <2>3, <2>4, <3>1
    <3> QED
      BY <3>1, <3>2
  <2> HIDE DEF n
  <2> QED
    BY <1>1, <1>a, <2>1, <2>2, <2>3, <2>4 DEF Follows
<1>9. \A k \in 1 .. Len(d) : d[k].id = doc[place[k]].id /\ d[k].file = doc[place[k]].file
  BY <1>5, <1>7
<1>10. files' \in SUBSET files /\ \A k \in 1 .. Len(d) : d[k].file # 0 /\ d[k].file \in files => d[k].file \in files'
  BY <1>4
<1>11. place \in [1 .. Len(d) -> 1 .. Len(doc)] /\ \A j, k \in 1 .. Len(d) : j # k => place[j] # place[k]
  BY <1>5, <1>6, <1>8
<1> HIDE DEF n
<1> QED
  BY <1>4, <1>5, <1>9, <1>10, <1>11, <1>d, RearrangedKeepsInv

LEMMA InPlaceKeepsOrder ==
    ASSUME DOMAIN doc' = DOMAIN doc, \A k \in DOMAIN doc : doc'[k].id = doc[k].id /\ doc'[k].locked = doc[k].locked
    PROVE  LockedStay
<1>1. Follows(doc, doc', [k \in DOMAIN doc |-> k])
  BY DEF Follows
<1> QED
  BY <1>1, FollowingKeepsOrder DEF LockedStay

\* A section that changes in place, with its id and its file.
LEMMA ReplacingKeepsInv ==
    ASSUME FilesInv, NEW i \in DOMAIN doc, NEW new \in List!Section,
           new.id = doc[i].id, new.file = doc[i].file, new.locked = doc[i].locked, List!updateSection(doc[i].id, new),
           UNCHANGED <<uploads, files, sent, stored, failed, revived>>
    PROVE  FilesInv' /\ LockedStay
<1> DEFINE n == Len(doc)
<1>1. doc \in Seq(List!Section) /\ DOMAIN doc = 1 .. n /\ n \in Nat /\ \A k \in 1 .. n : doc[k] \in List!Section
  BY DEF FilesInv
<1>2. doc' = [k \in 1 .. n |-> IF doc[k].id = doc[i].id THEN new ELSE doc[k]] /\ due'
  BY <1>1 DEF List!updateSection, List!updateSections
<1>3. doc' \in [1 .. n -> List!Section]
  BY <1>1, <1>2
<1>4. doc' \in Seq(List!Section) /\ DOMAIN doc' = DOMAIN doc
  BY <1>1, <1>3, NumberedIsSeq
<1>5. \A k \in DOMAIN doc : doc'[k].id = doc[k].id /\ doc'[k].file = doc[k].file /\ doc'[k].locked = doc[k].locked
  BY <1>1, <1>2 DEF FilesInv, Distinct
<1>6. Distinct(doc')
  BY <1>4, <1>5 DEF FilesInv, Distinct
<1> HIDE DEF n
<1>7. /\ \A k \in DOMAIN doc' : doc'[k].file # 0 => doc'[k].file \in files \cup revived
      /\ \A k \in DOMAIN doc' : doc'[k].file < sent + 100
  BY <1>4, <1>5 DEF FilesInv
<1>8. \A u \in uploads : u.file \in 1 .. sent + 99 /\ \A k \in DOMAIN doc' : doc'[k].file # u.file
  BY <1>4, <1>5 DEF FilesInv
<1>9. LockedStay
  BY <1>4, <1>5, InPlaceKeepsOrder
<1> QED
  BY <1>2, <1>4, <1>6, <1>7, <1>8, <1>9 DEF FilesInv

LEMMA TypingKeepsInv ==
    ASSUME FilesInv, NEW i \in DOMAIN doc, List!Type(i) \/ List!AiSaves(i)
    PROVE  FilesInv' /\ LockedStay
<1>1. doc[i] \in List!Section
  BY DEF FilesInv
<1>2. /\ List!Retyped(doc[i]) \in List!Section /\ List!Retyped(doc[i]).id = doc[i].id
      /\ List!Retyped(doc[i]).file = doc[i].file /\ List!Retyped(doc[i]).locked = doc[i].locked
  BY <1>1 DEF List!Retyped, List!Section
<1>3. List!updateSection(doc[i].id, List!Retyped(doc[i])) /\ UNCHANGED <<uploads, files, sent, stored, failed, revived>>
  BY DEF List!Type, List!AiSaves, List!Files, List!Saved, List!Restores
<1> QED
  BY <1>2, <1>3, ReplacingKeepsInv

\* The file that was uploaded is no other section's, and no other upload's.
LEMMA UploadedKeepsInv ==
    ASSUME FilesInv, NEW u \in uploads, List!onUploaded(u)
    PROVE  FilesInv' /\ LockedStay
<1> DEFINE n == Len(doc)
           new == [doc[List!Position(u.sec)] EXCEPT !.file = u.file, !.text = u.text]
<1>1. doc \in Seq(List!Section) /\ DOMAIN doc = 1 .. n /\ n \in Nat /\ \A k \in 1 .. n : doc[k] \in List!Section
  BY DEF FilesInv
<1>2. u.file \in Nat /\ u.text \in Nat /\ u.file # 0 /\ sent \in Nat /\ u.file < sent + 100
  BY DEF FilesInv
<1>3. /\ doc' = [k \in 1 .. n |-> IF doc[k].id = u.sec THEN new ELSE doc[k]] /\ due'
      /\ files' = files \cup {u.file} /\ uploads' = uploads \ {u} /\ UNCHANGED <<sent, stored, failed, revived>>
  BY <1>1 DEF List!onUploaded, List!updateSection, List!updateSections, List!Saved, List!Restores
<1>4. ASSUME NEW k \in 1 .. n, doc[k].id = u.sec
      PROVE  new \in List!Section /\ new.id = u.sec /\ new.file = u.file /\ new.locked = doc[k].locked
  <2>1. List!Position(u.sec) \in DOMAIN doc /\ doc[List!Position(u.sec)].id = u.sec
    BY <1>1, <1>4 DEF List!Position
  <2>2. List!Position(u.sec) = k /\ doc[k] \in List!Section
    BY <1>1, <1>4, <2>1 DEF FilesInv, Distinct
  <2> QED
    BY <1>2, <1>4, <2>2 DEF List!Section
<1> HIDE DEF new
<1>5. doc' \in [1 .. n -> List!Section]
  BY <1>1, <1>3, <1>4
<1>6. doc' \in Seq(List!Section) /\ DOMAIN doc' = DOMAIN doc
  BY <1>1, <1>5, NumberedIsSeq
<1>7. \A k \in DOMAIN doc : /\ doc'[k].id = doc[k].id /\ doc'[k].locked = doc[k].locked
                            /\ doc'[k].file = IF doc[k].id = u.sec THEN u.file ELSE doc[k].file
  BY <1>1, <1>3, <1>4
<1> HIDE DEF n
<1>8. \A k \in DOMAIN doc : doc[k].file # u.file
  BY DEF FilesInv
<1>9. Distinct(doc')
  BY <1>6, <1>7, <1>8 DEF FilesInv, Distinct
<1>10. \A k \in DOMAIN doc' : doc'[k].file # 0 => doc'[k].file \in files' \cup revived
  BY <1>3, <1>6, <1>7 DEF FilesInv
<1>11. \A k \in DOMAIN doc' : doc'[k].file < sent + 100
  BY <1>2, <1>6, <1>7 DEF FilesInv
<1>12. ASSUME NEW v \in uploads'
       PROVE  v.file \in 1 .. sent + 99 /\ \A k \in DOMAIN doc' : doc'[k].file # v.file
  <2>1. v \in uploads /\ v.file # u.file
    BY <1>3 DEF FilesInv
  <2> QED
    BY <1>6, <1>7, <2>1 DEF FilesInv
<1>13. LockedStay
  BY <1>6, <1>7, InPlaceKeepsOrder
<1> QED
  BY <1>3, <1>6, <1>9, <1>10, <1>11, <1>12, <1>13 DEF FilesInv

LEMMA UploadingFileKeepsInv ==
    ASSUME FilesInv, NEW i \in DOMAIN doc, List!upload(i)
    PROVE  FilesInv'
<1> DEFINE new == [sec |-> doc[i].id, file |-> sent + 100, text |-> doc[i].text]
<1>1. doc[i] \in List!Section /\ sent \in Nat
  BY DEF FilesInv
<1>2. sent' = sent + 1 /\ uploads' = uploads \cup {new} /\ UNCHANGED <<doc, files, stored, due, failed, revived>>
  BY DEF List!upload, List!Saved, List!Restores
<1>3. new \in [sec: List!Ids, file: Nat, text: Nat] /\ new.file = sent + 100
  BY <1>1 DEF List!Section
<1> HIDE DEF new
<1>4. \A u \in uploads : u.file \in 1 .. sent' + 99 /\ u.file # new.file
  BY <1>1, <1>2, <1>3 DEF FilesInv
<1>5. \A k \in DOMAIN doc : doc[k].file \in Nat /\ doc[k].file < sent' + 100 /\ doc[k].file # new.file
  <2>1. \A k \in DOMAIN doc : doc[k] \in List!Section
    BY DEF FilesInv
  <2>2. \A k \in DOMAIN doc : doc[k].file \in Nat /\ doc[k].file < sent + 100
    BY <2>1 DEF FilesInv, List!Section
  <2> QED
    BY <1>1, <1>2, <1>3, <2>2
<1>6. new.file \in 1 .. sent' + 99 /\ sent' \in Nat
  BY <1>1, <1>2, <1>3
<1> QED
  BY <1>2, <1>3, <1>4, <1>5, <1>6 DEF FilesInv

\* A save that succeeds stores the sections that are shown; one that fails says so.
LEMMA SavingKeepsInv ==
    ASSUME FilesInv, List!saveContent
    PROVE  FilesInv'
<1>1. List!FilesOf(doc) \subseteq files \cup revived
  BY DEF FilesInv, List!FilesOf, List!NoFile
<1>2. UNCHANGED <<doc, files, uploads, sent, revived>> /\ (stored' = doc \/ failed')
  BY DEF List!saveContent, List!Files, List!Restores
<1>3. List!FilesOf(stored') \subseteq files \cup revived \/ failed'
  BY <1>1, <1>2
<1> QED
  BY <1>2, <1>3 DEF FilesInv, List!FilesOf

LEMMA FilesInvInit == List!Init => FilesInv
<1> SUFFICES ASSUME List!Init PROVE FilesInv
  OBVIOUS
<1>1. /\ doc = FirstDocument /\ stored = FirstDocument /\ files = List!FilesOf(FirstDocument)
      /\ uploads = {} /\ sent = 0
  BY DEF List!Init
<1>2. \A i \in DOMAIN doc : doc[i].file # 0 => doc[i].file \in files
  BY <1>1 DEF List!FilesOf, List!NoFile
<1>3. \A i \in DOMAIN doc : doc[i].file < sent + 100
  BY <1>1, SectionsAssumption
<1>4. Distinct(doc)
  BY <1>1, SectionsAssumption DEF Distinct
<1> QED
  BY <1>1, <1>2, <1>3, <1>4, SectionsAssumption DEF FilesInv

\* Whatever leaves the screen as it is, or asks for a save, and does not touch the backend's documents.
DocumentsStay == stored' = stored /\ revisions' = revisions /\ restored' = restored

\* What is kept of a document that was shown stays so: uploads are for files of their own.
LEMMA KeptStays ==
    ASSUME FilesInv, KeptInv, LockedStay, sent' = sent, uploads' \subseteq uploads, Kept' \subseteq Kept \cup {doc}
    PROVE  KeptInv'
<1> SUFFICES ASSUME NEW d \in Kept' PROVE AsShown(d)'
  BY DEF KeptInv
<1>1. AsShown(doc)
  BY DEF FilesInv, AsShown
<1>2. AsShown(d)
  BY <1>1 DEF KeptInv
<1> HIDE DEF Kept
<1> QED
  BY <1>2 DEF AsShown, LockedStay

LEMMA KeptStaysUploading ==
    ASSUME FilesInv, KeptInv, NEW i \in DOMAIN doc, List!upload(i)
    PROVE  KeptInv'
<1>1. /\ sent' = sent + 1 /\ sent \in Nat /\ doc' = doc /\ Kept' = Kept
      /\ \A u \in uploads' : u \in uploads \/ u.file = sent + 100
  BY DEF List!upload, List!Saved, List!Restores, FilesInv, Kept
<1> SUFFICES ASSUME NEW d \in Kept PROVE AsShown(d)'
  BY <1>1 DEF KeptInv
<1>2. AsShown(d)
  BY DEF KeptInv
<1>3. \A k \in DOMAIN d : d[k].file \in Nat /\ d[k].file < sent + 100
  <2>1. \A k \in DOMAIN d : d[k] \in List!Section
    BY <1>2 DEF AsShown
  <2> QED
    BY <1>2, <2>1 DEF AsShown, List!Section
<1>4. \A k \in DOMAIN d : d[k].file < sent' + 100 /\ d[k].file # sent + 100
  BY <1>1, <1>3
<1> HIDE DEF Kept
<1> QED
  BY <1>1, <1>2, <1>4 DEF AsShown

LEMMA KeptInvInit == List!Init => KeptInv
<1> SUFFICES ASSUME List!Init PROVE KeptInv
  OBVIOUS
<1>1. Kept = {doc} /\ FilesInv
  BY FilesInvInit DEF List!Init, Kept
<1> QED
  BY <1>1 DEF KeptInv, AsShown, FilesInv

\* A revision that is restored was on the screen once: its files are there, or are said to have come back.
LEMMA RestoringKeepsInv ==
    ASSUME FilesInv, KeptInv, NEW r \in revisions, List!restoreRevision(r)
    PROVE  FilesInv' /\ KeptInv' /\ LockedStay
<1>1. /\ UNCHANGED <<doc, due, failed, revisions, uploads, files, sent>> /\ stored' = r.doc
      /\ restored' = restored \cup {[n |-> restores + 1, doc |-> r.doc]}
      /\ revived' = revived \cup (List!FilesOf(r.doc) \ files)
  BY DEF List!restoreRevision, List!Files, List!Missing
<1>2. Kept' \subseteq Kept
  BY <1>1 DEF Kept
<1>3. LockedStay
  BY <1>1 DEF LockedStay
<1>4. List!FilesOf(stored') \subseteq files' \cup revived'
  BY <1>1
<1>5. FilesInv'
  BY <1>1, <1>4 DEF FilesInv, Distinct
<1> QED
  BY <1>1, <1>2, <1>3, <1>5, KeptStays

LEMMA RestoredKeepsInv ==
    ASSUME FilesInv, KeptInv, NEW a \in restored, List!handleRestore(a)
    PROVE  FilesInv' /\ KeptInv' /\ LockedStay
<1>1. /\ UNCHANGED <<due, failed, stored, revisions, uploads, files, sent>> /\ doc' = a.doc
      /\ restored' \subseteq restored /\ revived' = revived \cup (List!FilesOf(a.doc) \ files)
  BY DEF List!handleRestore, List!Files, List!Missing
<1>2. Kept' \subseteq Kept
  BY <1>1 DEF Kept
<1>3. AsShown(a.doc)
  BY DEF KeptInv, Kept
<1>4. LockedStay
  BY <1>1, <1>3 DEF LockedStay, AsShown
<1>5. \A i \in DOMAIN doc' : doc'[i].file # 0 => doc'[i].file \in files' \cup revived'
  BY <1>1 DEF List!FilesOf, List!NoFile
<1>6. List!FilesOf(stored') \subseteq files' \cup revived' \/ due' \/ failed'
  BY <1>1 DEF FilesInv
<1>7. /\ doc' \in Seq(List!Section) /\ Distinct(doc')
      /\ \A i \in DOMAIN doc' : doc'[i].file < sent + 100
      /\ \A u \in uploads : \A i \in DOMAIN doc' : doc'[i].file # u.file
  BY <1>1, <1>3 DEF AsShown
<1>8. FilesInv'
  BY <1>1, <1>5, <1>6, <1>7 DEF FilesInv
<1> QED
  BY <1>1, <1>2, <1>4, <1>8, KeptStays

LEMMA FilesInvStep == FilesInv /\ KeptInv /\ [List!Next]_listVars => FilesInv' /\ KeptInv' /\ LockedStay
<1> SUFFICES ASSUME FilesInv, KeptInv, [List!Next]_listVars PROVE FilesInv' /\ KeptInv' /\ LockedStay
  OBVIOUS
<1>a. ASSUME DocumentsStay, sent' = sent, uploads' \subseteq uploads, LockedStay PROVE KeptInv'
  <2>1. Kept' = Kept
    BY <1>a DEF DocumentsStay, Kept
  <2> QED
    BY <1>a, <2>1, KeptStays
<1>1. ASSUME UNCHANGED <<doc, files, sent, failed, revived>>, DocumentsStay, uploads' \subseteq uploads, due => due'
      PROVE  FilesInv' /\ KeptInv' /\ LockedStay
  <2>1. FilesInv' /\ LockedStay
    BY <1>1 DEF DocumentsStay, FilesInv, Distinct, List!FilesOf, LockedStay
  <2> QED
    BY <1>1, <1>a, <2>1
<1>2. ASSUME NEW i, List!togglePreview(i) PROVE FilesInv' /\ KeptInv' /\ LockedStay
  BY <1>1, <1>2 DEF List!togglePreview, List!updateSections, List!Files, List!Saved, List!Restores, DocumentsStay
<1>3. ASSUME NEW u, List!UploadFails(u) PROVE FilesInv' /\ KeptInv' /\ LockedStay
  BY <1>1, <1>3 DEF List!UploadFails, List!Saved, List!Restores, DocumentsStay
<1>4. CASE List!toggleViewMode \/ UNCHANGED listVars
  BY <1>1, <1>4 DEF List!toggleViewMode, listVars, List!Files, List!Saved, List!Restores, DocumentsStay
<1>5. ASSUME NEW kind \in NewKinds, NEW after \in 0 .. Len(doc), List!addSection(kind, after)
      PROVE  FilesInv' /\ KeptInv' /\ LockedStay
  <2>1. DocumentsStay /\ sent' = sent /\ uploads' = uploads
    BY <1>5 DEF List!addSection, List!Files, List!Saved, List!Restores, DocumentsStay
  <2> QED
    BY <1>5, <1>a, <2>1, AddingKeepsInv
<1>6. ASSUME NEW i \in DOMAIN doc, List!deleteSection(i) \/ List!Type(i) \/ List!AiSaves(i)
      PROVE  FilesInv' /\ KeptInv' /\ LockedStay
  <2>1. DocumentsStay /\ sent' = sent /\ uploads' = uploads
    BY <1>6 DEF List!deleteSection, List!Type, List!AiSaves, List!Files, List!Saved, List!Restores, DocumentsStay
  <2> QED
    BY <1>6, <1>a, <2>1, DeletingKeepsInv, TypingKeepsInv
<1>7. ASSUME NEW i \in DOMAIN doc, NEW to \in DOMAIN doc, List!moveSection(i, to) \/ List!handleDragEnd(i, to)
      PROVE  FilesInv' /\ KeptInv' /\ LockedStay
  <2>1. DocumentsStay /\ sent' = sent /\ uploads' = uploads
    BY <1>7 DEF List!moveSection, List!handleDragEnd, List!Files, List!Saved, List!Restores, DocumentsStay
  <2> QED
    BY <1>7, <1>a, <2>1, MovingKeepsInv, DraggingKeepsInv
<1>8. ASSUME NEW u \in uploads, List!onUploaded(u) PROVE FilesInv' /\ KeptInv' /\ LockedStay
  <2>1. DocumentsStay /\ sent' = sent /\ uploads' \subseteq uploads
    BY <1>8 DEF List!onUploaded, List!Saved, List!Restores, DocumentsStay
  <2> QED
    BY <1>8, <1>a, <2>1, UploadedKeepsInv
<1>9. ASSUME NEW i \in DOMAIN doc, List!upload(i) PROVE FilesInv' /\ KeptInv' /\ LockedStay
  <2>1. doc' = doc
    BY <1>9 DEF List!upload
  <2>2. LockedStay
    BY <2>1 DEF LockedStay
  <2> QED
    BY <1>9, <2>2, UploadingFileKeepsInv, KeptStaysUploading
<1>10. CASE List!saveContent
  <2>1. /\ UNCHANGED <<doc, sent, uploads, revisions, restored>> /\ stored' \in {stored, doc}
    BY <1>10 DEF List!saveContent, List!Files, List!Restores
  <2>2. LockedStay
    BY <2>1 DEF LockedStay
  <2>3. Kept' \subseteq Kept \cup {doc}
    BY <2>1 DEF Kept
  <2> QED
    BY <1>10, <2>1, <2>2, <2>3, SavingKeepsInv, KeptStays
<1>11. CASE List!createRevision
  <2>1. /\ UNCHANGED <<doc, files, sent, uploads, revived, due, failed, stored, restored>>
        /\ revisions' = revisions \cup {[doc |-> stored, text |-> storedText]}
    BY <1>11 DEF List!createRevision, List!Files
  <2>2. FilesInv' /\ LockedStay
    BY <2>1 DEF FilesInv, Distinct, List!FilesOf, LockedStay
  <2>3. Kept' \subseteq Kept
    BY <2>1 DEF Kept
  <2> QED
    BY <2>1, <2>2, <2>3, KeptStays
<1>12. ASSUME NEW a \in restored, List!RestoreLost(a) PROVE FilesInv' /\ KeptInv' /\ LockedStay
  <2>1. UNCHANGED <<doc, files, sent, uploads, revived, due, failed, stored, revisions>> /\ restored' \subseteq restored
    BY <1>12 DEF List!RestoreLost, List!Files
  <2>2. FilesInv' /\ LockedStay
    BY <2>1 DEF FilesInv, Distinct, List!FilesOf, LockedStay
  <2>3. Kept' \subseteq Kept
    BY <2>1 DEF Kept
  <2> QED
    BY <2>1, <2>2, <2>3, KeptStays
<1> QED
  BY <1>2, <1>3, <1>4, <1>5, <1>6, <1>7, <1>8, <1>9, <1>10, <1>11, <1>12, RestoringKeepsInv, RestoredKeepsInv
  DEF List!Next

\* SectionList and the DELETE of an attachment: however sections are added, moved, dragged and deleted, and
\* whenever their uploads arrive, those on the screen show files the backend has, and the row refers to a deleted
\* file only until the save that is due, or that failed and said so.  A file that is missing is one of a section
\* that a restore brought back.
THEOREM ShownFilesExist == Spec => []StoredFilesExist
<1>1. Init => FilesInv /\ KeptInv
  BY FilesInvInit, KeptInvInit DEF Init
<1>2. FilesInv /\ KeptInv /\ [Next]_vars => FilesInv' /\ KeptInv'
  BY FilesInvStep, PartSteps
<1>3. FilesInv => StoredFilesExist
  BY DEF FilesInv, StoredFilesExist, List!StoredFilesExist, List!FilesOf, List!NoFile
<1> QED
  BY <1>1, <1>2, <1>3, PTL DEF Spec

\* SectionWrapper and SectionList: locked sections are never deleted and keep their order among themselves, however
\* those between them are added, moved, dragged and deleted, whatever arrives for them, and whichever revision is
\* restored.
THEOREM LockedSectionsStay == Spec => LockedKeepOrder
<1>1. Init => FilesInv /\ KeptInv
  BY FilesInvInit, KeptInvInit DEF Init
<1>2. FilesInv /\ KeptInv /\ [Next]_vars => FilesInv' /\ KeptInv'
  BY FilesInvStep, PartSteps
<1>3. FilesInv /\ KeptInv /\ [Next]_vars => [LockedStay]_listVars
  BY FilesInvStep, PartSteps
<1>4. Spec => [][LockedStay]_listVars
  BY <1>1, <1>2, <1>3, PTL DEF Spec
<1> QED
  BY <1>4 DEF LockedKeepOrder, List!LockedKeepOrder, LockedStay, List!vars, listVars

-----------------------------------------------------------------------------
(* The panel of a note's review.                                           *)

Single(set) == \A r, s \in set : r = s
Toggle(c) == c.for \in {"add", "get", "remove"}
Waits(c) == c.at \in {"asked", "read"}

\* A request, and what it has read: the item it is about.
RequestForm(c) ==
    /\ c = [for |-> c.for, id |-> c.id, val |-> c.val, at |-> c.at, row |-> c.row]
    /\ c.id \in Nat /\ c.id < nextId
    /\ c.row \subseteq Quiz!Items /\ Single(c.row) /\ \A r \in c.row : r.id = c.id
    /\ c.for = "count" => c.val \in Counts
    /\ c.at = "read" => c.for \in Quiz!Updates /\ c.row # {}
    /\ c.at = "failed" => c.for \in Quiz!Updates

\* One item at most, with an id that was given; the panel asks for nothing before it has it, and
\* toggles one request at a time.
PanelType ==
    /\ nextId \in Nat /\ nextId > 0 /\ count \in Counts /\ quiz \in BOOLEAN
    /\ row \subseteq Quiz!Items /\ Single(row) /\ \A r \in row : r.id < nextId
    /\ review \subseteq Quiz!Items /\ Single(review) /\ \A r \in review : r.id < nextId
    /\ \A r \in item : r.id \in Nat /\ r.id < nextId
    /\ \A c \in requests : RequestForm(c)
    /\ loading => requests = {} /\ item = {}
    /\ \A c, d \in requests : Toggle(c) /\ Toggle(d) => c = d

\* The writes follow one another, and what a writer has read is still what is stored.
WritesInv ==
    /\ Single(Quiz!Writing)
    /\ review # {} => Quiz!Writing = {}
    /\ \A c \in Quiz!Writing : Quiz!Row(c.id) # {} => row = c.row
    /\ \A r \in review : Quiz!Row(r.id) # {} => row = review
    /\ \A c \in requests : c.at # "failed"
    /\ \A c \in requests : c.for = "remove" /\ c.at = "done" => row = {}

\* What the panel shows, a request will set.
AsksInv ==
    /\ \A c \in requests : c.for = "count" /\ Waits(c) => c.val = count
    /\ \A c \in requests : c.for = "quiz" /\ Waits(c) => c.val = IF quiz THEN 1 ELSE 0

Added == \E c \in requests : c.for = "get" \/ (c.for = "add" /\ c.at = "done")
Gone == \E c \in requests : c.for = "remove" /\ c.at = "done"
CountAsked == \E c \in requests : c.for = "count" /\ Waits(c)
QuizAsked == \E c \in requests : c.for = "quiz" /\ Waits(c)

CountKept == unseen \/ "count" \in kept
QuizKept == unseen \/ "quiz" \in kept

\* The panel has the item there is, or an answer is on its way, or the item could not be read; its settings are
\* stored, or asked for, or left from the item before.
PanelInv ==
    /\ Added => row # {}
    /\ item # {} => row # {} \/ Gone
    /\ row # {} => item # {} \/ Added \/ unseen
    /\ \A r \in row : r.count = count \/ CountAsked \/ Added \/ CountKept
    /\ \A r \in row : r.quiz = quiz \/ QuizAsked \/ Added \/ QuizKept

QuizInv ==
    /\ PanelType
    /\ ~blind => WritesInv /\ AsksInv
    /\ ~blind /\ ~loading => PanelInv

\* What an answer or a write does to the record of an item, and to that of a request.
LEMMA ItemWithQuiz ==
    ASSUME NEW r \in Quiz!Items, NEW b \in BOOLEAN
    PROVE  /\ [r EXCEPT !.quiz = b] \in Quiz!Items
           /\ [r EXCEPT !.quiz = b].quiz = b
           /\ [r EXCEPT !.quiz = b].count = r.count
           /\ [r EXCEPT !.quiz = b].id = r.id
BY DEF Quiz!Items

LEMMA ItemWithCount ==
    ASSUME NEW r \in Quiz!Items, NEW n \in Counts
    PROVE  /\ [r EXCEPT !.count = n] \in Quiz!Items
           /\ [r EXCEPT !.count = n].count = n
           /\ [r EXCEPT !.count = n].quiz = r.quiz
           /\ [r EXCEPT !.count = n].id = r.id
BY DEF Quiz!Items

LEMMA ItemWithReview ==
    ASSUME NEW r \in Quiz!Items
    PROVE  /\ [r EXCEPT !.reviews = @ + 1] \in Quiz!Items
           /\ [r EXCEPT !.reviews = @ + 1].count = r.count
           /\ [r EXCEPT !.reviews = @ + 1].quiz = r.quiz
           /\ [r EXCEPT !.reviews = @ + 1].id = r.id
BY DEF Quiz!Items

RequestReads(c, a, s) == [c EXCEPT !.at = a, !.row = s]
RequestWith(c, f, a, s) == [for |-> f, id |-> c.id, val |-> c.val, at |-> a, row |-> s]

LEMMA RequestChanges ==
    ASSUME NEW c, RequestForm(c)
    PROVE  /\ \A a : [c EXCEPT !.at = a] = RequestWith(c, c.for, a, c.row)
           /\ \A f, a : [c EXCEPT !.for = f, !.at = a] = RequestWith(c, f, a, c.row)
           /\ \A a, s : RequestReads(c, a, s) = RequestWith(c, c.for, a, s)
<1>1. PICK g, i, v, b, w : c = [for |-> g, id |-> i, val |-> v, at |-> b, row |-> w]
  BY DEF RequestForm
<1>2. c.for = g /\ c.id = i /\ c.val = v /\ c.row = w
  BY <1>1
<1>3. ASSUME NEW a PROVE [c EXCEPT !.at = a] = RequestWith(c, c.for, a, c.row)
  BY <1>1, <1>2 DEF RequestWith
<1>4. ASSUME NEW f, NEW a PROVE [c EXCEPT !.for = f, !.at = a] = RequestWith(c, f, a, c.row)
  <2> DEFINE d == [c EXCEPT !.for = f]
  <2>1. d = [for |-> f, id |-> i, val |-> v, at |-> b, row |-> w]
    BY <1>1
  <2>2. [c EXCEPT !.for = f, !.at = a] = [d EXCEPT !.at = a]
    OBVIOUS
  <2> HIDE DEF d
  <2>3. [d EXCEPT !.at = a] = [for |-> f, id |-> i, val |-> v, at |-> a, row |-> w]
    BY <2>1
  <2> QED
    BY <1>2, <2>2, <2>3 DEF RequestWith
<1>5. ASSUME NEW a, NEW s PROVE RequestReads(c, a, s) = RequestWith(c, c.for, a, s)
  <2> DEFINE d == [c EXCEPT !.at = a]
  <2>1. d = [for |-> g, id |-> i, val |-> v, at |-> a, row |-> w]
    BY <1>1
  <2>2. RequestReads(c, a, s) = [d EXCEPT !.row = s]
    BY DEF RequestReads
  <2> HIDE DEF d
  <2>3. [d EXCEPT !.row = s] = [for |-> g, id |-> i, val |-> v, at |-> a, row |-> s]
    BY <2>1
  <2> QED
    BY <1>2, <2>2, <2>3 DEF RequestWith
<1> QED
  BY <1>3, <1>4, <1>5

LEMMA RequestFields ==
    ASSUME NEW c, NEW f, NEW a, NEW s
    PROVE  LET d == RequestWith(c, f, a, s) IN
           /\ d.for = f /\ d.id = c.id /\ d.val = c.val /\ d.at = a /\ d.row = s
           /\ d = [for |-> d.for, id |-> d.id, val |-> d.val, at |-> d.at, row |-> d.row]
BY DEF RequestWith

\* A request of the form is one of the form when it has moved on.
LEMMA RequestKeepsForm ==
    ASSUME NEW c, RequestForm(c), NEW f, NEW a, NEW s,
           s \subseteq Quiz!Items, Single(s), \A r \in s : r.id = c.id,
           f = "count" => c.for = "count",
           a = "read" => f \in Quiz!Updates /\ s # {},
           a = "failed" => f \in Quiz!Updates
    PROVE  RequestForm(RequestWith(c, f, a, s))
BY RequestFields DEF RequestForm

\* The items with the id are those there are, or there are none.
LEMMA RowIsAll ==
    ASSUME PanelType, NEW id, Quiz!Row(id) # {}
    PROVE  Quiz!Row(id) = row /\ \A r \in row : r.id = id
<1>1. PICK r \in row : r.id = id
  BY DEF Quiz!Row
<1>2. \A q \in row : q = r
  BY DEF PanelType, Single
<1> QED
  BY <1>1, <1>2 DEF Quiz!Row

LEMMA QuizAtFirst == Quiz!Init => QuizInv
<1> SUFFICES ASSUME Quiz!Init PROVE QuizInv
  OBVIOUS
<1>1. /\ row = FirstRows /\ nextId = 1 /\ item = {} /\ loading = TRUE /\ count = Quiz!DefaultCount /\ quiz = TRUE
      /\ requests = {} /\ review = {}
  BY DEF Quiz!Init
<1>2. row \subseteq Quiz!Items /\ Single(row) /\ \A r \in row : r.id < nextId
  BY <1>1, ReviewAssumption DEF Quiz!Items, Single
<1>3. PanelType
  BY <1>1, <1>2, ReviewAssumption DEF PanelType, Single
<1>4. WritesInv /\ AsksInv
  BY <1>1 DEF WritesInv, AsksInv, Quiz!Writing, Single
<1> QED
  BY <1>1, <1>3, <1>4 DEF QuizInv

\* The panel is filled in.
LEMMA QuizLoads == ASSUME QuizInv, Quiz!ItemLoaded PROVE QuizInv'
<1>1. /\ loading /\ ~loading' /\ item' = row /\ row # {} /\ UNCHANGED <<row, nextId, requests, review, unseen, kept, blind>>
      /\ count' = CHOOSE c \in Counts : \E r \in row : r.count = c
      /\ quiz' = \E r \in row : r.quiz
  BY DEF Quiz!ItemLoaded, Quiz!Other, Quiz!History
<1>2. PanelType /\ requests = {}
  BY <1>1 DEF QuizInv, PanelType
<1>3. \A r \in row : r.count \in Counts /\ r.quiz \in BOOLEAN /\ r.id \in Nat
  BY <1>2 DEF PanelType, Quiz!Items
<1>4. ASSUME NEW r \in row PROVE count' = r.count /\ count' \in Counts
  <2>1. \A q \in row : q = r
    BY <1>2 DEF PanelType, Single
  <2>2. \E c \in Counts : \E q \in row : q.count = c
    BY <1>3
  <2>3. count' \in Counts /\ \E q \in row : q.count = count'
    BY <1>1, <2>2
  <2> QED
    BY <2>1, <2>3
<1>5. ASSUME NEW r \in row PROVE quiz' = r.quiz
  <2>1. \A q \in row : q = r
    BY <1>2 DEF PanelType, Single
  <2>2. quiz' = \E q \in row : q.quiz
    BY <1>1
  <2>3. quiz' = r.quiz
    BY <1>3, <2>1, <2>2
  <2> QED
    BY <2>3
<1>6. count' \in Counts
  BY <1>1, <1>2, <1>4 DEF PanelType
<1>7. quiz' \in BOOLEAN
  BY <1>1, <1>3, <1>5
<1>8. PanelType'
  BY <1>1, <1>2, <1>3, <1>6, <1>7 DEF PanelType, RequestForm
<1>9. (~blind)' => WritesInv' /\ AsksInv'
  BY <1>1, <1>2 DEF QuizInv, WritesInv, AsksInv, Quiz!Writing, Quiz!Row
<1>10. PanelInv'
  BY <1>1, <1>2, <1>4, <1>5 DEF PanelInv, Added
<1> QED
  BY <1>8, <1>9, <1>10 DEF QuizInv

\* The panel is not filled in.
LEMMA QuizLoadFails == ASSUME QuizInv, Quiz!LoadFails PROVE QuizInv'
<1>1. /\ loading /\ ~loading' /\ item' = {} /\ unseen' = (row # {})
      /\ UNCHANGED <<row, nextId, requests, review, count, quiz, kept, blind>>
  BY DEF Quiz!LoadFails, Quiz!Other
<1>2. PanelType /\ requests = {}
  BY <1>1 DEF QuizInv, PanelType
<1>3. PanelType'
  BY <1>1, <1>2 DEF PanelType, RequestForm
<1>4. (~blind)' => WritesInv' /\ AsksInv'
  BY <1>1, <1>2 DEF QuizInv, WritesInv, AsksInv, Quiz!Writing, Quiz!Row
<1>5. PanelInv'
  BY <1>1, <1>2 DEF PanelInv, Added, CountKept, QuizKept
<1> QED
  BY <1>3, <1>4, <1>5 DEF QuizInv

\* What is asked for is a request that was not there.
LEMMA QuizAsks ==
    ASSUME QuizInv, NEW f \in {"add", "remove", "count", "quiz"}, NEW id \in Nat, id < nextId, NEW v, Quiz!Ask(f, id, v),
           ~loading, UNCHANGED <<row, nextId, item, loading, review, unseen, kept, blind>>,
           count' \in Counts, quiz' \in BOOLEAN,
           f = "count" => v = count' /\ quiz' = quiz /\ ~Quiz!Busy({"count"}),
           f = "quiz" => v = (IF quiz' THEN 1 ELSE 0) /\ count' = count /\ ~Quiz!Busy({"quiz"}),
           f \in {"add", "remove"} => ~Quiz!Toggling /\ quiz' = quiz /\ count' = count
    PROVE  QuizInv'
<1> DEFINE new == [for |-> f, id |-> id, val |-> v, at |-> "asked", row |-> {}]
<1>1. requests' = requests \cup {new}
  BY DEF Quiz!Ask
<1>2. new.for = f /\ new.id = id /\ new.val = v /\ new.at = "asked" /\ new.row = {}
  OBVIOUS
<1>3. RequestForm(new)'
  BY DEF RequestForm, Single
<1> HIDE DEF new
<1>4. \A c \in requests : c.for = f => f \notin {"count", "quiz"}
  BY DEF Quiz!Busy
<1>5. \A c \in requests : Toggle(c) => f \notin {"add", "remove"}
  BY DEF Quiz!Toggling, Quiz!Busy, Toggle
<1>6. PanelType'
  <2>1. \A c \in requests' : RequestForm(c)'
    BY <1>1, <1>3 DEF QuizInv, PanelType, RequestForm
  <2>2. \A c, d \in requests' : Toggle(c) /\ Toggle(d) => c = d
    BY <1>1, <1>2, <1>5 DEF QuizInv, PanelType, Toggle
  <2> QED
    BY <2>1, <2>2 DEF QuizInv, PanelType
<1>7. ASSUME ~blind PROVE WritesInv'
  <2>1. Quiz!Writing' = Quiz!Writing
    BY <1>1, <1>2 DEF Quiz!Writing
  <2>2. \A id2 : Quiz!Row(id2)' = Quiz!Row(id2)
    BY DEF Quiz!Row
  <2>3. WritesInv
    BY <1>7 DEF QuizInv
  <2>4. \A c \in requests' : c.at # "failed" /\ (c.for = "remove" /\ c.at = "done" => row' = {})
    BY <1>1, <1>2, <2>3 DEF WritesInv
  <2> QED
    BY <2>1, <2>2, <2>3, <2>4 DEF WritesInv
<1>8. ASSUME ~blind PROVE AsksInv'
  <2>1. AsksInv
    BY <1>8 DEF QuizInv
  <2>2. \A c \in requests' : c.for = "count" /\ Waits(c) => c.val = count'
    BY <1>1, <1>2, <1>4, <2>1 DEF AsksInv
  <2>3. \A c \in requests' : c.for = "quiz" /\ Waits(c) => c.val = IF quiz' THEN 1 ELSE 0
    BY <1>1, <1>2, <1>4, <2>1 DEF AsksInv
  <2> QED
    BY <2>2, <2>3 DEF AsksInv
<1>9. ASSUME ~blind PROVE PanelInv'
  <2>1. PanelInv
    BY <1>9 DEF QuizInv
  <2>2. (Added => Added') /\ (Gone => Gone') /\ (CountAsked => CountAsked') /\ (QuizAsked => QuizAsked')
    BY <1>1 DEF Added, Gone, CountAsked, QuizAsked
  <2>3. f = "count" => CountAsked'
    BY <1>1, <1>2 DEF CountAsked, Waits
  <2>4. f = "quiz" => QuizAsked'
    BY <1>1, <1>2 DEF QuizAsked, Waits
  <2>5. /\ item' # {} => row' # {} \/ Gone'
        /\ row' # {} => item' # {} \/ Added' \/ unseen'
    BY <2>1, <2>2 DEF PanelInv
  <2>6. \A r \in row' : r.count = count' \/ CountAsked' \/ Added' \/ CountKept'
    BY <2>1, <2>2, <2>3 DEF PanelInv, CountKept
  <2>7. \A r \in row' : r.quiz = quiz' \/ QuizAsked' \/ Added' \/ QuizKept'
    BY <2>1, <2>2, <2>4 DEF PanelInv, QuizKept
  <2>8. Added' => Added
    BY <1>1, <1>2 DEF Added
  <2> QED
    BY <2>1, <2>5, <2>6, <2>7, <2>8 DEF PanelInv
<1> QED
  BY <1>6, <1>7, <1>8, <1>9 DEF QuizInv

\* A request moves on.  What the proofs of the steps have in common: the others stay as they are.
Moves(c, d) == requests' = (requests \ {c}) \cup {d}

LEMMA MovedType ==
    ASSUME PanelType, NEW c \in requests, NEW d, Moves(c, d), RequestForm(d)', nextId <= nextId', nextId' \in Nat,
           Toggle(d) => Toggle(c), UNCHANGED <<item, loading, count, quiz, review>>,
           row' \subseteq Quiz!Items, Single(row'), \A r \in row' : r.id < nextId'
    PROVE  PanelType'
<1>1. requests' = (requests \ {c}) \cup {d}
  BY DEF Moves
<1>2. \A e \in requests : RequestForm(e)'
  BY DEF PanelType, RequestForm
<1>3. \A e \in requests' : RequestForm(e)'
  BY <1>1, <1>2
<1>4. \A e, f \in requests' : Toggle(e) /\ Toggle(f) => e = f
  BY <1>1 DEF PanelType
<1>5. ~loading
  BY DEF PanelType
<1>6. (\A r \in review : r.id < nextId') /\ (\A r \in item : r.id \in Nat /\ r.id < nextId')
  <2>1. \A r \in review : r.id \in Nat
    BY DEF PanelType, Quiz!Items
  <2> QED
    BY <2>1 DEF PanelType
<1> QED
  BY <1>3, <1>4, <1>5, <1>6 DEF PanelType

LEMMA GoneType ==
    ASSUME PanelType, NEW c \in requests, requests' = requests \ {c}, UNCHANGED <<row, nextId, loading, count, review>>,
           quiz' \in BOOLEAN, \A r \in item' : r.id \in Nat /\ r.id < nextId
    PROVE  PanelType'
<1>1. ~loading
  BY DEF PanelType
<1> QED
  BY <1>1 DEF PanelType, RequestForm

\* Steps that leave the stored item alone, and begin or end no write.
LEMMA WritesKept ==
    ASSUME WritesInv, Quiz!Writing' = Quiz!Writing, UNCHANGED <<row, review>>,
           \A c \in requests' : c.at # "failed" /\ (c.for = "remove" /\ c.at = "done" => row = {})
    PROVE  WritesInv'
<1>1. \A id : Quiz!Row(id)' = Quiz!Row(id)
  BY DEF Quiz!Row
<1> QED
  BY <1>1 DEF WritesInv

LEMMA AddStep == ASSUME QuizInv, NEW c \in requests, Quiz!addItem(c) PROVE QuizInv'
<1> DEFINE d == [c EXCEPT !.at = "done"]
           new == [id |-> nextId, count |-> Quiz!DefaultCount, quiz |-> TRUE, reviews |-> 0]
<1>1. /\ c.for = "add" /\ c.at = "asked" /\ Moves(c, d) /\ UNCHANGED <<item, loading, count, quiz, review, unseen, kept, blind>>
      /\ \/ row = {} /\ row' = {new} /\ nextId' = nextId + 1
         \/ row # {} /\ UNCHANGED <<row, nextId>>
  BY DEF Quiz!addItem, Quiz!Becomes, Moves, Quiz!Other, Quiz!History
<1>2. PanelType /\ RequestForm(c) /\ nextId \in Nat
  BY DEF QuizInv, PanelType
<1>3. d = RequestWith(c, "add", "done", c.row)
  BY <1>1, <1>2, RequestChanges
<1>4. d.for = "add" /\ d.at = "done" /\ RequestForm(d)
  BY <1>2, <1>3, RequestFields, RequestKeepsForm DEF RequestForm
<1>5. new \in Quiz!Items /\ new.id = nextId
  BY <1>2, ReviewAssumption DEF Quiz!Items
<1> HIDE DEF d, new
<1>6. RequestForm(d)'
  BY <1>1, <1>2, <1>4 DEF RequestForm
<1>7. row' \subseteq Quiz!Items /\ Single(row') /\ \A r \in row' : r.id < nextId'
  BY <1>1, <1>2, <1>5 DEF PanelType, Single
<1>8. PanelType'
  BY <1>1, <1>2, <1>4, <1>6, <1>7, MovedType DEF Toggle
<1>9. requests' = (requests \ {c}) \cup {d}
  BY <1>1 DEF Moves
<1>10. Quiz!Writing' = Quiz!Writing
  BY <1>1, <1>4, <1>9 DEF Quiz!Writing, Quiz!Updates
<1>11. ASSUME ~blind PROVE WritesInv'
  <2>1. WritesInv
    BY <1>11 DEF QuizInv
  <2>2. \A e \in requests' : e.at # "failed"
    BY <1>4, <1>9, <2>1 DEF WritesInv
  <2>3. \A e \in requests' : e.for # "remove"
    BY <1>1, <1>2, <1>4, <1>9 DEF PanelType, Toggle
  <2>4. CASE row # {}
    BY <1>1, <1>10, <2>1, <2>2, <2>3, <2>4, WritesKept
  <2>5. CASE row = {}
    <3>1. row' = {new}
      BY <1>1, <2>5
    <3>2. \A e \in Quiz!Writing : e.id # nextId /\ e.id \in Nat
      BY <1>2 DEF Quiz!Writing, PanelType, RequestForm
    <3>3. \A r \in review : r.id # nextId
      BY <1>2 DEF PanelType, Quiz!Items
    <3>4. \A e \in Quiz!Writing : Quiz!Row(e.id)' = {}
      BY <1>5, <3>1, <3>2 DEF Quiz!Row
    <3>5. \A r \in review : Quiz!Row(r.id)' = {}
      BY <1>5, <3>1, <3>3 DEF Quiz!Row
    <3> QED
      BY <1>1, <1>10, <2>1, <2>2, <2>3, <3>4, <3>5 DEF WritesInv
  <2> QED
    BY <2>4, <2>5
<1>12. AsksInv => AsksInv'
  BY <1>1, <1>4, <1>9 DEF AsksInv
<1>13. Added'
  BY <1>4, <1>9 DEF Added
<1>14. PanelInv'
  <2>1. row' # {}
    BY <1>1
  <2> QED
    BY <1>13, <2>1 DEF PanelInv
<1> QED
  BY <1>1, <1>8, <1>11, <1>12, <1>14 DEF QuizInv

LEMMA RemoveStep == ASSUME QuizInv, NEW c \in requests, Quiz!removeItem(c) PROVE QuizInv'
<1> DEFINE d == [c EXCEPT !.at = "done"]
<1>1. /\ c.for = "remove" /\ c.at = "asked" /\ Moves(c, d)
      /\ row' = {} /\ UNCHANGED <<nextId, item, loading, count, quiz, review, unseen, kept, blind>>
  BY DEF Quiz!removeItem, Quiz!Becomes, Moves, Quiz!Other, Quiz!History
<1>2. PanelType /\ RequestForm(c) /\ nextId \in Nat
  BY DEF QuizInv, PanelType
<1>3. d = RequestWith(c, "remove", "done", c.row)
  BY <1>1, <1>2, RequestChanges
<1>4. d.for = "remove" /\ d.at = "done" /\ RequestForm(d)
  BY <1>2, <1>3, RequestFields, RequestKeepsForm DEF RequestForm
<1> HIDE DEF d
<1>5. RequestForm(d)'
  BY <1>1, <1>4 DEF RequestForm
<1>6. PanelType'
  BY <1>1, <1>2, <1>4, <1>5, MovedType DEF Toggle, Single
<1>7. requests' = (requests \ {c}) \cup {d}
  BY <1>1 DEF Moves
<1>8. Quiz!Writing' = Quiz!Writing
  BY <1>1, <1>4, <1>7 DEF Quiz!Writing, Quiz!Updates
<1>9. WritesInv => WritesInv'
  <2>1. \A id : Quiz!Row(id)' = {}
    BY <1>1 DEF Quiz!Row
  <2> QED
    BY <1>1, <1>4, <1>7, <1>8, <2>1 DEF WritesInv
<1>10. AsksInv => AsksInv'
  BY <1>1, <1>4, <1>7 DEF AsksInv
<1>11. Gone'
  BY <1>4, <1>7 DEF Gone
<1>12. PanelInv'
  <2>1. ~Added'
    BY <1>1, <1>2, <1>4, <1>7 DEF PanelType, Added, Toggle
  <2> QED
    BY <1>1, <1>11, <2>1 DEF PanelInv
<1> QED
  BY <1>1, <1>6, <1>9, <1>10, <1>12 DEF QuizInv

LEMMA ReadStep == ASSUME QuizInv, NEW c \in requests, Quiz!ReadItem(c) PROVE QuizInv'
<1>d. PICK a, d : /\ a = IF Quiz!Row(c.id) = {} THEN "failed" ELSE "read"
                  /\ d = [c EXCEPT !.at = IF Quiz!Row(c.id) = {} THEN "failed" ELSE "read", !.row = Quiz!Row(c.id)]
                  /\ d = RequestReads(c, a, Quiz!Row(c.id))
  BY DEF RequestReads
<1>1. /\ c.for \in {"count", "quiz"} /\ c.at = "asked" /\ Moves(c, d)
      /\ blind' = (blind \/ Quiz!Writing # {} \/ review # {} \/ Quiz!Row(c.id) = {})
      /\ UNCHANGED <<row, nextId, item, loading, count, quiz, review, unseen, kept>>
  BY <1>d DEF Quiz!ReadItem, Quiz!Becomes, Moves, Quiz!Other, Quiz!History, Quiz!Updates
<1>2. PanelType /\ RequestForm(c) /\ nextId \in Nat
  BY DEF QuizInv, PanelType
<1>3. d = RequestWith(c, c.for, a, Quiz!Row(c.id))
  <2>1. d = RequestReads(c, a, Quiz!Row(c.id))
    BY <1>d
  <2>2. \A b, s : RequestReads(c, b, s) = RequestWith(c, c.for, b, s)
    BY <1>2, RequestChanges
  <2> QED
    BY <2>1, <2>2
<1>4. Quiz!Row(c.id) \subseteq row /\ \A r \in Quiz!Row(c.id) : r.id = c.id
  BY DEF Quiz!Row
<1>5. Quiz!Row(c.id) \subseteq Quiz!Items /\ Single(Quiz!Row(c.id))
  BY <1>2, <1>4 DEF PanelType, Single
<1>6. d.for = c.for /\ d.id = c.id /\ d.val = c.val /\ d.at = a /\ d.row = Quiz!Row(c.id)
  BY <1>3, RequestFields
<1>7. RequestForm(d)
  <2>1. a = "read" => c.for \in Quiz!Updates /\ Quiz!Row(c.id) # {}
    BY <1>1, <1>d DEF Quiz!Updates
  <2>2. a = "failed" => c.for \in Quiz!Updates
    BY <1>1, <1>d DEF Quiz!Updates
  <2> QED
    BY <1>2, <1>3, <1>4, <1>5, <2>1, <2>2, RequestKeepsForm
<1>8. RequestForm(d)'
  BY <1>1, <1>7 DEF RequestForm
<1>9. row' \subseteq Quiz!Items /\ Single(row') /\ \A r \in row' : r.id < nextId'
  BY <1>1, <1>2 DEF PanelType
<1>a. Toggle(d) => Toggle(c)
  BY <1>6 DEF Toggle
<1>10. PanelType'
  BY <1>1, <1>2, <1>8, <1>9, <1>a, MovedType
<1>11. requests' = (requests \ {c}) \cup {d}
  BY <1>1 DEF Moves
<1>12. ASSUME ~blind' PROVE WritesInv' /\ AsksInv'
  <2>1. ~blind /\ Quiz!Writing = {} /\ review = {} /\ Quiz!Row(c.id) # {} /\ a = "read"
    BY <1>1, <1>12, <1>d
  <2>2. WritesInv /\ AsksInv
    BY <2>1 DEF QuizInv
  <2>3. Quiz!Writing' = {d}
    BY <1>1, <1>6, <1>11, <2>1 DEF Quiz!Writing, Quiz!Updates
  <2>4. Quiz!Row(c.id) = row
    BY <1>2, <2>1, RowIsAll
  <2>5. WritesInv'
    BY <1>1, <1>6, <1>11, <2>1, <2>2, <2>3, <2>4 DEF WritesInv, Single
  <2>6. AsksInv'
    BY <1>1, <1>6, <1>11, <2>2 DEF AsksInv, Waits
  <2> QED
    BY <2>5, <2>6
<1>13. ASSUME ~blind', ~loading PROVE PanelInv'
  <2>1. ~blind /\ a = "read"
    BY <1>1, <1>13, <1>d
  <2>2. PanelInv
    BY <1>13, <2>1 DEF QuizInv
  <2>3. (Added <=> Added') /\ (Gone => Gone')
    BY <1>1, <1>6, <1>11 DEF Added, Gone
  <2>4. (CountAsked => CountAsked') /\ (QuizAsked => QuizAsked')
    BY <1>1, <1>6, <1>11, <2>1 DEF CountAsked, QuizAsked, Waits
  <2>5. (CountKept => CountKept') /\ (QuizKept => QuizKept')
    BY <1>1 DEF CountKept, QuizKept
  <2> QED
    BY <1>1, <2>2, <2>3, <2>4, <2>5 DEF PanelInv
<1> QED
  BY <1>1, <1>10, <1>12, <1>13 DEF QuizInv

\* What a write makes of the item that was read.
LEMMA WrittenItem ==
    ASSUME PanelType, NEW c \in requests, c.at = "read"
    PROVE  LET new == {Quiz!Set(r, c) : r \in c.row} IN
           /\ new \subseteq Quiz!Items /\ Single(new) /\ new # {} /\ \A r \in new : r.id = c.id
           /\ \A r \in new : \E q \in c.row :
                /\ c.for = "count" => r.count = c.val /\ r.quiz = q.quiz
                /\ c.for = "quiz" => r.quiz = (c.val = 1) /\ r.count = q.count
<1> DEFINE new == {Quiz!Set(r, c) : r \in c.row}
<1>1. RequestForm(c)
  BY DEF PanelType
<1>2. c.row \subseteq Quiz!Items /\ Single(c.row) /\ c.row # {} /\ c.for \in {"count", "quiz"} /\ \A r \in c.row : r.id = c.id
  BY <1>1 DEF RequestForm, Quiz!Updates
<1>3. new # {} /\ Single(new)
  BY <1>2 DEF Single
<1>4. ASSUME NEW q \in c.row
      PROVE  /\ Quiz!Set(q, c) \in Quiz!Items /\ Quiz!Set(q, c).id = c.id
             /\ c.for = "count" => Quiz!Set(q, c).count = c.val /\ Quiz!Set(q, c).quiz = q.quiz
             /\ c.for = "quiz" => Quiz!Set(q, c).quiz = (c.val = 1) /\ Quiz!Set(q, c).count = q.count
  <2>1. q \in Quiz!Items /\ q.id = c.id
    BY <1>2
  <2>2. CASE c.for = "count"
    <3>1. c.val \in Counts
      BY <1>1, <2>2 DEF RequestForm
    <3>2. Quiz!Set(q, c) = [q EXCEPT !.count = c.val]
      BY <2>2 DEF Quiz!Set
    <3> QED
      BY <2>1, <2>2, <3>1, <3>2, ItemWithCount
  <2>3. CASE c.for = "quiz"
    <3> DEFINE b == (c.val = 1)
    <3>1. b \in BOOLEAN
      OBVIOUS
    <3>2. Quiz!Set(q, c) = [q EXCEPT !.quiz = b]
      BY <2>3 DEF Quiz!Set
    <3> HIDE DEF b
    <3>3. /\ [q EXCEPT !.quiz = b] \in Quiz!Items /\ [q EXCEPT !.quiz = b].id = q.id
          /\ [q EXCEPT !.quiz = b].count = q.count
      BY <2>1, <3>1, ItemWithQuiz
    <3>4. [q EXCEPT !.quiz = b].quiz = b
      BY <2>1, <3>1, ItemWithQuiz
    <3>5. Quiz!Set(q, c).quiz = (c.val = 1)
      BY <3>2, <3>4 DEF b
    <3> QED
      BY <2>1, <2>3, <3>2, <3>3, <3>5
  <2> QED
    BY <1>2, <2>2, <2>3
<1> QED
  BY <1>2, <1>3, <1>4

LEMMA WriteFailsStep == ASSUME QuizInv, NEW c \in requests, Quiz!WriteItem(c), Quiz!Row(c.id) = {} PROVE QuizInv'
<1> DEFINE d == [c EXCEPT !.at = "failed"]
<1>1. /\ c.at = "read" /\ Moves(c, d) /\ UNCHANGED <<row, nextId, item, loading, count, quiz, review>> /\ blind' = TRUE
  BY DEF Quiz!WriteItem, Quiz!Becomes, Moves, Quiz!Other, Quiz!History
<1>2. PanelType /\ RequestForm(c) /\ nextId \in Nat
  BY DEF QuizInv, PanelType
<1>3. d = RequestWith(c, c.for, "failed", c.row)
  BY <1>2, RequestChanges
<1>4. RequestForm(d) /\ d.for = c.for
  BY <1>1, <1>2, <1>3, RequestFields, RequestKeepsForm DEF RequestForm
<1> HIDE DEF d
<1>5. RequestForm(d)'
  BY <1>1, <1>4 DEF RequestForm
<1>6. row' \subseteq Quiz!Items /\ Single(row') /\ \A r \in row' : r.id < nextId'
  BY <1>1, <1>2 DEF PanelType
<1>7. PanelType'
  BY <1>1, <1>2, <1>4, <1>5, <1>6, MovedType DEF Toggle
<1> QED
  BY <1>1, <1>7 DEF QuizInv

LEMMA WriteStep == ASSUME QuizInv, NEW c \in requests, Quiz!WriteItem(c), Quiz!Row(c.id) # {} PROVE QuizInv'
<1>d. PICK new, d : new = {Quiz!Set(r, c) : r \in c.row} /\ d = RequestReads(c, "done", new)
  OBVIOUS
<1>1. /\ c.at = "read" /\ Moves(c, d) /\ UNCHANGED <<nextId, item, loading, count, quiz, review, unseen, blind>> /\ row' = new
      /\ kept' = kept \ {c.for}
  BY <1>d DEF Quiz!WriteItem, Quiz!Becomes, Moves, Quiz!Other, Quiz!History, RequestReads
<1>2. PanelType /\ RequestForm(c) /\ nextId \in Nat
  BY DEF QuizInv, PanelType
<1>3. d = RequestWith(c, c.for, "done", new)
  <2>1. d = RequestReads(c, "done", new)
    BY <1>d
  <2>2. \A b, s : RequestReads(c, b, s) = RequestWith(c, c.for, b, s)
    BY <1>2, RequestChanges
  <2> QED
    BY <2>1, <2>2
<1>w. /\ new \subseteq Quiz!Items /\ Single(new) /\ new # {} /\ \A r \in new : r.id = c.id
      /\ \A r \in new : \E q \in c.row :
           /\ c.for = "count" => r.count = c.val /\ r.quiz = q.quiz
           /\ c.for = "quiz" => r.quiz = (c.val = 1) /\ r.count = q.count
  BY <1>1, <1>2, <1>d, WrittenItem
<1>4. RequestForm(d)
  BY <1>2, <1>3, <1>w, RequestKeepsForm
<1>5. d.for = c.for /\ d.at = "done"
  BY <1>3, RequestFields
<1>6. RequestForm(d)'
  BY <1>1, <1>4 DEF RequestForm
<1>7. row' \subseteq Quiz!Items /\ Single(row') /\ \A r \in row' : r.id < nextId'
  BY <1>1, <1>2, <1>w DEF RequestForm
<1>8. PanelType'
  BY <1>1, <1>2, <1>5, <1>6, <1>7, MovedType DEF Toggle
<1>9. requests' = (requests \ {c}) \cup {d}
  BY <1>1 DEF Moves
<1>10. c.for \in {"count", "quiz"}
  BY <1>1, <1>2 DEF RequestForm, Quiz!Updates
<1>11. ASSUME ~blind
       PROVE  WritesInv /\ AsksInv /\ Quiz!Writing = {c} /\ review = {} /\ row = c.row /\ row # {} /\ Quiz!Writing' = {}
  <2>1. WritesInv /\ AsksInv
    BY <1>11 DEF QuizInv
  <2>2. c \in Quiz!Writing
    BY <1>1, <1>10 DEF Quiz!Writing, Quiz!Updates
  <2>3. Quiz!Writing = {c}
    BY <2>1, <2>2 DEF WritesInv, Single
  <2>4. review = {} /\ row = c.row
    BY <2>1, <2>3 DEF WritesInv
  <2>5. row # {}
    BY <1>2, RowIsAll
  <2>6. Quiz!Writing' = {}
    BY <1>5, <1>9, <2>3 DEF Quiz!Writing
  <2> QED
    BY <2>1, <2>3, <2>4, <2>5, <2>6
<1>12. ASSUME ~blind PROVE WritesInv' /\ AsksInv'
  <2>1. WritesInv'
    BY <1>1, <1>5, <1>9, <1>10, <1>11, <1>12 DEF WritesInv, Single
  <2>2. AsksInv'
    BY <1>1, <1>5, <1>9, <1>11, <1>12 DEF AsksInv, Waits
  <2> QED
    BY <2>1, <2>2
<1>13. ASSUME ~blind, ~loading PROVE PanelInv'
  <2>1. PanelInv /\ AsksInv /\ row = c.row /\ row # {}
    BY <1>11, <1>13 DEF QuizInv
  <2>2. (Added => Added') /\ (Gone => Gone')
    BY <1>9, <1>10 DEF Added, Gone
  <2>k. (c.for = "quiz" /\ CountKept => CountKept') /\ (c.for = "count" /\ QuizKept => QuizKept')
    BY <1>1 DEF CountKept, QuizKept
  <2>3. c.for = "count" /\ QuizAsked => QuizAsked'
    BY <1>9 DEF QuizAsked
  <2>4. c.for = "quiz" /\ CountAsked => CountAsked'
    BY <1>9 DEF CountAsked
  <2>5. row' # {} /\ item' = item /\ count' = count /\ row' = new
    BY <1>1, <1>w
  <2>6. c.for = "count" => c.val = count
    BY <1>1, <2>1 DEF AsksInv, Waits
  <2>7. c.for = "quiz" => c.val = IF quiz THEN 1 ELSE 0
    BY <1>1, <2>1 DEF AsksInv, Waits
  <2>8. ASSUME NEW r \in row' PROVE r.count = count' \/ CountAsked' \/ Added' \/ CountKept'
    <3>1. PICK q \in row : (c.for = "count" => r.count = c.val) /\ (c.for = "quiz" => r.count = q.count)
      BY <1>w, <2>1, <2>5
    <3>2. q.count = count \/ CountAsked \/ Added \/ CountKept
      BY <2>1 DEF PanelInv
    <3> QED
      BY <1>10, <2>2, <2>k, <2>4, <2>5, <2>6, <3>1, <3>2
  <2>9. ASSUME NEW r \in row' PROVE r.quiz = quiz' \/ QuizAsked' \/ Added' \/ QuizKept'
    <3>1. PICK q \in row : (c.for = "count" => r.quiz = q.quiz) /\ (c.for = "quiz" => r.quiz = (c.val = 1))
      BY <1>w, <2>1, <2>5
    <3>2. q.quiz = quiz \/ QuizAsked \/ Added \/ QuizKept
      BY <2>1 DEF PanelInv
    <3>3. quiz' = quiz /\ quiz \in BOOLEAN
      BY <1>1, <1>2 DEF PanelType
    <3>4. CASE c.for = "count"
      BY <2>2, <2>k, <2>3, <3>1, <3>2, <3>3, <3>4
    <3>5. CASE c.for = "quiz"
      <4>1. (c.val = 1) = quiz
        BY <2>7, <3>3, <3>5
      <4> QED
        BY <3>1, <3>3, <3>5, <4>1
    <3> QED
      BY <1>10, <3>4, <3>5
  <2>10. row' # {} => item' # {} \/ Added' \/ unseen'
    BY <1>1, <2>1, <2>2, <2>5 DEF PanelInv
  <2> QED
    BY <2>5, <2>8, <2>9, <2>10 DEF PanelInv
<1> QED
  BY <1>1, <1>8, <1>12, <1>13 DEF QuizInv

\* The answers.
LEMMA AddedStep == ASSUME QuizInv, NEW c \in requests, Quiz!Added(c) PROVE QuizInv'
<1> DEFINE d == [c EXCEPT !.for = "get", !.at = "asked"]
<1>1. /\ c.for = "add" /\ c.at = "done" /\ Moves(c, d)
      /\ UNCHANGED <<row, nextId, item, loading, count, quiz, review, unseen, kept, blind>>
  BY DEF Quiz!Added, Quiz!Becomes, Moves, Quiz!Other, Quiz!History
<1>2. PanelType /\ RequestForm(c) /\ nextId \in Nat
  BY DEF QuizInv, PanelType
<1>3. d = RequestWith(c, "get", "asked", c.row)
  BY <1>2, RequestChanges
<1>4. d.for = "get" /\ d.at = "asked" /\ RequestForm(d)
  BY <1>2, <1>3, RequestFields, RequestKeepsForm DEF RequestForm
<1> HIDE DEF d
<1>5. RequestForm(d)'
  BY <1>1, <1>4 DEF RequestForm
<1>6. row' \subseteq Quiz!Items /\ Single(row') /\ \A r \in row' : r.id < nextId'
  BY <1>1, <1>2 DEF PanelType
<1>7. PanelType'
  BY <1>1, <1>2, <1>4, <1>5, <1>6, MovedType DEF Toggle
<1>8. requests' = (requests \ {c}) \cup {d}
  BY <1>1 DEF Moves
<1>9. Quiz!Writing' = Quiz!Writing
  BY <1>1, <1>4, <1>8 DEF Quiz!Writing, Quiz!Updates
<1>10. ASSUME ~blind PROVE WritesInv' /\ AsksInv'
  <2>1. WritesInv /\ AsksInv
    BY <1>10 DEF QuizInv
  <2>2. \A e \in requests' : e.at # "failed" /\ (e.for = "remove" /\ e.at = "done" => row = {})
    BY <1>4, <1>8, <2>1 DEF WritesInv
  <2>3. WritesInv'
    BY <1>1, <1>9, <2>1, <2>2, WritesKept
  <2>4. AsksInv'
    BY <1>1, <1>4, <1>8, <2>1 DEF AsksInv
  <2> QED
    BY <2>3, <2>4
<1>11. Added'
  BY <1>4, <1>8 DEF Added
<1>12. ASSUME ~blind, ~loading PROVE PanelInv'
  <2>1. row # {}
    BY <1>1, <1>12 DEF QuizInv, PanelInv, Added
  <2> QED
    BY <1>1, <1>11, <2>1 DEF PanelInv
<1> QED
  BY <1>1, <1>7, <1>10, <1>12 DEF QuizInv

\* An answer ends a request that was no writer, and what is stored stays.
LEMMA AnswerKeeps ==
    ASSUME QuizInv, NEW c \in requests, requests' = requests \ {c}, UNCHANGED <<row, count, quiz, review>>, ~blind, c.at # "read"
    PROVE  WritesInv' /\ AsksInv'
<1>1. WritesInv /\ AsksInv
  BY DEF QuizInv
<1>2. Quiz!Writing' = Quiz!Writing
  BY DEF Quiz!Writing
<1>3. \A e \in requests' : e.at # "failed" /\ (e.for = "remove" /\ e.at = "done" => row = {})
  BY <1>1 DEF WritesInv
<1>4. WritesInv'
  BY <1>1, <1>2, <1>3, WritesKept
<1>5. AsksInv'
  BY <1>1 DEF AsksInv
<1> QED
  BY <1>4, <1>5

LEMMA SetItemStep == ASSUME QuizInv, NEW c \in requests, Quiz!setItem(c) PROVE QuizInv'
<1>1. /\ c.for = "get" /\ item' = row /\ requests' = requests \ {c} /\ unseen' = FALSE
      /\ kept' = {s \in Quiz!Updates : \E r \in row : IF s = "count" THEN r.count # count ELSE r.quiz # quiz}
      /\ UNCHANGED <<row, nextId, loading, count, quiz, review, blind>>
  BY DEF Quiz!setItem, Quiz!Other
<1>2. PanelType /\ RequestForm(c)
  BY DEF QuizInv, PanelType
<1>3. quiz' \in BOOLEAN /\ \A r \in item' : r.id \in Nat /\ r.id < nextId
  BY <1>1, <1>2 DEF PanelType, Quiz!Items
<1>4. PanelType'
  BY <1>1, <1>2, <1>3, GoneType
<1>5. c.at # "read"
  BY <1>1, <1>2 DEF RequestForm, Quiz!Updates
<1>6. (~blind)' => WritesInv' /\ AsksInv'
  BY <1>1, <1>5, AnswerKeeps
<1>7. \A r \in row : (r.count = count \/ "count" \in kept') /\ (r.quiz = quiz \/ "quiz" \in kept')
  BY <1>1 DEF Quiz!Updates
<1>8. ~Added'
  BY <1>1, <1>2 DEF PanelType, Added, Toggle
<1>9. PanelInv'
  BY <1>1, <1>7, <1>8 DEF PanelInv, CountKept, QuizKept
<1> QED
  BY <1>4, <1>6, <1>9 DEF QuizInv

\* The item that was added could not be read.
LEMMA GetFailsStep == ASSUME QuizInv, NEW c \in requests, Quiz!GetFails(c) PROVE QuizInv'
<1>1. /\ c.for = "get" /\ requests' = requests \ {c} /\ unseen' = (row # {})
      /\ UNCHANGED <<row, nextId, item, loading, count, quiz, review, kept, blind>>
  BY DEF Quiz!GetFails, Quiz!Other
<1>2. PanelType /\ RequestForm(c)
  BY DEF QuizInv, PanelType
<1>3. quiz' \in BOOLEAN /\ \A r \in item' : r.id \in Nat /\ r.id < nextId
  BY <1>1, <1>2 DEF PanelType
<1>4. PanelType'
  BY <1>1, <1>2, <1>3, GoneType
<1>5. c.at # "read"
  BY <1>1, <1>2 DEF RequestForm, Quiz!Updates
<1>6. (~blind)' => WritesInv' /\ AsksInv'
  BY <1>1, <1>5, AnswerKeeps
<1>7. ~Added'
  BY <1>1, <1>2 DEF PanelType, Added, Toggle
<1>8. ASSUME ~blind, ~loading PROVE PanelInv'
  <2>1. row # {}
    BY <1>1, <1>8 DEF QuizInv, PanelInv, Added
  <2> QED
    BY <1>1, <1>7, <2>1 DEF PanelInv, CountKept, QuizKept
<1> QED
  BY <1>1, <1>4, <1>6, <1>8 DEF QuizInv

LEMMA RemovedStep == ASSUME QuizInv, NEW c \in requests, Quiz!Removed(c) PROVE QuizInv'
<1>1. /\ c.for = "remove" /\ c.at = "done" /\ item' = {} /\ requests' = requests \ {c}
      /\ UNCHANGED <<row, nextId, loading, count, quiz, review, unseen, kept, blind>>
  BY DEF Quiz!Removed, Quiz!Other, Quiz!History
<1>2. PanelType /\ RequestForm(c)
  BY DEF QuizInv, PanelType
<1>3. quiz' \in BOOLEAN
  BY <1>1, <1>2 DEF PanelType
<1>4. PanelType'
  BY <1>1, <1>2, <1>3, GoneType
<1>5. (~blind)' => WritesInv' /\ AsksInv'
  BY <1>1, AnswerKeeps
<1>6. (~blind)' => PanelInv'
  <2> SUFFICES ASSUME ~blind PROVE PanelInv'
    BY <1>1
  <2>1. row = {}
    BY <1>1 DEF QuizInv, WritesInv
  <2>2. ~Added'
    BY <1>1, <1>2 DEF PanelType, Added, Toggle
  <2> QED
    BY <1>1, <2>1, <2>2 DEF PanelInv
<1> QED
  BY <1>4, <1>5, <1>6 DEF QuizInv

LEMMA UpdatedStep == ASSUME QuizInv, NEW c \in requests, Quiz!Updated(c) PROVE QuizInv'
<1>1. /\ c.for \in {"count", "quiz"} /\ c.at = "done" /\ item' = c.row /\ requests' = requests \ {c}
      /\ blind' = (blind \/ c.row # row)
      /\ UNCHANGED <<row, nextId, loading, count, quiz, review, unseen, kept>>
  BY DEF Quiz!Updated, Quiz!Other, Quiz!History, Quiz!Updates
<1>2. PanelType /\ RequestForm(c)
  BY DEF QuizInv, PanelType
<1>3. quiz' \in BOOLEAN /\ \A r \in item' : r.id \in Nat /\ r.id < nextId
  BY <1>1, <1>2 DEF PanelType, RequestForm
<1>4. PanelType'
  BY <1>1, <1>2, <1>3, GoneType
<1>5. (~blind)' => WritesInv' /\ AsksInv'
  BY <1>1, AnswerKeeps
<1>6. ASSUME ~blind', ~loading PROVE PanelInv'
  <2>1. PanelInv
    BY <1>1, <1>6 DEF QuizInv
  <2>2. item' = row' /\ row' = row /\ count' = count /\ quiz' = quiz
    BY <1>1, <1>6
  <2>3. (Added <=> Added') /\ (CountAsked => CountAsked') /\ (QuizAsked => QuizAsked')
    BY <1>1 DEF Added, CountAsked, QuizAsked, Waits
  <2>4. (CountKept => CountKept') /\ (QuizKept => QuizKept')
    BY <1>1 DEF CountKept, QuizKept
  <2> QED
    BY <2>1, <2>2, <2>3, <2>4 DEF PanelInv
<1> QED
  BY <1>1, <1>4, <1>5, <1>6 DEF QuizInv

\* An update fails only when it was blind to another writer.
LEMMA UpdateFailsStep == ASSUME QuizInv, NEW c \in requests, Quiz!UpdateFails(c) PROVE QuizInv'
<1>1. /\ c.at = "failed" /\ requests' = requests \ {c}
      /\ quiz' = IF c.for = "quiz" THEN (c.val = 0) ELSE quiz
      /\ UNCHANGED <<row, nextId, item, loading, count, review, unseen, kept, blind>>
  BY DEF Quiz!UpdateFails, Quiz!Other, Quiz!History
<1>2. PanelType
  BY DEF QuizInv
<1>3. quiz' \in BOOLEAN
  BY <1>1, <1>2 DEF PanelType
<1>4. \A r \in item' : r.id \in Nat /\ r.id < nextId
  BY <1>1, <1>2 DEF PanelType
<1>5. PanelType'
  BY <1>1, <1>2, <1>3, <1>4, GoneType
<1>6. blind'
  BY <1>1 DEF QuizInv, WritesInv
<1> QED
  BY <1>5, <1>6 DEF QuizInv

\* The review in the other tab.
LEMMA ReadForReviewStep == ASSUME QuizInv, Quiz!ReadForReview PROVE QuizInv'
<1>1. /\ review = {} /\ review' = row /\ blind' = (blind \/ Quiz!Writing # {})
      /\ UNCHANGED <<row, nextId, item, loading, count, quiz, requests, unseen, kept>>
  BY DEF Quiz!ReadForReview
<1>2. PanelType
  BY DEF QuizInv
<1>3. review' \subseteq Quiz!Items /\ Single(review') /\ \A r \in review' : r.id < nextId
  BY <1>1, <1>2 DEF PanelType
<1>4. \A c \in requests : RequestForm(c)'
  BY <1>1, <1>2 DEF PanelType, RequestForm
<1>5. PanelType'
  BY <1>1, <1>2, <1>3, <1>4 DEF PanelType
<1>6. ASSUME ~blind' PROVE WritesInv' /\ AsksInv'
  <2>1. WritesInv /\ AsksInv /\ Quiz!Writing = {}
    BY <1>1, <1>6 DEF QuizInv
  <2>2. Quiz!Writing' = {}
    BY <1>1, <2>1 DEF Quiz!Writing
  <2>3. WritesInv'
    BY <1>1, <2>1, <2>2 DEF WritesInv, Single
  <2>4. AsksInv'
    BY <1>1, <2>1 DEF AsksInv
  <2> QED
    BY <2>3, <2>4
<1>7. ASSUME ~blind', ~loading PROVE PanelInv'
  <2>1. PanelInv
    BY <1>1, <1>7 DEF QuizInv
  <2> QED
    BY <1>1, <2>1 DEF PanelInv, Added, Gone, CountAsked, QuizAsked, CountKept, QuizKept
<1> QED
  BY <1>1, <1>5, <1>6, <1>7 DEF QuizInv

LEMMA SubmitReviewStep == ASSUME QuizInv, Quiz!submitReview PROVE QuizInv'
<1> DEFINE after == {[r EXCEPT !.reviews = @ + 1] : r \in review}
<1>1. /\ review # {} /\ review' = {}
      /\ row' = IF \E r \in review : Quiz!Row(r.id) # {} THEN after ELSE row
      /\ UNCHANGED <<nextId, item, loading, count, quiz, requests, unseen, kept, blind>>
  BY DEF Quiz!submitReview, Quiz!History
<1>2. PanelType
  BY DEF QuizInv
<1>3. /\ after \subseteq Quiz!Items /\ Single(after) /\ after # {}
      /\ \A r \in after : \E q \in review : r.id = q.id /\ r.count = q.count /\ r.quiz = q.quiz
  <2>1. \A q \in review : q \in Quiz!Items
    BY <1>2 DEF PanelType
  <2>2. \A q \in review : LET r == [q EXCEPT !.reviews = @ + 1] IN
          r \in Quiz!Items /\ r.id = q.id /\ r.count = q.count /\ r.quiz = q.quiz
    BY <2>1, ItemWithReview
  <2>3. Single(after)
    BY <1>2 DEF PanelType, Single
  <2> QED
    BY <1>1, <2>2, <2>3
<1> HIDE DEF after
<1>4. row' \subseteq Quiz!Items /\ Single(row') /\ \A r \in row' : r.id < nextId
  BY <1>1, <1>2, <1>3 DEF PanelType
<1>5. \A c \in requests : RequestForm(c)'
  BY <1>1, <1>2 DEF PanelType, RequestForm
<1>6. PanelType'
  BY <1>1, <1>2, <1>4, <1>5 DEF PanelType, Single
<1>7. ASSUME ~blind PROVE WritesInv /\ AsksInv /\ Quiz!Writing = {} /\ (row' = row \/ (row' = after /\ row = review))
  BY <1>1, <1>7 DEF QuizInv, WritesInv
<1>8. ASSUME ~blind PROVE WritesInv' /\ AsksInv'
  <2>1. Quiz!Writing' = {}
    BY <1>1, <1>7, <1>8 DEF Quiz!Writing
  <2>2. \A c \in requests : c.at # "failed" /\ (c.for = "remove" /\ c.at = "done" => row' = {})
    BY <1>1, <1>7, <1>8 DEF WritesInv
  <2>3. WritesInv'
    BY <1>1, <2>1, <2>2 DEF WritesInv, Single
  <2>4. AsksInv'
    BY <1>1, <1>7, <1>8 DEF AsksInv
  <2> QED
    BY <2>3, <2>4
<1>9. ASSUME ~blind, ~loading PROVE PanelInv'
  <2>1. PanelInv
    BY <1>9 DEF QuizInv
  <2>2. (Added' <=> Added) /\ (Gone' <=> Gone) /\ (CountAsked' <=> CountAsked) /\ (QuizAsked' <=> QuizAsked)
    BY <1>1 DEF Added, Gone, CountAsked, QuizAsked
  <2>5. (CountKept' <=> CountKept) /\ (QuizKept' <=> QuizKept)
    BY <1>1 DEF CountKept, QuizKept
  <2>3. CASE row' = row
    BY <1>1, <2>1, <2>2, <2>3, <2>5 DEF PanelInv
  <2>4. CASE row' = after /\ row = review
    BY <1>1, <1>3, <2>1, <2>2, <2>4, <2>5 DEF PanelInv
  <2> QED
    BY <1>7, <1>9, <2>3, <2>4
<1> QED
  BY <1>1, <1>6, <1>8, <1>9 DEF QuizInv

\* What the user asks for.
LEMMA PanelAsks ==
    ASSUME QuizInv, Quiz!handleAdd \/ Quiz!handleRemove \/ Quiz!onToggleQuiz \/ \E n \in Counts : Quiz!onSelectCount(n)
    PROVE  QuizInv'
<1>1. PanelType /\ nextId \in Nat /\ nextId > 0 /\ count \in Counts /\ quiz \in BOOLEAN
  BY DEF QuizInv, PanelType
<1>2. \A r \in item : r.id \in Nat /\ r.id < nextId /\ ~loading
  BY <1>1 DEF PanelType
<1>3. CASE Quiz!handleAdd
  <2>1. Quiz!Ask("add", 0, Quiz!DefaultCount) /\ ~loading /\ ~Quiz!Toggling
    BY <1>3 DEF Quiz!handleAdd
  <2>2. UNCHANGED <<row, nextId, item, loading, count, quiz, review, unseen, kept, blind>>
    BY <1>3 DEF Quiz!handleAdd, Quiz!Other, Quiz!History
  <2> QED
    BY <1>1, <2>1, <2>2, QuizAsks
<1>4. CASE Quiz!handleRemove
  <2>1. Quiz!Ask("remove", 0, Quiz!DefaultCount) /\ ~loading /\ ~Quiz!Toggling
    BY <1>4 DEF Quiz!handleRemove
  <2>2. UNCHANGED <<row, nextId, item, loading, count, quiz, review, unseen, kept, blind>>
    BY <1>4 DEF Quiz!handleRemove, Quiz!Other, Quiz!History
  <2> QED
    BY <1>1, <2>1, <2>2, QuizAsks
<1>5. CASE Quiz!onToggleQuiz
  <2>1. PICK r \in item : Quiz!Ask("quiz", r.id, IF quiz THEN 0 ELSE 1)
    BY <1>5 DEF Quiz!onToggleQuiz
  <2>2. quiz' = ~quiz /\ ~Quiz!Busy({"quiz"})
    BY <1>5 DEF Quiz!onToggleQuiz
  <2>3. UNCHANGED <<row, nextId, item, loading, count, review, unseen, kept, blind>>
    BY <1>5 DEF Quiz!onToggleQuiz, Quiz!Other, Quiz!History
  <2>4. (IF quiz THEN 0 ELSE 1) = (IF quiz' THEN 1 ELSE 0) /\ quiz' \in BOOLEAN
    BY <1>1, <2>2
  <2> QED
    BY <1>1, <1>2, <2>1, <2>2, <2>3, <2>4, QuizAsks
<1>6. ASSUME NEW n \in Counts, Quiz!onSelectCount(n) PROVE QuizInv'
  <2>1. PICK r \in item : Quiz!Ask("count", r.id, n)
    BY <1>6 DEF Quiz!onSelectCount
  <2>2. count' = n /\ ~Quiz!Busy({"count"})
    BY <1>6 DEF Quiz!onSelectCount
  <2>3. UNCHANGED <<row, nextId, item, loading, quiz, review, unseen, kept, blind>>
    BY <1>6 DEF Quiz!onSelectCount, Quiz!Other, Quiz!History
  <2> QED
    BY <1>1, <1>2, <2>1, <2>2, <2>3, QuizAsks
<1> QED
  BY <1>3, <1>4, <1>5, <1>6

LEMMA QuizInvStep == QuizInv /\ [Quiz!Next]_quizVars => QuizInv'
<1> SUFFICES ASSUME QuizInv, [Quiz!Next]_quizVars PROVE QuizInv'
  OBVIOUS
<1>1. CASE UNCHANGED quizVars
  BY <1>1 DEF quizVars, QuizInv, PanelType, WritesInv, AsksInv, PanelInv, RequestForm, Quiz!Writing, Quiz!Row, Added,
              Gone, CountAsked, QuizAsked, CountKept, QuizKept
<1>2. ASSUME NEW c \in requests, Quiz!WriteItem(c) PROVE QuizInv'
  BY <1>2, WriteFailsStep, WriteStep
<1> QED
  BY <1>1, <1>2, QuizLoads, QuizLoadFails, PanelAsks, AddStep, RemoveStep, ReadStep, AddedStep, SetItemStep, GetFailsStep,
     RemovedStep, UpdatedStep, UpdateFailsStep, ReadForReviewStep, SubmitReviewStep
  DEF Quiz!Next

\* SpacedRepetitionPanel and SpacedRepetitionService: when the requests of the panel have ended it has the item that
\* is stored, unless it could not be loaded, and shows its settings, but for those it kept from before the item was
\* added and that were not set since.  Writes of the item that overlapped, and updates of one that was gone, are set
\* aside (blind).
THEOREM SettingsAreStored == Spec => []SettingsShown
<1>1. Init => QuizInv
  BY QuizAtFirst DEF Init
<1>2. QuizInv /\ [Next]_vars => QuizInv'
  BY QuizInvStep, PartSteps
<1>3. QuizInv => SettingsShown
  BY DEF QuizInv, PanelInv, Added, Gone, CountAsked, QuizAsked, CountKept, QuizKept, SettingsShown, Quiz!SettingsShown
<1> QED
  BY <1>1, <1>2, <1>3, PTL DEF Spec

-----------------------------------------------------------------------------
(* Types of the list of sections.                                          *)

\* Each section knows its place.
InOrder == \A i \in DOMAIN doc : doc[i].order = i - 1
ListTypes ==
    /\ InOrder /\ \A d \in Kept : \A i \in DOMAIN d : d[i].order = i - 1
    /\ restores \in Nat /\ known \in 0 .. restores /\ \A a \in restored : a.n \in 1 .. restores
    /\ DOMAIN texts \subseteq List!Ids /\ due \in BOOLEAN /\ failed \in BOOLEAN

LEMMA ListTypesAtFirst == ASSUME List!Init PROVE ListTypes
<1>1. DOMAIN texts = {}
  <2>1. texts = <<>>
    BY DEF List!Init
  <2>2. DOMAIN <<>> = {}
    OBVIOUS
  <2> QED
    BY <2>1, <2>2
<1>2. InOrder /\ Kept = {doc}
  BY SectionsAssumption DEF List!Init, InOrder, Kept
<1>3. restores = 0 /\ known = 0 /\ restored = {} /\ due = FALSE /\ failed = FALSE
  BY DEF List!Init
<1>4. due \in BOOLEAN /\ failed \in BOOLEAN
  BY <1>3, Zenon
<1> HIDE DEF Kept
<1> QED
  BY <1>1, <1>2, <1>3, <1>4 DEF ListTypes, InOrder

LEMMA ListTypesOK == ASSUME FilesInv, KeptInv, ListTypes PROVE List!TypeOK
<1>1. \A d \in Kept : d \in Seq(List!Section)
  BY DEF KeptInv, AsShown
<1>2. stored \in Seq(List!Section) /\ {r.doc : r \in revisions \cup restored} \subseteq Seq(List!Section)
  BY <1>1 DEF Kept
<1> QED
  BY <1>2 DEF FilesInv, Distinct, ListTypes, InOrder, List!TypeOK

LEMMA NumberedCounts ==
    ASSUME NEW d, List!Numbered(d) \in Seq(List!Section)
    PROVE  \A k \in DOMAIN List!Numbered(d) : List!Numbered(d)[k].order = k - 1
<1> SUFFICES ASSUME NEW k \in DOMAIN List!Numbered(d) PROVE List!Numbered(d)[k].order = k - 1
  OBVIOUS
<1>1. PICK s : s = List!Numbered(d)[k]
  OBVIOUS
<1>2. s \in List!Section /\ s = [d[k] EXCEPT !.order = k - 1]
  <2>1. DOMAIN List!Numbered(d) = DOMAIN d
    BY DEF List!Numbered
  <2>2. List!Numbered(d)[k] = [d[k] EXCEPT !.order = k - 1]
    BY <2>1 DEF List!Numbered
  <2> QED
    BY <1>1, <2>2
<1>3. "order" \in DOMAIN s /\ DOMAIN s = DOMAIN d[k]
  BY <1>2 DEF List!Section
<1> QED
  BY <1>1, <1>2, <1>3

\* A section that changes in place keeps its number.
LEMMA ReplacedInOrder ==
    ASSUME FilesInv, InOrder, NEW i \in DOMAIN doc, NEW new, new.order = doc[i].order,
           List!updateSection(doc[i].id, new)
    PROVE  InOrder'
BY DEF FilesInv, Distinct, InOrder, List!updateSection, List!updateSections

LEMMA TextsStep ==
    ASSUME DOMAIN texts \subseteq List!Ids, FilesInv, NEW i \in DOMAIN doc, List!Type(i) \/ List!deleteSection(i)
    PROVE  DOMAIN texts' \subseteq List!Ids
<1>0. doc[i] \in List!Section
  BY DEF FilesInv
<1>1. doc[i].id \in List!Ids
  BY <1>0 DEF List!Section
<1>2. CASE List!Type(i)
  BY <1>1, <1>2 DEF List!Type
<1>3. CASE List!deleteSection(i)
  BY <1>3 DEF List!deleteSection, List!Restrict
<1> QED
  BY <1>2, <1>3

LEMMA ListTypesStep == ASSUME FilesInv, KeptInv, ListTypes, [List!Next]_listVars PROVE ListTypes'
<1> USE DEF ListTypes
<1>1. FilesInv' /\ doc' \in Seq(List!Section)
  BY FilesInvStep DEF FilesInv
<1>a. ASSUME InOrder', Kept' \subseteq Kept \cup {doc} PROVE \A d \in Kept' : \A i \in DOMAIN d : d[i].order = i - 1
  BY <1>a DEF InOrder
<1>b. ASSUME InOrder', UNCHANGED List!Saved, DOMAIN texts' \subseteq List!Ids, due' \in BOOLEAN PROVE ListTypes'
  <2>1. Kept' = Kept /\ UNCHANGED <<failed, restores, known, restored>>
    BY <1>b DEF List!Saved, List!Restores, Kept
  <2> HIDE DEF Kept
  <2> QED
    BY <1>b, <2>1
<1>2. ASSUME NEW d, List!updateSections(List!Numbered(d)), UNCHANGED List!Saved, DOMAIN texts' \subseteq List!Ids PROVE ListTypes'
  <2>1. doc' = List!Numbered(d) /\ due'
    BY <1>2 DEF List!updateSections
  <2>2. InOrder'
    BY <1>1, <2>1, NumberedCounts DEF InOrder
  <2> QED
    BY <1>2, <1>b, <2>1, <2>2 DEF List!updateSections
<1>3. ASSUME NEW kind \in NewKinds, NEW after \in 0 .. Len(doc), List!addSection(kind, after) PROVE ListTypes'
  BY <1>2, <1>3 DEF List!addSection
<1>4. ASSUME NEW i \in DOMAIN doc, List!deleteSection(i) PROVE ListTypes'
  BY <1>2, <1>4, TextsStep DEF List!deleteSection
<1>5. ASSUME NEW i \in DOMAIN doc, NEW to \in DOMAIN doc, List!moveSection(i, to) \/ List!handleDragEnd(i, to) PROVE ListTypes'
  BY <1>2, <1>5 DEF List!moveSection, List!handleDragEnd
<1>6. ASSUME NEW i \in DOMAIN doc, NEW new, new.order = doc[i].order, List!updateSection(doc[i].id, new),
             UNCHANGED List!Saved, DOMAIN texts' \subseteq List!Ids
      PROVE  ListTypes'
  <2>1. InOrder' /\ due' = TRUE
    BY <1>6, ReplacedInOrder DEF List!updateSection, List!updateSections
  <2> QED
    BY <1>6, <1>b, <2>1
<1>7. ASSUME NEW i \in DOMAIN doc, List!Type(i) \/ List!AiSaves(i) PROVE ListTypes'
  <2>1. doc[i] \in List!Section
    BY DEF FilesInv
  <2>2. List!Retyped(doc[i]).order = doc[i].order
    BY <2>1 DEF List!Retyped, List!Section
  <2>3. DOMAIN texts' \subseteq List!Ids
    BY <1>7, TextsStep DEF List!AiSaves
  <2> QED
    BY <1>6, <1>7, <2>2, <2>3 DEF List!Type, List!AiSaves
<1>8. ASSUME NEW u \in uploads, List!onUploaded(u) PROVE ListTypes'
  <2> DEFINE new == [doc[List!Position(u.sec)] EXCEPT !.file = u.file, !.text = u.text]
  <2>1. List!updateSection(u.sec, new) /\ UNCHANGED <<texts, List!Saved>>
    BY <1>8 DEF List!onUploaded
  <2>2. CASE \E k \in DOMAIN doc : doc[k].id = u.sec
    <3>1. List!Position(u.sec) \in DOMAIN doc /\ doc[List!Position(u.sec)].id = u.sec
      BY <2>2 DEF List!Position
    <3>2. doc[List!Position(u.sec)] \in List!Section
      BY <3>1 DEF FilesInv
    <3>3. new.order = doc[List!Position(u.sec)].order
      BY <3>2 DEF List!Section
    <3> HIDE DEF new
    <3> QED
      BY <1>6, <2>1, <3>1, <3>3
  <2>3. CASE ~\E k \in DOMAIN doc : doc[k].id = u.sec
    <3> HIDE DEF new
    <3>1. doc' = [k \in DOMAIN doc |-> IF doc[k].id = u.sec THEN new ELSE doc[k]] /\ due' = TRUE
      BY <2>1 DEF List!updateSection, List!updateSections
    <3>2. InOrder'
      BY <2>3, <3>1 DEF InOrder
    <3> QED
      BY <1>b, <2>1, <3>1, <3>2
  <2> QED
    BY <2>2, <2>3
<1>c. InOrder /\ doc' = doc => InOrder'
  BY DEF InOrder
<1>9. ASSUME NEW i \in DOMAIN doc, List!togglePreview(i) \/ List!upload(i) PROVE ListTypes'
  BY <1>9, <1>b, <1>c DEF List!togglePreview, List!upload, List!updateSections
<1>10. ASSUME NEW u \in uploads, List!UploadFails(u) PROVE ListTypes'
  BY <1>10, <1>b, <1>c DEF List!UploadFails
<1>11. CASE List!toggleViewMode
  BY <1>11, <1>b, <1>c DEF List!toggleViewMode
<1>12. CASE UNCHANGED listVars
  BY <1>12, <1>b, <1>c DEF List!Saved, List!Restores, listVars
<1>13. CASE List!saveContent
  <2>1. /\ UNCHANGED <<doc, texts, revisions, restores, known, restored>> /\ stored' \in {stored, doc}
        /\ due' \in BOOLEAN /\ failed' \in BOOLEAN
    BY <1>13 DEF List!saveContent, List!Restores
  <2>2. Kept' \subseteq Kept \cup {doc}
    BY <2>1 DEF Kept
  <2> HIDE DEF Kept
  <2> QED
    BY <1>a, <1>c, <2>1, <2>2
<1>14. CASE List!createRevision
  <2>1. /\ UNCHANGED <<doc, texts, due, failed, stored, restores, known, restored>>
        /\ revisions' = revisions \cup {[doc |-> stored, text |-> storedText]}
    BY <1>14 DEF List!createRevision
  <2>2. Kept' \subseteq Kept
    BY <2>1 DEF Kept
  <2> HIDE DEF Kept
  <2> QED
    BY <1>c, <2>1, <2>2
<1>15. ASSUME NEW r \in revisions, List!restoreRevision(r) PROVE ListTypes'
  <2>1. /\ UNCHANGED <<doc, texts, due, failed, known, revisions>> /\ stored' = r.doc
        /\ restores' = restores + 1
        /\ restored' = restored \cup {[n |-> restores + 1, doc |-> r.doc]}
    BY <1>15 DEF List!restoreRevision
  <2>2. Kept' \subseteq Kept
    BY <2>1 DEF Kept
  <2>3. restores' \in Nat /\ known' \in 0 .. restores' /\ \A a \in restored' : a.n \in 1 .. restores'
    BY <2>1
  <2> HIDE DEF Kept
  <2> QED
    BY <1>c, <2>1, <2>2, <2>3
<1>16. ASSUME NEW a \in restored, List!handleRestore(a) PROVE ListTypes'
  <2>1. /\ UNCHANGED <<texts, due, failed, stored, restores, revisions>> /\ doc' = a.doc /\ known' = a.n
        /\ restored' \subseteq restored
    BY <1>16 DEF List!handleRestore
  <2>2. Kept' \subseteq Kept /\ a.doc \in Kept
    BY <2>1 DEF Kept
  <2>3. known' \in 0 .. restores' /\ \A c \in restored' : c.n \in 1 .. restores'
    BY <2>1
  <2> HIDE DEF Kept
  <2> QED
    BY <2>1, <2>2, <2>3 DEF InOrder
<1>17. ASSUME NEW a \in restored, List!RestoreLost(a) PROVE ListTypes'
  <2>1. UNCHANGED <<doc, texts, due, failed, stored, restores, known, revisions>> /\ restored' \subseteq restored
    BY <1>17 DEF List!RestoreLost
  <2>2. Kept' \subseteq Kept
    BY <2>1 DEF Kept
  <2> HIDE DEF Kept
  <2> QED
    BY <1>c, <2>1, <2>2
<1> QED
  BY <1>3, <1>4, <1>5, <1>7, <1>8, <1>9, <1>10, <1>11, <1>12, <1>13, <1>14, <1>15, <1>16, <1>17 DEF List!Next

-----
(* Types of the panel of a note's review: what its invariant leaves.       *)

RequestKind(c) ==
    /\ c.for \in Quiz!Updates \cup {"add", "get", "remove"}
    /\ c.at \in {"asked", "read", "done", "failed"}

HistoryTypes == blind \in BOOLEAN /\ unseen \in BOOLEAN /\ kept \subseteq Quiz!Updates

QuizTypes ==
    /\ item \subseteq Quiz!Items /\ Single(item) /\ loading \in BOOLEAN
    /\ HistoryTypes
    /\ \A c \in requests : RequestKind(c)
    /\ asksMade \in 0 .. MaxRequests /\ reviews \in 0 .. MaxReviews

LEMMA QuizTypesAtFirst == ASSUME Quiz!Init PROVE QuizTypes
<1>1. loading \in BOOLEAN /\ HistoryTypes
  BY Zenon DEF Quiz!Init, HistoryTypes
<1>2. item = {} /\ requests = {} /\ asksMade = 0 /\ reviews = 0
  BY DEF Quiz!Init
<1>3. asksMade \in 0 .. MaxRequests /\ reviews \in 0 .. MaxReviews
  BY <1>2, BoundsAreNaturals
<1> QED
  BY <1>1, <1>2, <1>3 DEF QuizTypes, HistoryTypes, Single

\* A set of which all are one has one at most.
LEMMA SingleIsOne == ASSUME NEW S, Single(S) PROVE Quiz!Cardinality(S) <= 1
<1>1. Quiz!Cardinality(S) = Cardinality(S)
  BY DEF Cardinality, Quiz!Cardinality
<1>2. CASE S = {}
  BY <1>1, <1>2, FS_EmptySet
<1>3. ASSUME NEW r \in S PROVE Cardinality(S) = 1
  <2>1. S = {r}
    BY DEF Single
  <2> QED
    BY <2>1, FS_Singleton
<1> QED
  BY <1>1, <1>2, <1>3

LEMMA QuizTypesOK == ASSUME QuizInv, QuizTypes PROVE Quiz!TypeOK
BY SingleIsOne DEF QuizInv, PanelType, QuizTypes, HistoryTypes, RequestKind, Quiz!TypeOK

\* A request that is made, or moves on, is one of the kinds.
LEMMA AsksTypes ==
    ASSUME QuizTypes, NEW kind \in Quiz!Updates \cup {"add", "get", "remove"}, NEW id, NEW val, Quiz!Ask(kind, id, val)
    PROVE  asksMade' \in 0 .. MaxRequests /\ \A c \in requests' : RequestKind(c)
<1> DEFINE c == [for |-> kind, id |-> id, val |-> val, at |-> "asked", row |-> {}]
<1>1. RequestKind(c)
  BY DEF RequestKind
<1>2. requests' = requests \cup {c} /\ asksMade < MaxRequests /\ asksMade' = asksMade + 1
  BY DEF Quiz!Ask
<1> HIDE DEF c
<1> QED
  BY <1>1, <1>2, BoundsAreNaturals DEF QuizTypes, HistoryTypes

LEMMA MovedTypes ==
    ASSUME QuizTypes, NEW c \in requests, NEW d, RequestForm(c), NEW f \in Quiz!Updates \cup {"add", "get", "remove"},
           NEW a \in {"asked", "read", "done", "failed"}, NEW s, d = RequestWith(c, f, a, s), Quiz!Becomes(c, d)
    PROVE  \A e \in requests' : RequestKind(e)
<1>1. RequestKind(d)
  BY RequestFields DEF RequestKind
<1> QED
  BY <1>1 DEF Quiz!Becomes, QuizTypes, HistoryTypes

LEMMA QuizTypesStep == ASSUME QuizInv, QuizTypes, [Quiz!Next]_quizVars PROVE QuizTypes'
<1>1. PanelType /\ \A c \in requests : RequestForm(c) /\ RequestKind(c)
  BY DEF QuizInv, PanelType, QuizTypes, HistoryTypes
<1>2. /\ row \subseteq Quiz!Items /\ Single(row) /\ Single({})
      /\ \A c \in requests : c.row \subseteq Quiz!Items /\ Single(c.row)
  BY <1>1 DEF PanelType, RequestForm, Single
<1>3. CASE Quiz!ItemLoaded
  BY <1>2, <1>3 DEF Quiz!ItemLoaded, Quiz!Other, Quiz!History, QuizTypes, HistoryTypes
<1>16. CASE Quiz!LoadFails
  <2>1. item' = {} /\ loading' = FALSE /\ unseen' = (row # {}) /\ UNCHANGED <<requests, asksMade, reviews, kept, blind>>
    BY <1>16 DEF Quiz!LoadFails, Quiz!Other
  <2> QED
    BY <1>2, <2>1 DEF QuizTypes, HistoryTypes
<1>4. ASSUME NEW kind \in Quiz!Updates \cup {"add", "get", "remove"}, NEW id, NEW val, Quiz!Ask(kind, id, val),
             UNCHANGED <<item, loading, unseen, kept, blind, reviews>>
      PROVE  QuizTypes'
  BY <1>4, AsksTypes DEF QuizTypes, HistoryTypes
<1>5. CASE Quiz!handleAdd \/ Quiz!handleRemove
  BY <1>4, <1>5 DEF Quiz!handleAdd, Quiz!handleRemove, Quiz!Other, Quiz!History
<1>6. ASSUME NEW n \in Counts, Quiz!onToggleQuiz \/ Quiz!onSelectCount(n) PROVE QuizTypes'
  <2>1. \E r \in item : Quiz!Ask("quiz", r.id, IF quiz THEN 0 ELSE 1) \/ Quiz!Ask("count", r.id, n)
    BY <1>6 DEF Quiz!onToggleQuiz, Quiz!onSelectCount
  <2>2. UNCHANGED <<item, loading, unseen, kept, blind, reviews>>
    BY <1>6 DEF Quiz!onToggleQuiz, Quiz!onSelectCount, Quiz!Other, Quiz!History
  <2> QED
    BY <1>4, <2>1, <2>2 DEF Quiz!Updates
<1>7. ASSUME NEW c \in requests, NEW d, NEW f \in Quiz!Updates \cup {"add", "get", "remove"},
             NEW a \in {"asked", "read", "done", "failed"}, NEW s, d = RequestWith(c, f, a, s), Quiz!Becomes(c, d),
             UNCHANGED <<item, loading, asksMade, reviews>>, HistoryTypes'
      PROVE  QuizTypes'
  BY <1>1, <1>7, MovedTypes DEF QuizTypes, HistoryTypes
<1>8. ASSUME NEW c \in requests, Quiz!addItem(c) \/ Quiz!removeItem(c) PROVE QuizTypes'
  <2>1. Quiz!Becomes(c, [c EXCEPT !.at = "done"]) /\ UNCHANGED <<item, loading, asksMade, reviews, unseen, kept, blind>>
    BY <1>8 DEF Quiz!addItem, Quiz!removeItem, Quiz!Other, Quiz!History
  <2>2. [c EXCEPT !.at = "done"] = RequestWith(c, c.for, "done", c.row)
    BY <1>1, RequestChanges
  <2> QED
    BY <1>1, <1>7, <2>1, <2>2 DEF RequestKind, QuizTypes, HistoryTypes
<1>9. ASSUME NEW c \in requests, Quiz!ReadItem(c) PROVE QuizTypes'
  <2>1. PICK a \in {"failed", "read"} : Quiz!Becomes(c, RequestReads(c, a, Quiz!Row(c.id)))
    BY <1>9 DEF Quiz!ReadItem, RequestReads
  <2>2. UNCHANGED <<item, loading, asksMade, reviews, unseen, kept>> /\ blind' \in BOOLEAN
    BY <1>9 DEF Quiz!ReadItem, Quiz!Other
  <2>3. \A b, s : RequestReads(c, b, s) = RequestWith(c, c.for, b, s)
    BY <1>1, RequestChanges
  <2>4. HistoryTypes'
    BY <2>2 DEF QuizTypes, HistoryTypes
  <2>5. c.for \in Quiz!Updates \cup {"add", "get", "remove"} /\ RequestForm(c)
    BY <1>1 DEF RequestKind
  <2> QED
    BY <1>7, <2>1, <2>2, <2>3, <2>4, <2>5
<1>10. ASSUME NEW c \in requests, Quiz!WriteItem(c) PROVE QuizTypes'
  <2> DEFINE new == {Quiz!Set(r, c) : r \in c.row}
  <2>1. UNCHANGED <<item, loading, asksMade, reviews, unseen>> /\ blind' \in {blind, TRUE} /\ kept' \in {kept, kept \ {c.for}}
    BY <1>10 DEF Quiz!WriteItem, Quiz!Other
  <2>2. Quiz!Becomes(c, [c EXCEPT !.at = "failed"]) \/ Quiz!Becomes(c, RequestReads(c, "done", new))
    BY <1>10 DEF Quiz!WriteItem, RequestReads
  <2> HIDE DEF new
  <2>3. [c EXCEPT !.at = "failed"] = RequestWith(c, c.for, "failed", c.row)
    BY <1>1, RequestChanges
  <2>4. \A b, s : RequestReads(c, b, s) = RequestWith(c, c.for, b, s)
    BY <1>1, RequestChanges
  <2>k. blind \in BOOLEAN /\ unseen \in BOOLEAN /\ kept \subseteq Quiz!Updates
    BY DEF QuizTypes, HistoryTypes
  <2>b. blind' \in BOOLEAN /\ unseen' \in BOOLEAN
    BY <2>1, <2>k
  <2>c. kept' \subseteq Quiz!Updates
    <3>1. kept' \in {kept, kept \ {c.for}} /\ kept \subseteq Quiz!Updates
      BY <2>1, <2>k
    <3> QED
      BY <3>1
  <2>5. HistoryTypes'
    BY <2>c, <2>b DEF HistoryTypes
  <2>6. c.for \in Quiz!Updates \cup {"add", "get", "remove"}
    BY <1>1 DEF RequestKind
  <2>7. CASE Quiz!Becomes(c, [c EXCEPT !.at = "failed"])
    BY <1>7, <2>1, <2>3, <2>5, <2>6, <2>7
  <2>8. CASE Quiz!Becomes(c, RequestReads(c, "done", new))
    <3>1. RequestReads(c, "done", new) = RequestWith(c, c.for, "done", new)
      BY <2>4
    <3>2. UNCHANGED <<item, loading, asksMade, reviews>> /\ RequestForm(c)
      BY <1>1, <2>1
    <3> QED
      BY <1>7, <2>5, <2>6, <2>8, <3>1, <3>2
  <2> QED
    BY <2>2, <2>7, <2>8
<1>11. ASSUME NEW c \in requests, Quiz!Added(c) PROVE QuizTypes'
  <2>1. Quiz!Becomes(c, [c EXCEPT !.for = "get", !.at = "asked"]) /\ UNCHANGED <<item, loading, asksMade, reviews, unseen, kept, blind>>
    BY <1>11 DEF Quiz!Added, Quiz!Other, Quiz!History
  <2>2. [c EXCEPT !.for = "get", !.at = "asked"] = RequestWith(c, "get", "asked", c.row)
    BY <1>1, RequestChanges
  <2> QED
    BY <1>7, <2>1, <2>2 DEF QuizTypes, HistoryTypes
<1>12. ASSUME NEW c \in requests,
              Quiz!setItem(c) \/ Quiz!GetFails(c) \/ Quiz!Removed(c) \/ Quiz!Updated(c) \/ Quiz!UpdateFails(c)
       PROVE  QuizTypes'
  <2>1. item' \in {item, row, {}, c.row} /\ requests' = requests \ {c} /\ UNCHANGED <<loading, asksMade, reviews>>
    BY <1>12 DEF Quiz!setItem, Quiz!GetFails, Quiz!Removed, Quiz!Updated, Quiz!UpdateFails, Quiz!Other
  <2>2. HistoryTypes'
    <3>1. CASE Quiz!setItem(c)
      <4>1. unseen' = FALSE /\ kept' \subseteq Quiz!Updates /\ blind' = blind
        BY <3>1 DEF Quiz!setItem
      <4> QED
        BY <4>1 DEF QuizTypes, HistoryTypes
    <3>2. CASE Quiz!GetFails(c)
      <4>1. unseen' = (row # {}) /\ kept' = kept /\ blind' = blind
        BY <3>2 DEF Quiz!GetFails
      <4> QED
        BY <4>1 DEF QuizTypes, HistoryTypes
    <3>3. CASE Quiz!Removed(c) \/ Quiz!UpdateFails(c)
      BY <3>3 DEF Quiz!Removed, Quiz!UpdateFails, Quiz!History, QuizTypes, HistoryTypes
    <3>4. CASE Quiz!Updated(c)
      <4>1. blind' \in BOOLEAN /\ UNCHANGED <<unseen, kept>>
        BY <3>4 DEF Quiz!Updated, QuizTypes, HistoryTypes
      <4> QED
        BY <4>1 DEF QuizTypes, HistoryTypes
    <3> QED
      BY <1>12, <3>1, <3>2, <3>3, <3>4
  <2> QED
    BY <1>2, <2>1, <2>2 DEF QuizTypes, HistoryTypes
<1>13. CASE Quiz!ReadForReview
  BY <1>13, BoundsAreNaturals DEF Quiz!ReadForReview, QuizTypes, HistoryTypes
<1>14. CASE Quiz!submitReview \/ UNCHANGED quizVars
  BY <1>14 DEF Quiz!submitReview, Quiz!History, quizVars, QuizTypes, HistoryTypes
<1>15. Quiz!DefaultCount \in Counts
  BY ReviewAssumption
<1> QED
  BY <1>3, <1>5, <1>6, <1>8, <1>9, <1>10, <1>11, <1>12, <1>13, <1>14, <1>15, <1>16 DEF Quiz!Next

-----------------------------------------------------------------------------
(* Types of the reminders: what their invariant leaves.                    *)

RemindTypes ==
    /\ used \subseteq ReminderIds /\ notified \subseteq ReminderIds \X Remind!Moments /\ twice \in BOOLEAN
    /\ reminderForm \in ReminderIds \cup {"none", "new"} /\ mount.n \in 1 .. 2 /\ icon \in BOOLEAN
    /\ saves \in 0 .. MaxSaves /\ edits \in 0 .. MaxSaves /\ disturbed \in BOOLEAN

LEMMA RemindTypesAtFirst == ASSUME Remind!Init PROVE RemindTypes
<1>1. twice \in BOOLEAN /\ disturbed \in BOOLEAN
  BY Zenon DEF Remind!Init
<1>4. icon \in BOOLEAN
  BY DEF Remind!Init
<1>2. /\ used = DOMAIN FirstTypes /\ notified = {} /\ reminderForm = "none" /\ mount.n = 1
      /\ saves = 0 /\ edits = 0
  BY DEF Remind!Init
<1>3. saves \in 0 .. MaxSaves /\ edits \in 0 .. MaxSaves
  BY <1>2, BoundsAreNaturals
<1> QED
  BY <1>1, <1>2, <1>3, <1>4, RemindersAssumption DEF RemindTypes

LEMMA RemindTypesOK == ASSUME RemindType, RemindTypes PROVE Remind!TypeOK
<1>1. now \in 1 .. 2 * LastTick + 1 /\ looked \in 1 .. 2 * LastTick + 1
  BY RemindersAssumption DEF RemindType, Clock
<1>2. mount \in [n: 1 .. 2, open: BOOLEAN, loaded: BOOLEAN]
  BY DEF RemindType, RemindTypes, Mount
<1>3. /\ dialog.open \in BOOLEAN /\ dialog.for \subseteq Remind!Reminders /\ dialog.title \subseteq Remind!Titles
      /\ \A c \in calls : c.r \in Remind!Reminders /\ c.op \in {"create", "update", "delete"} /\ c.got \in {"none", "ok", "refused"}
  BY DEF RemindType, Dialog, Call
<1> QED
  BY <1>1, <1>2, <1>3 DEF RemindType, RemindTypes, Remind!TypeOK

LEMMA RemindTypesStep == ASSUME RemindType, RemindTypes, [Remind!Next]_remindVars PROVE RemindTypes'
<1>1. /\ saves + edits < MaxSaves => saves + 1 \in 0 .. MaxSaves /\ edits + 1 \in 0 .. MaxSaves
      /\ \A r \in db \cup found \cup list \cup rows : r.id \in ReminderIds /\ r.at \in Remind!Moments
  BY BoundsAreNaturals DEF RemindType, RemindTypes, Remind!Reminders
<1>2. CASE Remind!Tick \/ Remind!processReminders
  BY <1>2 DEF Remind!Tick, Remind!processReminders, Remind!Panel, Remind!Page, RemindTypes
<1>3. ASSUME NEW r \in found, Remind!processReminder(r) PROVE RemindTypes'
  <2>1. /\ notified' \in {notified, notified \cup {<<r.id, r.at>>}} /\ twice' \in BOOLEAN /\ disturbed' \in {disturbed, TRUE}
        /\ UNCHANGED <<used, reminderForm, mount, icon, saves, edits>>
    BY <1>3 DEF Remind!processReminder, Remind!Panel, Remind!Page, RemindTypes
  <2>2. <<r.id, r.at>> \in ReminderIds \X Remind!Moments
    BY <1>1
  <2> QED
    BY <2>1, <2>2 DEF RemindTypes
<1>4. ASSUME mount'.n = mount.n, icon' \in BOOLEAN, disturbed' \in BOOLEAN, reminderForm' \in ReminderIds \cup {"none", "new"},
             UNCHANGED <<used, notified, twice, saves, edits>>
      PROVE  RemindTypes'
  BY <1>4 DEF RemindTypes
<1>5. CASE Remind!ListLoaded \/ Remind!ListFails
  <2>1. mount' = [mount EXCEPT !.loaded = TRUE]
    BY <1>5 DEF Remind!ListLoaded, Remind!ListFails
  <2>2. mount'.n = mount.n
    BY <2>1 DEF RemindType, Mount
  <2>3. UNCHANGED <<used, notified, twice, saves, edits, reminderForm>> /\ icon' \in BOOLEAN /\ disturbed' \in BOOLEAN
    BY <1>5 DEF Remind!ListLoaded, Remind!ListFails, Remind!Scheduler, Remind!Page, RemindTypes
  <2> QED
    BY <1>4, <2>2, <2>3 DEF RemindTypes
<1>6. CASE Remind!toggleReminder
  <2>1. mount' = [n |-> IF mount.open THEN mount.n ELSE mount.n + 1, open |-> ~mount.open, loaded |-> FALSE]
        /\ (mount.open \/ mount.n < 2)
    BY <1>6 DEF Remind!toggleReminder
  <2>2. mount'.n \in 1 .. 2
    BY <2>1 DEF RemindTypes
  <2> QED
    BY <1>6, <2>2 DEF Remind!toggleReminder, Remind!Scheduler, Remind!Page, RemindTypes
<1>7. ASSUME NEW f \in ReminderIds \cup {"new"}, Remind!onCancel \/ Remind!OpenForm(f) PROVE RemindTypes'
  BY <1>7 DEF Remind!onCancel, Remind!OpenForm, Remind!Scheduler, Remind!Page, RemindTypes
<1>8. ASSUME NEW op, NEW r, Remind!Send(op, r) PROVE RemindTypes'
  BY <1>1, <1>8 DEF Remind!Send, Remind!Scheduler, Remind!Page, RemindTypes
<1>9. ASSUME NEW at, Remind!handleSave(at) PROVE RemindTypes'
  BY <1>8, <1>9 DEF Remind!handleSave
<1>10. ASSUME NEW r, Remind!handleDelete(r) PROVE RemindTypes'
  BY <1>8, <1>10 DEF Remind!handleDelete
<1>11. ASSUME NEW c \in calls, Remind!Commit(c) PROVE RemindTypes'
  <2>1. c.r.id \in ReminderIds
    BY DEF RemindType, Call, Remind!Reminders
  <2>2. used' \in {used, used \cup {c.r.id}}
    BY <1>11 DEF Remind!Commit
  <2>3. UNCHANGED <<notified, twice, reminderForm, mount, icon, saves, edits, disturbed>>
    BY <1>11 DEF Remind!Commit, Remind!Scheduler, Remind!Page
  <2> QED
    BY <2>1, <2>2, <2>3 DEF RemindTypes
<1>12. ASSUME NEW c, Remind!handleCreated(c) \/ Remind!handleUpdated(c) \/ Remind!handleDeleted(c) \/ Remind!SaveFails(c)
       PROVE  RemindTypes'
  <2>1. UNCHANGED <<used, notified, twice, mount, saves, edits>> /\ reminderForm' \in {reminderForm, "none"}
    BY <1>12 DEF Remind!handleCreated, Remind!handleUpdated, Remind!handleDeleted, Remind!SaveFails, Remind!Scheduler,
                 Remind!Page
  <2>2. icon' \in BOOLEAN /\ disturbed' \in BOOLEAN
    BY <1>12 DEF Remind!handleCreated, Remind!handleUpdated, Remind!handleDeleted, Remind!SaveFails, RemindTypes
  <2> QED
    BY <1>4, <2>1, <2>2 DEF RemindTypes
<1>13. ASSUME NEW r, Remind!OpenDialog(r) \/ Remind!setTitle(r) \/ Remind!onOpenChange \/ Remind!NotSaved PROVE RemindTypes'
  BY <1>13 DEF Remind!OpenDialog, Remind!setTitle, Remind!onOpenChange, Remind!NotSaved, Remind!Scheduler, Remind!Panel,
               RemindTypes
<1>14. ASSUME NEW r, NEW t, Remind!SaveDialog(r, t) \/ Remind!handleSaved(r, t) PROVE RemindTypes'
  <2>1. UNCHANGED <<used, notified, twice, reminderForm, mount, icon, saves>>
    BY <1>14 DEF Remind!SaveDialog, Remind!handleSaved, Remind!Scheduler, Remind!Panel
  <2>2. edits' = edits \/ (saves + edits < MaxSaves /\ edits' = edits + 1)
    BY <1>14 DEF Remind!SaveDialog, Remind!handleSaved
  <2>3. disturbed' \in BOOLEAN
    BY <1>14 DEF Remind!SaveDialog, Remind!handleSaved, RemindTypes
  <2> QED
    BY <1>1, <2>1, <2>2, <2>3 DEF RemindTypes
<1>15. CASE UNCHANGED remindVars
  BY <1>15 DEF remindVars, RemindTypes
<1> QED
  BY <1>2, <1>3, <1>5, <1>6, <1>7, <1>9, <1>10, <1>11, <1>12, <1>13, <1>14, <1>15 DEF Remind!Next

-----------------------------------------------------------------------------
(* The types of the page.                                                  *)

\* Each part with the invariant its types rest on.
NotePageTypes ==
    /\ part \in Parts
    /\ DialogInv /\ AssistTypes
    /\ FilesInv /\ KeptInv /\ ListTypes
    /\ AudioTypes
    /\ RunsInv /\ CodeTypes
    /\ CountsInv /\ BellTypes
    /\ QuizInv /\ QuizTypes
    /\ RemindType /\ RemindTypes

LEMMA PartStays == ASSUME [Next]_vars PROVE part' = part
BY DEF Next, Only, vars

\* The hooks and components of the note page and their rows in the backend: every variable of every part keeps to its
\* type, for any document, tabs, reminders and bounds.
THEOREM NotePageTypeCorrect == Spec => []TypeOK
<1>1. Init => NotePageTypes
  <2> SUFFICES ASSUME Init PROVE NotePageTypes
    OBVIOUS
  <2>1. part \in Parts /\ Assist!Init /\ List!Init /\ Audio!Init /\ Code!Init /\ Bell!Init /\ Quiz!Init /\ Remind!Init
    BY DEF Init
  <2>2. DialogInv /\ FilesInv /\ KeptInv /\ RunsInv /\ CountsInv /\ QuizInv /\ RemindType
    BY <2>1, DialogInvInit, FilesInvInit, KeptInvInit, RunsInvInit, CountsInvInit, QuizAtFirst, RemindTypeInit
  <2> QED
    BY <2>1, <2>2, AssistTypesAtFirst, ListTypesAtFirst, AudioTypesAtFirst, CodeTypesAtFirst, BellTypesAtFirst,
       QuizTypesAtFirst, RemindTypesAtFirst DEF NotePageTypes
<1>2. NotePageTypes /\ [Next]_vars => NotePageTypes'
  <2> SUFFICES ASSUME NotePageTypes, [Next]_vars PROVE NotePageTypes'
    OBVIOUS
  <2>1. /\ part \in Parts /\ DialogInv /\ AssistTypes /\ FilesInv /\ KeptInv /\ ListTypes /\ AudioTypes /\ RunsInv /\ CodeTypes
        /\ CountsInv /\ BellTypes /\ QuizInv /\ QuizTypes /\ RemindType /\ RemindTypes
    BY DEF NotePageTypes
  <2>2. /\ [Assist!Next]_assistVars /\ [List!Next]_listVars /\ [Audio!Next]_audioVars /\ [Code!Next]_codeVars
        /\ [Bell!Next]_bellVars /\ [Quiz!Next]_quizVars /\ [Remind!Next]_remindVars
    BY PartSteps
  <2>3. DialogInv' /\ FilesInv' /\ KeptInv' /\ RunsInv'
    BY <2>1, <2>2, DialogInvStep, FilesInvStep, RunsInvStep
  <2>4. CountsInv' /\ QuizInv' /\ RemindType'
    BY <2>1, <2>2, CountsInvStep, QuizInvStep, RemindTypeStep
  <2>5. AssistTypes' /\ ListTypes' /\ AudioTypes' /\ CodeTypes'
    BY <2>1, <2>2, AssistTypesStep, ListTypesStep, AudioTypesStep, CodeTypesStep
  <2>6. BellTypes' /\ QuizTypes' /\ RemindTypes'
    BY <2>1, <2>2, BellTypesStep, QuizTypesStep, RemindTypesStep
  <2> QED
    BY <2>1, <2>3, <2>4, <2>5, <2>6, PartStays DEF NotePageTypes
<1>3. NotePageTypes => TypeOK
  <2> SUFFICES ASSUME NotePageTypes PROVE TypeOK
    OBVIOUS
  <2>1. Assist!TypeOK
    BY DEF NotePageTypes, DialogInv, AssistTypes, Assist!TypeOK
  <2>2. Audio!TypeOK
    BY DEF NotePageTypes, AudioTypes, Audio!TypeOK
  <2>3. List!TypeOK /\ Code!TypeOK /\ Bell!TypeOK /\ Quiz!TypeOK /\ Remind!TypeOK
    BY ListTypesOK, CodeTypesOK, BellTypesOK, QuizTypesOK, RemindTypesOK DEF NotePageTypes
  <2> QED
    BY <2>1, <2>2, <2>3 DEF NotePageTypes, TypeOK
<1> QED
  BY <1>1, <1>2, <1>3, PTL DEF Spec
=============================================================================
