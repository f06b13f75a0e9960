----------------------------- MODULE Reminders -----------------------------
(***************************************************************************)
(* The reminders of one note: the panel beside the note, the page of all   *)
(* reminders in another tab, and the scheduler of the backend that turns   *)
(* reminders that are due into notifications.                              *)
(***************************************************************************)
EXTENDS Naturals, FiniteSets

CONSTANTS
    Ids,         \* reminders
    FirstTypes,  \* the reminders there are at first -> their types
    Limit,       \* maxRemindersPerNeuron
    LastTick,    \* ticks of the clock
    MaxSaves     \* requests of the panel and saves of the page

VARIABLES
    now,       \* the clock: odd, as triggers are at whole minutes, which are even
    db,        \* reminders
    used,      \* ids that were given
    looked,    \* when the scheduler looked for what is due
    due,       \* reminders it found, as it read them
    notified,  \* history: the occurrences that became notifications
    twice,     \* history: one of them became two
    list,      \* reminders the panel shows
    form,      \* the panel's form: "none", "new", or the reminder that is edited
    mount,     \* times the panel was opened, whether it is open, and has its list
    icon,      \* hasReminder, on the toolbar of the note
    calls,     \* the panel's requests
    sent,      \* how many there were
    rows,      \* reminders the page shows
    dialog,    \* the page's dialog: open, the reminder it was opened for, the title in it, its save
    edits,     \* saves of the page
    disturbed  \* history: something the panel is not told of changed a reminder, or a deletion met another answer

vars == <<now, db, used, looked, due, notified, twice, list, form, mount, icon, calls, sent, rows, dialog, edits, disturbed>>

Types == {"ONCE", "RECURRING"}
Moments == {2 * t : t \in 1 .. LastTick + 1}
Titles == [of: Ids, edit: {0, 1}]
Reminders == [id: Ids, at: Moments, type: Types, title: Titles]
Scheduler == <<now, looked, due, notified, twice>>
Panel == <<list, form, mount, icon, calls, sent>>
Page == <<rows, dialog, edits>>

First(id, type) == [id |-> id, at |-> 2, type |-> type, title |-> [of |-> id, edit |-> 0]]
NoDialog == [open |-> FALSE, for |-> {}, title |-> {}, save |-> "none"]

Init ==
    /\ now = 1 /\ looked = 1 /\ due = {} /\ notified = {} /\ twice = FALSE
    /\ db = {First(id, FirstTypes[id]) : id \in DOMAIN FirstTypes} /\ used = DOMAIN FirstTypes
    /\ list = {} /\ form = "none" /\ mount = [n |-> 1, open |-> TRUE, loaded |-> FALSE] /\ icon = (db # {})
    /\ calls = {} /\ sent = 0
    /\ rows = db /\ dialog = NoDialog /\ edits = 0 /\ disturbed = FALSE

Stored(id) == {r \in db : r.id = id}
Put(set, r) == {IF x.id = r.id THEN r ELSE x : x \in set}

-----------------------------------------------------------------------------
(* The backend.                                                            *)

Tick ==
    /\ now < 2 * LastTick + 1 /\ now' = now + 2
    /\ UNCHANGED <<db, used, looked, due, notified, twice, Panel, Page, disturbed>>

processReminders ==
    /\ due = {} /\ due' = {r \in db : r.at <= now} /\ due' # {}
    /\ looked' = now
    /\ UNCHANGED <<now, db, used, notified, twice, Panel, Page, disturbed>>

\* After the time of that look, however late it is by now.
computeNextTrigger(r) == CHOOSE t \in Moments : t > looked /\ t < looked + 2

\* What was found is stored again, whatever was saved since; a reminder that is gone has no notification.
processReminder(r) ==
    /\ r \in due /\ due' = due \ {r}
    /\ IF Stored(r.id) = {} THEN UNCHANGED <<db, notified, twice, disturbed>>
       ELSE /\ notified' = notified \cup {<<r.id, r.at>>}
            /\ twice' = (twice \/ <<r.id, r.at>> \in notified)
            /\ db' = IF r.type = "ONCE" THEN db \ Stored(r.id) ELSE Put(db, [r EXCEPT !.at = computeNextTrigger(r)])
            /\ disturbed' = TRUE
    /\ UNCHANGED <<now, used, looked, Panel, Page>>
\* Mutant: any trigger is taken.
applyRequestAlways(r) == TRUE

\* A trigger in the past is refused.
applyRequest(r) == r.at >= now

-----------------------------------------------------------------------------
(* The panel.  An answer acts on the panel as it is by then, a deletion's  *)
(* on the list as it was shown when it was asked for.                      *)

Shown == mount.open /\ mount.loaded

ListLoaded ==
    /\ mount.open /\ ~mount.loaded /\ mount' = [mount EXCEPT !.loaded = TRUE]
    /\ list' = db /\ icon' = (db # {})
    /\ disturbed' = (calls # {})
    /\ UNCHANGED <<db, used, Scheduler, form, calls, sent, Page>>

ListFails ==
    /\ mount.open /\ ~mount.loaded /\ mount' = [mount EXCEPT !.loaded = TRUE]
    /\ list' = {} /\ disturbed' = TRUE
    /\ UNCHANGED <<db, used, Scheduler, form, icon, calls, sent, Page>>

toggleReminder ==
    /\ mount.open \/ mount.n < 2
    /\ mount' = [n |-> IF mount.open THEN mount.n ELSE mount.n + 1, open |-> ~mount.open, loaded |-> FALSE]
    /\ list' = {} /\ form' = "none"
    /\ UNCHANGED <<db, used, Scheduler, icon, calls, sent, Page, disturbed>>

atLimit == Cardinality(list) >= Limit

OpenForm(f) ==
    /\ Shown /\ form # f
    /\ \/ f = "new" /\ ~atLimit
       \/ \E r \in list : r.id = f
    /\ form' = f
    /\ UNCHANGED <<db, used, Scheduler, list, mount, icon, calls, sent, Page, disturbed>>

onCancel ==
    /\ Shown /\ form # "none" /\ form' = "none"
    /\ UNCHANGED <<db, used, Scheduler, list, mount, icon, calls, sent, Page, disturbed>>

Send(op, r) ==
    /\ sent + edits < MaxSaves /\ sent' = sent + 1
    /\ calls' = calls \cup {[op |-> op, r |-> r, list |-> list, mount |-> mount.n, n |-> sent, got |-> "none"]}
    /\ UNCHANGED <<db, used, Scheduler, list, form, mount, icon, Page, disturbed>>

\* The form's button is disabled while its own save is under way.
handleSave(at) ==
    /\ Shown /\ form # "none" /\ at > now
    /\ ~\E c \in calls : c.mount = mount.n /\ (IF form = "new" THEN c.op = "create" ELSE c.op = "update" /\ c.r.id = form)
    /\ IF form = "new"
       THEN \E id \in Ids \ (used \cup {c.r.id : c \in calls}) : Send("create", [First(id, "ONCE") EXCEPT !.at = at])
       ELSE \E r \in list : r.id = form /\ Send("update", [r EXCEPT !.at = at, !.title.edit = 1])

handleDelete(r) ==
    /\ Shown /\ r \in list /\ form # r.id
    /\ ~\E c \in calls : c.op = "delete" /\ c.r.id = r.id /\ c.mount = mount.n
    /\ Send("delete", r)

\* ReminderService: create, update and delete.
Commit(c) ==
    /\ c \in calls /\ c.got = "none"
    /\ LET ok == CASE c.op = "create" -> Cardinality(db) < Limit /\ applyRequest(c.r)
                   [] c.op = "update" -> Stored(c.r.id) # {} /\ applyRequest(c.r)
                   [] c.op = "delete" -> Stored(c.r.id) # {}
       IN /\ calls' = (calls \ {c}) \cup {[c EXCEPT !.got = IF ok THEN "ok" ELSE "refused"]}
          /\ db' = IF ~ok THEN db
                   ELSE CASE c.op = "create" -> db \cup {c.r}
                          [] c.op = "update" -> Put(db, c.r)
                          [] c.op = "delete" -> db \ Stored(c.r.id)
          /\ used' = IF ok THEN used \cup {c.r.id} ELSE used
    /\ UNCHANGED <<Scheduler, list, form, mount, icon, sent, Page, disturbed>>

Here(c) == c.mount = mount.n /\ mount.open
\* Mutant: the icon is left as it is.
handleCreatedQuietly(c) ==
    /\ c \in calls /\ c.op = "create" /\ c.got = "ok" /\ calls' = calls \ {c}
    /\ list' = IF Here(c) THEN list \cup {c.r} ELSE list
    /\ UNCHANGED <<db, used, Scheduler, form, icon, mount, sent, Page, disturbed>>

handleCreated(c) ==
    /\ c \in calls /\ c.op = "create" /\ c.got = "ok" /\ calls' = calls \ {c}
    /\ icon' = TRUE
    /\ IF Here(c) THEN list' = list \cup {c.r} /\ form' = (IF form = "new" THEN "none" ELSE form) /\ UNCHANGED disturbed
       ELSE disturbed' = TRUE /\ UNCHANGED <<list, form>>
    /\ UNCHANGED <<db, used, Scheduler, mount, sent, Page>>

\* Whichever reminder is edited by now, its form closes.
handleUpdated(c) ==
    /\ c \in calls /\ c.op = "update" /\ c.got = "ok" /\ calls' = calls \ {c}
    /\ IF Here(c) THEN list' = Put(list, c.r) /\ form' = (IF form = "new" THEN form ELSE "none") /\ UNCHANGED disturbed
       ELSE disturbed' = TRUE /\ UNCHANGED <<list, form>>
    /\ UNCHANGED <<db, used, Scheduler, mount, icon, sent, Page>>

handleDeleted(c) ==
    /\ c \in calls /\ c.op = "delete" /\ c.got = "ok" /\ calls' = calls \ {c}
    /\ LET next == {r \in c.list : r.id # c.r.id} IN
       /\ icon' = (next # {})
       /\ list' = IF Here(c) THEN next ELSE list
    /\ disturbed' = (disturbed \/ ~Here(c) \/ c.list # list)
    /\ UNCHANGED <<db, used, Scheduler, form, mount, sent, Page>>

SaveFails(c) ==
    /\ c \in calls /\ c.got = "refused" /\ calls' = calls \ {c}
    /\ UNCHANGED <<db, used, Scheduler, list, form, mount, icon, sent, Page, disturbed>>

-----------------------------------------------------------------------------
(* The page.  Its dialog is made for the first reminder that is clicked,   *)
(* and stays when it closes.                                               *)

OpenDialog(r) ==
    /\ r \in rows /\ ~dialog.open
    /\ dialog' = [dialog EXCEPT !.open = TRUE, !.for = {r}, !.title = IF dialog.for = {} THEN {r.title} ELSE @]
    /\ UNCHANGED <<db, used, Scheduler, Panel, rows, edits, disturbed>>

setTitle(r) ==
    /\ dialog.open /\ dialog.for = {r} /\ dialog.title # {[of |-> r.id, edit |-> 1]}
    /\ dialog' = [dialog EXCEPT !.title = {[of |-> r.id, edit |-> 1]}]
    /\ UNCHANGED <<db, used, Scheduler, Panel, rows, edits, disturbed>>

onOpenChange ==
    /\ dialog.open /\ dialog.save = "none" /\ dialog' = [dialog EXCEPT !.open = FALSE]
    /\ UNCHANGED <<db, used, Scheduler, Panel, rows, edits, disturbed>>

\* The save sends the schedule the row was loaded with.
SaveDialog(r, t) ==
    /\ dialog.open /\ dialog.save = "none" /\ dialog.for = {r} /\ dialog.title = {t} /\ sent + edits < MaxSaves
    /\ edits' = edits + 1
    /\ LET new == [r EXCEPT !.title = t]
           ok  == Stored(r.id) # {} /\ applyRequest(new)
       IN /\ db' = IF ok THEN Put(db, new) ELSE db
          /\ disturbed' = (disturbed \/ ok)
          /\ dialog' = [dialog EXCEPT !.save = IF ok THEN "ok" ELSE "refused"]
    /\ UNCHANGED <<used, Scheduler, Panel, rows>>

handleSaved(r, t) ==
    /\ dialog.save = "ok" /\ dialog.for = {r} /\ dialog.title = {t}
    /\ rows' = Put(rows, [r EXCEPT !.title = t])
    /\ dialog' = [dialog EXCEPT !.open = FALSE, !.save = "none"]
    /\ UNCHANGED <<db, used, Scheduler, Panel, edits, disturbed>>

\* The dialog stays open, with the error.
NotSaved ==
    /\ dialog.save = "refused" /\ dialog' = [dialog EXCEPT !.save = "none"]
    /\ UNCHANGED <<db, used, Scheduler, Panel, rows, edits, disturbed>>

Next ==
    \/ Tick \/ processReminders \/ \E r \in due : processReminder(r)
    \/ ListLoaded \/ ListFails \/ toggleReminder \/ onCancel
    \/ \E f \in Ids \cup {"new"} : OpenForm(f)
    \/ \E at \in Moments : handleSave(at)
    \/ Shown /\ \E r \in list : handleDelete(r)
    \/ \E c \in calls : Commit(c) \/ handleCreated(c) \/ handleUpdated(c) \/ handleDeleted(c) \/ SaveFails(c)
    \/ \E r \in rows : OpenDialog(r) \/ setTitle(r)
    \/ \E r \in dialog.for, t \in dialog.title : SaveDialog(r, t) \/ handleSaved(r, t)
    \/ onOpenChange \/ NotSaved

Spec == Init /\ [][Next]_vars

-----------------------------------------------------------------------------
TypeOK ==
    /\ {now, looked} \subseteq 1 .. 2 * LastTick + 1 /\ db \subseteq Reminders /\ used \subseteq Ids /\ due \subseteq Reminders
    /\ notified \subseteq Ids \X Moments /\ twice \in BOOLEAN
    /\ list \subseteq Reminders
    /\ form \in Ids \cup {"none", "new"} /\ mount \in [n: 1 .. 2, open: BOOLEAN, loaded: BOOLEAN] /\ icon \in BOOLEAN
    /\ \A c \in calls : c.r \in Reminders /\ c.op \in {"create", "update", "delete"} /\ c.got \in {"none", "ok", "refused"}
    /\ sent \in 0 .. MaxSaves /\ rows \subseteq Reminders /\ edits \in 0 .. MaxSaves
    /\ dialog.open \in BOOLEAN /\ dialog.for \subseteq Reminders /\ dialog.title \subseteq Titles
    /\ disturbed \in BOOLEAN

\* The scheduler, however late it processes what it found, and edits from a panel or a page that was loaded
\* long ago, never make two notifications of one occurrence.
NotifiedOnce == ~twice

\* When the panel's requests have ended it shows the backend's reminders, and the toolbar's icon tells if there
\* are any, whatever was created, edited, cancelled and closed meanwhile.
PanelFollows ==
    Shown /\ calls = {} /\ ~disturbed => list = db /\ icon = (db # {})

\* Each reminder is edited by itself: it has its own title, or one that was typed for it.
EditedIndependently == \A r \in db : r.title.of = r.id
=============================================================================
