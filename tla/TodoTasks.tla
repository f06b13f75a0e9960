----------------------------- MODULE TodoTasks -----------------------------
(***************************************************************************)
(* Tasks, with what the four views of them show: the list of their         *)
(* cluster, the overview page, the editor on a task's own page, and the    *)
(* panel beside a note the tasks are linked to.  A view asks for what it   *)
(* shows when it opens; what it changes, it tells some of the others'      *)
(* cached queries.  The backend keeps a daily reminder with each task that *)
(* is due and not completed.                                               *)
(***************************************************************************)
EXTENDS Naturals, FiniteSets

CONSTANTS
    Ids,        \* tasks
    First,      \* the tasks there are at first
    MaxSteps    \* views that are opened, and requests of them

VARIABLES
    db,         \* task -> its metadata
    linked,     \* tasks linked to the note of the panel
    reminders,  \* task -> its active system reminders
    view,       \* the view that is open
    views,      \* how many were opened
    cached,     \* query -> what it has of all tasks, or NotLoaded
    stale,      \* queries that were invalidated while no view showed them
    fetch,      \* query -> its request: Idle, Asked, or the answer
    hidden,     \* completed tasks are not shown
    calls,      \* requests of the views
    sent,       \* how many there were
    overlapped, \* history: tasks with two requests at once
    missed      \* history: queries that were not told of a change, or were told while their first or an unseen fetch ran

vars == <<db, linked, reminders, view, views, cached, stale, fetch, hidden, calls, sent, overlapped, missed>>

Absent == [there |-> FALSE, due |-> 0, done |-> FALSE, pri |-> "none"]
Metas == [there: BOOLEAN, due: {0, 1}, done: BOOLEAN, pri: {"none", "normal", "critical"}]
New == [there |-> TRUE, due |-> 0, done |-> FALSE, pri |-> "normal"]
NotLoaded == [t \in Ids |-> [Absent EXCEPT !.pri = "not loaded"]]
Idle == [at |-> "idle"]
Asked == [at |-> "asked"]

\* useTodoClusterMetadata, useAllTasks, useTodoMetadata of a task, and the panel's own state.
Keys == {"cluster", "all", "panel"} \cup Ids
Views == Keys
Backend == <<db, linked, reminders>>
Cache == <<cached, stale, fetch>>

Init ==
    /\ db = [t \in Ids |-> IF t \in First THEN New ELSE Absent]
    /\ linked = First /\ reminders = [t \in Ids |-> 0]
    /\ view = "cluster" /\ views = 1 /\ hidden = TRUE
    /\ cached = [k \in Keys |-> NotLoaded] /\ stale = {}
    /\ fetch = [k \in Keys |-> IF k = "cluster" THEN Asked ELSE Idle]
    /\ calls = {} /\ sent = 0 /\ overlapped = {} /\ missed = {}

-----------------------------------------------------------------------------
(* Queries.                                                                *)

\* The panel asks again whenever it opens, the others when they have no data or it was invalidated.
OpenView(v) ==
    /\ v # view /\ views + sent < MaxSteps
    /\ v \in Ids => db[v].there
    /\ view' = v /\ views' = views + 1
    /\ fetch' = [k \in Keys |->
                   IF k = "panel" THEN IF v = k THEN Asked ELSE Idle
                   ELSE IF k = v /\ fetch[k] = Idle /\ (cached[k] = NotLoaded \/ k \in stale) THEN Asked
                   ELSE fetch[k]]
    /\ cached' = [cached EXCEPT !["panel"] = NotLoaded]
    /\ missed' = IF v = "panel" THEN missed \ {v} ELSE missed
    /\ UNCHANGED <<Backend, stale, hidden, calls, sent, overlapped>>

\* The metadata of one task is made when it is asked for and there is none.
Read(k) ==
    /\ fetch[k] = Asked
    /\ db' = IF k \in Ids /\ db[k].pri = "none" THEN [db EXCEPT ![k].pri = "normal"] ELSE db
    /\ missed' = IF db' = db THEN missed ELSE missed \cup (Keys \ {k})
    /\ fetch' = [fetch EXCEPT ![k] = [at |-> "read", db |-> db']]
    /\ UNCHANGED <<linked, reminders, view, views, cached, stale, hidden, calls, sent, overlapped>>

Fetched(k) ==
    /\ fetch[k].at = "read"
    /\ fetch' = [fetch EXCEPT ![k] = Idle]
    /\ cached' = [cached EXCEPT ![k] = fetch[k].db]
    /\ stale' = stale \ {k}
    /\ UNCHANGED <<Backend, view, views, hidden, calls, sent, overlapped, missed>>
\* Mutant: only the query that is shown is told.
invalidateShown(keys) ==
    /\ fetch' = IF view \in keys THEN [fetch EXCEPT ![view] = Asked] ELSE fetch
    /\ UNCHANGED stale

\* The query that is shown starts again, unless its first answer is on its way; the others wait for a view.
invalidateQueries(keys) ==
    /\ fetch' = IF view \in keys /\ (cached[view] # NotLoaded \/ fetch[view] = Idle)
                THEN [fetch EXCEPT ![view] = Asked] ELSE fetch
    /\ stale' = stale \cup (keys \ {view})

Untold(keys) == {k \in Keys : k \notin keys \/ (fetch[k] # Idle /\ (k # view \/ cached[k] = NotLoaded))}

-----------------------------------------------------------------------------
(* What the views ask for.                                                 *)

\* The tasks a view has rows for.  The list and the overview leave out what is completed; the panel has a row
\* for every link, also to a task that was deleted; what has no metadata is not in the overview.
visible ==
    {t \in Ids : /\ cached[view] # NotLoaded
                 /\ IF view = "panel" THEN t \in linked ELSE cached[view][t].there
                 /\ view \in Ids => t = view
                 /\ view = "all" => cached[view][t].pri # "none"
                 /\ view \in {"cluster", "all"} => ~(hidden /\ cached[view][t].done)}

toggleCompleted ==
    /\ view \in {"cluster", "all"} /\ hidden' = ~hidden
    /\ UNCHANGED <<Backend, view, views, Cache, calls, sent, overlapped, missed>>


Send(t, field, val) ==
    /\ views + sent < MaxSteps /\ sent' = sent + 1
    /\ calls' = calls \cup {[t |-> t, field |-> field, val |-> val, from |-> view, n |-> sent, got |-> "none", meta |-> Absent]}
    /\ overlapped' = IF \E c \in calls : c.t = t THEN overlapped \cup {t} ELSE overlapped
    /\ UNCHANGED <<Backend, view, views, Cache, hidden, missed>>

\* A click asks for the opposite of what is shown.
handleToggleComplete(t) ==
    t \in visible /\ Send(t, "done", IF cached[view][t].done THEN 0 ELSE 1)

\* The editor and the panel also have fields for the date and the priority.
onUpdateDue(t, due) ==
    t \in visible /\ view \notin {"cluster", "all"} /\ cached[view][t].due # due /\ Send(t, "due", due)

onUpdatePriority(t) ==
    t \in visible /\ view \notin {"cluster", "all"} /\ Send(t, "pri", IF cached[view][t].pri = "normal" THEN 1 ELSE 0)

handleDelete(t) ==
    t \in visible /\ view \in {"cluster", "panel"} /\ Send(t, "delete", 0)

\* The list makes a note, and then gives it a priority; the panel asks for a task.
handleQuickAdd(t) ==
    /\ view \in {"cluster", "panel"} /\ db[t] = Absent /\ ~\E c \in calls : c.field \in {"create", "setup"}
    /\ Send(t, "create", 0)

-----------------------------------------------------------------------------
(* The backend.                                                            *)

\* TodoMetadataService.update: a field that is null is left alone; metadata is made when there is none.
Patched(old, c) ==
    LET m == IF old.pri = "none" THEN [old EXCEPT !.pri = "normal"] ELSE old IN
    CASE c.field = "done" -> [m EXCEPT !.done = (c.val = 1)]
      [] c.field = "due" /\ c.val # 0 -> [m EXCEPT !.due = c.val]
      [] c.field = "pri" -> [m EXCEPT !.pri = IF c.val = 1 THEN "critical" ELSE "normal"]
      [] OTHER -> m

syncSystemReminder(m) == IF m.due = 0 \/ m.done THEN 0 ELSE 1

\* It finds tasks that were deleted, too.
Update(c) ==
    /\ c.got = "none" /\ c.field \in {"done", "due", "pri", "setup"}
    /\ LET new == Patched(db[c.t], c)
       IN \/ /\ calls' = (calls \ {c}) \cup {[c EXCEPT !.got = "ok", !.meta = new]}
             /\ db' = [db EXCEPT ![c.t] = new]
             /\ reminders' = [reminders EXCEPT ![c.t] = syncSystemReminder(new)]
          \/ /\ calls' = (calls \ {c}) \cup {[c EXCEPT !.got = "failed"]}
             /\ UNCHANGED <<db, reminders>>
    /\ UNCHANGED <<linked, view, views, Cache, hidden, sent, overlapped, missed>>

\* The note the list makes has no metadata yet.
CreateOrDelete(c) ==
    /\ c.got = "none" /\ c.field \in {"create", "delete"}
    /\ db' = [db EXCEPT ![c.t] = IF c.field = "delete" THEN [@ EXCEPT !.there = FALSE]
                                ELSE IF c.from = "panel" THEN New ELSE [New EXCEPT !.pri = "none"]]
    /\ linked' = IF c.field = "create" /\ c.from = "panel" THEN linked \cup {c.t} ELSE linked
    /\ calls' = (calls \ {c}) \cup {[c EXCEPT !.got = "ok"]}
    /\ UNCHANGED <<reminders, view, views, Cache, hidden, sent, overlapped, missed>>

-----------------------------------------------------------------------------
(* Answers.                                                                *)

\* Whom a view tells of a change.
Told(c) ==
    CASE c.from = "cluster" -> IF c.field = "done" THEN {"cluster", c.t} ELSE {"cluster"}
      [] c.from = "all"     -> {"cluster", "all", c.t}
      [] c.from = "panel"   -> {}
      [] OTHER              -> {"cluster"}

\* The editor and the panel put the answer in place of what they show.
Holder(c) == IF c.field = "delete" THEN {} ELSE IF c.from = "panel" THEN {c.from} \cap {view} ELSE {c.from} \cap {c.t}

Answered(c) ==
    /\ c.got = "ok" /\ c.field # "create" /\ calls' = calls \ {c}
    /\ invalidateQueries(Told(c))
    /\ cached' = [k \in Keys |->
                    IF k \in Holder(c) /\ cached[k] # NotLoaded THEN [cached[k] EXCEPT ![c.t] = c.meta] ELSE cached[k]]
    /\ missed' = missed \cup (Untold(Told(c)) \ {k \in Holder(c) : fetch[k] = Idle})
    /\ UNCHANGED <<Backend, view, views, hidden, sent, overlapped>>

\* The quick add of the list goes on; the panel's was one request.
Created(c) ==
    /\ c.got = "ok" /\ c.field = "create"
    /\ calls' = IF c.from = "panel" THEN calls \ {c}
                ELSE (calls \ {c}) \cup {[c EXCEPT !.field = "setup", !.got = "none"]}
    /\ LET told == IF c.from = "panel" THEN {"panel"} \cap {view} ELSE {"cluster"} IN
       /\ invalidateQueries(told)
       /\ missed' = missed \cup Untold(told)
    /\ UNCHANGED <<Backend, view, views, cached, hidden, sent, overlapped>>

Failed(c) ==
    /\ c.got = "failed" /\ calls' = calls \ {c}
    /\ UNCHANGED <<Backend, view, views, Cache, hidden, sent, overlapped, missed>>

Next ==
    \/ \E v \in Views : OpenView(v)
    \/ \E k \in Keys : Read(k) \/ Fetched(k)
    \/ toggleCompleted
    \/ \E t \in Ids : handleToggleComplete(t) \/ onUpdatePriority(t) \/ handleDelete(t) \/ handleQuickAdd(t)
    \/ \E t \in Ids, due \in {0, 1} : onUpdateDue(t, due)
    \/ \E c \in calls : Update(c) \/ CreateOrDelete(c) \/ Answered(c) \/ Created(c) \/ Failed(c)

Spec == Init /\ [][Next]_vars

-----------------------------------------------------------------------------
TypeOK ==
    /\ db \in [Ids -> Metas] /\ linked \subseteq Ids /\ reminders \in [Ids -> {0, 1}]
    /\ view \in Views /\ views \in 1 .. MaxSteps /\ hidden \in BOOLEAN
    /\ \A k \in Keys : cached[k] = NotLoaded \/ cached[k] \in [Ids -> Metas]
    /\ stale \subseteq Keys /\ \A k \in Keys : fetch[k].at \in {"idle", "asked", "read"}
    /\ \A c \in calls : c.t \in Ids /\ c.from \in Views /\ c.got \in {"none", "ok", "failed"}
    /\ sent \in 0 .. MaxSteps /\ overlapped \subseteq Ids /\ missed \subseteq Keys

\* What a view shows of a task: the list and the overview also that it is there.
Shown(m) == IF view \in {"cluster", "all"} THEN m ELSE <<m.due, m.done, m.pri>>

\* The open view shows what is stored of the tasks it has, once requests and fetches have ended, wherever the
\* changes were made and in whatever order views were opened meanwhile, unless its query was not told.
ViewFollows ==
    calls = {} /\ fetch[view] = Idle /\ view \notin missed =>
      \A t \in (CASE view = "panel" -> linked [] view \in Ids -> {view} [] OTHER -> Ids) \ overlapped :
        Shown(cached[view][t]) = Shown(db[t])

\* A date that is cleared takes the task's daily reminder with it.
DueCleared ==
    \A c \in calls : c.field = "due" /\ c.val = 0 /\ c.got = "ok" /\ c.t \notin overlapped => reminders[c.t] = 0
=============================================================================
