--------------------------- MODULE ResearchTopics ---------------------------
(***************************************************************************)
(* The topics of a research cluster.  A request writes the status of a     *)
(* topic and, once it has committed, hands a task to the bounded pool that *)
(* asks the AI; the task writes the status again, in a transaction of its  *)
(* own, and tells the pages by an event.  Rows have no version: whoever    *)
(* writes one writes every column as it was read.                          *)
(***************************************************************************)
EXTENDS Naturals, Sequences, FiniteSets

CONSTANTS
    Topics,         \* topics
    FirstTopics,    \* those that are there, with bullets, at first
    Jobs, Requests, \* places for tasks of the pool and for requests
    CoreSize, MaxSize, QueueCapacity,  \* of the pool
    MaxSends,       \* requests of the user
    MaxFaults       \* restarts, statements that fail, connections that break

VARIABLES
    row,      \* topic -> the status in its row: "new" before, "gone" after
    outlined, \* topics whose content has bullets
    job,      \* place -> task
    waiting,  \* the pool's queue
    threads,  \* threads of the pool
    req,      \* place -> request
    list,     \* topic -> the cached status
    fetch,    \* the request for it: Idle, Asked, or the answer
    stream,   \* the page's event stream is open
    event,    \* an event is on its way
    sent, faults,
    lost,     \* history: topics whose busy status no task will end, as it was refused or died or was ended and written back
    missed    \* history: the page was not told of a change

vars == <<row, outlined, job, waiting, threads, req, list, fetch, stream, event, sent, faults, lost, missed>>

Busy == {"generating", "updating"}
Absent == {"new", "gone"}
Statuses == Busy \cup Absent \cup {"ready", "error"}
Kinds == {"create", "update", "updateAll", "delete", "expand"}
NoJob == [kind |-> "none", topic |-> "none", at |-> "none", to |-> "none", same |-> FALSE]
NoRequest == [for |-> "none", topics |-> {}, at |-> "none", read |-> "none", try |-> 1]
NotLoaded == [t \in Topics |-> "unknown"]
Idle == [at |-> "idle"]
Asked == [at |-> "asked"]

Rows == <<row, outlined>>
Pool == <<job, waiting, threads>>
Page == <<list, fetch, stream, event>>

Init ==
    /\ row = [t \in Topics |-> IF t \in FirstTopics THEN "ready" ELSE "new"] /\ outlined = FirstTopics
    /\ job = [j \in Jobs |-> NoJob] /\ waiting = <<>> /\ threads = 0
    /\ req = [q \in Requests |-> NoRequest]
    /\ list = NotLoaded /\ fetch = Asked /\ stream = FALSE /\ event = FALSE
    /\ sent = 0 /\ faults = 0 /\ lost = {} /\ missed = FALSE

\* A change that no event and no answer will tell the page of, or that its first fetch has already passed.
Untold(untold) == missed' = (missed \/ untold \/ (list = NotLoaded /\ fetch.at = "read"))

Fault == faults < MaxFaults /\ faults' = faults + 1

-----------------------------------------------------------------------------
(* The pool.                                                               *)

Running == {j \in Jobs : job[j].at \notin {"none", "queued"}}
Accepts == threads < CoreSize \/ Len(waiting) < QueueCapacity \/ threads < MaxSize

\* Threads up to the core size, then the queue, then threads up to the maximum; one above the core size, that
\* ends when it had nothing to do for a minute, stays here.
execute(kind, t) ==
    LET runs == threads < CoreSize \/ Len(waiting) >= QueueCapacity
        free == {j \in Jobs : job[j].at = "none"}
        j == CHOOSE k \in free : TRUE IN
    /\ Accepts /\ free # {}
    /\ job' = [job EXCEPT ![j] = [kind |-> kind, topic |-> t, at |-> IF runs THEN "started" ELSE "queued", to |-> "none", same |-> FALSE]]
    /\ threads' = IF runs THEN threads + 1 ELSE threads
    /\ waiting' = IF runs THEN waiting ELSE Append(waiting, j)

Take ==
    /\ waiting # <<>> /\ Cardinality(Running) < threads
    /\ job' = [job EXCEPT ![Head(waiting)].at = "started"]
    /\ waiting' = Tail(waiting)
    /\ UNCHANGED <<Rows, threads, req, Page, sent, faults, lost, missed>>

\* Research goals and link suggestions go the same way.
OtherTask ==
    /\ sent < MaxSends /\ sent' = sent + 1
    /\ execute("other", "none")
    /\ UNCHANGED <<Rows, req, Page, faults, lost, missed>>

OtherEnds(j) ==
    /\ job[j].kind = "other" /\ job[j].at = "started"
    /\ job' = [job EXCEPT ![j] = NoJob]
    /\ UNCHANGED <<Rows, waiting, threads, req, Page, sent, faults, lost, missed>>

-----------------------------------------------------------------------------
(* The tasks: generateTopicAsync and updateTopicAsync.                     *)

ReadTopic(j) ==
    /\ job[j].kind # "other" /\ job[j].at = "started"
    /\ job' = [job EXCEPT ![j] = IF row[job[j].topic] = "gone" THEN NoJob ELSE [@ EXCEPT !.at = "calling"]]
    /\ UNCHANGED <<Rows, waiting, threads, req, Page, sent, faults, lost, missed>>
\* Mutant: an exception of the AI is only logged.
AiAnswersOrNot(j, to) ==
    /\ job[j].at = "calling"
    /\ job' = [job EXCEPT ![j] = IF row[@.topic] = "gone" \/ to = "error" THEN [@ EXCEPT !.at = "emitting"]
                                 ELSE [@ EXCEPT !.at = "saving", !.to = to, !.same = row[job[j].topic] = to]]
    /\ UNCHANGED <<Rows, waiting, threads, req, Page, sent, faults, lost, missed>>

\* The AI answers or fails, and the last transaction reads the row.
AiAnswers(j, to) ==
    /\ job[j].at = "calling"
    /\ job' = [job EXCEPT ![j] = IF row[@.topic] = "gone" THEN [@ EXCEPT !.at = "emitting"]
                                 ELSE [@ EXCEPT !.at = "saving", !.to = to, !.same = row[job[j].topic] = to]]
    /\ UNCHANGED <<Rows, waiting, threads, req, Page, sent, faults, lost, missed>>

\* Its commit, for which there is nothing to write when the row it read says the same; a topic that was deleted
\* meanwhile makes the task fail.
Save(j) ==
    LET t == job[j].topic IN
    /\ job[j].at = "saving"
    /\ \/ /\ job[j].same
          /\ job' = [job EXCEPT ![j].at = "emitting"] /\ UNCHANGED <<Rows, lost, missed>>
       \/ /\ row[t] = "gone" /\ ~(job[j].same /\ job[j].to = "error")
          /\ job' = [job EXCEPT ![j] = NoJob] /\ UNCHANGED <<Rows, lost, missed>>
       \/ /\ row[t] # "gone" /\ ~(job[j].same /\ job[j].to = "error")
          /\ row' = [row EXCEPT ![t] = job[j].to] /\ lost' = lost \ {t}
          /\ outlined' \in {outlined} \cup IF job[j].kind = "generate" /\ job[j].to = "ready" THEN {outlined \cup {t}} ELSE {}
          /\ job' = [job EXCEPT ![j].at = "emitting"]
          /\ Untold(FALSE)
    /\ UNCHANGED <<waiting, threads, req, Page, sent, faults>>

\* The answer has a completeness that is unknown, or the statement fails: nothing takes the topic out of its status.
SaveFails(j) ==
    /\ job[j].at = "saving" /\ Fault
    /\ job' = [job EXCEPT ![j] = NoJob]
    /\ lost' = lost \cup {job[j].topic}
    /\ UNCHANGED <<Rows, waiting, threads, req, Page, sent, missed>>

\* To the streams that are open.
emit(j) ==
    /\ job[j].at = "emitting"
    /\ job' = [job EXCEPT ![j] = NoJob]
    /\ event' = (event \/ stream)
    /\ Untold(~stream)
    /\ UNCHANGED <<Rows, waiting, threads, req, list, fetch, stream, sent, faults, lost>>

-----------------------------------------------------------------------------
(* Requests in the backend.                                                *)

Put(q, r) == req' = [req EXCEPT ![q] = r]
Ends(q, how) == Put(q, [req[q] EXCEPT !.at = how])

\* Read of the rows, whose absence is refused.
Begin(q) ==
    LET r == req[q]
        ready == {t \in Topics : row[t] = "ready"} IN
    /\ r.at = "sent"
    /\ CASE r.for = "updateAll" -> Put(q, [r EXCEPT !.topics = ready, !.at = IF ready = {} THEN "ok" ELSE "open"])
         [] r.for = "create"    -> Put(q, [r EXCEPT !.at = "open"])
         [] OTHER -> \E t \in r.topics :
                       Put(q, [r EXCEPT !.at = IF row[t] = "gone" THEN "refused" ELSE IF r.for = "expand" THEN "asking" ELSE "open",
                                        !.read = IF r.for = "update" THEN row[t] ELSE @])
    /\ UNCHANGED <<Rows, Pool, Page, sent, faults, lost, missed>>

\* expandBullet asks the AI itself, and reads the topic again after it.
Expanded(q, answered) ==
    LET r == req[q] IN
    /\ r.at = "asking"
    /\ \E t \in r.topics :
         IF answered /\ row[t] # "gone" THEN Put(q, [r EXCEPT !.at = "open", !.read = row[t]]) ELSE Ends(q, "refused")
    /\ UNCHANGED <<Rows, Pool, Page, sent, faults, lost, missed>>

\* What each operation writes.
Written(r, t) ==
    CASE r.for = "create" -> "generating"
      [] r.for \in {"update", "updateAll"} -> "updating"
      [] r.for = "delete" -> "gone"
      [] r.for = "expand" -> r.read

\* An update of a topic that is being updated has nothing to write, and goes on to its task.
Unwritten(r) == r.for = "update" /\ r.read = "updating"

\* An expansion writes the status back that it read.
WritesBack(r, t) == r.for = "expand" /\ r.read \in Busy /\ row[t] \notin Busy

Commit(q) ==
    LET r == req[q] IN
    /\ r.at = "open"
    /\ IF ~Unwritten(r) /\ \E t \in r.topics : row[t] = "gone"
       THEN Ends(q, "broken") /\ UNCHANGED <<row, lost, missed>>
       ELSE /\ row' = [t \in Topics |-> IF t \in r.topics /\ ~Unwritten(r) THEN Written(r, t) ELSE row[t]]
            /\ lost' = IF r.for = "expand" THEN lost \cup {t \in r.topics : WritesBack(r, t)} ELSE lost \ r.topics
            /\ Ends(q, IF r.for \in {"delete", "expand"} THEN "ok" ELSE "submitting")
            /\ Untold(FALSE)
    /\ UNCHANGED <<outlined, Pool, Page, sent, faults>>

\* afterCommit, for each topic.
Submit(q, t) ==
    LET r == req[q] IN
    /\ r.at = "submitting" /\ t \in r.topics
    /\ execute(IF r.for = "create" THEN "generate" ELSE "update", t)
    /\ Put(q, [r EXCEPT !.topics = @ \ {t}, !.at = IF r.topics = {t} THEN "ok" ELSE @])
    /\ UNCHANGED <<Rows, Page, sent, faults, lost, missed>>

\* The pool refuses a task, and the topics that are left have none.
Rejected(q) ==
    /\ req[q].at = "submitting" /\ ~Accepts
    /\ Ends(q, "broken")
    /\ lost' = lost \cup req[q].topics
    /\ missed' = TRUE
    /\ UNCHANGED <<Rows, Pool, Page, sent, faults>>

\* Tasks, transactions and streams end with the process.
Restart ==
    /\ Fault
    /\ job' = [j \in Jobs |-> NoJob] /\ waiting' = <<>> /\ threads' = 0
    /\ req' = [q \in Requests |-> IF req[q].at \in {"none", "ok", "refused", "broken"} THEN req[q]
                                  ELSE [req[q] EXCEPT !.at = "broken"]]
    /\ stream' = FALSE /\ event' = FALSE
    /\ lost' = {t \in Topics : row[t] \in Busy}
    /\ missed' = TRUE
    /\ UNCHANGED <<Rows, list, fetch, sent>>

-----------------------------------------------------------------------------
(* The page.  It sends what it offers until it shows what became of it, so *)
(* that its requests overlap as those of two tabs do.                      *)

Fetchable(t) == IF row[t] \in Absent THEN "none" ELSE row[t]

\* A fetch that is under way starts again, unless it is the first one.
invalidateQueries == fetch' = IF list = NotLoaded THEN fetch ELSE Asked

ListTopics ==
    /\ fetch = Asked
    /\ fetch' = [at |-> "read", list |-> [t \in Topics |-> Fetchable(t)]]
    /\ missed' = FALSE
    /\ UNCHANGED <<Rows, Pool, req, list, stream, event, sent, faults, lost>>

Fetched ==
    /\ fetch.at = "read"
    /\ list' = fetch.list /\ fetch' = Idle
    /\ UNCHANGED <<Rows, Pool, req, stream, event, sent, faults, lost, missed>>

Connect ==
    /\ ~stream /\ stream' = TRUE
    /\ UNCHANGED <<Rows, Pool, req, list, fetch, event, sent, faults, lost, missed>>

\* Its emitter times out after five minutes, and the browser connects again.
StreamEnds ==
    /\ stream /\ stream' = FALSE /\ event' = FALSE /\ Fault
    /\ missed' = (missed \/ event)
    /\ UNCHANGED <<Rows, Pool, req, list, fetch, sent, lost>>
\* Mutant: the list that is shown is kept.
handleEventOnce ==
    /\ event /\ event' = FALSE
    /\ fetch' = IF list = NotLoaded \/ fetch # Idle THEN fetch ELSE Asked
    /\ UNCHANGED <<Rows, Pool, req, list, stream, sent, faults, lost, missed>>

handleEvent ==
    /\ event /\ event' = FALSE
    /\ invalidateQueries
    /\ UNCHANGED <<Rows, Pool, req, list, stream, sent, faults, lost, missed>>

Send(for, topics) ==
    LET free == {q \in Requests : req[q].at = "none"} IN
    /\ free # {}
    /\ req' = [req EXCEPT ![CHOOSE q \in free : TRUE] = [NoRequest EXCEPT !.for = for, !.topics = topics, !.at = "sent"]]
    /\ sent < MaxSends /\ sent' = sent + 1
    /\ UNCHANGED <<Rows, Pool, Page, faults, lost, missed>>

\* A topic that no request has yet.
Unused == {t \in Topics : row[t] = "new" /\ ~\E q \in Requests : t \in req[q].topics}

handleCreate == \E t \in Unused : Send("create", {t})

\* What the cards and the header offer for the statuses they show.
Offered(for, t) ==
    CASE for \in {"update", "delete"} -> list[t] \in {"ready", "error"}
      [] for = "expand" -> list[t] \in {"ready", "error", "updating"} /\ t \in outlined
      [] OTHER -> FALSE

handleTopic(for, t) == Offered(for, t) /\ Send(for, {t})

handleUpdateAll == (\E t \in Topics : list[t] = "ready") /\ Send("updateAll", {})

\* Only success invalidates the list.
Answered(q) ==
    /\ req[q].at \in {"ok", "refused"} \/ (req[q].at = "broken" /\ req[q].try = 2)
    /\ Put(q, NoRequest)
    /\ IF req[q].at = "ok" THEN invalidateQueries ELSE UNCHANGED fetch
    /\ UNCHANGED <<Rows, Pool, list, stream, event, sent, faults, lost, missed>>

\* What is sent the second time is a request like the first: a creation makes another topic.
Again(q) == IF req[q].for = "create" THEN {{t} : t \in Unused} ELSE {req[q].topics}

\* A server error is answered by sending the request once more.
Retry(q) ==
    /\ req[q].at = "broken" /\ req[q].try = 1
    /\ \E topics \in Again(q) : Put(q, [req[q] EXCEPT !.at = "sent", !.topics = topics, !.read = "none", !.try = 2])
    /\ UNCHANGED <<Rows, Pool, Page, sent, faults, lost, missed>>

Next ==
    \/ Take \/ OtherTask
    \/ \E j \in Jobs :
         \/ OtherEnds(j) \/ ReadTopic(j) \/ Save(j) \/ SaveFails(j) \/ emit(j)
         \/ \E to \in {"ready", "error"} : AiAnswers(j, to)
    \/ \E q \in Requests :
         \/ Begin(q) \/ Commit(q) \/ Rejected(q) \/ Answered(q) \/ Retry(q)
         \/ \E yes \in BOOLEAN : Expanded(q, yes)
         \/ \E t \in Topics : Submit(q, t)
    \/ Restart
    \/ ListTopics \/ Fetched \/ Connect \/ StreamEnds \/ handleEvent
    \/ handleCreate
    \/ \E t \in Topics, for \in {"update", "delete", "expand"} : handleTopic(for, t)
    \/ handleUpdateAll

Spec == Init /\ [][Next]_vars

-----------------------------------------------------------------------------
TypeOK ==
    /\ row \in [Topics -> Statuses] /\ outlined \subseteq Topics
    /\ job \in [Jobs -> [kind: {"none", "generate", "update", "other"}, topic: Topics \cup {"none"},
                         at: {"none", "queued", "started", "calling", "saving", "emitting"},
                         to: {"none", "ready", "error"}, same: BOOLEAN]]
    /\ waiting \in Seq(Jobs) /\ threads \in 0 .. MaxSize
    /\ req \in [Requests -> [for: Kinds \cup {"none"}, topics: SUBSET Topics,
                             at: {"none", "sent", "open", "asking", "submitting", "ok", "refused", "broken"},
                             read: Statuses \cup {"none"}, try: {1, 2}]]
    /\ list \in [Topics -> Statuses \cup {"unknown", "none"}] /\ fetch.at \in {"idle", "asked", "read"}
    /\ stream \in BOOLEAN /\ event \in BOOLEAN /\ missed \in BOOLEAN /\ lost \subseteq Topics
    /\ sent \in 0 .. MaxSends /\ faults \in 0 .. MaxFaults

\* A task that will write a status.
WillWrite(task) ==
    /\ task.kind # "other"
    /\ task.at \in {"queued", "started", "calling"} \/ (task.at = "saving" /\ ~task.same)

\* It is in the pool, or about to be.
Coming(t) ==
    \/ \E j \in Jobs : job[j].topic = t /\ WillWrite(job[j])
    \/ \E q \in Requests : req[q].at = "submitting" /\ t \in req[q].topics

\* Updates, expansions, deletions and retries that overlap with each other and with the pool leave no topic
\* generating or updating for good: a task is coming that writes its status, unless one was refused, died or
\* failed to save, or an expansion wrote the status back that the task had ended.
StatusOwed == \A t \in Topics : row[t] \in Busy => Coming(t) \/ t \in lost

\* Whatever is answered, emitted and fetched in whichever order, the page has the stored statuses once its
\* requests, fetches and events have arrived, when no change passed it by.
TopicsFollow ==
    list # NotLoaded /\ fetch = Idle /\ ~event /\ ~missed
      /\ (\A q \in Requests : req[q] = NoRequest) /\ (\A j \in Jobs : job[j].at # "emitting") =>
    \A t \in Topics : list[t] = Fetchable(t)
=============================================================================
