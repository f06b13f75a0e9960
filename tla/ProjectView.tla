---------------------------- MODULE ProjectView ----------------------------
(***************************************************************************)
(* The page of a project cluster: it shows the sandbox of the cluster,     *)
(* polls its status while it changes, shows the files of the sandbox (or,  *)
(* without one, of the hosted repository).  Commands change the            *)
(* repository; each invalidates the cached queries when it is answered.    *)
(***************************************************************************)
EXTENDS Integers, FiniteSets

CONSTANTS
    Files,
    MaxRevs,      \* commands that change the files
    MaxClones     \* sandboxes provisioned

VARIABLES
    box,       \* the sandbox in the backend
    rev,       \* the revision of its files
    clones,    \* sandboxes provisioned
    status,    \* the cached sandbox: "unknown", or what box was
    asking,    \* its request: Idle, Asked, or the answer on its way
    content,   \* file -> the cached revision of it in the sandbox, or NotLoaded
    stale,     \* files whose cached content is invalidated
    reading,   \* file -> its request: Idle, Asked, or the revision on its way
    calls,     \* commands in flight, and whether they are served
    path,      \* what is selected: a file, the folder, or nothing
    crossed    \* history: what a failed command, or a change during a first read, left behind

vars == <<box, rev, clones, status, asking, content, stale, reading, calls, path, crossed>>

None == "none"
Folder == "folder"
NotLoaded == -1
Idle == -1
Asked == -2
Boxes == {None, "cloning", "active", "error", "terminating"}
Ops == {"provision", "pull", "checkout", "terminate"}

Server == <<box, rev, clones>>
Cached == <<status, asking, content, stale, reading>>

Init ==
    /\ box = None /\ rev = 0 /\ clones = 0
    /\ status = "unknown" /\ asking = "asked"
    /\ content = [f \in Files |-> NotLoaded] /\ stale = {} /\ reading = [f \in Files |-> Idle]
    /\ calls = {} /\ path = None /\ crossed = {}

isSandboxActive == status = "active"

\* While the repository is cloned the three panels are not there.
PanelsShown == status # "cloning"
ViewerShows(f) == PanelsShown /\ path = f /\ (isSandboxActive => content[f] # NotLoaded)

\* The query of a file runs when the file is shown without a valid content.
Needed(f, s, p) == s = "active" /\ p = f /\ reading[f] = Idle /\ (content[f] = NotLoaded \/ f \in stale)

\* What the page does when its sandbox is s and p is selected.
Show(s, p) ==
    /\ status' = s /\ path' = p
    /\ reading' = [f \in Files |-> IF Needed(f, s, p) THEN Asked ELSE reading[f]]

-----------------------------------------------------------------------------
(* The status of the sandbox.                                              *)

StatusRead ==
    /\ asking = "asked" /\ asking' = box
    /\ UNCHANGED <<Server, status, content, stale, reading, calls, path, crossed>>

StatusFetched ==
    /\ asking \in Boxes
    /\ Show(asking, path) /\ asking' = "idle"
    /\ UNCHANGED <<Server, content, stale, calls, crossed>>

\* Every 3 s while the sandbox changes.
refetchInterval ==
    /\ status \in {"cloning", "terminating"} /\ asking = "idle"
    /\ asking' = "asked"
    /\ UNCHANGED <<Server, status, content, stale, reading, calls, path, crossed>>

CloneEnds ==
    /\ box = "cloning" /\ box' \in {"active", "error"}
    /\ UNCHANGED <<rev, clones, Cached, calls, path, crossed>>

-----------------------------------------------------------------------------
(* The content of a file.                                                  *)

FileRead(f) ==
    /\ reading[f] = Asked /\ box = "active"
    /\ reading' = [reading EXCEPT ![f] = rev]
    /\ UNCHANGED <<Server, status, asking, content, stale, calls, path, crossed>>

FileFetched(f) ==
    /\ reading[f] >= 0
    /\ content' = [content EXCEPT ![f] = reading[f]]
    /\ stale' = stale \ {f} /\ reading' = [reading EXCEPT ![f] = Idle]
    /\ UNCHANGED <<Server, status, asking, calls, path, crossed>>

\* The sandbox is not active any more.
FileRefused(f) ==
    /\ reading[f] = Asked /\ box # "active"
    /\ reading' = [reading EXCEPT ![f] = Idle]
    /\ crossed' = crossed \cup {f}
    /\ UNCHANGED <<Server, status, asking, content, stale, calls, path>>

-----------------------------------------------------------------------------
(* Commands.  Pull and terminate disable each other; the branch selector   *)
(* and the provision dialog are busy for themselves.                       *)

Busy(op) == \E c \in calls : c.op = op

Offered(op) ==
    CASE op = "provision" -> status \in {None, "unknown"} /\ ~Busy("provision") /\ clones < MaxClones
      [] op = "pull"      -> isSandboxActive /\ ~Busy("pull") /\ ~Busy("terminate")
      [] op = "checkout"  -> isSandboxActive /\ ~Busy("checkout")
      [] op = "terminate" -> status \in {"active", "error"} /\ ~Busy("pull") /\ ~Busy("terminate")

Send(op) ==
    /\ Offered(op)
    /\ op \in {"pull", "checkout"} => rev + Cardinality({c \in calls : c.op \in {"pull", "checkout"}}) < MaxRevs
    /\ calls' = calls \cup {[op |-> op, at |-> "sent"]}
    /\ UNCHANGED <<Server, Cached, path, crossed>>

handleProvision == Send("provision")
handlePull == Send("pull")
handleSelectBranch == Send("checkout")
handleTerminate == Send("terminate")

Answer(c, at) == calls' = (calls \ {c}) \cup {[c EXCEPT !.at = at]}

Refuse(c) ==
    /\ c.at = "sent"
    /\ CASE c.op = "provision" -> box # None
         [] c.op = "terminate" -> box \notin {"active", "error"}
         [] OTHER              -> box # "active"
    /\ Answer(c, "refused")
    /\ UNCHANGED <<Server, Cached, path, crossed>>

Change(c) ==
    /\ c.at = "sent" /\ c.op \in {"pull", "checkout"} /\ box = "active"
    /\ rev' = rev + 1
    /\ Answer(c, "done")
    /\ UNCHANGED <<box, clones, Cached, path, crossed>>

Provide(c) ==
    /\ c.at = "sent" /\ c.op = "provision" /\ box = None
    /\ box' = "cloning" /\ clones' = clones + 1
    /\ crossed' = IF status = "unknown" THEN crossed \cup {"status"} ELSE crossed
    /\ Answer(c, "done")
    /\ UNCHANGED <<rev, Cached, path>>

\* The status is written, the directory removed, then the row deleted.
BeginTerminate(c) ==
    /\ c.at = "sent" /\ c.op = "terminate" /\ box \in {"active", "error"}
    /\ box' = "terminating" /\ Answer(c, "removing")
    /\ UNCHANGED <<rev, clones, Cached, path, crossed>>

EndTerminate(c) ==
    /\ c.at = "removing"
    /\ box' = None /\ Answer(c, "done")
    /\ crossed' = crossed \cup {f \in Files : reading[f] # Idle}
    /\ UNCHANGED <<rev, clones, Cached, path>>

\* Mutants: the files that are shown are not fetched again; the status is not.
invalidateStatus(s) ==
    /\ asking' = "asked"
    /\ UNCHANGED <<stale, reading, crossed>>

invalidateFiles(s) ==
    /\ stale' = {f \in Files : content[f] # NotLoaded}
    /\ UNCHANGED <<asking, reading, crossed>>

\* Queries that are shown are fetched again; the others wait for it, and a first fetch, or the fetch of
\* a file that is not shown any more, goes on and makes its query valid again.
invalidateSandboxQueries(s) ==
    LET again(f) == s = "active" /\ path = f /\ content[f] # NotLoaded IN
    /\ asking' = IF status = "unknown" /\ asking # "idle" THEN asking ELSE "asked"
    /\ stale' = {f \in Files : content[f] # NotLoaded}
    /\ reading' = [f \in Files |-> IF again(f) THEN Asked ELSE reading[f]]
    /\ crossed' = crossed \cup {f \in Files : ~again(f) /\ reading[f] >= 0 /\ reading[f] # rev}

Answered(c) ==
    LET s == IF c.op = "terminate" THEN None ELSE status IN
    /\ c.at = "done"
    /\ calls' = calls \ {c}
    /\ status' = s
    /\ invalidateSandboxQueries(s)
    /\ UNCHANGED <<Server, content, path>>

\* The handler throws, and nothing is invalidated.
Throws(c) ==
    /\ c.at \in {"refused", "done"}
    /\ calls' = calls \ {c}
    /\ crossed' = IF c.at = "done" THEN crossed \cup Files \cup {"status"} ELSE crossed \cup {"status"}
    /\ UNCHANGED <<Server, Cached, path>>

-----------------------------------------------------------------------------
(* The selection.                                                          *)

Select(p) ==
    /\ PanelsShown /\ path # p
    /\ Show(status, p)
    /\ UNCHANGED <<Server, asking, content, stale, calls, crossed>>

handleSelectFile(f) == Select(f)
handleSelectFolder == Select(Folder)

Next ==
    \/ StatusRead \/ StatusFetched \/ refetchInterval \/ CloneEnds
    \/ \E f \in Files : FileRead(f) \/ FileFetched(f) \/ FileRefused(f) \/ handleSelectFile(f)
    \/ \E c \in calls : \/ Refuse(c) \/ Change(c) \/ Provide(c) \/ BeginTerminate(c)
                        \/ EndTerminate(c) \/ Answered(c) \/ Throws(c)
    \/ handleProvision \/ handlePull \/ handleSelectBranch \/ handleTerminate \/ handleSelectFolder

Spec == Init /\ [][Next]_vars

-----------------------------------------------------------------------------
TypeOK ==
    /\ box \in Boxes /\ rev \in 0 .. MaxRevs /\ clones \in 0 .. MaxClones
    /\ status \in Boxes \cup {"unknown"} /\ asking \in Boxes \cup {"idle", "asked"}
    /\ content \in [Files -> NotLoaded .. MaxRevs] /\ stale \subseteq Files
    /\ reading \in [Files -> Asked .. MaxRevs]
    /\ calls \subseteq [op: Ops, at: {"sent", "removing", "done", "refused"}]
    /\ path \in Files \cup {Folder, None} /\ crossed \subseteq Files \cup {"status"}

\* A file that is shown from the sandbox is at the sandbox's revision once commands and fetches have
\* ended, whichever commands overlapped, unless one of its reads could not be
\* started again by a command, or a command failed.
FileIsCurrent ==
    \A f \in Files \ crossed :
      ViewerShows(f) /\ isSandboxActive /\ calls = {} /\ reading[f] = Idle => content[f] = rev

\* The status on the page is the backend's, or it is going to be asked for.
StatusFollows ==
    asking = "idle" /\ calls = {} /\ "status" \notin crossed =>
      status = box \/ status \in {"cloning", "terminating"}
=============================================================================
