----------------------------- MODULE BrainTree -----------------------------
(***************************************************************************)
(* The sidebar with its one dialog for brains, clusters and thoughts, and  *)
(* the brain page with its description and its own cluster dialog, on one  *)
(* brain.  Every change is a request that is sent again once when the      *)
(* network fails, while the first attempt may still run in the backend;    *)
(* its answer invalidates the list the page has.  The backend keeps the    *)
(* lists of brains and of clusters too, and clears what it keeps after a   *)
(* change was committed, before the answer.                                *)
(***************************************************************************)
EXTENDS Integers, FiniteSets

CONSTANTS
    Modes,       \* what the user does with the sidebar's dialog
    Types,       \* the types of clusters the user creates
    MaxTyped,    \* edits of the description
    MaxSends     \* requests sent, and sent again

VARIABLES
    ver,        \* list -> its version in the backend
    desc,       \* the brain's description in the backend: 0 is none, n the n-th edit
    unique,     \* type -> clusters of a type that is to be unique
    memo,       \* list -> what the backend keeps of it, or Nothing
    evicting,   \* attempts that are committed, and have not cleared what is kept
    overtaken,  \* history: lists the backend keeps as they were before a change, with no answer to come
    cached,     \* list -> the version the page has, or NotLoaded
    cachedDesc, \* the description in the cached brain
    cachedTypes,\* the unique types in the cached clusters
    fetch,      \* list -> its request: Idle, Asked, loading in the backend, or the answer on its way
    late,       \* loads in the backend whose answer the page does not wait for any more
    dialog,     \* the sidebar's dialog
    creating,   \* the brain page's dialog: "closed", "open", or "busy"
    calls,      \* requests that are not answered
    txs,        \* attempts of them in the backend
    sent,       \* requests sent
    retries,    \* requests sent again
    text,       \* the description in the text area
    typed,      \* edits of the description
    timer,      \* the description that will be saved, or NoTimer
    crossed,    \* history: lists changed during their first fetch, by a request that failed, or
                \*   by an attempt that outlived its request
    overlapped  \* history: two saves of the brain overlapped or met a fetch, or one failed,
                \*   or the backend kept a description that was saved over

vars == <<ver, desc, unique, memo, evicting, overtaken, cached, cachedDesc, cachedTypes, fetch, late, dialog,
          creating, calls, txs, sent, retries, text, typed, timer, crossed, overlapped>>

NotLoaded == -1
Idle == [at |-> "idle"]
Asked == [at |-> "asked"]
NoTimer == -1
Nothing == [ver |-> NotLoaded, desc |-> 0, types |-> {}]
UniqueTypes == {"ai-research", "todo"}
AllModes == {"create-brain", "rename-brain", "create-cluster", "rename-cluster", "create-thought",
             "delete-cluster", "delete-thought"}

keyOf(mode) ==
    CASE mode \in {"create-brain", "rename-brain", "describe"} -> "brains"
      [] mode \in {"create-cluster", "page-cluster", "rename-cluster", "delete-cluster"} -> "clusters"
      [] OTHER -> "thoughts"

Keys == {keyOf(mode) : mode \in Modes \cup {"describe", "page-cluster"}}

\* CacheConfig; the list of thoughts is read from the database each time.
Memoized == {"brains", "clusters"}

\* What a dialog is for is set anew whenever it is opened.
Closed == [open |-> FALSE, mode |-> "create-brain", type |-> "knowledge"]

Backend == <<ver, desc, unique, memo, evicting, overtaken>>
Cache == <<cached, cachedDesc, cachedTypes, fetch, late>>
Page == <<dialog, creating, text, typed, timer>>

Init ==
    /\ ver = [k \in Keys |-> 0] /\ desc = 0 /\ unique = [t \in UniqueTypes |-> 0]
    /\ memo = [k \in Keys |-> Nothing] /\ evicting = {} /\ overtaken = {} /\ late = {}
    /\ cached = [k \in Keys |-> NotLoaded] /\ cachedDesc = 0 /\ cachedTypes = {}
    /\ fetch = [k \in Keys |-> Asked]
    /\ dialog = Closed
    /\ creating = "closed" /\ calls = {} /\ txs = {} /\ sent = 0 /\ retries = 0
    /\ text = 0 /\ typed = 0 /\ timer = NoTimer
    /\ crossed = {} /\ overlapped = FALSE

-----------------------------------------------------------------------------
(* Requests.  A call waits for one of its attempts.                        *)

\* The bound of the run: nothing is opened or typed that could not be submitted.
More == sent + retries < MaxSends

BrainCall(c) == c.mode \in {"rename-brain", "describe"}
Creates(c) == c.mode \in {"create-cluster", "page-cluster"} /\ c.type \in UniqueTypes

Send(mode, type, value) ==
    LET call == [id |-> sent, mode |-> mode, type |-> type, desc |-> value, tries |-> 1, got |-> "none"] IN
    /\ sent + retries < MaxSends /\ sent' = sent + 1 /\ UNCHANGED retries
    /\ calls' = calls \cup {call}
    /\ txs' = txs \cup {[call |-> call, try |-> 1, checked |-> FALSE]}
    /\ overlapped' = (overlapped \/ (/\ BrainCall(call)
                                    /\ \/ fetch["brains"] # Idle
                                       \/ \E c \in calls \cup {x.call : x \in txs} : BrainCall(c)))

\* The connection is lost, and the request is sent once more.
Retry(c) ==
    /\ c.tries = 1 /\ c.got = "none" /\ sent + retries < MaxSends
    /\ retries' = retries + 1
    /\ calls' = (calls \ {c}) \cup {[c EXCEPT !.tries = 2]}
    /\ txs' = txs \cup {[call |-> c, try |-> 2, checked |-> FALSE]}
    /\ overlapped' = (overlapped \/ BrainCall(c))
    /\ UNCHANGED <<Backend, Cache, Page, sent, crossed>>

\* validateUniqueType counts the clusters of the type before the new one is inserted.
Check(x) ==
    /\ ~x.checked /\ Creates(x.call)
    /\ txs' = IF unique[x.call.type] = 0 THEN (txs \ {x}) \cup {[x EXCEPT !.checked = TRUE]} ELSE txs \ {x}
    /\ calls' = IF unique[x.call.type] = 0 THEN calls
                ELSE {IF c.id = x.call.id /\ c.tries = x.try THEN [c EXCEPT !.got = "refused"] ELSE c : c \in calls}
    /\ UNCHANGED <<Backend, Cache, Page, sent, retries, crossed, overlapped>>
\* Mutant: without the index.
AllowedAlways(c) == TRUE

\* The partial unique index is on the research clusters alone; what was deleted is not found again.
Allowed(c) ==
    /\ Creates(c) /\ c.type = "ai-research" => unique[c.type] = 0
    /\ c.mode = "delete-cluster" /\ c.type \in UniqueTypes => unique[c.type] > 0

\* A rename sends no description, and the backend then stores none.
Commit(x) ==
    LET key == keyOf(x.call.mode) IN
    /\ x.checked \/ ~Creates(x.call)
    /\ txs' = txs \ {x}
    /\ IF Allowed(x.call)
       THEN /\ ver' = [ver EXCEPT ![key] = @ + 1]
            /\ desc' = IF BrainCall(x.call) THEN x.call.desc ELSE desc
            /\ unique' = [t \in UniqueTypes |->
                            IF t # x.call.type THEN unique[t]
                            ELSE IF Creates(x.call) THEN unique[t] + 1 ELSE unique[t] - 1]
            /\ evicting' = evicting \cup {x}
            /\ crossed' = IF cached[key] = NotLoaded \/ ~\E c \in calls : c.id = x.call.id
                          THEN crossed \cup {key} ELSE crossed
            /\ UNCHANGED <<memo, overtaken>>
       ELSE UNCHANGED <<Backend, crossed>>
    /\ calls' = {IF c.id = x.call.id /\ c.tries = x.try
                 THEN [c EXCEPT !.got = IF Allowed(x.call) THEN "ok" ELSE "refused"] ELSE c : c \in calls}
    /\ UNCHANGED <<Cache, Page, sent, retries, overlapped>>

\* Mutant: the change leaves what is kept.
KeepAll(x) ==
    /\ evicting' = evicting \ {x}
    /\ UNCHANGED <<ver, desc, unique, memo, overtaken, Cache, Page, calls, txs, sent, retries, crossed, overlapped>>

\* CacheEvict, after the transaction: then the attempt answers.
Evict(x) ==
    LET key == keyOf(x.call.mode) IN
    /\ evicting' = evicting \ {x}
    /\ memo' = [memo EXCEPT ![key] = Nothing]
    /\ overtaken' = IF \E c \in calls : c.id = x.call.id THEN overtaken \ {key} ELSE overtaken
    /\ UNCHANGED <<ver, desc, unique, Cache, Page, calls, txs, sent, retries, crossed, overlapped>>

-----------------------------------------------------------------------------
(* Cached lists.                                                           *)

\* A fetch that is under way starts again, unless it is the first one; the backend goes on loading.
invalidateQueries(key) ==
    LET again == cached[key] # NotLoaded \/ fetch[key] = Idle IN
    /\ fetch' = [fetch EXCEPT ![key] = IF again THEN Asked ELSE @]
    /\ late' = IF again /\ fetch[key].at = "loading" THEN late \cup {[key |-> key, list |-> fetch[key].list]}
               ELSE late

\* A list as the database has it.
Stored(key) ==
    [ver |-> ver[key], desc |-> IF key = "brains" THEN desc ELSE 0,
     types |-> IF key = "clusters" THEN {t \in UniqueTypes : unique[t] > 0} ELSE {}]

\* What is kept is the answer; a list that is not kept is read from the database.
Read(key) ==
    LET list == IF key \in Memoized THEN memo[key] ELSE Stored(key) IN
    /\ fetch[key] = Asked /\ list # Nothing
    /\ fetch' = [fetch EXCEPT ![key] = [at |-> "read", list |-> list]]
    /\ UNCHANGED <<Backend, cached, cachedDesc, cachedTypes, late, Page, calls, txs, sent, retries, crossed, overlapped>>

\* Nothing is kept, or it has expired.
Load(key) ==
    /\ key \in Memoized /\ fetch[key] = Asked
    /\ fetch' = [fetch EXCEPT ![key] = [at |-> "loading", list |-> Stored(key)]]
    /\ memo' = [memo EXCEPT ![key] = Nothing]
    /\ UNCHANGED <<ver, desc, unique, evicting, overtaken, cached, cachedDesc, cachedTypes, late, Page, calls, txs,
                   sent, retries, crossed, overlapped>>

\* Cacheable: what was loaded is kept, also when the list has changed since.
Keep(key, list) ==
    /\ memo' = [memo EXCEPT ![key] = list]
    /\ overtaken' = IF list.ver # ver[key] THEN overtaken \cup {key} ELSE overtaken
    /\ overlapped' = (overlapped \/ (key = "brains" /\ list.desc # desc))
    /\ UNCHANGED <<ver, desc, unique, evicting, cached, cachedDesc, cachedTypes, Page, calls, txs, sent, retries, crossed>>

Loaded(key) ==
    /\ fetch[key].at = "loading"
    /\ fetch' = [fetch EXCEPT ![key] = [at |-> "read", list |-> @.list]] /\ UNCHANGED late
    /\ Keep(key, fetch[key].list)

LoadedLate(load) ==
    /\ late' = late \ {load} /\ UNCHANGED fetch
    /\ Keep(load.key, load.list)

\* Mutant: the text area keeps what it shows.
FetchedQuietly(key) ==
    LET new == fetch[key].list IN
    /\ fetch[key].at = "read"
    /\ cached' = [cached EXCEPT ![key] = new.ver]
    /\ fetch' = [fetch EXCEPT ![key] = Idle]
    /\ cachedDesc' = IF key = "brains" THEN new.desc ELSE cachedDesc
    /\ cachedTypes' = IF key = "clusters" THEN new.types ELSE cachedTypes
    /\ UNCHANGED <<Backend, late, dialog, creating, text, typed, timer, calls, txs, sent, retries, crossed, overlapped>>

\* The effect of the brain page: a description that changed replaces what is typed.
Fetched(key) ==
    LET new == fetch[key].list IN
    /\ fetch[key].at = "read"
    /\ cached' = [cached EXCEPT ![key] = new.ver]
    /\ fetch' = [fetch EXCEPT ![key] = Idle]
    /\ IF key = "brains" /\ new.desc # cachedDesc
       THEN cachedDesc' = new.desc /\ text' = new.desc
       ELSE UNCHANGED <<cachedDesc, text>>
    /\ cachedTypes' = IF key = "clusters" THEN new.types ELSE cachedTypes
    /\ UNCHANGED <<Backend, late, dialog, creating, typed, timer, calls, txs, sent, retries, crossed, overlapped>>

-----------------------------------------------------------------------------
(* Answers.                                                                *)

\* The attempt it waited for has answered, another may not be done; whichever dialog is open by now closes.
Answered(c) ==
    /\ c.got = "ok" /\ ~\E x \in evicting : x.call.id = c.id /\ x.try = c.tries
    /\ crossed' = IF \E x \in evicting : x.call.id = c.id THEN crossed \cup {keyOf(c.mode)} ELSE crossed
    /\ calls' = calls \ {c}
    /\ invalidateQueries(keyOf(c.mode))
    /\ dialog' = IF c.mode \in {"create-brain", "rename-brain", "create-cluster", "rename-cluster", "create-thought"}
                 THEN Closed ELSE dialog
    /\ creating' = IF c.mode = "page-cluster" THEN "closed" ELSE creating
    /\ UNCHANGED <<Backend, cached, cachedDesc, cachedTypes, text, typed, timer, txs, sent, retries, overlapped>>

\* The handler throws: nothing is invalidated, whatever the attempts do.
Throws(c) ==
    /\ c.got = "refused" \/ c.tries = 2
    /\ calls' = calls \ {c}
    /\ creating' = IF c.mode = "page-cluster" /\ creating = "busy" THEN "open" ELSE creating
    /\ crossed' = IF c.got = "refused" /\ c.tries = 1 THEN crossed ELSE crossed \cup {keyOf(c.mode)}
    /\ overlapped' = (overlapped \/ BrainCall(c))
    /\ UNCHANGED <<Backend, Cache, dialog, text, typed, timer, txs, sent, retries>>

-----------------------------------------------------------------------------
(* The sidebar.                                                            *)

\* Above the brains; on the row of a brain; on the row of a cluster; and in the list of thoughts.
OfferedAbove(mode) == mode = "create-brain"
OfferedOnBrain(mode) == mode \in {"rename-brain", "create-cluster"} /\ cached[keyOf(mode)] # NotLoaded
OfferedOnCluster(mode) == mode \in {"rename-cluster", "delete-cluster"} /\ cached["clusters"] > 0
OfferedByThoughts(mode) ==
    \/ mode = "create-thought"
    \/ mode = "delete-thought" /\ cached["thoughts"] > 0

Offered(mode) ==
    /\ mode \in Modes
    /\ OfferedAbove(mode) \/ OfferedOnBrain(mode) \/ OfferedOnCluster(mode) \/ OfferedByThoughts(mode)

\* The dialogs are modal: while one is open, nothing behind it is clicked or typed into.
Behind == ~dialog.open /\ creating = "closed"

\* Only the dialog that creates a cluster has a type.
handleCreate(mode) ==
    /\ Behind /\ Offered(mode) /\ More
    /\ mode \in {"create-brain", "rename-brain", "create-cluster", "rename-cluster", "create-thought"}
    /\ dialog' = [open |-> TRUE, mode |-> mode, type |-> "knowledge"]
    /\ UNCHANGED <<Backend, Cache, creating, text, typed, timer, calls, txs, sent, retries, crossed, overlapped>>

\* There is one already, as far as the page knows.
hasAiResearch == "ai-research" \in cachedTypes

onTypeChange(type) ==
    /\ dialog.open /\ dialog.mode = "create-cluster" /\ type \in Types \ {"todo", dialog.type}
    /\ type = "ai-research" => ~hasAiResearch
    /\ dialog' = [dialog EXCEPT !.type = type]
    /\ UNCHANGED <<Backend, Cache, creating, text, typed, timer, calls, txs, sent, retries, crossed, overlapped>>

\* Nothing keeps the user from submitting again before the answer.
handleDialogSubmit ==
    /\ dialog.open
    /\ Send(dialog.mode, IF dialog.mode = "create-cluster" THEN dialog.type ELSE "knowledge", 0)
    /\ UNCHANGED <<Backend, Cache, Page, crossed>>

CloseDialog ==
    /\ dialog.open /\ dialog' = Closed
    /\ UNCHANGED <<Backend, Cache, creating, text, typed, timer, calls, txs, sent, retries, crossed, overlapped>>

\* One of the rows that are shown; a thought has no type.
onDelete(mode) ==
    /\ mode \in {"delete-cluster", "delete-thought"} /\ Offered(mode) /\ Behind
    /\ \E type \in IF mode = "delete-cluster" THEN cachedTypes \cup {"knowledge"} ELSE {"knowledge"} :
         Send(mode, type, 0)
    /\ UNCHANGED <<Backend, Cache, Page, crossed>>

-----------------------------------------------------------------------------
(* The brain page.                                                         *)

OpenCluster ==
    /\ Behind /\ More /\ creating' = "open"
    /\ UNCHANGED <<Backend, Cache, dialog, text, typed, timer, calls, txs, sent, retries, crossed, overlapped>>

\* Its dialog offers to-do lists too, and is busy until the answer.
handleSubmit(type) ==
    /\ creating = "open" /\ type \in Types
    /\ type \notin cachedTypes
    /\ creating' = "busy"
    /\ Send("page-cluster", type, 0)
    /\ UNCHANGED <<Backend, Cache, dialog, text, typed, timer, crossed>>

CancelCluster ==
    /\ creating # "closed" /\ creating' = "closed"
    /\ UNCHANGED <<Backend, Cache, dialog, text, typed, timer, calls, txs, sent, retries, crossed, overlapped>>

\* Each keystroke puts off the save.
handleDescriptionChange ==
    /\ typed < MaxTyped /\ More /\ Behind /\ cached["brains"] # NotLoaded
    /\ typed' = typed + 1 /\ text' = typed' /\ timer' = typed'
    /\ UNCHANGED <<Backend, Cache, dialog, creating, calls, txs, sent, retries, crossed, overlapped>>

saveDescription ==
    /\ timer # NoTimer
    /\ timer' = NoTimer
    /\ Send("describe", "knowledge", timer)
    /\ UNCHANGED <<Backend, Cache, dialog, creating, text, typed, crossed>>

Runs ==
    \/ \E c \in calls : Answered(c) \/ Throws(c)
    \/ \E x \in txs : Check(x) \/ Commit(x)
    \/ \E x \in evicting : Evict(x)
    \/ \E k \in Keys : Read(k) \/ Load(k) \/ Loaded(k) \/ Fetched(k)
    \/ \E load \in late : LoadedLate(load)
    \/ saveDescription

Next ==
    \/ Runs \/ \E c \in calls : Retry(c)
    \/ \E mode \in AllModes : handleCreate(mode) \/ onDelete(mode)
    \/ \E type \in Types : onTypeChange(type) \/ handleSubmit(type)
    \/ handleDialogSubmit \/ CloseDialog \/ OpenCluster \/ CancelCluster \/ handleDescriptionChange

Spec == Init /\ [][Next]_vars

-----------------------------------------------------------------------------
TypeOK ==
    /\ ver \in [Keys -> Nat] /\ desc \in 0 .. MaxTyped /\ unique \in [UniqueTypes -> Nat]
    /\ cached \in [Keys -> Nat \cup {NotLoaded}] /\ cachedDesc \in 0 .. MaxTyped
    /\ \A k \in Keys : fetch[k].at \in {"idle", "asked", "loading", "read"}
    /\ DOMAIN memo = Keys /\ overtaken \subseteq Keys /\ \A load \in late : load.key \in Memoized
    /\ dialog \in [open: BOOLEAN, mode: AllModes, type: Types \cup {"knowledge"}]
    /\ creating \in {"closed", "open", "busy"}
    /\ text \in 0 .. MaxTyped /\ typed \in 0 .. MaxTyped /\ timer \in {NoTimer} \cup 0 .. MaxTyped
    /\ sent \in 0 .. MaxSends /\ crossed \subseteq Keys /\ retries \in 0 .. MaxSends /\ overlapped \in BOOLEAN

\* Double clicks, retries and both dialogs together never bring a brain a second research cluster.
OneResearch == unique["ai-research"] <= 1

\* A list that was loaded before it changed, and none of whose requests failed, is the backend's
\* once its requests and fetches have ended, whichever dialogs were submitted meanwhile, and although
\* the backend keeps the list, through every clearing of it.  Set aside is a list the backend loaded
\* before a change and keeps after the change has cleared it: that one stays old until it expires.
ListsFollow ==
    \A k \in Keys \ (crossed \cup overtaken) :
      fetch[k] = Idle /\ (\A c \in calls : keyOf(c.mode) # k) => cached[k] = ver[k]

\* Renames and saves of the brain that wait for each other's fetch leave the text area with the
\* description that was saved, also when a rename erased it; set aside is a description that the
\* backend loaded before a save and keeps after it.
TextIsSaved ==
    fetch["brains"] = Idle /\ ~overlapped /\ timer = NoTimer
      /\ (\A c \in calls : ~BrainCall(c)) => text = desc
=============================================================================
