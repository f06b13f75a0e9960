---------------------------- MODULE ClusterPage ----------------------------
(***************************************************************************)
(* The page of a cluster: its notes in the order the user drags them to,   *)
(* each with its tags.  A drag changes the cached list before the backend  *)
(* has answered, and puts the list back if it fails.                       *)
(***************************************************************************)
EXTENDS Naturals, Sequences, SequencesExt, FiniteSets

CONSTANTS
    Notes,     \* notes of the cluster
    FirstTags, \* tags there are at first
    NewTags,   \* tags that are created from their name
    MaxCalls   \* requests of the page

VARIABLES
    rank,     \* note -> its sortOrder
    there,    \* notes that are not deleted
    tags,     \* note -> its tags
    allTags,  \* tags
    list,     \* the cached list, or NotLoaded
    fetch,    \* its request: Idle, Asked, or the answer
    override, \* note -> the tags the page shows instead of the list's, or NoTags
    calls,    \* requests of the page
    sent,     \* how many there were
    crossed,  \* history: since the list was last read alone, a drag met a fetch or another request about it, or
              \* the answer to an applied one was lost
    mixed     \* history: notes with two changes of their tags at once, or with an applied one whose answer was lost

vars == <<rank, there, tags, allTags, list, fetch, override, calls, sent, crossed, mixed>>

NotLoaded == <<>>
Idle == [at |-> "idle"]
Asked == [at |-> "asked"]
NoTags == {"no tags"}
Tags == FirstTags \cup NewTags
Backend == <<rank, there, tags, allTags>>
Rows == [id: Notes, tags: SUBSET Tags]

\* Notes of the same rank come in any order.
Lists ==
    LET sorted == {s \in SetToSeqs(there) : \A i, j \in 1 .. Len(s) : i < j => rank[s[i]] <= rank[s[j]]}
    IN {[i \in DOMAIN s |-> [id |-> s[i], tags |-> tags[s[i]]]] : s \in sorted}

Init ==
    /\ rank = [n \in Notes |-> 0] /\ there = Notes /\ tags = [n \in Notes |-> {}] /\ allTags = FirstTags
    /\ list = NotLoaded /\ fetch = Asked /\ override = [n \in Notes |-> NoTags]
    /\ calls = {} /\ sent = 0 /\ crossed = FALSE /\ mixed = {}

-----------------------------------------------------------------------------
(* The list.                                                               *)

About(c) == c.for \in {"delete", "reorder"}

Read ==
    /\ fetch = Asked /\ \E l \in Lists : fetch' = [at |-> "read", list |-> l]
    /\ crossed' = (crossed /\ \E c \in calls : About(c))
    /\ UNCHANGED <<Backend, list, override, calls, sent, mixed>>

Fetched ==
    /\ fetch.at = "read" /\ list' = fetch.list /\ fetch' = Idle
    /\ UNCHANGED <<Backend, override, calls, sent, crossed, mixed>>

Send(c) ==
    /\ sent < MaxCalls /\ sent' = sent + 1
    /\ calls' = calls \cup {c}
    /\ UNCHANGED <<Backend, fetch, override>>

handleDelete(n) ==
    /\ \E i \in DOMAIN list : list[i].id = n
    /\ Send([for |-> "delete", n |-> sent, got |-> "none", id |-> n])
    /\ crossed' = (crossed \/ \E c \in calls : About(c))
    /\ UNCHANGED <<list, mixed>>

\* A row is taken out and put back in at another place; reorderNeurons shows it at once.
handleDragEnd(i, j) ==
    /\ {i, j} \subseteq DOMAIN list /\ i # j
    /\ LET reordered == InsertAt(RemoveAt(list, i), j, list[i]) IN
       /\ Send([for |-> "reorder", n |-> sent, got |-> "none", previous |-> list,
                ids |-> [k \in DOMAIN reordered |-> reordered[k].id]])
       /\ list' = reordered
    /\ crossed' = (crossed \/ fetch # Idle \/ \E c \in calls : About(c))
    /\ UNCHANGED mixed

Outcome(c, got) == calls' = (calls \ {c}) \cup {[c EXCEPT !.got = got]}

\* ReorderHelper gives each note of the list its place, a deleted one too.  For the page, a request that was applied
\* has failed as well when its answer is lost or late.
Commit(c) ==
    /\ c.got = "none" /\ About(c)
    /\ \/ /\ \/ Outcome(c, "ok") /\ UNCHANGED crossed
             \/ Outcome(c, "failed") /\ crossed' = TRUE
          /\ there' = IF c.for = "delete" THEN there \ {c.id} ELSE there
          /\ rank' = IF c.for = "delete" THEN rank
                     ELSE [n \in Notes |-> IF Contains(c.ids, n) THEN CHOOSE k \in DOMAIN c.ids : c.ids[k] = n ELSE rank[n]]
       \/ Outcome(c, "failed") /\ UNCHANGED <<there, rank, crossed>>
    /\ UNCHANGED <<tags, allTags, list, fetch, override, sent, mixed>>

\* A first fetch that is under way goes on, another one starts again.
Deleted(c) ==
    /\ c.for = "delete" /\ c.got # "none" /\ calls' = calls \ {c}
    /\ fetch' = IF c.got = "ok" THEN Asked ELSE fetch
    /\ UNCHANGED <<Backend, list, override, sent, crossed, mixed>>
\* Mutant: a failure leaves the list as it was dragged.
ReorderedAnyway(c) ==
    /\ c.for = "reorder" /\ c.got # "none" /\ calls' = calls \ {c}
    /\ crossed' = (crossed \/ fetch # Idle)
    /\ UNCHANGED <<Backend, list, fetch, override, sent, mixed>>

\* reorderNeurons, after the answer: only a failure changes the list again.
Reordered(c) ==
    /\ c.for = "reorder" /\ c.got # "none" /\ calls' = calls \ {c}
    /\ list' = IF c.got = "failed" THEN c.previous ELSE list
    /\ crossed' = (crossed \/ fetch # Idle)
    /\ UNCHANGED <<Backend, fetch, override, sent, mixed>>

-----------------------------------------------------------------------------
(* The tags of a note.  What the page shows after an answer is made from   *)
(* what it showed when the request was sent.                               *)
\* Mutant: what was changed is not shown.
listTags(n) == UNION {list[i].tags : i \in {k \in DOMAIN list : list[k].id = n}}

getTagsForNeuron(n) ==
    IF override[n] # NoTags THEN override[n]
    ELSE UNION {list[i].tags : i \in {k \in DOMAIN list : list[k].id = n}}

Change(n, for, tag) ==
    /\ \E i \in DOMAIN list : list[i].id = n
    /\ Send([for |-> for, n |-> sent, got |-> "none", id |-> n, tag |-> tag, shown |-> getTagsForNeuron(n)])
    /\ mixed' = IF \E c \in calls : ~About(c) /\ c.id = n THEN mixed \cup {n} ELSE mixed
    /\ UNCHANGED <<list, crossed>>

handleToggleTag(n, tag) ==
    tag \in allTags /\ Change(n, IF tag \in getTagsForNeuron(n) THEN "remove" ELSE "add", tag)

handleRemoveTag(n, tag) == tag \in getTagsForNeuron(n) /\ Change(n, "remove", tag)

\* The tag is created, and then added.
handleCreateTag(n, tag) == tag \in NewTags \ allTags /\ Change(n, "create", tag)

\* TagService; a deleted note gets no tag.
CommitTag(c) ==
    /\ c.got = "none" /\ ~About(c)
    /\ \/ /\ c.for = "add" => c.id \in there
          /\ \/ Outcome(c, "ok") /\ UNCHANGED mixed
             \/ Outcome(c, "failed") /\ mixed' = mixed \cup {c.id}
          /\ tags' = CASE c.for = "add"    -> [tags EXCEPT ![c.id] = @ \cup {c.tag}]
                       [] c.for = "remove" -> [tags EXCEPT ![c.id] = @ \ {c.tag}]
                       [] OTHER            -> tags
          /\ allTags' = IF c.for = "create" THEN allTags \cup {c.tag} ELSE allTags
       \/ Outcome(c, "failed") /\ UNCHANGED <<tags, allTags, mixed>>
    /\ UNCHANGED <<rank, there, list, fetch, override, sent, crossed>>

onTagsChange(c) ==
    /\ ~About(c) /\ c.got # "none"
    /\ IF c.for = "create" /\ c.got = "ok"
       THEN calls' = (calls \ {c}) \cup {[c EXCEPT !.for = "add", !.got = "none"]}
       ELSE calls' = calls \ {c}
    /\ override' = IF c.got = "failed" \/ c.for = "create" THEN override
                   ELSE [override EXCEPT ![c.id] = IF c.for = "add" THEN c.shown \cup {c.tag} ELSE c.shown \ {c.tag}]
    /\ UNCHANGED <<Backend, list, fetch, sent, crossed, mixed>>

Next ==
    \/ Read \/ Fetched
    \/ \E n \in Notes : handleDelete(n)
    \/ \E i, j \in 1 .. Cardinality(Notes) : handleDragEnd(i, j)
    \/ \E n \in Notes, tag \in Tags : handleToggleTag(n, tag) \/ handleRemoveTag(n, tag) \/ handleCreateTag(n, tag)
    \/ \E c \in calls : Commit(c) \/ Deleted(c) \/ Reordered(c) \/ CommitTag(c) \/ onTagsChange(c)

Spec == Init /\ [][Next]_vars

-----------------------------------------------------------------------------
TypeOK ==
    /\ rank \in [Notes -> Nat] /\ there \subseteq Notes /\ tags \in [Notes -> SUBSET Tags] /\ allTags \subseteq Tags
    /\ \A i \in DOMAIN list : list[i] \in Rows
    /\ fetch.at \in {"idle", "asked", "read"}
    /\ \A n \in Notes : override[n] = NoTags \/ override[n] \subseteq Tags
    /\ sent \in 0 .. MaxCalls /\ crossed \in BOOLEAN /\ mixed \subseteq Notes

\* The page has the stored notes in the stored order after drags and deletions, refused or done, that waited for
\* each other and for the list, as long as no applied one lost its answer: then the page has the order and the notes
\* from before it, as after a drag that was crossed, until the list is read again with none of them on its way.
OrderFollows ==
    calls = {} /\ fetch = Idle /\ ~crossed =>
      [i \in DOMAIN list |-> list[i].id] \in {[i \in DOMAIN l |-> l[i].id] : l \in Lists}

\* The page shows the tags a note has, through drags, deletions and fetches of the list and through refused changes,
\* when none of its tags were changed while another change was on its way and no applied change lost its answer.
TagsFollow ==
    \A n \in there \ mixed :
      (list # NotLoaded /\ fetch = Idle /\ \A c \in calls : c.for \in {"delete", "reorder"}) => getTagsForNeuron(n) = tags[n]
=============================================================================
