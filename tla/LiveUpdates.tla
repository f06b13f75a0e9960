---------------------------- MODULE LiveUpdates ----------------------------
(***************************************************************************)
(* The unread badge in every tab of one browser.  Each tab mounts two      *)
(* notification bells (one for narrow, one for wide screens); the bells of *)
(* all tabs elect a leader with a browser lock, the leader holds the one   *)
(* event stream and relays its events to every other bell.  The backend    *)
(* counts and broadcasts inside the transaction that changes the           *)
(* notifications, and keeps no event for a listener that is not connected. *)
(* A browser without locks, where each bell has a stream, is left out.     *)
(***************************************************************************)
EXTENDS Integers, Sequences, FiniteSets, SequencesExt

CONSTANTS
    Tabs,
    MaxNotes,     \* notifications created
    MaxMounts,    \* times a tab is opened
    MaxDrops      \* times the stream breaks

VARIABLES
    mounted,  \* tabs that are open
    queue,    \* bells that wait for the lock, in the order they asked
    leader,   \* the bell that holds it, or NoBell
    source,   \* bell -> its event stream: "none", "up", or "down" (the browser reconnects)
    pipe,     \* counts broadcast to the stream that is up
    bus,      \* tab -> counts relayed to its bells
    badge,    \* tab -> the cached unread count, or NotLoaded
    fetch,    \* tab -> its request for the count: Idle, Asked, or the count on its way back
    unread,   \* notifications that are unread, as committed
    changes,  \* transactions that have broadcast and not committed
    created,  \* notifications created
    mounts, drops,
    missed    \* history: tabs an event passed by, or whose badge two changes at once, or a count
              \* read before a change and shown after it, may have left wrong

vars == <<mounted, queue, leader, source, pipe, bus, badge, fetch, unread, changes, created,
          mounts, drops, missed>>

Bells == Tabs \X {"narrow", "wide"}
NoBell == <<"nobody", "none">>
NotLoaded == -1    \* of a badge
Idle == -1         \* of a fetch
Asked == -2
Notes == 1 .. MaxNotes

Server == <<unread, changes, created>>
Election == <<mounted, queue, leader, source, mounts, drops>>

Init ==
    /\ mounted = {} /\ queue = <<>> /\ leader = NoBell
    /\ source = [b \in Bells |-> "none"]
    /\ pipe = <<>> /\ bus = [t \in Tabs |-> <<>>]
    /\ badge = [t \in Tabs |-> NotLoaded] /\ fetch = [t \in Tabs |-> Idle]
    /\ unread = {} /\ changes = {} /\ created = 0
    /\ mounts = 0 /\ drops = 0 /\ missed = {}

Up == \E b \in Bells : source[b] = "up"

-----------------------------------------------------------------------------
(* Tabs and the election.                                                  *)

\* Both bells ask for the lock, and the tab asks for the count once.
participateInSseLeaderElection(t) ==
    /\ t \notin mounted /\ mounts < MaxMounts /\ ~\E b \in Bells : b[1] = t /\ Contains(queue, b)
    /\ mounts' = mounts + 1
    /\ mounted' = mounted \cup {t}
    /\ queue' = queue \o <<<<t, "narrow">>, <<t, "wide">>>>
    /\ fetch' = [fetch EXCEPT ![t] = Asked]
    /\ UNCHANGED <<leader, source, pipe, bus, badge, Server, drops, missed>>

\* The lock goes to the first bell that asked; one that is gone gives it back at once.
Granted ==
    /\ leader = NoBell /\ queue # <<>>
    /\ leader' = IF Head(queue)[1] \in mounted THEN Head(queue) ELSE NoBell
    /\ queue' = Tail(queue)
    /\ UNCHANGED <<mounted, source, pipe, bus, badge, fetch, Server, mounts, drops, missed>>
\* Mutant: a broken stream is not opened again.
ConnectOnce ==
    /\ leader # NoBell /\ source[leader] = "none"
    /\ source' = [source EXCEPT ![leader] = "up"]
    /\ UNCHANGED <<mounted, queue, leader, pipe, bus, badge, fetch, Server, mounts, drops, missed>>

\* Two seconds after the grant the leader opens its stream; a broken one is opened again.
Connect ==
    /\ leader # NoBell /\ source[leader] \in {"none", "down"}
    /\ source' = [source EXCEPT ![leader] = "up"]
    /\ UNCHANGED <<mounted, queue, leader, pipe, bus, badge, fetch, Server, mounts, drops, missed>>

\* The 5 minutes of the emitter are over, or the network fails: what was under way is gone.
Disconnect ==
    /\ Up /\ drops < MaxDrops
    /\ drops' = drops + 1
    /\ source' = [source EXCEPT ![leader] = "down"]
    /\ pipe' = <<>>
    /\ missed' = IF pipe # <<>> THEN missed \cup mounted ELSE missed
    /\ UNCHANGED <<mounted, queue, leader, bus, badge, fetch, Server, mounts>>
\* Mutant: the stream is not closed.
cleanupLock(t) ==
    /\ t \in mounted
    /\ mounted' = mounted \ {t}
    /\ leader' = IF leader[1] = t THEN NoBell ELSE leader
    /\ bus' = [bus EXCEPT ![t] = <<>>]
    /\ badge' = [badge EXCEPT ![t] = NotLoaded]
    /\ fetch' = [fetch EXCEPT ![t] = Idle]
    /\ UNCHANGED <<queue, source, pipe, Server, mounts, drops, missed>>

\* The cleanup of both bells: the leader closes its stream and gives the lock back.
cleanup(t) ==
    LET leads == leader[1] = t IN
    /\ t \in mounted
    /\ mounted' = mounted \ {t}
    /\ leader' = IF leads THEN NoBell ELSE leader
    /\ source' = [b \in Bells |-> IF b[1] = t THEN "none" ELSE source[b]]
    /\ pipe' = IF leads THEN <<>> ELSE pipe
    /\ bus' = [bus EXCEPT ![t] = <<>>]
    /\ badge' = [badge EXCEPT ![t] = NotLoaded]
    /\ fetch' = [fetch EXCEPT ![t] = Idle]
    /\ missed' = IF leads /\ pipe # <<>> THEN missed \cup mounted' ELSE missed
    /\ UNCHANGED <<queue, Server, mounts, drops>>

-----------------------------------------------------------------------------
(* Counts reach the tabs.                                                  *)
\* A channel delivers to every bell but the one that posts: the leader's own tab has one more, others two.
Posted(t, n) ==
    IF t \notin mounted THEN bus[t]
    ELSE IF t = leader[1] THEN Append(bus[t], n) ELSE Append(Append(bus[t], n), n)

\* Mutant: the leader's event is not posted to the other bells.
relayToNobody ==
    /\ Up /\ pipe # <<>>
    /\ pipe' = Tail(pipe)
    /\ badge' = [badge EXCEPT ![leader[1]] = Head(pipe)]
    /\ UNCHANGED <<Election, bus, fetch, Server, missed>>

\* The leader sets its tab's badge and relays the count to the other bells, also that of its own tab.
relay ==
    /\ Up /\ pipe # <<>>
    /\ pipe' = Tail(pipe)
    /\ badge' = [badge EXCEPT ![leader[1]] = Head(pipe)]
    /\ bus' = [t \in Tabs |-> Posted(t, Head(pipe))]
    /\ UNCHANGED <<Election, fetch, Server, missed>>

Relayed(t) ==
    /\ bus[t] # <<>>
    /\ badge' = [badge EXCEPT ![t] = Head(bus[t])]
    /\ bus' = [bus EXCEPT ![t] = Tail(bus[t])]
    /\ UNCHANGED <<Election, pipe, fetch, Server, missed>>

\* The count is read while a change, or an event that tells of one, is still on its way.
getUnreadCount(t) ==
    /\ fetch[t] = Asked
    /\ fetch' = [fetch EXCEPT ![t] = Cardinality(unread)]
    /\ missed' = IF changes # {} THEN missed \cup {t}
                 ELSE IF bus[t] = <<>> /\ pipe = <<>> THEN missed \ {t} ELSE missed
    /\ UNCHANGED <<Election, pipe, bus, badge, Server>>

Fetched(t) ==
    /\ fetch[t] \notin {Idle, Asked}
    /\ badge' = [badge EXCEPT ![t] = fetch[t]]
    /\ fetch' = [fetch EXCEPT ![t] = Idle]
    /\ UNCHANGED <<Election, pipe, bus, Server, missed>>

-----------------------------------------------------------------------------
(* The backend changes notifications: rows are changed, the count of what  *)
(* the transaction sees is broadcast, then the transaction commits.        *)

broadcast(n) == pipe' = IF Up THEN Append(pipe, n) ELSE pipe

Change(add, remove, by) ==
    LET late == {t \in Tabs : fetch[t] \notin {Idle, Asked}} IN
    /\ \A c \in changes : c.by # by
    /\ changes' = changes \cup {[add |-> add, remove |-> remove, by |-> by]}
    /\ broadcast(Cardinality((unread \cup add) \ remove))
    /\ missed' = IF changes # {} THEN Tabs ELSE missed \cup (IF Up THEN late ELSE mounted)
    /\ UNCHANGED <<Election, bus, badge, fetch, unread>>

\* A reminder is due.
create ==
    /\ created < MaxNotes
    /\ created' = created + 1
    /\ Change({created + 1}, {}, "scheduler")

markAsRead(t) ==
    /\ t \in mounted /\ badge[t] # NotLoaded
    /\ \E n \in unread : Change({}, {n}, t)
    /\ UNCHANGED created

markAllAsRead(t) ==
    /\ t \in mounted /\ badge[t] \notin {NotLoaded, 0} /\ unread # {}
    /\ Change({}, unread, t)
    /\ UNCHANGED created

\* The tab that asked for the change then asks for the count again.
Commit ==
    \E c \in changes :
      /\ unread' = (unread \cup c.add) \ c.remove
      /\ changes' = changes \ {c}
      /\ fetch' = IF c.by \in mounted THEN [fetch EXCEPT ![c.by] = Asked] ELSE fetch
      /\ UNCHANGED <<Election, pipe, bus, badge, created, missed>>

Runs ==
    \/ Granted \/ Connect \/ relay \/ Commit
    \/ \E t \in Tabs : Relayed(t) \/ getUnreadCount(t) \/ Fetched(t)

Next ==
    \/ \E t \in Tabs : participateInSseLeaderElection(t) \/ cleanup(t) \/ markAsRead(t) \/ markAllAsRead(t)
    \/ Runs \/ Disconnect \/ create

\* Timers fire, requests are answered, messages between tabs arrive; nobody has to open or click.
Spec == Init /\ [][Next]_vars /\ WF_vars(Runs)

-----------------------------------------------------------------------------
TypeOK ==
    /\ mounted \subseteq Tabs /\ leader \in Bells \cup {NoBell} /\ queue \in Seq(Bells)
    /\ source \in [Bells -> {"none", "up", "down"}]
    /\ unread \subseteq Notes /\ created \in 0 .. MaxNotes
    /\ missed \subseteq Tabs /\ pipe \in Seq(Nat)
    /\ \A t \in Tabs : /\ badge[t] \in {NotLoaded} \cup (0 .. MaxNotes)
                       /\ fetch[t] \in {Idle, Asked} \cup (0 .. MaxNotes)
                       /\ bus[t] \in Seq(0 .. MaxNotes)

\* However tabs open, close and wait, one bell at most has a stream, and its tab is open.
OneConnection ==
    \A b \in Bells : source[b] # "none" => b = leader /\ b[1] \in mounted

\* Once nothing is under way a tab shows the committed count, through leaders that change, own and
\* relayed events and counts asked for meanwhile.  Not where (missed) an event passed it by, two
\* changes were uncommitted at once, or a count read before a change was still to be shown after it,
\* unless the count was read again since.
BadgeCounts ==
    \A t \in mounted \ missed :
      changes = {} /\ pipe = <<>> /\ bus[t] = <<>> /\ fetch[t] = Idle =>
        badge[t] = Cardinality(unread)

\* While a tab is open the lock is not lost with a tab that closes: a stream comes up again.
StreamComesUp == mounted # {} ~> Up \/ mounted = {}
=============================================================================
