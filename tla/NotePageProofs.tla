--------------------------- MODULE NotePageProofs ---------------------------
(***************************************************************************)
(* Theorems about the parts of the note page as NotePage puts them         *)
(* together, for every value of the constants.  The invariant of a part    *)
(* speaks of its own variables only: it is preserved by the steps of that  *)
(* part, and the steps of the others leave its variables alone (PartSteps). *)
(***************************************************************************)
EXTENDS NotePage, Integers, Sequences, FiniteSets, SequenceTheorems, FiniteSetTheorems, TLAPS

\* A step of the page is for each part a step of its own, or none.
LEMMA PartSteps ==
    ASSUME [Next]_vars
    PROVE  /\ [Assist!Next]_assistVars
           /\ [List!Next]_listVars
           /\ [Audio!Next]_audioVars
           /\ [Code!Next]_codeVars
           /\ [Bell!Next]_bellVars
           /\ [Quiz!Next]_quizVars
           /\ [Remind!Next]_remindVars
<1>1. CASE UNCHANGED vars
  BY <1>1 DEF vars
<1>3. CASE Only("assist") /\ Assist!Next
  BY <1>3 DEF Only
<1>4. CASE Only("list") /\ List!Next
  BY <1>4 DEF Only
<1>5. CASE Only("audio") /\ Audio!Next
  BY <1>5 DEF Only
<1>6. CASE Only("code") /\ Code!Next
  BY <1>6 DEF Only
<1>7. CASE Only("bell") /\ Bell!Next
  BY <1>7 DEF Only
<1>8. CASE Only("quiz") /\ Quiz!Next
  BY <1>8 DEF Only
<1>9. CASE Only("remind") /\ Remind!Next
  BY <1>9 DEF Only
<1> QED
  BY <1>1, <1>3, <1>4, <1>5, <1>6, <1>7, <1>8, <1>9 DEF Next

-----------------------------------------------------------------------------
(* Audio sections.                                                         *)

\* Unless the recorder is tangled, one prompt at most is open; while it is, the section is on the page and no
\* stream is on; and a stream that is on is the current recording's.
Quiet ==
    /\ live \subseteq {current} /\ (live # {} => recording)
    /\ asks > 0 => asks = 1 /\ live = {} /\ mounted

RecorderInv ==
    /\ asks \in Nat
    /\ ~tangled => Quiet

\* Stopping the tracks of the current stream leaves none on, when no other stream was.
LEMMA CleanupQuiets ==
    ASSUME NEW s, Audio!cleanup(s), live \subseteq {current}
    PROVE  live' = {}
BY DEF Audio!cleanup

LEMMA RecorderInvInit == Audio!Init => RecorderInv
BY DEF Audio!Init, RecorderInv, Quiet

\* The steps of the uploads and of the form leave the recorder alone.
LEMMA UploadingKeepsInv ==
    ASSUME RecorderInv, UNCHANGED <<mounted, Audio!Microphone>>
    PROVE  RecorderInv'
BY DEF RecorderInv, Quiet, Audio!Microphone

LEMMA RecorderInvStep == RecorderInv /\ [Audio!Next]_audioVars => RecorderInv'
<1> SUFFICES ASSUME RecorderInv, [Audio!Next]_audioVars PROVE RecorderInv'
  OBVIOUS
<1>1. CASE Audio!start
  <2>1. asks' = asks + 1 /\ asks' \in Nat /\ mounted' /\ live' = live
    BY <1>1 DEF Audio!start, Audio!StartOffered, RecorderInv
  <2>2. ASSUME ~tangled' PROVE Quiet'
    <3>1. live = {} /\ ~(asks > 0)
      BY <2>2, <1>1 DEF Audio!start
    <3>2. asks' = 1
      BY <3>1, <2>1 DEF RecorderInv
    <3> QED
      BY <2>1, <3>1, <3>2 DEF Quiet
  <2> QED
    BY <2>1, <2>2 DEF RecorderInv
<1>2. CASE Audio!Granted
  <2>1. PICK n \in Audio!Recorders : live' = live \cup {n} /\ current' = n
    BY <1>2 DEF Audio!Granted
  <2>2. asks > 0 /\ asks' = asks - 1 /\ asks' \in Nat
    BY <1>2 DEF Audio!Granted, RecorderInv
  <2>3. ASSUME ~tangled' PROVE Quiet'
    <3>1. ~tangled /\ asks = 1 /\ live = {} /\ mounted
      BY <2>2, <2>3, <1>2 DEF Audio!Granted, RecorderInv, Quiet
    <3>2. recording' /\ asks' = 0
      BY <3>1, <2>2, <1>2 DEF Audio!Granted
    <3> QED
      BY <2>1, <3>1, <3>2 DEF Quiet
  <2> QED
    BY <2>2, <2>3 DEF RecorderInv
<1>3. CASE Audio!Denied
  <2>1. asks > 0 /\ asks' = asks - 1 /\ asks' \in Nat
    BY <1>3 DEF Audio!Denied, RecorderInv
  <2>2. ASSUME ~tangled' PROVE Quiet'
    <3>1. ~tangled /\ Quiet /\ asks' = 0
      BY <2>1, <2>2, <1>3 DEF Audio!Denied, RecorderInv, Quiet
    <3>2. live' = {}
      BY <3>1, <1>3, CleanupQuiets DEF Audio!Denied, Quiet
    <3> QED
      BY <3>1, <3>2 DEF Quiet
  <2> QED
    BY <2>1, <2>2 DEF RecorderInv
<1>4. CASE Audio!stop
  BY <1>4 DEF Audio!stop, RecorderInv, Quiet
<1>5. CASE Audio!Unmount
  <2>1. ASSUME ~tangled' PROVE Quiet'
    <3>1. ~tangled /\ Quiet /\ ~(asks' > 0)
      BY <2>1, <1>5 DEF Audio!Unmount, RecorderInv
    <3>2. live' = {}
      BY <3>1, <1>5, CleanupQuiets DEF Audio!Unmount, Quiet
    <3> QED
      BY <3>1, <3>2 DEF Quiet
  <2> QED
    BY <2>1, <1>5 DEF RecorderInv, Audio!Unmount
<1>6. ASSUME NEW n \in Audio!Recorders, Audio!OnStop(n) PROVE RecorderInv'
  <2>1. ASSUME ~tangled' PROVE Quiet'
    <3>1. ~tangled /\ Quiet /\ UNCHANGED <<asks, mounted>>
      BY <2>1, <1>6 DEF Audio!OnStop, RecorderInv
    <3>2. live' = {}
      BY <3>1, <1>6, CleanupQuiets DEF Audio!OnStop, Quiet
    <3> QED
      BY <3>1, <3>2 DEF Quiet
  <2> QED
    BY <2>1, <1>6 DEF RecorderInv, Audio!OnStop
<1>7. CASE Audio!handleFileSelect
  BY <1>7, UploadingKeepsInv DEF Audio!handleFileSelect
<1>8. CASE Audio!Change
  BY <1>8, UploadingKeepsInv DEF Audio!Change
<1>9. ASSUME NEW u \in sending, Audio!onUploaded(u) \/ Audio!UploadFails(u) PROVE RecorderInv'
  BY <1>9, UploadingKeepsInv DEF Audio!onUploaded, Audio!UploadFails
<1>10. CASE UNCHANGED audioVars
  BY <1>10, UploadingKeepsInv DEF audioVars, Audio!Microphone
<1> QED
  BY <1>1, <1>2, <1>3, <1>4, <1>5, <1>6, <1>7, <1>8, <1>9, <1>10 DEF Audio!Next

\* The hook useAudioRecorder leaves no stream on: whatever the user starts, stops, denies and leaves, the
\* microphone is on only for the recording on the screen.
THEOREM MicrophoneIsReleased == Spec => []MicrophoneReleased
<1>1. Init => RecorderInv
  BY RecorderInvInit DEF Init
<1>2. RecorderInv /\ [Next]_vars => RecorderInv'
  BY RecorderInvStep, PartSteps
<1>3. RecorderInv => MicrophoneReleased
  BY DEF RecorderInv, Quiet, MicrophoneReleased, Audio!MicrophoneReleased
<1> QED
  BY <1>1, <1>2, <1>3, PTL DEF Spec

-----------------------------------------------------------------------------
(* The bells and their event stream.                                       *)

ElectionType ==
    /\ source \in [Bell!Bells -> {"none", "up", "down"}]
    /\ queue \in Seq(Bell!Bells)
    /\ leader \in Bell!Bells \cup {Bell!NoBell}

\* The lock is held by a tab that is open, and whoever has a stream holds the lock.
ElectionInv ==
    /\ ElectionType
    /\ leader # Bell!NoBell => leader[1] \in openTabs
    /\ Bell!OneConnection

LEMMA NobodyIsNoBell == Bell!NoBell \notin Bell!Bells
BY DEF Bell!NoBell, Bell!Bells

LEMMA ElectionInvInit == Bell!Init => ElectionInv
BY DEF Bell!Init, ElectionInv, ElectionType, Bell!OneConnection

\* Counts, fetches and changes of notifications leave the election alone.
LEMMA ElectionUnchanged ==
    ASSUME ElectionInv, UNCHANGED Bell!Election
    PROVE  ElectionInv'
BY DEF ElectionInv, ElectionType, Bell!OneConnection, Bell!Election

\* A stream that is up or down is the leader's.
LEMMA StreamIsLeaders ==
    ASSUME ElectionInv, Bell!Up
    PROVE  leader \in Bell!Bells /\ source[leader] = "up" /\ leader[1] \in openTabs
BY NobodyIsNoBell DEF ElectionInv, ElectionType, Bell!OneConnection, Bell!Up

LEMMA ElectionInvStep == ElectionInv /\ [Bell!Next]_bellVars => ElectionInv'
<1> SUFFICES ASSUME ElectionInv, [Bell!Next]_bellVars PROVE ElectionInv'
  OBVIOUS
<1> USE DEF ElectionInv, ElectionType
<1>1. ASSUME NEW t \in Tabs, Bell!participateInSseLeaderElection(t) PROVE ElectionInv'
  <2>1. <<t, "narrow">> \in Bell!Bells /\ <<t, "wide">> \in Bell!Bells
    BY DEF Bell!Bells
  <2>2. queue' \in Seq(Bell!Bells)
    BY <2>1, <1>1 DEF Bell!participateInSseLeaderElection
  <2>3. UNCHANGED <<leader, source>> /\ openTabs \subseteq openTabs'
    BY <1>1 DEF Bell!participateInSseLeaderElection
  <2> QED
    BY <2>2, <2>3 DEF Bell!OneConnection
<1>2. CASE Bell!Granted
  <2>1. leader = Bell!NoBell /\ queue # <<>> /\ UNCHANGED <<openTabs, source>>
    BY <1>2 DEF Bell!Granted
  <2>2. Head(queue) \in Bell!Bells /\ queue' \in Seq(Bell!Bells)
    BY <2>1, <1>2 DEF Bell!Granted
  <2>3. leader' \in Bell!Bells \cup {Bell!NoBell} /\ (leader' # Bell!NoBell => leader'[1] \in openTabs)
    BY <2>2, <1>2 DEF Bell!Granted
  <2>4. \A b \in Bell!Bells : source[b] = "none"
    BY <2>1, NobodyIsNoBell DEF Bell!OneConnection
  <2> QED
    BY <2>1, <2>2, <2>3, <2>4 DEF Bell!OneConnection
<1>3. CASE Bell!Connect
  BY <1>3 DEF Bell!Connect, Bell!OneConnection
<1>4. CASE Bell!Disconnect
  BY <1>4, StreamIsLeaders DEF Bell!Disconnect, Bell!OneConnection
<1>5. ASSUME NEW t \in Tabs, Bell!cleanup(t) PROVE ElectionInv'
  <2>1. /\ openTabs' = openTabs \ {t} /\ queue' = queue
        /\ leader' = IF leader[1] = t THEN Bell!NoBell ELSE leader
        /\ source' = [b \in Bell!Bells |-> IF b[1] = t THEN "none" ELSE source[b]]
    BY <1>5 DEF Bell!cleanup
  <2>2. ElectionType'
    BY <2>1
  <2>3. leader' # Bell!NoBell => leader'[1] \in openTabs'
    BY <2>1
  <2>4. ASSUME NEW b \in Bell!Bells, source'[b] # "none" PROVE b = leader' /\ b[1] \in openTabs'
    <3>1. b[1] # t /\ source[b] # "none"
      BY <2>1, <2>4
    <3>2. b = leader /\ b[1] \in openTabs
      BY <3>1 DEF Bell!OneConnection
    <3> QED
      BY <3>1, <3>2, <2>1
  <2> QED
    BY <2>2, <2>3, <2>4 DEF Bell!OneConnection
<1>6. CASE Bell!relay \/ Bell!Commit \/ Bell!create
  BY <1>6, ElectionUnchanged DEF Bell!relay, Bell!Commit, Bell!create, Bell!Change
<1>7. ASSUME NEW t \in Tabs,
             Bell!Relayed(t) \/ Bell!getUnreadCount(t) \/ Bell!Fetched(t) \/ Bell!markAsRead(t) \/ Bell!markAllAsRead(t)
      PROVE ElectionInv'
  BY <1>7, ElectionUnchanged DEF Bell!Relayed, Bell!getUnreadCount, Bell!Fetched, Bell!markAsRead, Bell!markAllAsRead, Bell!Change
<1>8. CASE UNCHANGED bellVars
  BY <1>8, ElectionUnchanged DEF bellVars, Bell!Election
<1> QED
  BY <1>1, <1>2, <1>3, <1>4, <1>5, <1>6, <1>7, <1>8 DEF Bell!Next, Bell!Runs

\* participateInSseLeaderElection keeps one event stream for the browser: one bell at most has a stream, its
\* tab is open, and it holds the lock.
THEOREM OneStream == Spec => []OneConnection
<1>1. Init => ElectionInv
  BY ElectionInvInit DEF Init
<1>2. ElectionInv /\ [Next]_vars => ElectionInv'
  BY ElectionInvStep, PartSteps
<1>3. ElectionInv => OneConnection
  BY DEF ElectionInv, OneConnection
<1> QED
  BY <1>1, <1>2, <1>3, PTL DEF Spec

-----------------------------------------------------------------------------
(* The unread count in the badges.                                         *)

Last1(s) == s[Len(s)]

\* A count that will be right when the change that was broadcast has committed.
Right(n, read, ch) ==
    /\ ch = {} => n = Cardinality(read)
    /\ \A c \in ch : n = Cardinality((read \cup c.add) \ c.remove)

\* The last that comes to a tab, or else what it shows, is right.
TabInv(events, relayed, answer, shown0, read, ch) ==
    /\ events = <<>> /\ relayed # <<>> => Right(Last1(relayed), read, ch)
    /\ answer \notin {Bell!Idle, Bell!Asked} => Right(answer, read, ch)
    /\ events = <<>> /\ relayed = <<>> /\ answer = Bell!Idle => Right(shown0, read, ch)

CountsType ==
    /\ pipe \in Seq(Nat) /\ bus \in [Tabs -> Seq(Nat)]
    /\ badge = [t \in Tabs |-> badge[t]] /\ fetch = [t \in Tabs |-> fetch[t]]
    /\ openTabs \subseteq Tabs
    /\ IsFiniteSet(unread) /\ created \in Nat
    /\ \A c \in changes : IsFiniteSet(c.add)

\* Events are on their way only to an open stream, and to tabs that are open.
StreamInv ==
    /\ pipe # <<>> => Bell!Up
    /\ \A t \in Tabs \ openTabs : bus[t] = <<>>

\* As long as some tab missed nothing, changes follow one another and the last event tells of the last of them.
EventsInv ==
    Tabs \subseteq missed \/ /\ \A c, d \in changes : c = d
                             /\ pipe # <<>> => Right(Last1(pipe), unread, changes)

BadgeInv == \A t \in openTabs \ missed : TabInv(pipe, bus[t], fetch[t], badge[t], unread, changes)

CountsInv == ElectionInv /\ CountsType /\ StreamInv /\ EventsInv /\ BadgeInv

LEMMA TailLast ==
    ASSUME NEW s \in Seq(Nat), s # <<>>
    PROVE  /\ Tail(s) \in Seq(Nat) /\ Head(s) \in Nat
           /\ Tail(s) = <<>> => Head(s) = Last1(s)
           /\ Tail(s) # <<>> => Last1(Tail(s)) = Last1(s)
<1>1. Len(s) \in Nat /\ Len(s) > 0 /\ Tail(s) \in Seq(Nat) /\ Head(s) \in Nat /\ Head(s) = s[1]
  OBVIOUS
<1>2. Len(Tail(s)) = Len(s) - 1 /\ \A k \in 1 .. Len(s) - 1 : Tail(s)[k] = s[k + 1]
  OBVIOUS
<1>3. Tail(s) = <<>> => Len(s) = 1
  <2> SUFFICES ASSUME Tail(s) = <<>> PROVE Len(s) = 1
    OBVIOUS
  <2>1. PICK r : r = Tail(s)
    OBVIOUS
  <2>2. r = <<>>
    BY <2>1
  <2>3. Len(r) = 0
    BY <2>2
  <2>4. Len(r) = Len(s) - 1
    BY <1>2, <2>1
  <2> QED
    BY <1>1, <2>3, <2>4
<1>4. Tail(s) # <<>> => Len(s) - 1 \in 1 .. Len(s) - 1
  <2> SUFFICES ASSUME Tail(s) # <<>> PROVE Len(Tail(s)) > 0
    BY <1>1, <1>2
  <2> QED
    BY <1>1
<1> QED
  BY <1>1, <1>2, <1>3, <1>4 DEF Last1

LEMMA AppendLast ==
    ASSUME NEW s \in Seq(Nat), NEW n \in Nat
    PROVE  Append(s, n) \in Seq(Nat) /\ Append(s, n) # <<>> /\ Last1(Append(s, n)) = n
BY DEF Last1

\* The bell counts as everyone does.
LEMMA SameCount == \A S : Bell!Cardinality(S) = Cardinality(S)
BY DEF Cardinality, Bell!Cardinality

LEMMA CountIsNat == ASSUME CountsType PROVE Cardinality(unread) \in Nat
BY FS_CardinalityType DEF CountsType

LEMMA CountsInvInit == Bell!Init => CountsInv
<1> SUFFICES ASSUME Bell!Init PROVE CountsInv
  OBVIOUS
<1>1. IsFiniteSet({})
  BY FS_EmptySet
<1>2. CountsType
  BY <1>1 DEF Bell!Init, CountsType
<1>3. StreamInv /\ EventsInv /\ BadgeInv
  BY DEF Bell!Init, StreamInv, EventsInv, BadgeInv, Bell!Up
<1> QED
  BY <1>2, <1>3, ElectionInvInit DEF CountsInv

\* Opening and closing tabs.
LEMMA MountCounts == ASSUME CountsInv, NEW t \in Tabs, Bell!participateInSseLeaderElection(t) PROVE CountsInv'
<1>1. /\ openTabs' = openTabs \cup {t} /\ fetch' = [fetch EXCEPT ![t] = Bell!Asked] /\ t \notin openTabs
      /\ UNCHANGED <<leader, source, pipe, bus, badge, unread, changes, created, missed>>
  BY DEF Bell!participateInSseLeaderElection, Bell!Server
<1>2. CountsType /\ StreamInv /\ EventsInv /\ BadgeInv
  BY DEF CountsInv
<1>3. CountsType'
  BY <1>1, <1>2 DEF CountsType
<1>4. StreamInv'
  BY <1>1, <1>2 DEF StreamInv, Bell!Up
<1>5. EventsInv'
  BY <1>1, <1>2 DEF EventsInv
<1>6. ASSUME NEW u \in openTabs' \ missed' PROVE TabInv(pipe', bus'[u], fetch'[u], badge'[u], unread', changes')
  <2>1. CASE u = t
    <3>1. fetch'[u] = Bell!Asked /\ bus'[u] = <<>>
      BY <1>1, <1>2, <2>1 DEF CountsType, StreamInv
    <3> QED
      BY <3>1 DEF TabInv, Bell!Asked, Bell!Idle
  <2>2. CASE u # t
    <3>1. fetch'[u] = fetch[u] /\ u \in openTabs \ missed
      BY <1>1, <1>2, <2>2 DEF CountsType
    <3> QED
      BY <1>1, <1>2, <3>1 DEF BadgeInv
  <2> QED
    BY <2>1, <2>2
<1>7. BadgeInv'
  BY <1>6 DEF BadgeInv
<1>8. ElectionInv'
  BY ElectionInvStep DEF CountsInv, Bell!Next
<1> QED
  BY <1>3, <1>4, <1>5, <1>7, <1>8 DEF CountsInv

\* Only the leader has a stream.
LEMMA GrantedCounts == ASSUME CountsInv, Bell!Granted PROVE CountsInv'
<1>1. leader = Bell!NoBell /\ UNCHANGED <<openTabs, source, pipe, bus, badge, fetch, unread, changes, created, missed>>
  BY DEF Bell!Granted, Bell!Server
<1>2. ElectionInv /\ CountsType /\ StreamInv /\ EventsInv /\ BadgeInv
  BY DEF CountsInv
<1>3. ~Bell!Up
  BY <1>1, <1>2, StreamIsLeaders, NobodyIsNoBell
<1>4. CountsType' /\ EventsInv' /\ BadgeInv'
  BY <1>1, <1>2 DEF CountsType, EventsInv, BadgeInv
<1>5. StreamInv'
  BY <1>1, <1>2, <1>3 DEF StreamInv, Bell!Up
<1>6. ElectionInv'
  BY <1>2, ElectionInvStep DEF Bell!Next, Bell!Runs
<1> QED
  BY <1>4, <1>5, <1>6 DEF CountsInv

LEMMA ConnectCounts == ASSUME CountsInv, Bell!Connect PROVE CountsInv'
<1>1. /\ leader # Bell!NoBell /\ source' = [source EXCEPT ![leader] = "up"]
      /\ UNCHANGED <<leader, openTabs, pipe, bus, badge, fetch, unread, changes, created, missed>>
  BY DEF Bell!Connect, Bell!Server
<1>2. ElectionInv /\ CountsType /\ StreamInv /\ EventsInv /\ BadgeInv
  BY DEF CountsInv
<1>3. Bell!Up'
  BY <1>1, <1>2 DEF ElectionInv, ElectionType, Bell!Up
<1>4. CountsType' /\ EventsInv' /\ BadgeInv'
  BY <1>1, <1>2 DEF CountsType, EventsInv, BadgeInv
<1>5. StreamInv'
  BY <1>1, <1>2, <1>3 DEF StreamInv
<1>6. ElectionInv'
  BY <1>2, ElectionInvStep DEF Bell!Next, Bell!Runs
<1> QED
  BY <1>4, <1>5, <1>6 DEF CountsInv

\* Events that are dropped are missed by the tabs that are open.
LEMMA DroppedEvents ==
    ASSUME CountsType, EventsInv, BadgeInv, pipe' = <<>>, openTabs' \subseteq openTabs,
           missed' = IF pipe # <<>> THEN missed \cup openTabs' ELSE missed,
           \A u \in openTabs' : bus'[u] = bus[u] /\ fetch'[u] = fetch[u] /\ badge'[u] = badge[u],
           UNCHANGED <<unread, changes>>
    PROVE  EventsInv' /\ BadgeInv'
<1>1. EventsInv'
  BY DEF EventsInv
<1>2. ASSUME NEW u \in openTabs' \ missed' PROVE TabInv(pipe', bus'[u], fetch'[u], badge'[u], unread', changes')
  <2>1. pipe = <<>> /\ u \in openTabs \ missed
    BY <1>2
  <2> QED
    BY <1>2, <2>1 DEF BadgeInv
<1> QED
  BY <1>1, <1>2 DEF BadgeInv

LEMMA DisconnectCounts == ASSUME CountsInv, Bell!Disconnect PROVE CountsInv'
<1>1. /\ Bell!Up /\ pipe' = <<>> /\ missed' = IF pipe # <<>> THEN missed \cup openTabs ELSE missed
      /\ UNCHANGED <<leader, openTabs, bus, badge, fetch, unread, changes, created>>
  BY DEF Bell!Disconnect, Bell!Server
<1>2. ElectionInv /\ CountsType /\ StreamInv /\ EventsInv /\ BadgeInv
  BY DEF CountsInv
<1>3. CountsType'
  BY <1>1, <1>2 DEF CountsType
<1>4. EventsInv' /\ BadgeInv'
  BY <1>1, <1>2, DroppedEvents
<1>5. StreamInv'
  BY <1>1, <1>2 DEF StreamInv
<1>6. ElectionInv'
  BY <1>2, ElectionInvStep DEF Bell!Next, Bell!Runs
<1> QED
  BY <1>3, <1>4, <1>5, <1>6 DEF CountsInv

LEMMA CleanupCounts == ASSUME CountsInv, NEW t \in Tabs, Bell!cleanup(t) PROVE CountsInv'
<1>1. /\ openTabs' = openTabs \ {t} /\ leader' = (IF leader[1] = t THEN Bell!NoBell ELSE leader)
      /\ source' = [b \in Bell!Bells |-> IF b[1] = t THEN "none" ELSE source[b]]
      /\ pipe' = (IF leader[1] = t THEN <<>> ELSE pipe) /\ bus' = [bus EXCEPT ![t] = <<>>]
      /\ badge' = [badge EXCEPT ![t] = Bell!NotLoaded] /\ fetch' = [fetch EXCEPT ![t] = Bell!Idle]
      /\ missed' = IF leader[1] = t /\ pipe # <<>> THEN missed \cup openTabs' ELSE missed
      /\ UNCHANGED <<unread, changes, created>>
  BY DEF Bell!cleanup, Bell!Server
<1>2. ElectionInv /\ CountsType /\ StreamInv /\ EventsInv /\ BadgeInv
  BY DEF CountsInv
<1>3. CountsType'
  <2>1. pipe' \in Seq(Nat) /\ bus' \in [Tabs -> Seq(Nat)]
    BY <1>1, <1>2 DEF CountsType
  <2>2. badge' = [u \in Tabs |-> badge'[u]] /\ fetch' = [u \in Tabs |-> fetch'[u]]
    BY <1>1, <1>2 DEF CountsType
  <2> QED
    BY <1>1, <1>2, <2>1, <2>2 DEF CountsType
<1>4. \A u \in Tabs : u # t => bus'[u] = bus[u] /\ fetch'[u] = fetch[u] /\ badge'[u] = badge[u]
  BY <1>1, <1>2 DEF CountsType
<1>5. EventsInv' /\ BadgeInv'
  <2>1. CASE leader[1] = t
    BY <1>1, <1>2, <1>4, <2>1, DroppedEvents DEF CountsType
  <2>2. CASE leader[1] # t
    <3>1. pipe' = pipe /\ missed' = missed
      BY <1>1, <2>2
    <3>2. EventsInv'
      BY <1>1, <1>2, <3>1 DEF EventsInv
    <3>3. ASSUME NEW u \in openTabs' \ missed' PROVE TabInv(pipe', bus'[u], fetch'[u], badge'[u], unread', changes')
      <4>1. u \in openTabs \ missed /\ u # t /\ u \in Tabs
        BY <1>1, <1>2, <3>1, <3>3 DEF CountsType
      <4>2. TabInv(pipe, bus[u], fetch[u], badge[u], unread, changes)
        BY <1>2, <4>1 DEF BadgeInv
      <4> QED
        BY <1>1, <1>4, <3>1, <4>1, <4>2
    <3>4. BadgeInv'
      BY <3>3 DEF BadgeInv
    <3> QED
      BY <3>2, <3>4
  <2> QED
    BY <2>1, <2>2
<1>6. StreamInv'
  <2>1. \A u \in Tabs \ openTabs' : bus'[u] = <<>>
    BY <1>1, <1>2, <1>4 DEF StreamInv, CountsType
  <2>4. pipe' # <<>> => Bell!Up'
    <3> SUFFICES ASSUME pipe' # <<>> PROVE Bell!Up'
      OBVIOUS
    <3>1. leader[1] # t /\ pipe # <<>>
      BY <1>1
    <3>2. leader \in Bell!Bells /\ source[leader] = "up"
      BY <1>2, <3>1, StreamIsLeaders DEF StreamInv
    <3> QED
      BY <1>1, <3>1, <3>2 DEF Bell!Up
  <2> QED
    BY <2>1, <2>4 DEF StreamInv
<1>7. ElectionInv'
  BY <1>2, ElectionInvStep DEF Bell!Next
<1> QED
  BY <1>3, <1>5, <1>6, <1>7 DEF CountsInv

\* The leader takes an event for itself, and passes it on to the other bells, one of them in its own tab.
LEMMA RelayCounts == ASSUME CountsInv, Bell!relay PROVE CountsInv'
<1>1. /\ Bell!Up /\ pipe # <<>> /\ pipe' = Tail(pipe) /\ badge' = [badge EXCEPT ![leader[1]] = Head(pipe)]
      /\ bus' = [t \in Tabs |-> Bell!Posted(t, Head(pipe))]
      /\ UNCHANGED <<leader, source, openTabs, fetch, unread, changes, created, missed>>
  BY DEF Bell!relay, Bell!Election, Bell!Server
<1>2. ElectionInv /\ CountsType /\ StreamInv /\ EventsInv /\ BadgeInv
  BY DEF CountsInv
<1>3. /\ Tail(pipe) \in Seq(Nat) /\ Head(pipe) \in Nat
      /\ Tail(pipe) = <<>> => Head(pipe) = Last1(pipe)
      /\ Tail(pipe) # <<>> => Last1(Tail(pipe)) = Last1(pipe)
  BY <1>1, <1>2, TailLast DEF CountsType
<1>4. ASSUME NEW t \in Tabs
      PROVE  /\ Bell!Posted(t, Head(pipe)) \in Seq(Nat)
             /\ t \notin openTabs => Bell!Posted(t, Head(pipe)) = bus[t]
             /\ t \in openTabs => Bell!Posted(t, Head(pipe)) # <<>> /\ Last1(Bell!Posted(t, Head(pipe))) = Head(pipe)
  <2> DEFINE n == Head(pipe)
             s == Append(bus[t], n)
             r == Append(s, n)
  <2>1. bus[t] \in Seq(Nat) /\ n \in Nat
    BY <1>2, <1>3 DEF CountsType
  <2> HIDE DEF n
  <2>2. s \in Seq(Nat) /\ s # <<>> /\ Last1(s) = n
    BY <2>1, AppendLast
  <2> HIDE DEF s
  <2>3. r \in Seq(Nat) /\ r # <<>> /\ Last1(r) = n
    BY <2>1, <2>2, AppendLast
  <2>4. Bell!Posted(t, n) = IF t \notin openTabs THEN bus[t] ELSE IF t = leader[1] THEN s ELSE r
    BY DEF Bell!Posted, s
  <2> HIDE DEF r
  <2>5. /\ Bell!Posted(t, n) \in Seq(Nat)
        /\ t \notin openTabs => Bell!Posted(t, n) = bus[t]
        /\ t \in openTabs => Bell!Posted(t, n) # <<>> /\ Last1(Bell!Posted(t, n)) = n
    BY <2>1, <2>2, <2>3, <2>4
  <2> QED
    BY <2>5 DEF n
<1>5. CountsType'
  <2>1. bus' \in [Tabs -> Seq(Nat)]
    BY <1>1, <1>2, <1>4 DEF CountsType
  <2>2. badge' = [u \in Tabs |-> badge'[u]]
    BY <1>1, <1>2 DEF CountsType
  <2> QED
    BY <1>1, <1>2, <1>3, <2>1, <2>2 DEF CountsType
<1>6. leader[1] \in openTabs /\ openTabs \subseteq Tabs
  BY <1>1, <1>2, StreamIsLeaders DEF CountsType
<1>7. StreamInv'
  <2>1. Bell!Up'
    BY <1>1 DEF Bell!Up
  <2>2. \A u \in Tabs \ openTabs : bus'[u] = <<>>
    BY <1>1, <1>2, <1>4 DEF StreamInv
  <2> QED
    BY <1>1, <2>1, <2>2 DEF StreamInv
<1>8. EventsInv'
  BY <1>1, <1>2, <1>3 DEF EventsInv
<1>9. ASSUME NEW u \in openTabs \ missed PROVE TabInv(pipe', bus'[u], fetch'[u], badge'[u], unread', changes')
  <2>1. Right(Last1(pipe), unread, changes)
    BY <1>1, <1>2, <1>6 DEF EventsInv
  <2>2. pipe' = <<>> => Right(Head(pipe), unread, changes)
    BY <1>1, <1>3, <2>1
  <2>3. fetch[u] \notin {Bell!Idle, Bell!Asked} => Right(fetch[u], unread, changes)
    BY <1>2 DEF BadgeInv, TabInv
  <2>4. bus'[u] # <<>> /\ Last1(bus'[u]) = Head(pipe)
    BY <1>1, <1>4, <1>6
  <2> QED
    BY <1>1, <2>2, <2>3, <2>4 DEF TabInv
<1>10. BadgeInv'
  BY <1>1, <1>9 DEF BadgeInv
<1>11. ElectionInv'
  BY <1>2, ElectionInvStep DEF Bell!Next, Bell!Runs
<1> QED
  BY <1>5, <1>7, <1>8, <1>10, <1>11 DEF CountsInv

LEMMA RelayedCounts == ASSUME CountsInv, NEW t \in Tabs, Bell!Relayed(t) PROVE CountsInv'
<1>1. /\ bus[t] # <<>> /\ badge' = [badge EXCEPT ![t] = Head(bus[t])] /\ bus' = [bus EXCEPT ![t] = Tail(bus[t])]
      /\ UNCHANGED <<leader, source, openTabs, pipe, fetch, unread, changes, created, missed>>
  BY DEF Bell!Relayed, Bell!Election, Bell!Server
<1>2. ElectionInv /\ CountsType /\ StreamInv /\ EventsInv /\ BadgeInv
  BY DEF CountsInv
<1>3. /\ Tail(bus[t]) \in Seq(Nat) /\ Head(bus[t]) \in Nat
      /\ Tail(bus[t]) = <<>> => Head(bus[t]) = Last1(bus[t])
      /\ Tail(bus[t]) # <<>> => Last1(Tail(bus[t])) = Last1(bus[t])
  <2>1. bus[t] \in Seq(Nat)
    BY <1>2 DEF CountsType
  <2> QED
    BY <1>1, <2>1, TailLast
<1>4. CountsType'
  <2>1. bus' \in [Tabs -> Seq(Nat)]
    BY <1>1, <1>2, <1>3 DEF CountsType
  <2>2. badge' = [u \in Tabs |-> badge'[u]]
    BY <1>1, <1>2 DEF CountsType
  <2> QED
    BY <1>1, <1>2, <2>1, <2>2 DEF CountsType
<1>5. /\ bus'[t] = Tail(bus[t]) /\ badge'[t] = Head(bus[t])
      /\ \A u \in Tabs : u # t => bus'[u] = bus[u] /\ badge'[u] = badge[u]
  BY <1>1, <1>2 DEF CountsType
<1>6. StreamInv'
  <2>1. \A u \in Tabs \ openTabs : bus'[u] = <<>>
    BY <1>1, <1>2, <1>5 DEF StreamInv
  <2> QED
    BY <1>1, <1>2, <2>1 DEF StreamInv, Bell!Up
<1>7. EventsInv'
  BY <1>1, <1>2 DEF EventsInv
<1>8. ASSUME NEW u \in openTabs \ missed PROVE TabInv(pipe', bus'[u], fetch'[u], badge'[u], unread', changes')
  <2>1. TabInv(pipe, bus[u], fetch[u], badge[u], unread, changes) /\ u \in Tabs
    BY <1>2 DEF BadgeInv, CountsType
  <2>2. CASE u = t
    BY <1>1, <1>3, <1>5, <2>1, <2>2 DEF TabInv
  <2>3. CASE u # t
    BY <1>1, <1>5, <2>1, <2>3
  <2> QED
    BY <2>2, <2>3
<1>9. BadgeInv'
  BY <1>1, <1>8 DEF BadgeInv
<1>10. ElectionInv'
  BY <1>2, ElectionInvStep DEF Bell!Next, Bell!Runs
<1> QED
  BY <1>4, <1>6, <1>7, <1>9, <1>10 DEF CountsInv

\* A tab reads the count.
LEMMA AskedCounts == ASSUME CountsInv, NEW t \in Tabs, Bell!getUnreadCount(t) PROVE CountsInv'
<1>1. /\ fetch' = [fetch EXCEPT ![t] = Cardinality(unread)]
      /\ missed' = IF changes # {} THEN missed \cup {t} ELSE IF bus[t] = <<>> /\ pipe = <<>> THEN missed \ {t} ELSE missed
      /\ UNCHANGED <<leader, source, openTabs, pipe, bus, badge, unread, changes, created>>
  BY SameCount DEF Bell!getUnreadCount, Bell!Election, Bell!Server
<1>2. ElectionInv /\ CountsType /\ StreamInv /\ EventsInv /\ BadgeInv
  BY DEF CountsInv
<1>3. CountsType' /\ StreamInv'
  BY <1>1, <1>2 DEF CountsType, StreamInv, Bell!Up
<1>4. EventsInv'
  BY <1>1, <1>2 DEF EventsInv
<1>5. Cardinality(unread) \notin {Bell!Idle, Bell!Asked}
  BY <1>2, CountIsNat DEF Bell!Idle, Bell!Asked
<1>6. ASSUME NEW u \in openTabs \ missed' PROVE TabInv(pipe', bus'[u], fetch'[u], badge'[u], unread', changes')
  <2>0. u \in Tabs
    BY <1>2 DEF CountsType
  <2>1. CASE u = t
    <3>1. changes = {} /\ fetch'[u] = Cardinality(unread)
      BY <1>1, <1>2, <1>6, <2>0, <2>1 DEF CountsType
    <3>2. Right(fetch'[u], unread, changes)
      BY <3>1 DEF Right
    <3>3. pipe = <<>> /\ bus[u] # <<>> => Right(Last1(bus[u]), unread, changes)
      <4> SUFFICES ASSUME bus[u] # <<>> PROVE u \notin missed
        BY <1>2 DEF BadgeInv, TabInv
      <4> QED
        BY <1>1, <1>6, <2>1, <3>1
    <3> QED
      BY <1>1, <1>5, <3>1, <3>2, <3>3 DEF TabInv
  <2>2. CASE u # t
    <3>1. u \notin missed /\ fetch'[u] = fetch[u]
      BY <1>1, <1>2, <1>6, <2>0, <2>2 DEF CountsType
    <3> QED
      BY <1>1, <1>2, <3>1 DEF BadgeInv
  <2> QED
    BY <2>1, <2>2
<1>7. BadgeInv'
  BY <1>1, <1>6 DEF BadgeInv
<1>8. ElectionInv'
  BY <1>2, ElectionInvStep DEF Bell!Next, Bell!Runs
<1> QED
  BY <1>3, <1>4, <1>7, <1>8 DEF CountsInv

LEMMA FetchedCounts == ASSUME CountsInv, NEW t \in Tabs, Bell!Fetched(t) PROVE CountsInv'
<1>1. /\ fetch[t] \notin {Bell!Idle, Bell!Asked} /\ badge' = [badge EXCEPT ![t] = fetch[t]]
      /\ fetch' = [fetch EXCEPT ![t] = Bell!Idle]
      /\ UNCHANGED <<leader, source, openTabs, pipe, bus, unread, changes, created, missed>>
  BY DEF Bell!Fetched, Bell!Election, Bell!Server
<1>2. ElectionInv /\ CountsType /\ StreamInv /\ EventsInv /\ BadgeInv
  BY DEF CountsInv
<1>3. CountsType' /\ StreamInv'
  BY <1>1, <1>2 DEF CountsType, StreamInv, Bell!Up
<1>4. EventsInv'
  BY <1>1, <1>2 DEF EventsInv
<1>5. /\ fetch'[t] = Bell!Idle /\ badge'[t] = fetch[t]
      /\ \A u \in Tabs : u # t => fetch'[u] = fetch[u] /\ badge'[u] = badge[u]
  BY <1>1, <1>2 DEF CountsType
<1>6. ASSUME NEW u \in openTabs \ missed PROVE TabInv(pipe', bus'[u], fetch'[u], badge'[u], unread', changes')
  <2>1. TabInv(pipe, bus[u], fetch[u], badge[u], unread, changes) /\ u \in Tabs
    BY <1>2 DEF BadgeInv, CountsType
  <2>2. CASE u = t
    BY <1>1, <1>5, <2>1, <2>2 DEF TabInv
  <2>3. CASE u # t
    BY <1>1, <1>5, <2>1, <2>3
  <2> QED
    BY <2>2, <2>3
<1>7. BadgeInv'
  BY <1>1, <1>6 DEF BadgeInv
<1>8. ElectionInv'
  BY <1>2, ElectionInvStep DEF Bell!Next, Bell!Runs
<1> QED
  BY <1>3, <1>4, <1>7, <1>8 DEF CountsInv

\* A transaction changes notifications, and broadcasts what it will have left.
LEMMA ChangeCounts ==
    ASSUME CountsInv, NEW add, NEW remove, NEW by, Bell!Change(add, remove, by), IsFiniteSet(add),
           created' \in Nat, ElectionInv'
    PROVE  CountsInv'
<1> DEFINE c == [add |-> add, remove |-> remove, by |-> by]
           n == Cardinality((unread \cup add) \ remove)
           late == {t \in Tabs : fetch[t] \notin {Bell!Idle, Bell!Asked}}
<1>1. /\ changes' = changes \cup {c} /\ pipe' = (IF Bell!Up THEN Append(pipe, n) ELSE pipe)
      /\ missed' = (IF changes # {} THEN Tabs ELSE missed \cup (IF Bell!Up THEN late ELSE openTabs))
      /\ UNCHANGED <<leader, source, openTabs, bus, badge, fetch, unread>>
  BY SameCount DEF Bell!Change, Bell!broadcast, Bell!Election
<1>2. ElectionInv /\ CountsType /\ StreamInv /\ EventsInv /\ BadgeInv
  BY DEF CountsInv
<1>3. n \in Nat
  <2>1. IsFiniteSet((unread \cup add) \ remove)
    BY <1>2, FS_Union, FS_Difference DEF CountsType
  <2> QED
    BY <2>1, FS_CardinalityType
<1>4. c.add = add /\ Right(n, unread, {c})
  <2>1. c.add = add /\ c.remove = remove
    OBVIOUS
  <2> HIDE DEF c
  <2> QED
    BY <2>1 DEF Right
<1> HIDE DEF c, n
<1>5. Append(pipe, n) \in Seq(Nat) /\ Append(pipe, n) # <<>> /\ Last1(Append(pipe, n)) = n
  BY <1>2, <1>3, AppendLast DEF CountsType
<1>6. CountsType'
  BY <1>1, <1>2, <1>4, <1>5 DEF CountsType
<1>7. StreamInv'
  BY <1>1, <1>2 DEF StreamInv, Bell!Up
<1>8. CASE changes # {}
  <2>1. EventsInv' /\ BadgeInv'
    BY <1>1, <1>2, <1>8 DEF EventsInv, BadgeInv, CountsType
  <2> QED
    BY <1>6, <1>7, <2>1 DEF CountsInv
<1>9. CASE changes = {}
  <2>1. changes' = {c} /\ missed' = missed \cup (IF Bell!Up THEN late ELSE openTabs)
    BY <1>1, <1>9
  <2>2. pipe' # <<>> => Right(Last1(pipe'), unread, changes')
    BY <1>1, <1>2, <1>4, <1>5, <2>1 DEF StreamInv
  <2>3. EventsInv'
    BY <1>1, <2>1, <2>2 DEF EventsInv
  <2>4. ASSUME NEW u \in openTabs \ missed' PROVE TabInv(pipe', bus[u], fetch[u], badge[u], unread, changes')
    <3>1. Bell!Up /\ fetch[u] \in {Bell!Idle, Bell!Asked} /\ pipe' # <<>>
      BY <1>1, <1>2, <1>5, <2>1, <2>4 DEF CountsType
    <3> QED
      BY <3>1 DEF TabInv
  <2>5. BadgeInv'
    BY <1>1, <2>4 DEF BadgeInv
  <2> QED
    BY <1>6, <1>7, <2>3, <2>5 DEF CountsInv
<1> QED
  BY <1>8, <1>9

LEMMA CommitCounts == ASSUME CountsInv, Bell!Commit PROVE CountsInv'
<1>1. PICK c \in changes : /\ unread' = (unread \cup c.add) \ c.remove /\ changes' = changes \ {c}
                           /\ fetch' = (IF c.by \in openTabs THEN [fetch EXCEPT ![c.by] = Bell!Asked] ELSE fetch)
                           /\ UNCHANGED <<leader, source, openTabs, pipe, bus, badge, created, missed>>
  BY DEF Bell!Commit, Bell!Election
<1>2. ElectionInv /\ CountsType /\ StreamInv /\ EventsInv /\ BadgeInv
  BY DEF CountsInv
<1>3. CountsType'
  <2>1. IsFiniteSet(unread')
    BY <1>1, <1>2, FS_Union, FS_Difference DEF CountsType
  <2>2. fetch' = [u \in Tabs |-> fetch'[u]]
    BY <1>1, <1>2 DEF CountsType
  <2> QED
    BY <1>1, <1>2, <2>1, <2>2 DEF CountsType
<1>4. StreamInv'
  BY <1>1, <1>2 DEF StreamInv, Bell!Up
<1>5. ASSUME \A e, d \in changes : e = d PROVE changes' = {} /\ \A n : Right(n, unread, changes) => Right(n, unread', changes')
  BY <1>1, <1>5 DEF Right
<1>6. EventsInv'
  <2>1. CASE Tabs \subseteq missed
    BY <1>1, <2>1 DEF EventsInv
  <2>2. CASE /\ \A e, d \in changes : e = d
             /\ pipe # <<>> => Right(Last1(pipe), unread, changes)
    BY <1>1, <1>5, <2>2 DEF EventsInv
  <2> QED
    BY <1>2, <2>1, <2>2 DEF EventsInv
<1>7. ASSUME NEW u \in openTabs \ missed PROVE TabInv(pipe', bus'[u], fetch'[u], badge'[u], unread', changes')
  <2>1. u \in Tabs /\ \A e, d \in changes : e = d
    BY <1>2 DEF EventsInv, CountsType
  <2>2. TabInv(pipe, bus[u], fetch[u], badge[u], unread, changes)
    BY <1>2 DEF BadgeInv
  <2>3. fetch'[u] = fetch[u] \/ fetch'[u] = Bell!Asked
    BY <1>1, <1>2, <2>1 DEF CountsType
  <2>4. Bell!Asked # Bell!Idle
    BY DEF Bell!Asked, Bell!Idle
  <2>5. \A n : Right(n, unread, changes) => Right(n, unread', changes')
    BY <1>5, <2>1
  <2> QED
    BY <1>1, <2>2, <2>3, <2>4, <2>5 DEF TabInv
<1>8. BadgeInv'
  BY <1>1, <1>7 DEF BadgeInv
<1>9. ElectionInv'
  BY <1>2, ElectionInvStep DEF Bell!Next, Bell!Runs
<1> QED
  BY <1>3, <1>4, <1>6, <1>8, <1>9 DEF CountsInv

LEMMA CountsInvStep == CountsInv /\ [Bell!Next]_bellVars => CountsInv'
<1> SUFFICES ASSUME CountsInv, [Bell!Next]_bellVars PROVE CountsInv'
  OBVIOUS
<1>1. ElectionInv' /\ created \in Nat /\ IsFiniteSet({}) /\ \A x : IsFiniteSet({x})
  BY ElectionInvStep, FS_EmptySet, FS_Singleton DEF CountsInv, CountsType
<1>2. CASE UNCHANGED bellVars
  BY <1>1, <1>2 DEF bellVars, CountsInv, CountsType, StreamInv, EventsInv, BadgeInv, Bell!Up
<1>3. CASE Bell!create
  <2>1. Bell!Change({created + 1}, {}, "scheduler") /\ created' = created + 1
    BY <1>3 DEF Bell!create
  <2>2. created' \in Nat
    BY <1>1, <2>1
  <2>3. IsFiniteSet({created + 1})
    BY <1>1
  <2> QED
    BY <1>1, <2>1, <2>2, <2>3, ChangeCounts
<1>4. ASSUME NEW t \in Tabs, Bell!markAsRead(t) PROVE CountsInv'
  <2>1. created' = created
    BY <1>4 DEF Bell!markAsRead
  <2>2. PICK n \in unread : Bell!Change({}, {n}, t)
    BY <1>4 DEF Bell!markAsRead
  <2> QED
    BY <1>1, <2>1, <2>2, ChangeCounts
<1>5. ASSUME NEW t \in Tabs, Bell!markAllAsRead(t) PROVE CountsInv'
  <2>1. Bell!Change({}, unread, t) /\ created' = created
    BY <1>5 DEF Bell!markAllAsRead
  <2> QED
    BY <1>1, <2>1, ChangeCounts
<1> QED
  BY <1>2, <1>3, <1>4, <1>5, MountCounts, GrantedCounts, ConnectCounts, DisconnectCounts, CleanupCounts, RelayCounts,
     RelayedCounts, AskedCounts, FetchedCounts, CommitCounts DEF Bell!Next, Bell!Runs

\* useNotifications and NotificationService: a tab that no event passed by shows the committed count once nothing is
\* under way, whichever tabs open, lead, close and mark as read while transactions broadcast before they commit.
THEOREM BadgesAreRight == Spec => []BadgeCounts
<1>1. Init => CountsInv
  BY CountsInvInit DEF Init
<1>2. CountsInv /\ [Next]_vars => CountsInv'
  BY CountsInvStep, PartSteps
<1>3. CountsInv => BadgeCounts
  BY SameCount DEF CountsInv, BadgeInv, TabInv, Right, BadgeCounts, Bell!BadgeCounts
<1> QED
  BY <1>1, <1>2, <1>3, PTL DEF Spec

-----------------------------------------------------------------------------
(* Code sections that run.                                                 *)

\* Where the executions stand: one at most per section, whose flag is set, and a frame only for a script that
\* has not resolved.
RunsType ==
    /\ runs \subseteq Code!Run
    /\ running \in [Codes -> BOOLEAN] /\ output \in [Codes -> Code!Outputs]
    /\ \A r \in runs : running[r.sec]
    /\ \A q, r \in runs : q.sec = r.sec => q = r
    /\ frames \subseteq {r.sec : r \in Code!Scripts} /\ posted \subseteq Codes

\* A result that is coming, or has come, meets scripts of its own section or of mixed ones.
RunsInv ==
    /\ RunsType
    /\ \A c \in posted \cup frames, r \in Code!Scripts : r.sec = c \/ r.sec \in mixed
    /\ Code!OwnOutput

LEMMA RunsInvInit == Code!Init => RunsInv
BY DEF Code!Init, RunsInv, RunsType, Code!OwnOutput, Code!Scripts, Code!Outputs, Code!Cleared

\* Executions resolve: their frames are gone, their sections may show what comes of them.
LEMMA ResolveKeepsInv ==
    ASSUME RunsInv, NEW done \in SUBSET runs, NEW result \in Code!Outputs, Code!Resolve(done, result),
           frames' = frames \ {r.sec : r \in done \cap Code!Scripts}, posted' \subseteq posted, mixed' = mixed,
           \A r \in done : result \in {r.sec, Code!Cleared, Code!Failure} \/ r.sec \in mixed
    PROVE  RunsInv'
<1> USE DEF RunsInv, RunsType
<1>1. /\ runs' = runs \ done
      /\ output' = [c \in Codes |-> IF \E r \in done : r.sec = c THEN result ELSE output[c]]
      /\ running' = [c \in Codes |-> running[c] /\ \A r \in done : r.sec # c]
  BY DEF Code!Resolve
<1>2. \A r \in runs : r.sec \in Codes
  BY DEF Code!Run
<1>3. running' \in [Codes -> BOOLEAN] /\ output' \in [Codes -> Code!Outputs]
  BY <1>1
<1>4. \A r \in runs' : running'[r.sec]
  BY <1>1, <1>2
<1>5. Code!Scripts' = Code!Scripts \ done
  BY <1>1 DEF Code!Scripts
<1>6. frames' \subseteq {r.sec : r \in Code!Scripts'}
  BY <1>1, <1>5 DEF Code!Scripts
<1>7. RunsType'
  BY <1>1, <1>3, <1>4, <1>6
<1>8. \A c \in Codes : output'[c] \in {c, Code!Cleared, Code!Failure} \/ c \in mixed'
  BY <1>1 DEF Code!OwnOutput
<1>9. \A c \in posted' \cup frames', r \in Code!Scripts' : r.sec = c \/ r.sec \in mixed'
  BY <1>5
<1> QED
  BY <1>7, <1>8, <1>9 DEF Code!OwnOutput

LEMMA RunsInvStep == RunsInv /\ [Code!Next]_codeVars => RunsInv'
<1> SUFFICES ASSUME RunsInv, [Code!Next]_codeVars PROVE RunsInv'
  OBVIOUS
<1> USE DEF RunsInv, RunsType
<1>1. ASSUME NEW c \in Codes, NEW lang \in {"javascript", "python"}, Code!handleRun(c, lang) PROVE RunsInv'
  <2> DEFINE new == [sec |-> c, lang |-> lang]
  <2>1. /\ ~running[c] /\ running' = [running EXCEPT ![c] = TRUE]
        /\ output' = [output EXCEPT ![c] = Code!Cleared]
        /\ runs' = runs \cup {new} /\ posted' = posted
    BY <1>1 DEF Code!handleRun
  <2>2. new \in Code!Run /\ new.sec = c /\ new.lang = lang
    BY DEF Code!Run
  <2> HIDE DEF new
  <2>3. \A r \in runs : r.sec \in Codes /\ r.sec # c
    BY <2>1 DEF Code!Run
  <2>4. running' \in [Codes -> BOOLEAN] /\ \A d \in Codes : running'[d] = (running[d] \/ d = c)
    BY <2>1
  <2>5. output' \in [Codes -> Code!Outputs] /\ \A d \in Codes : output'[d] = IF d = c THEN Code!Cleared ELSE output[d]
    BY <2>1 DEF Code!Outputs
  <2>6. \A q, r \in runs' : q.sec = r.sec => q = r
    BY <2>1, <2>2, <2>3
  <2>7. \A r \in runs' : running'[r.sec]
    BY <2>1, <2>2, <2>3, <2>4
  <2>8. Code!Scripts' = IF lang = "javascript" THEN Code!Scripts \cup {new} ELSE Code!Scripts
    BY <2>1, <2>2 DEF Code!Scripts
  <2>9. frames' = IF lang = "javascript" THEN frames \cup {c} ELSE frames
    BY <1>1 DEF Code!handleRun
  <2>10. frames' \subseteq {r.sec : r \in Code!Scripts'}
    BY <2>2, <2>8, <2>9
  <2>11. RunsType'
    BY <2>1, <2>2, <2>4, <2>5, <2>6, <2>7, <2>10
  <2>12. \A d \in Codes : d # c /\ d \in mixed => d \in mixed'
    BY <1>1 DEF Code!handleRun
  <2>13. Code!OwnOutput'
    BY <2>5, <2>12 DEF Code!OwnOutput
  <2>14. ASSUME NEW d \in posted' \cup frames', NEW r \in Code!Scripts' PROVE r.sec = d \/ r.sec \in mixed'
    <3>1. CASE lang = "python"
      <4>1. r \in Code!Scripts /\ r.sec \in Codes /\ r.sec # c /\ d \in posted \cup frames
        BY <2>1, <2>3, <2>8, <2>9, <3>1 DEF Code!Scripts
      <4> QED
        BY <4>1, <2>12
    <3>2. CASE lang = "javascript" /\ Code!Scripts = {} /\ posted = {}
      BY <2>1, <2>2, <2>8, <2>9, <3>2
    <3>3. CASE lang = "javascript" /\ ~(Code!Scripts = {} /\ posted = {})
      <4>1. mixed' = mixed \cup {c} \cup {q.sec : q \in Code!Scripts}
        BY <1>1, <3>3 DEF Code!handleRun
      <4> QED
        BY <2>2, <2>8, <3>3, <4>1
    <3> QED
      BY <3>1, <3>2, <3>3
  <2> QED
    BY <2>11, <2>13, <2>14
<1>2. ASSUME NEW c \in Codes, Code!ClearOutput(c) PROVE RunsInv'
  BY <1>2 DEF Code!ClearOutput, Code!OwnOutput, Code!Outputs, Code!Scripts
<1>3. ASSUME NEW c \in Codes, Code!FramePosts(c) PROVE RunsInv'
  BY <1>3 DEF Code!FramePosts, Code!OwnOutput, Code!Scripts
<1>4. ASSUME NEW c \in posted, Code!handleMessage(c) PROVE RunsInv'
  <2> DEFINE done == Code!Scripts
  <2>1. /\ done \in SUBSET runs /\ done \cap Code!Scripts = done /\ Code!Resolve(done, c)
        /\ frames' = frames \ {r.sec : r \in done} /\ posted' \subseteq posted /\ mixed' = mixed
    BY <1>4 DEF Code!handleMessage, Code!Scripts
  <2>2. \A r \in done : c \in {r.sec, Code!Cleared, Code!Failure} \/ r.sec \in mixed
    BY DEF Code!Scripts
  <2>3. c \in Code!Outputs
    BY DEF Code!Outputs
  <2> QED
    BY <2>1, <2>2, <2>3, ResolveKeepsInv
<1>5. ASSUME NEW r \in runs, Code!Ends(r) PROVE RunsInv'
  <2> DEFINE done == {r}
  <2>1. r.sec \in Codes /\ done \in SUBSET runs
    BY DEF Code!Run
  <2>2. PICK result \in {r.sec, Code!Failure} : Code!Resolve(done, result)
    BY <1>5 DEF Code!Ends, Code!Timeout, Code!RunPython, Code!PythonFails
  <2>3. frames' = IF r.lang = "javascript" THEN frames \ {r.sec} ELSE frames
    BY <1>5 DEF Code!Ends, Code!Timeout, Code!RunPython, Code!PythonFails
  <2>4. frames' = frames \ {q.sec : q \in done \cap Code!Scripts}
    BY <2>3 DEF Code!Scripts
  <2>5. UNCHANGED <<posted, mixed>>
    BY <1>5 DEF Code!Ends, Code!Timeout, Code!RunPython, Code!PythonFails
  <2>6. result \in Code!Outputs
    BY <2>1 DEF Code!Outputs
  <2>7. \A q \in done : result \in {q.sec, Code!Cleared, Code!Failure} \/ q.sec \in mixed
    BY <2>2
  <2> HIDE DEF done
  <2> QED
    BY <2>1, <2>2, <2>4, <2>5, <2>6, <2>7, ResolveKeepsInv
<1>6. CASE Code!LoadPyodide \/ UNCHANGED codeVars
  BY <1>6 DEF Code!LoadPyodide, codeVars, Code!OwnOutput, Code!Scripts
<1> QED
  BY <1>1, <1>2, <1>3, <1>4, <1>5, <1>6 DEF Code!Next

\* executeJavaScript and executePython: a section shows the output of its own code, of JavaScript as long as no
\* other section's script ran at the same time, for any sections, runs, timeouts and late messages.
THEOREM OutputIsOwn == Spec => []OwnOutput
<1>1. Init => RunsInv
  BY RunsInvInit DEF Init
<1>2. RunsInv /\ [Next]_vars => RunsInv'
  BY RunsInvStep, PartSteps
<1>3. RunsInv => OwnOutput
  BY DEF RunsInv, OwnOutput
<1> QED
  BY <1>1, <1>2, <1>3, PTL DEF Spec

-----------------------------------------------------------------------------
(* The AI assist dialog.                                                   *)

\* A request in flight is that of the open dialog, after the turn that asked for it; only a request in flight
\* is a cancelled one.
DialogInv ==
    /\ history \in Seq(Assist!Turns) /\ call \in Assist!Calls
    /\ call.at # "none" => open /\ history # <<>>
    /\ call.cancelled => call.at # "none"

\* What is left of a history without its last turn.
LEMMA FrontShortens ==
    ASSUME NEW T, NEW s \in Seq(T), s # <<>>
    PROVE  /\ Assist!Front(s) \in Seq(T) /\ Len(Assist!Front(s)) = Len(s) - 1
           /\ Assist!Last(s) \in T
<1>1. Len(s) \in Nat \ {0} /\ \A i \in 1 .. Len(s) : s[i] \in T
  OBVIOUS
<1>2. SubSeq(s, 1, Len(s) - 1) \in Seq(T) /\ Len(SubSeq(s, 1, Len(s) - 1)) = Len(s) - 1
  BY <1>1, SubSeqProperties, Z3
<1> QED
  BY <1>1, <1>2 DEF Assist!Front, Assist!Last

LEMMA DialogInvInit == Assist!Init => DialogInv
BY DEF Assist!Init, DialogInv, Assist!Calls, Assist!NoCall

\* An answer is put behind the turn it answers.
LEMMA ResponseKeepsTurns ==
    ASSUME DialogInv, NEW reply \in Assist!Replies, history # <<>>, Assist!handleResponse(reply)
    PROVE  history' \in Seq(Assist!Turns)
<1>1. Assist!Front(history) \in Seq(Assist!Turns) /\ Assist!Last(history) \in Assist!Turns
  BY FrontShortens DEF DialogInv
<1>2. <<Assist!Last(history), reply>> \in Seq(Assist!Turns)
  BY <1>1 DEF Assist!Turns
<1> QED
  BY <1>1, <1>2 DEF Assist!handleResponse, Assist!Sent

\* A step that leaves no request in flight keeps the invariant if the history keeps being one.
LEMMA RestKeepsInv ==
    ASSUME history' \in Seq(Assist!Turns), call' = Assist!NoCall
    PROVE  DialogInv'
BY DEF DialogInv, Assist!NoCall, Assist!Calls

LEMMA DialogInvStep == DialogInv /\ [Assist!Next]_assistVars => DialogInv'
<1> SUFFICES ASSUME DialogInv, [Assist!Next]_assistVars PROVE DialogInv'
  OBVIOUS
<1> USE DEF DialogInv
<1>1. CASE Assist!Open \/ Assist!undo \/ UNCHANGED assistVars
  BY <1>1 DEF Assist!Open, Assist!undo, Assist!loading, assistVars
<1>2. ASSUME NEW turn \in Assist!Turns, Assist!Ask(turn) PROVE DialogInv'
  <2>1. history' = Append(history, turn) /\ open' /\ call' = [at |-> "stream", cancelled |-> FALSE]
    BY <1>2 DEF Assist!Ask
  <2>2. history' \in Seq(Assist!Turns) /\ history' # <<>>
    BY <2>1
  <2> QED
    BY <2>1, <2>2 DEF Assist!Calls
<1>3. ASSUME NEW reply \in Assist!Replies, Assist!StreamCompletes(reply) \/ Assist!InvokeAnswers(reply)
      PROVE  DialogInv'
  <2>1. call.at # "none" /\ call' = Assist!NoCall
    BY <1>3 DEF Assist!StreamCompletes, Assist!InvokeAnswers, Assist!Done
  <2>2. history' = history \/ Assist!handleResponse(reply)
    BY <1>3 DEF Assist!StreamCompletes, Assist!InvokeAnswers
  <2>3. history' \in Seq(Assist!Turns)
    BY <2>1, <2>2, ResponseKeepsTurns
  <2> QED
    BY <2>1, <2>3, RestKeepsInv
<1>4. CASE Assist!StreamReportsError \/ Assist!StreamEnds
  BY <1>4, RestKeepsInv DEF Assist!StreamReportsError, Assist!StreamEnds, Assist!Done
<1>5. CASE Assist!StreamThrows
  BY <1>5 DEF Assist!StreamThrows, Assist!NoCall, Assist!Calls
<1>6. CASE Assist!InvokeRefused \/ Assist!InvokeThrows
  <2>1. call.at # "none" /\ call' = Assist!NoCall
    BY <1>6 DEF Assist!InvokeRefused, Assist!InvokeThrows, Assist!Done
  <2>2. history' = history \/ history' = Assist!Front(history)
    BY <1>6 DEF Assist!InvokeRefused, Assist!InvokeThrows, Assist!Sent
  <2> QED
    BY <2>1, <2>2, FrontShortens, RestKeepsInv
<1>7. CASE Assist!cancel
  BY <1>7 DEF Assist!cancel, Assist!loading, Assist!Calls
<1>8. CASE Assist!Close \/ Assist!handleSave
  <2>1. history' = <<>> /\ call' = Assist!NoCall
    BY <1>8 DEF Assist!Close, Assist!handleSave, Assist!Leave
  <2> QED
    BY <2>1, RestKeepsInv
<1> QED
  BY <1>1, <1>2, <1>3, <1>4, <1>5, <1>6, <1>7, <1>8
  DEF Assist!Next, Assist!Settle, Assist!sendMessage, Assist!submitAnswers, Assist!regenerate, Assist!Turns

\* What CancelledIsSilent says of one step.
Silent ==
    call.cancelled /\ open' =>
        /\ stack' = stack
        /\ Len(history') <= Len(history)
        /\ error' => error

LEMMA DialogStepIsSilent == DialogInv /\ [Assist!Next]_assistVars => Silent
<1> SUFFICES ASSUME DialogInv, [Assist!Next]_assistVars, call.cancelled, open'
             PROVE  stack' = stack /\ Len(history') <= Len(history) /\ (error' => error)
  BY DEF Silent
<1>1. Len(history) \in Nat /\ open /\ Assist!loading /\ history # <<>>
  BY DEF DialogInv, Assist!loading
<1>2. \A turn : ~Assist!Ask(turn)
  BY <1>1 DEF Assist!Ask
<1>3. ~Assist!Open /\ ~Assist!undo /\ ~Assist!Close /\ ~Assist!handleSave /\ ~Assist!cancel
  BY <1>1 DEF Assist!Open, Assist!undo, Assist!Close, Assist!handleSave, Assist!Leave, Assist!cancel
<1>4. CASE UNCHANGED assistVars
  BY <1>1, <1>4 DEF assistVars
<1>5. CASE Assist!Settle
  <2>1. ASSUME NEW reply \in Assist!Replies, Assist!StreamCompletes(reply)
        PROVE  UNCHANGED <<history, stack, error>>
    BY <2>1 DEF Assist!StreamCompletes
  <2>2. ASSUME Assist!StreamReportsError \/ Assist!StreamThrows PROVE UNCHANGED <<history, stack, error>>
    BY <2>2 DEF Assist!StreamReportsError, Assist!StreamThrows
  <2>3. ASSUME Assist!InvokeThrows PROVE history' = Assist!Front(history) /\ UNCHANGED <<stack, error>>
    BY <2>3 DEF Assist!InvokeThrows
  <2>4. ~Assist!StreamEnds /\ ~Assist!InvokeRefused /\ \A reply : ~Assist!InvokeAnswers(reply)
    BY DEF Assist!StreamEnds, Assist!InvokeRefused, Assist!InvokeAnswers
  <2>5. Len(Assist!Front(history)) <= Len(history)
    BY <1>1, FrontShortens DEF DialogInv
  <2>6. UNCHANGED <<history, stack, error>> \/ (history' = Assist!Front(history) /\ UNCHANGED <<stack, error>>)
    BY <1>5, <2>1, <2>2, <2>3, <2>4 DEF Assist!Settle
  <2> QED
    BY <1>1, <2>5, <2>6
<1> QED
  BY <1>2, <1>3, <1>4, <1>5 DEF Assist!Next, Assist!sendMessage, Assist!submitAnswers, Assist!regenerate

\* The AbortController of the dialog: whatever the stream and the blocking request still do after the user
\* cancelled, no content, no reply and no error comes of it, for any number of questions.
THEOREM CancelledAsksAreSilent == Spec => CancelledIsSilent
<1>1. Init => DialogInv
  BY DialogInvInit DEF Init
<1>2. DialogInv /\ [Next]_vars => DialogInv'
  BY DialogInvStep, PartSteps
<1>3. DialogInv /\ [Next]_vars => [Silent]_assistVars
  BY DialogStepIsSilent, PartSteps
<1>4. Spec => [][Silent]_assistVars
  BY <1>1, <1>2, <1>3, PTL DEF Spec
<1> QED
  BY <1>4 DEF CancelledIsSilent, Assist!CancelledIsSilent, Silent, Assist!vars, assistVars

-----------------------------------------------------------------------------
(* Types.  What the invariants above leave of the types of each part is    *)
(* kept by its steps in their turn.                                        *)

LEMMA BoundsAreNaturals ==
    /\ MaxSends \in Nat /\ MaxRecordings \in Nat /\ MaxFiles \in Nat /\ MaxRuns \in Nat
    /\ MaxNotes \in Nat /\ MaxRequests \in Nat /\ MaxReviews \in Nat /\ MaxSaves \in Nat
BY BoundsAssumption

-----------------------------------------------------------------------------
(* Types of the AI assist dialog: what its invariant leaves.               *)

AssistTypes ==
    /\ stack \in Seq(Nat) /\ stack # <<>> /\ section \in Nat /\ sends \in 0 .. MaxSends
    /\ open \in BOOLEAN /\ error \in BOOLEAN

LEMMA AssistTypesAtFirst == ASSUME Assist!Init PROVE AssistTypes
<1>1. open \in BOOLEAN /\ error \in BOOLEAN
  BY Zenon DEF Assist!Init
<1>2. stack \in Seq(Nat) /\ stack # <<>> /\ section \in Nat /\ sends \in 0 .. MaxSends
  <2>1. stack = <<0>> /\ section = 0 /\ sends = 0
    BY DEF Assist!Init
  <2> QED
    BY <2>1, BoundsAreNaturals
<1> QED
  BY <1>1, <1>2 DEF AssistTypes

LEMMA LongIsNotEmpty == ASSUME NEW s, Len(s) # 0 PROVE s # <<>>
OBVIOUS

LEMMA AssistTypesStep == ASSUME DialogInv, AssistTypes, [Assist!Next]_assistVars PROVE AssistTypes'
<1> USE DEF AssistTypes
<1>1. /\ Len(stack) \in Nat /\ Assist!Last(stack) \in Nat /\ sends \in Nat
      /\ Len(stack) > 1 => Assist!Front(stack) \in Seq(Nat) /\ Assist!Front(stack) # <<>>
      /\ Append(stack, sends) \in Seq(Nat) /\ Append(stack, sends) # <<>>
  <2>1. sends \in Nat /\ Len(stack) \in Nat
    OBVIOUS
  <2>2. Assist!Front(stack) \in Seq(Nat) /\ Len(Assist!Front(stack)) = Len(stack) - 1 /\ Assist!Last(stack) \in Nat
    BY FrontShortens
  <2>3. Len(stack) > 1 => Assist!Front(stack) # <<>>
    <3>1. PICK n, m : n \in Nat /\ n = Len(stack) /\ m = Len(Assist!Front(stack))
      BY <2>1
    <3>2. m = n - 1
      BY <2>2, <3>1
    <3>3. n > 1 => m # 0
      BY <3>1, <3>2
    <3> QED
      BY <3>1, <3>3, LongIsNotEmpty
  <2> QED
    BY <2>1, <2>2, <2>3, AppendLast
<1>2. CASE Assist!Open \/ Assist!Close \/ Assist!handleSave
  <2>1. \A n \in Nat : <<n>> \in Seq(Nat) /\ <<n>> # <<>>
    OBVIOUS
  <2> QED
    BY <1>1, <1>2, <2>1 DEF Assist!Open, Assist!Close, Assist!handleSave, Assist!Leave, Assist!currentContent
<1>3. ASSUME NEW turn, Assist!Ask(turn) PROVE AssistTypes'
  <2>1. sends < MaxSends /\ sends' = sends + 1 /\ UNCHANGED <<open, stack, section>>
    BY <1>3 DEF Assist!Ask
  <2>2. sends' \in 0 .. MaxSends
    BY <2>1, BoundsAreNaturals
  <2>3. error' \in BOOLEAN
    BY <1>3, Zenon DEF Assist!Ask
  <2> QED
    BY <2>1, <2>2, <2>3
<1>4. CASE Assist!sendMessage \/ Assist!submitAnswers \/ Assist!regenerate
  BY <1>3, <1>4 DEF Assist!sendMessage, Assist!submitAnswers, Assist!regenerate
<1>5. ASSUME NEW reply, Assist!StreamCompletes(reply) \/ Assist!InvokeAnswers(reply) PROVE AssistTypes'
  BY <1>1, <1>5 DEF Assist!StreamCompletes, Assist!InvokeAnswers, Assist!handleResponse
<1>6. CASE Assist!StreamReportsError \/ Assist!StreamEnds \/ Assist!StreamThrows \/ Assist!InvokeRefused \/ Assist!InvokeThrows
  BY <1>6 DEF Assist!StreamReportsError, Assist!StreamEnds, Assist!StreamThrows, Assist!InvokeRefused, Assist!InvokeThrows
<1>7. CASE Assist!cancel \/ UNCHANGED assistVars
  BY <1>7 DEF Assist!cancel, assistVars
<1>8. CASE Assist!undo
  BY <1>1, <1>8 DEF Assist!undo
<1> QED
  BY <1>2, <1>4, <1>5, <1>6, <1>7, <1>8 DEF Assist!Next, Assist!Settle

-----------------------------------------------------------------------------
(* Types of the recorder.                                                  *)

AudioTypes ==
    /\ asks \in Nat /\ asked \in 0 .. MaxRecordings /\ chosen \in 0 .. MaxFiles
    /\ state \in [Audio!Recorders -> {"none", "recording", "stopping", "done"}]
    /\ live \subseteq Audio!Recorders /\ current \in Audio!Recorders \cup {Audio!Nobody}
    /\ sending \subseteq Audio!Recorders \cup {0}
    /\ mounted \in BOOLEAN /\ form \in BOOLEAN /\ recording \in BOOLEAN
    /\ uploading \in BOOLEAN /\ isRecordingUpload \in BOOLEAN /\ tangled \in BOOLEAN

LEMMA AudioTypesAtFirst == ASSUME Audio!Init PROVE AudioTypes
<1>1. /\ mounted \in BOOLEAN /\ form \in BOOLEAN /\ recording \in BOOLEAN
      /\ uploading \in BOOLEAN /\ isRecordingUpload \in BOOLEAN /\ tangled \in BOOLEAN
  BY Zenon DEF Audio!Init
<1>2. /\ asks = 0 /\ asked = 0 /\ chosen = 0 /\ state = [n \in Audio!Recorders |-> "none"]
      /\ live = {} /\ current = Audio!Nobody /\ sending = {}
  BY DEF Audio!Init
<1>3. asks \in Nat /\ asked \in 0 .. MaxRecordings /\ chosen \in 0 .. MaxFiles
  BY <1>2, BoundsAreNaturals
<1> QED
  BY <1>1, <1>2, <1>3 DEF AudioTypes

\* Stopping a recorder leaves it in a state there is.
LEMMA CleanupTypes ==
    ASSUME AudioTypes, NEW s \in [Audio!Recorders -> {"none", "recording", "stopping", "done"}], Audio!cleanup(s)
    PROVE  /\ state' \in [Audio!Recorders -> {"none", "recording", "stopping", "done"}]
           /\ live' \subseteq Audio!Recorders /\ current' \in Audio!Recorders \cup {Audio!Nobody} /\ recording' = FALSE
BY DEF AudioTypes, Audio!cleanup

LEMMA AudioTypesStep == ASSUME AudioTypes, [Audio!Next]_audioVars PROVE AudioTypes'
<1> USE DEF AudioTypes
<1>1. CASE Audio!start
  BY <1>1, BoundsAreNaturals DEF Audio!start, Audio!Uploading
<1>2. CASE Audio!Granted
  <2>1. PICK n \in Audio!Recorders : /\ state' = [state EXCEPT ![n] = "recording"]
                                     /\ live' = live \cup {n} /\ current' = n
    BY <1>2 DEF Audio!Granted
  <2> QED
    BY <1>2, <2>1 DEF Audio!Granted, Audio!Uploading
<1>3. CASE Audio!Denied \/ Audio!Unmount
  <2>1. Audio!cleanup(state)
    BY <1>3 DEF Audio!Denied, Audio!Unmount
  <2>2. /\ state' \in [Audio!Recorders -> {"none", "recording", "stopping", "done"}]
        /\ live' \subseteq Audio!Recorders /\ current' \in Audio!Recorders \cup {Audio!Nobody} /\ recording' = FALSE
    BY <2>1, CleanupTypes
  <2>3. mounted' \in BOOLEAN /\ tangled' \in BOOLEAN
    BY <1>3, Zenon DEF Audio!Denied, Audio!Unmount
  <2>5. asks' \in Nat
    BY <1>3 DEF Audio!Denied, Audio!Unmount
  <2>4. UNCHANGED <<form, asked, sending, uploading, isRecordingUpload, chosen>>
    BY <1>3 DEF Audio!Denied, Audio!Unmount, Audio!Uploading
  <2>6. recording' \in BOOLEAN
    BY <2>2, Zenon
  <2> QED
    BY <2>2, <2>3, <2>4, <2>5, <2>6
<1>4. CASE Audio!stop
  BY <1>4 DEF Audio!stop, Audio!Uploading
<1>5. ASSUME NEW n \in Audio!Recorders, Audio!OnStop(n) PROVE AudioTypes'
  <2>1. [state EXCEPT ![n] = "done"] \in [Audio!Recorders -> {"none", "recording", "stopping", "done"}]
    OBVIOUS
  <2>2. Audio!cleanup([state EXCEPT ![n] = "done"])
    BY <1>5 DEF Audio!OnStop
  <2> QED
    BY <1>5, <2>1, <2>2, CleanupTypes DEF Audio!OnStop, Audio!Upload
<1>6. CASE Audio!handleFileSelect \/ Audio!Change
  <2>1. form' \in BOOLEAN /\ uploading' \in BOOLEAN /\ isRecordingUpload' \in BOOLEAN
    BY <1>6, Zenon DEF Audio!handleFileSelect, Audio!Change, Audio!Upload, Audio!Uploading
  <2>2. chosen' \in 0 .. MaxFiles /\ sending' \in {sending, sending \cup {0}}
    BY <1>6, BoundsAreNaturals DEF Audio!handleFileSelect, Audio!Change, Audio!Upload, Audio!Uploading
  <2>3. UNCHANGED <<mounted, asks, asked, state, live, current, recording, tangled>>
    BY <1>6 DEF Audio!handleFileSelect, Audio!Change, Audio!Microphone
  <2> QED
    BY <2>1, <2>2, <2>3
<1>7. ASSUME NEW u \in sending, Audio!onUploaded(u) \/ Audio!UploadFails(u) PROVE AudioTypes'
  BY <1>7 DEF Audio!onUploaded, Audio!UploadFails, Audio!Microphone
<1>8. CASE UNCHANGED audioVars
  BY <1>8 DEF audioVars
<1> QED
  BY <1>1, <1>2, <1>3, <1>4, <1>5, <1>6, <1>7, <1>8 DEF Audio!Next

-----------------------------------------------------------------------------
(* Types of the code sections: what their invariant leaves.                *)

CodeTypes ==
    /\ pyodide \in {"none", "loading", "ready", "failed"}
    /\ started \in 0 .. MaxRuns /\ mixed \subseteq Codes

LEMMA CodeTypesAtFirst == ASSUME Code!Init PROVE CodeTypes
BY BoundsAreNaturals DEF Code!Init, CodeTypes

LEMMA CodeTypesOK == ASSUME RunsInv, CodeTypes PROVE Code!TypeOK
<1>1. \A r \in Code!Scripts : r.sec \in Codes
  BY DEF RunsInv, RunsType, Code!Scripts, Code!Run
<1>2. frames \subseteq Codes
  BY <1>1 DEF RunsInv, RunsType
<1> QED
  BY <1>2 DEF RunsInv, RunsType, CodeTypes, Code!TypeOK

LEMMA CodeTypesStep == ASSUME RunsInv, CodeTypes, [Code!Next]_codeVars PROVE CodeTypes'
<1> USE DEF CodeTypes
<1>1. \A r \in Code!Scripts : r.sec \in Codes
  BY DEF RunsInv, RunsType, Code!Scripts, Code!Run
<1>2. ASSUME NEW c \in Codes, NEW lang, Code!handleRun(c, lang) PROVE CodeTypes'
  <2>1. mixed' \in {mixed \ {c}, mixed \cup {c} \cup {r.sec : r \in Code!Scripts}} /\ pyodide' \in {pyodide, "loading"}
    BY <1>2 DEF Code!handleRun
  <2>2. started' \in 0 .. MaxRuns
    BY <1>2, BoundsAreNaturals DEF Code!handleRun
  <2> QED
    BY <1>1, <2>1, <2>2
<1>3. ASSUME NEW c, Code!ClearOutput(c) \/ Code!FramePosts(c) \/ Code!handleMessage(c) PROVE CodeTypes'
  BY <1>3 DEF Code!ClearOutput, Code!FramePosts, Code!handleMessage
<1>4. ASSUME NEW r, Code!Ends(r) PROVE CodeTypes'
  BY <1>4 DEF Code!Ends, Code!Timeout, Code!RunPython, Code!PythonFails
<1>5. CASE Code!LoadPyodide \/ UNCHANGED codeVars
  BY <1>5 DEF Code!LoadPyodide, codeVars
<1> QED
  BY <1>2, <1>3, <1>4, <1>5 DEF Code!Next

-----------------------------------------------------------------------------
(* Types of the bells: counts of notifications.                            *)

CountOf == 0 .. MaxNotes
BellTypes ==
    /\ pipe \in Seq(CountOf) /\ bus \in [Tabs -> Seq(CountOf)]
    /\ badge \in [Tabs -> {Bell!NotLoaded} \cup CountOf]
    /\ fetch \in [Tabs -> {Bell!Idle, Bell!Asked} \cup CountOf]
    /\ unread \subseteq Bell!Notes /\ created \in CountOf /\ \A c \in changes : c.add \subseteq Bell!Notes
    /\ missed \subseteq Tabs

LEMMA BellTypesAtFirst == ASSUME Bell!Init PROVE BellTypes
BY BoundsAreNaturals DEF Bell!Init, BellTypes, CountOf

LEMMA BellTypesOK == ASSUME CountsInv, BellTypes PROVE Bell!TypeOK
<1>1. pipe \in Seq(Nat)
  BY DEF CountsInv, CountsType
<1> QED
  BY <1>1 DEF CountsInv, CountsType, ElectionInv, ElectionType, BellTypes, CountOf, Bell!TypeOK

\* Notifications are counted up to the bound.
LEMMA NotesCounted == ASSUME NEW S, S \subseteq Bell!Notes PROVE Bell!Cardinality(S) \in CountOf
<1>1. MaxNotes \in Nat
  BY BoundsAreNaturals
<1>2. IsFiniteSet(1 .. MaxNotes) /\ Cardinality(1 .. MaxNotes) = MaxNotes
  BY <1>1, FS_Interval
<1>3. IsFiniteSet(S) /\ Cardinality(S) <= MaxNotes
  BY <1>2, FS_Subset DEF Bell!Notes
<1>4. Cardinality(S) \in Nat
  BY <1>3, FS_CardinalityType
<1> QED
  BY <1>1, <1>3, <1>4, SameCount DEF CountOf

LEMMA QueueOf ==
    ASSUME NEW S, NEW s \in Seq(S), NEW n \in S
    PROVE  Append(s, n) \in Seq(S) /\ (s # <<>> => Head(s) \in S /\ Tail(s) \in Seq(S))
OBVIOUS

LEMMA ChangeTypes ==
    ASSUME openTabs \subseteq Tabs, BellTypes, NEW add, add \subseteq Bell!Notes, NEW remove, NEW by,
           Bell!Change(add, remove, by), created' \in CountOf
    PROVE  BellTypes'
<1> DEFINE c == [add |-> add, remove |-> remove, by |-> by]
           n == Bell!Cardinality((unread \cup add) \ remove)
<1>1. c.add = add
  OBVIOUS
<1>2. n \in CountOf
  BY NotesCounted DEF BellTypes
<1>3. /\ changes' = changes \cup {c} /\ pipe' \in {pipe, Append(pipe, n)}
      /\ missed' \subseteq Tabs \cup missed \cup openTabs
      /\ UNCHANGED <<bus, badge, fetch, unread>>
  BY DEF Bell!Change, Bell!broadcast
<1> HIDE DEF c, n
<1>4. pipe' \in Seq(CountOf)
  BY <1>2, <1>3, QueueOf DEF BellTypes
<1> QED
  BY <1>1, <1>3, <1>4 DEF BellTypes

LEMMA BellTypesStep == ASSUME CountsInv, BellTypes, [Bell!Next]_bellVars PROVE BellTypes'
<1>1. openTabs \subseteq Tabs /\ MaxNotes \in Nat
  BY BoundsAreNaturals DEF CountsInv, CountsType
<1>2. <<>> \in Seq(CountOf) /\ \A s \in Seq(CountOf) : s # <<>> => Head(s) \in CountOf /\ Tail(s) \in Seq(CountOf)
  BY QueueOf
<1>3. ASSUME NEW t \in Tabs, Bell!participateInSseLeaderElection(t) \/ Bell!cleanup(t) PROVE BellTypes'
  <2>1. fetch' \in {[fetch EXCEPT ![t] = Bell!Asked], [fetch EXCEPT ![t] = Bell!Idle]}
        /\ badge' \in {badge, [badge EXCEPT ![t] = Bell!NotLoaded]} /\ bus' \in {bus, [bus EXCEPT ![t] = <<>>]}
        /\ pipe' \in {pipe, <<>>} /\ missed' \subseteq missed \cup openTabs /\ UNCHANGED <<unread, changes, created>>
    BY <1>3 DEF Bell!participateInSseLeaderElection, Bell!cleanup, Bell!Server
  <2> QED
    BY <1>1, <1>2, <2>1 DEF BellTypes
<1>4. CASE Bell!Granted \/ Bell!Connect \/ Bell!Disconnect
  <2>1. pipe' \in {pipe, <<>>} /\ missed' \subseteq missed \cup openTabs
        /\ UNCHANGED <<bus, badge, fetch, unread, changes, created>>
    BY <1>4 DEF Bell!Granted, Bell!Connect, Bell!Disconnect, Bell!Server
  <2> QED
    BY <1>1, <1>2, <2>1 DEF BellTypes
<1>5. CASE Bell!relay
  <2>1. Head(pipe) \in CountOf /\ Tail(pipe) \in Seq(CountOf)
    BY <1>2, <1>5 DEF Bell!relay, BellTypes
  <2>2. ASSUME NEW t \in Tabs PROVE Bell!Posted(t, Head(pipe)) \in Seq(CountOf)
    <3>1. bus[t] \in Seq(CountOf) /\ Append(bus[t], Head(pipe)) \in Seq(CountOf)
      BY <2>1, QueueOf DEF BellTypes
    <3>2. Append(Append(bus[t], Head(pipe)), Head(pipe)) \in Seq(CountOf)
      BY <2>1, <3>1, QueueOf
    <3> QED
      BY <3>1, <3>2 DEF Bell!Posted
  <2>3. bus' \in [Tabs -> Seq(CountOf)]
    BY <1>5, <2>2 DEF Bell!relay, BellTypes
  <2> QED
    BY <1>5, <2>1, <2>3 DEF Bell!relay, Bell!Server, BellTypes
<1>6. ASSUME NEW t \in Tabs, Bell!Relayed(t) PROVE BellTypes'
  <2>1. Head(bus[t]) \in CountOf /\ Tail(bus[t]) \in Seq(CountOf)
    BY <1>2, <1>6 DEF Bell!Relayed, BellTypes
  <2> QED
    BY <1>6, <2>1 DEF Bell!Relayed, Bell!Server, BellTypes
<1>7. ASSUME NEW t \in Tabs, Bell!getUnreadCount(t) PROVE BellTypes'
  <2>1. Bell!Cardinality(unread) \in CountOf
    BY NotesCounted DEF BellTypes
  <2>2. fetch' = [fetch EXCEPT ![t] = Bell!Cardinality(unread)] /\ missed' \subseteq missed \cup {t}
        /\ UNCHANGED <<pipe, bus, badge, unread, changes, created>>
    BY <1>7 DEF Bell!getUnreadCount, Bell!Server
  <2> QED
    BY <2>1, <2>2 DEF BellTypes
<1>8. ASSUME NEW t \in Tabs, Bell!Fetched(t) PROVE BellTypes'
  BY <1>8 DEF Bell!Fetched, Bell!Server, BellTypes
<1>9. CASE Bell!create
  <2>1. Bell!Change({created + 1}, {}, "scheduler") /\ created' = created + 1 /\ created < MaxNotes
    BY <1>9 DEF Bell!create
  <2>2. created' \in CountOf /\ created + 1 \in Bell!Notes
    BY <1>1, <2>1 DEF BellTypes, CountOf, Bell!Notes
  <2> QED
    BY <1>1, <2>1, <2>2, ChangeTypes
<1>10. ASSUME NEW t \in Tabs, Bell!markAsRead(t) \/ Bell!markAllAsRead(t) PROVE BellTypes'
  <2>1. created' = created /\ \E remove : Bell!Change({}, remove, t)
    BY <1>10 DEF Bell!markAsRead, Bell!markAllAsRead
  <2> QED
    BY <1>1, <2>1, ChangeTypes DEF BellTypes
<1>11. CASE Bell!Commit
  <2>1. PICK c \in changes : /\ unread' = (unread \cup c.add) \ c.remove /\ changes' = changes \ {c}
                             /\ fetch' \in {fetch, [fetch EXCEPT ![c.by] = Bell!Asked]}
                             /\ UNCHANGED <<pipe, bus, badge, created, missed>>
    BY <1>11 DEF Bell!Commit
  <2> QED
    BY <2>1 DEF BellTypes
<1>12. CASE UNCHANGED bellVars
  BY <1>12 DEF bellVars, BellTypes
<1> QED
  BY <1>3, <1>4, <1>5, <1>6, <1>7, <1>8, <1>9, <1>10, <1>11, <1>12 DEF Bell!Next, Bell!Runs
=============================================================================
