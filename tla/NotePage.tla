------------------------------ MODULE NotePage ------------------------------
(***************************************************************************)
(* What the page of a note mounts around its editor: the list of sections, *)
(* the AI assist dialog, the recorder of an audio section, the code        *)
(* sections that run, the panels for reminders and for review, and the     *)
(* bell in the header.  They share no state: each has its own hooks and    *)
(* its own rows in the backend.  The user works with one of them, `part'.  *)
(***************************************************************************)
EXTENDS Naturals, Sequences

CONSTANTS
    MaxSends,                                                      \* AiAssist
    FirstDocument, NewKinds, MaxSections, MaxLength, MaxEdits, MaxUploads,    \* Sections
    MaxRevisions, MaxRestores,
    MaxRecordings, MaxFiles,                                       \* AudioRecorder
    Codes, MaxRuns,                                                \* CodeRun
    Tabs, MaxNotes, MaxMounts, MaxDrops,                           \* LiveUpdates
    FirstRows, Counts, MaxRequests, MaxReviews,                \* ReviewPanel
    ReminderIds, FirstTypes, Limit, LastTick, MaxSaves               \* Reminders

VARIABLES
    part,
    open, history, stack, call, error, section, sends,
    doc, texts, uploads, files, sent, due, failed, stored, storedText, viewMode,
    revisions, restores, known, restored, revived,
    mounted, form, asks, asked, state, live, current, recording, sending, uploading,
    isRecordingUpload, shown, chosen, tangled,
    running, output, runs, frames, posted, pyodide, started, mixed,
    openTabs, queue, leader, source, pipe, bus, badge, fetch, unread, changes, created,
    mounts, drops, missed,
    row, nextId, item, loading, count, quiz, requests, asksMade, review, reviews,
    unseen, kept, blind,
    now, db, used, looked, found, notified, twice, list, reminderForm, mount, icon, calls, saves, rows,
    dialog, edits, disturbed

Assist == INSTANCE AiAssist
List == INSTANCE Sections
Audio == INSTANCE AudioRecorder WITH uploads <- sending
Code == INSTANCE CodeRun
Bell == INSTANCE LiveUpdates WITH mounted <- openTabs
Quiz == INSTANCE ReviewPanel WITH rows <- row, calls <- requests, sent <- asksMade
Remind == INSTANCE Reminders WITH Ids <- ReminderIds, due <- found, form <- reminderForm, sent <- saves

\* The document that is loaded has sections of the kinds there are, numbered from zero, each with an id and, if any,
\* a file of its own; the files of later uploads are named apart from them.
ASSUME SectionsAssumption ==
    /\ MaxSections \in Nat
    /\ NewKinds \subseteq List!Kinds
    /\ FirstDocument \in Seq(List!Section)
    /\ \A i, j \in DOMAIN FirstDocument :
         i # j => /\ FirstDocument[i].id # FirstDocument[j].id
                  /\ FirstDocument[i].file # 0 => FirstDocument[i].file # FirstDocument[j].file
    /\ \A i \in DOMAIN FirstDocument : FirstDocument[i].file < 100 /\ FirstDocument[i].order = i - 1

\* The reminders there are at first are some of those a user may have, once or again and again.
ASSUME RemindersAssumption ==
    /\ LastTick \in Nat
    /\ DOMAIN FirstTypes \subseteq ReminderIds
    /\ \A id \in DOMAIN FirstTypes : FirstTypes[id] \in {"ONCE", "RECURRING"}

\* The note has one item at most, given before any other, with settings that the panel can show.
ASSUME ReviewAssumption ==
    /\ Counts \subseteq Nat /\ Quiz!DefaultCount \in Counts
    /\ FirstRows \subseteq [id: {0}, count: Counts, quiz: BOOLEAN, reviews: Nat]
    /\ \A r, s \in FirstRows : r = s

\* Each bound is a natural number.
ASSUME BoundsAssumption ==
    {MaxSends, MaxRecordings, MaxFiles, MaxRuns, MaxNotes, MaxRequests, MaxReviews, MaxSaves} \subseteq Nat

assistVars == <<open, history, stack, call, error, section, sends>>
listVars == <<doc, texts, uploads, files, sent, due, failed, stored, storedText, viewMode,
          revisions, restores, known, restored, revived>>
audioVars == <<mounted, form, asks, asked, state, live, current, recording, sending, uploading, isRecordingUpload,
           shown, chosen, tangled>>
codeVars == <<running, output, runs, frames, posted, pyodide, started, mixed>>
bellVars == <<openTabs, queue, leader, source, pipe, bus, badge, fetch, unread, changes, created, mounts, drops, missed>>
quizVars == <<row, nextId, item, loading, count, quiz, requests, asksMade, review, reviews,
             unseen, kept, blind>>
remindVars == <<now, db, used, looked, found, notified, twice, list, reminderForm, mount, icon, calls, saves, rows, dialog,
            edits, disturbed>>
vars == <<part, assistVars, listVars, audioVars, codeVars, bellVars, quizVars, remindVars>>

Parts == {"assist", "list", "audio", "code", "bell", "quiz", "remind"}

Init ==
    /\ part \in Parts
    /\ Assist!Init /\ List!Init /\ Audio!Init /\ Code!Init /\ Bell!Init /\ Quiz!Init /\ Remind!Init

\* The other parts rest.
Only(p) ==
    /\ part = p /\ UNCHANGED part
    /\ IF p = "assist" THEN TRUE ELSE UNCHANGED assistVars
    /\ IF p = "list" THEN TRUE ELSE UNCHANGED listVars
    /\ IF p = "audio" THEN TRUE ELSE UNCHANGED audioVars
    /\ IF p = "code" THEN TRUE ELSE UNCHANGED codeVars
    /\ IF p = "bell" THEN TRUE ELSE UNCHANGED bellVars
    /\ IF p = "quiz" THEN TRUE ELSE UNCHANGED quizVars
    /\ IF p = "remind" THEN TRUE ELSE UNCHANGED remindVars

Next ==
    \/ Only("assist") /\ Assist!Next
    \/ Only("list") /\ List!Next
    \/ Only("audio") /\ Audio!Next
    \/ Only("code") /\ Code!Next
    \/ Only("bell") /\ Bell!Next
    \/ Only("quiz") /\ Quiz!Next
    \/ Only("remind") /\ Remind!Next

Spec == Init /\ [][Next]_vars /\ WF_vars(Only("bell") /\ Bell!Runs)

-----------------------------------------------------------------------------
TypeOK ==
    /\ part \in Parts
    /\ part = "assist" => Assist!TypeOK
    /\ part = "list" => List!TypeOK
    /\ part = "audio" => Audio!TypeOK
    /\ part = "code" => Code!TypeOK
    /\ part = "bell" => Bell!TypeOK
    /\ part = "quiz" => Quiz!TypeOK
    /\ part = "remind" => Remind!TypeOK

(* The properties of the parts, which the modules they come from explain.  *)

\* A cancelled request to the assistant changes nothing but its own turn.
CancelledIsSilent == Assist!CancelledIsSilent

\* No file is deleted that a section still shows, or that the row refers to without a save to come.
StoredFilesExist == List!StoredFilesExist

\* Locked sections stay, in their order.
LockedKeepOrder == List!LockedKeepOrder

\* The microphone is on only for the recording on the screen.
MicrophoneReleased == Audio!MicrophoneReleased

\* A section shows the output of its own code.
OwnOutput == Code!OwnOutput

\* One event stream at most, held by an open tab.
OneConnection == Bell!OneConnection

\* A tab that missed no event shows the committed count.
BadgeCounts == Bell!BadgeCounts

\* As long as a tab is open a stream comes up again.
StreamComesUp == Bell!StreamComesUp

\* The review panel shows the settings that are stored.
SettingsShown == Quiz!SettingsShown

\* No occurrence of a reminder becomes two notifications.
NotifiedOnce == Remind!NotifiedOnce

\* The reminder panel and the toolbar's icon show what is stored.
PanelFollows == Remind!PanelFollows
=============================================================================
