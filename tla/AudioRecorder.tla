---------------------------- MODULE AudioRecorder ----------------------------
(***************************************************************************)
(* An audio section being filled: recordings from the microphone, files    *)
(* the user chooses, and their uploads.  Recorders and uploads are          *)
(* numbered; a recorder has its own media stream.                          *)
(***************************************************************************)
EXTENDS Naturals, FiniteSets

CONSTANTS MaxRecordings,   \* times the microphone is asked for
          MaxFiles         \* files the user chooses

VARIABLES
    mounted,    \* the section is on the page
    form,       \* showInput: the form is shown, not the player
    asks,       \* getUserMedia calls not answered yet
    asked,      \* getUserMedia calls made
    state,      \* recorder -> state of its MediaRecorder
    live,       \* the recorders whose stream is on
    current,    \* mediaRecorderRef and streamRef
    recording,  \* isRecording
    uploads,    \* uploads in flight: a recorder, or 0 for a chosen file
    uploading,  \* the uploading flag
    isRecordingUpload, \* isRecordingUploadRef
    shown,      \* the file the section shows, and what it says of its origin
    chosen,     \* files chosen
    tangled     \* history: the microphone was asked for while it was asked for or on, or left while asked for

vars == <<mounted, form, asks, asked, state, live, current, recording, uploads, uploading,
          isRecordingUpload, shown, chosen, tangled>>

Recorders == 1 .. MaxRecordings
Nobody == 0
NoFile == [file |-> 0, as |-> "none"]

Init ==
    /\ mounted = TRUE /\ form = TRUE /\ asks = 0 /\ asked = 0
    /\ state = [n \in Recorders |-> "none"] /\ live = {} /\ current = Nobody
    /\ recording = FALSE /\ uploads = {} /\ uploading = FALSE
    /\ isRecordingUpload = FALSE /\ shown = NoFile /\ chosen = 0
    /\ tangled = FALSE

Microphone == <<asks, asked, state, live, current, recording, tangled>>
Uploading == <<uploads, uploading, isRecordingUpload, shown, chosen>>
\* Mutant: the tracks go on.
cleanupRecorder(s) ==
    /\ state' = [n \in Recorders |-> IF n = current /\ s[n] = "recording" THEN "stopping" ELSE s[n]]
    /\ current' = Nobody
    /\ recording' = FALSE
    /\ UNCHANGED live

\* Stops the tracks of the current stream, which also ends its recorder.
cleanup(s) ==
    /\ live' = live \ {current}
    /\ state' = [n \in Recorders |-> IF n = current /\ s[n] = "recording" THEN "stopping" ELSE s[n]]
    /\ current' = Nobody
    /\ recording' = FALSE

Upload(u) ==
    /\ uploads' = uploads \cup {u}
    /\ uploading' = TRUE

-----------------------------------------------------------------------------
(* useAudioRecorder                                                        *)

\* The record form: a stop button while recording, nothing while uploading, else a start button.
StartOffered == mounted /\ form /\ ~recording /\ ~uploading

start ==
    /\ StartOffered /\ asked < MaxRecordings
    /\ asks' = asks + 1 /\ asked' = asked + 1
    /\ tangled' = (tangled \/ asks > 0 \/ live # {})
    /\ UNCHANGED <<mounted, form, state, live, current, recording, Uploading>>

\* The browser grants the microphone, to whoever is there by now.
Granted ==
    /\ asks > 0 /\ asks' = asks - 1
    /\ \E n \in Recorders :
         /\ state[n] = "none" /\ \A o \in Recorders : o < n => state[o] # "none"
         /\ state' = [state EXCEPT ![n] = "recording"]
         /\ live' = live \cup {n} /\ current' = n
    /\ recording' = mounted
    /\ UNCHANGED <<mounted, form, asked, tangled, Uploading>>

Denied ==
    /\ asks > 0 /\ asks' = asks - 1
    /\ cleanup(state)
    /\ UNCHANGED <<mounted, form, asked, tangled, Uploading>>

stop ==
    /\ mounted /\ form /\ recording
    /\ current # Nobody /\ state[current] = "recording"
    /\ state' = [state EXCEPT ![current] = "stopping"]
    /\ UNCHANGED <<mounted, form, asks, asked, live, current, recording, tangled, Uploading>>

\* onstop, then onRecordingComplete: the recording is uploaded.
OnStop(n) ==
    /\ state[n] = "stopping"
    /\ cleanup([state EXCEPT ![n] = "done"])
    /\ isRecordingUpload' = TRUE
    /\ Upload(n)
    /\ UNCHANGED <<mounted, form, asks, asked, tangled, shown, chosen>>

Unmount ==
    /\ mounted /\ mounted' = FALSE
    /\ cleanup(state)
    /\ tangled' = (tangled \/ asks > 0)
    /\ UNCHANGED <<form, asks, asked, Uploading>>

-----------------------------------------------------------------------------
(* AudioSection and useAttachmentUpload                                    *)

\* The upload form can be opened while a recording runs.
handleFileSelect ==
    /\ mounted /\ form /\ ~uploading /\ chosen < MaxFiles
    /\ chosen' = chosen + 1
    /\ isRecordingUpload' = FALSE
    /\ Upload(0)
    /\ UNCHANGED <<mounted, form, shown, Microphone>>

\* After the section was deleted, its callback no longer finds it.
onUploaded(u) ==
    /\ shown' = IF mounted
                THEN [file |-> u, as |-> IF isRecordingUpload THEN "recording" ELSE "upload"]
                ELSE shown
    /\ isRecordingUpload' = FALSE
    /\ form' = FALSE
    /\ uploads' = uploads \ {u} /\ uploading' = FALSE
    /\ UNCHANGED <<mounted, chosen, Microphone>>

UploadFails(u) ==
    /\ uploads' = uploads \ {u} /\ uploading' = FALSE
    /\ UNCHANGED <<mounted, form, isRecordingUpload, shown, chosen, Microphone>>

Change ==
    /\ mounted /\ ~form /\ form' = TRUE
    /\ UNCHANGED <<mounted, Microphone, Uploading>>

Next ==
    \/ start \/ Granted \/ Denied \/ stop \/ Unmount
    \/ handleFileSelect \/ Change
    \/ \E n \in Recorders : OnStop(n)
    \/ \E u \in uploads : onUploaded(u) \/ UploadFails(u)

Spec == Init /\ [][Next]_vars

-----------------------------------------------------------------------------
TypeOK ==
    /\ asks \in Nat /\ asked \in 0 .. MaxRecordings /\ chosen \in 0 .. MaxFiles
    /\ state \in [Recorders -> {"none", "recording", "stopping", "done"}]
    /\ live \subseteq Recorders /\ current \in Recorders \cup {Nobody}
    /\ uploads \subseteq Recorders \cup {0}
    /\ {mounted, form, recording, uploading, isRecordingUpload, tangled} \subseteq BOOLEAN

\* The microphone is on only for the recording that the section shows with its stop button, unless it
\* was asked for twice at once or the section was left while the browser was still asking.
MicrophoneReleased == ~tangled => live \subseteq {current} /\ (live # {} => recording)
=============================================================================
