------------------------------ MODULE AiAssist ------------------------------
(***************************************************************************)
(* The AI assist dialog of one section: a conversation with the section    *)
(* author, the contents it generated, and the one request in flight.  The  *)
(* answer is streamed; when the stream breaks, the same question is asked   *)
(* once more with a blocking request.                                       *)
(***************************************************************************)
EXTENDS Naturals, Sequences, SequencesExt

CONSTANTS MaxSends    \* questions the user asks

VARIABLES
    open,       \* the dialog is mounted
    history,    \* conversationHistory: the kinds of its turns
    stack,      \* contentStack: 0 is the section's first content, n what the n-th question brought
    call,       \* the request in flight: where it stands, and whether it was cancelled
    error,      \* an error is shown
    section,    \* the content the section has in the document
    sends       \* questions asked

vars == <<open, history, stack, call, error, section, sends>>

Replies == {"questions", "content", "message", "error"}
Turns == {"text", "answers"} \cup Replies
NoCall == [at |-> "none", cancelled |-> FALSE]
Calls == [at: {"none", "stream", "invoke"}, cancelled: BOOLEAN]

Init ==
    /\ open = FALSE /\ history = <<>> /\ stack = <<0>> /\ call = NoCall
    /\ error = FALSE /\ section = 0 /\ sends = 0

loading == call.at # "none"
currentContent == Last(stack)
hasGeneratedContent == currentContent # section

\* The form that is shown when the last turn asks questions.
pendingQuestions == history # <<>> /\ Last(history) = "questions"

Open ==
    /\ ~open
    /\ open' = TRUE /\ stack' = <<section>>
    /\ UNCHANGED <<history, call, error, section, sends>>

-----------------------------------------------------------------------------
(* What the user asks.  The turn is shown before it is answered; the       *)
(* request carries the history without it.                                 *)

Ask(turn) ==
    /\ open /\ ~loading /\ sends < MaxSends
    /\ history' = Append(history, turn)
    /\ call' = [at |-> "stream", cancelled |-> FALSE]
    /\ error' = FALSE
    /\ sends' = sends + 1
    /\ UNCHANGED <<open, stack, section>>

sendMessage == ~pendingQuestions /\ Ask("text")
submitAnswers == pendingQuestions /\ Ask("answers")
regenerate == hasGeneratedContent /\ Ask("text")

-----------------------------------------------------------------------------
(* What becomes of the request.                                            *)

Sent == Front(history)    \* the history the request carried

Done == call' = NoCall

handleResponse(reply) ==
    /\ history' = Sent \o <<Last(history), reply>>
    /\ stack' = IF reply = "content" THEN Append(stack, sends) ELSE stack
    /\ error' = (reply = "error")
\* Mutant: a cancelled request is answered like any other.
StreamCompletesAnyway(reply) ==
    /\ call.at = "stream"
    /\ handleResponse(reply)
    /\ Done
    /\ UNCHANGED <<open, section, sends>>

StreamCompletes(reply) ==
    /\ call.at = "stream"
    /\ IF call.cancelled THEN UNCHANGED <<history, stack, error>> ELSE handleResponse(reply)
    /\ Done
    /\ UNCHANGED <<open, section, sends>>

StreamReportsError ==
    /\ call.at = "stream"
    /\ error' = IF call.cancelled THEN error ELSE TRUE
    /\ Done
    /\ UNCHANGED <<open, history, stack, section, sends>>

\* The stream closes with neither a result nor an error.
StreamEnds ==
    /\ call.at = "stream" /\ ~call.cancelled
    /\ Done
    /\ UNCHANGED <<open, history, stack, error, section, sends>>

StreamThrows ==
    /\ call.at = "stream"
    /\ call' = IF call.cancelled THEN NoCall ELSE [call EXCEPT !.at = "invoke"]
    /\ UNCHANGED <<open, history, stack, error, section, sends>>

InvokeAnswers(reply) ==
    /\ call.at = "invoke" /\ ~call.cancelled
    /\ handleResponse(reply)
    /\ Done
    /\ UNCHANGED <<open, section, sends>>

\* The backend could not reach the AI service: its answer has the history it was sent.
InvokeRefused ==
    /\ call.at = "invoke" /\ ~call.cancelled
    /\ history' = Sent /\ error' = TRUE
    /\ Done
    /\ UNCHANGED <<open, stack, section, sends>>

InvokeThrows ==
    /\ call.at = "invoke"
    /\ history' = IF call.cancelled THEN Front(history) ELSE history
    /\ error' = IF call.cancelled THEN error ELSE TRUE
    /\ Done
    /\ UNCHANGED <<open, stack, section, sends>>

-----------------------------------------------------------------------------
(* The other controls.                                                     *)

cancel ==
    /\ open /\ loading /\ ~call.cancelled
    /\ call' = [call EXCEPT !.cancelled = TRUE]
    /\ UNCHANGED <<open, history, stack, error, section, sends>>

undo ==
    /\ open /\ ~loading /\ Len(stack) > 1
    /\ stack' = Front(stack)
    /\ UNCHANGED <<open, history, call, error, section, sends>>

\* reset, then the dialog is unmounted: what its request still does is not seen any more.
Leave ==
    /\ open' = FALSE /\ history' = <<>> /\ call' = NoCall /\ error' = FALSE /\ UNCHANGED sends

Close ==
    /\ open /\ Leave
    /\ stack' = <<section>>
    /\ UNCHANGED section

handleSave ==
    /\ open /\ ~loading /\ hasGeneratedContent
    /\ section' = currentContent /\ stack' = <<currentContent>>
    /\ Leave

Settle ==
    \/ \E reply \in Replies : StreamCompletes(reply) \/ InvokeAnswers(reply)
    \/ StreamReportsError \/ StreamEnds \/ StreamThrows
    \/ InvokeRefused \/ InvokeThrows

Next ==
    \/ Open \/ sendMessage \/ submitAnswers \/ regenerate
    \/ Settle \/ cancel \/ undo \/ Close \/ handleSave

Spec == Init /\ [][Next]_vars

-----------------------------------------------------------------------------
TypeOK ==
    /\ open \in BOOLEAN /\ error \in BOOLEAN
    /\ history \in Seq(Turns) /\ stack \in Seq(Nat) /\ stack # <<>>
    /\ call \in Calls /\ section \in Nat /\ sends \in 0 .. MaxSends

\* A cancelled request changes nothing but its own turn: no content, no reply and no error comes of it.
CancelledIsSilent ==
    [][call.cancelled /\ open' =>
         /\ stack' = stack
         /\ Len(history') <= Len(history)
         /\ error' => error]_vars

=============================================================================
