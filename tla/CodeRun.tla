------------------------------- MODULE CodeRun -------------------------------
(***************************************************************************)
(* Code sections of one page whose code is run in the browser: JavaScript  *)
(* in an iframe of its own, whose result comes as a message to the window, *)
(* Python in one interpreter for the page, loaded at its first use.        *)
(***************************************************************************)
EXTENDS Naturals, FiniteSets

CONSTANTS Codes,      \* the code sections of the page
          MaxRuns     \* times the user runs code

VARIABLES
    running,    \* section -> its running flag
    output,     \* section -> what its output panel shows
    runs,       \* executions not resolved yet: section and language
    frames,     \* the iframes on the page, by the section that made them
    posted,     \* results posted to the window and not yet delivered
    pyodide,    \* pyodidePromise: "none", "loading", "ready" or "failed"
    started,    \* runs started
    mixed       \* history: the sections whose JavaScript met another section's

vars == <<running, output, runs, frames, posted, pyodide, started, mixed>>

Cleared == "none"
Failure == "error"
Outputs == Codes \cup {Cleared, Failure}
Run == [sec: Codes, lang: {"javascript", "python"}]
Scripts == {r \in runs : r.lang = "javascript"}

Init ==
    /\ running = [c \in Codes |-> FALSE] /\ output = [c \in Codes |-> Cleared]
    /\ runs = {} /\ frames = {} /\ posted = {} /\ pyodide = "none"
    /\ started = 0 /\ mixed = {}

\* setOutput and setRunning(FALSE) of the sections whose runs have resolved.
Resolve(done, result) ==
    /\ runs' = runs \ done
    /\ output' = [c \in Codes |-> IF \E r \in done : r.sec = c THEN result ELSE output[c]]
    /\ running' = [c \in Codes |-> running[c] /\ \A r \in done : r.sec # c]

\* The button is disabled while the section runs; another section's is not.
handleRun(c, lang) ==
    /\ ~running[c] /\ started < MaxRuns
    /\ running' = [running EXCEPT ![c] = TRUE]
    /\ output' = [output EXCEPT ![c] = Cleared]
    /\ runs' = runs \cup {[sec |-> c, lang |-> lang]}
    /\ IF lang = "javascript"
       THEN /\ frames' = frames \cup {c}
            /\ mixed' = IF Scripts = {} /\ posted = {} THEN mixed \ {c}
                        ELSE mixed \cup {c} \cup {r.sec : r \in Scripts}
            /\ UNCHANGED pyodide
       ELSE /\ pyodide' = IF pyodide = "none" THEN "loading" ELSE pyodide
            /\ mixed' = mixed \ {c}
            /\ UNCHANGED frames
    /\ started' = started + 1
    /\ UNCHANGED posted

ClearOutput(c) ==
    /\ output[c] # Cleared
    /\ output' = [output EXCEPT ![c] = Cleared]
    /\ UNCHANGED <<running, runs, frames, posted, pyodide, started, mixed>>

-----------------------------------------------------------------------------
(* executeJavaScript                                                       *)

\* The iframe runs its code; code that never ends posts nothing.
FramePosts(c) ==
    /\ c \in frames
    /\ frames' = frames \ {c}
    /\ posted' = posted \cup {c}
    /\ UNCHANGED <<running, output, runs, pyodide, started, mixed>>

\* Every listener takes the message, whoever posted it, and removes its own iframe.
handleMessage(c) ==
    /\ posted' = posted \ {c}
    /\ frames' = frames \ {r.sec : r \in Scripts}
    /\ Resolve(Scripts, c)
    /\ UNCHANGED <<pyodide, started, mixed>>
\* Mutant: the iframe stays, and its result comes later.
TimeoutOnly(r) ==
    /\ r.lang = "javascript"
    /\ Resolve({r}, Failure)
    /\ UNCHANGED <<frames, posted, pyodide, started, mixed>>

Timeout(r) ==
    /\ r.lang = "javascript"
    /\ frames' = frames \ {r.sec}
    /\ Resolve({r}, Failure)
    /\ UNCHANGED <<posted, pyodide, started, mixed>>

-----------------------------------------------------------------------------
(* executePython                                                           *)

\* The promise is kept however it ends: a load that failed is not tried again.
LoadPyodide ==
    /\ pyodide = "loading"
    /\ pyodide' \in {"ready", "failed"}
    /\ UNCHANGED <<running, output, runs, frames, posted, started, mixed>>

\* Output is captured and restored within one call of the interpreter.
RunPython(r) ==
    /\ r.lang = "python" /\ pyodide = "ready"
    /\ Resolve({r}, r.sec)
    /\ UNCHANGED <<frames, posted, pyodide, started, mixed>>

\* The load failed or takes longer than 10 s, or the interpreter fails.
PythonFails(r) ==
    /\ r.lang = "python"
    /\ Resolve({r}, Failure)
    /\ UNCHANGED <<frames, posted, pyodide, started, mixed>>

Ends(r) == Timeout(r) \/ RunPython(r) \/ PythonFails(r)

Next ==
    \/ \E c \in Codes : \/ handleRun(c, "javascript") \/ handleRun(c, "python")
                        \/ ClearOutput(c) \/ FramePosts(c)
    \/ \E c \in posted : handleMessage(c)
    \/ \E r \in runs : Ends(r)
    \/ LoadPyodide

Spec == Init /\ [][Next]_vars

-----------------------------------------------------------------------------
TypeOK ==
    /\ running \in [Codes -> BOOLEAN] /\ output \in [Codes -> Outputs]
    /\ runs \subseteq Run /\ frames \subseteq Codes /\ posted \subseteq Codes
    /\ pyodide \in {"none", "loading", "ready", "failed"}
    /\ started \in 0 .. MaxRuns /\ mixed \subseteq Codes

\* A section shows the output of its own code: of JavaScript as long as no other section's script ran
\* at the same time, of Python even when two sections share the interpreter.
OwnOutput == \A c \in Codes : output[c] \in {c, Cleared, Failure} \/ c \in mixed
=============================================================================
