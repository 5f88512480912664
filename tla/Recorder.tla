------------------------------ MODULE Recorder ------------------------------
(***************************************************************************)
(* unmute/recorder.py with the tasks that share it: receive_loop()         *)
(* ("client") and emit_loop() ("server") record while the handler has a    *)
(* recorder, the iteration over a TTS ("tts") while the TTS was created    *)
(* with one.  The file operations run in threads: between the start and    *)
(* the end of one the other tasks go on, and an operation of a cancelled   *)
(* task is still carried out.                                              *)
(*                                                                         *)
(* A task opens the file at most once, so its name is the name of the      *)
(* handle, and of the file on disk if it had to be created.                *)
(***************************************************************************)
EXTENDS Naturals, FiniteSets

Adders == {"client", "server", "tts"}
None == "none"

\* Who has a handle in hand: those that record, and the end of the session.
Holders == Adders \cup {"cleanup"}

VARIABLES
    recorder,   \* handler.recorder is there
    keeps,      \* the TTS has a reference to it
    file,       \* Recorder.opened_file
    handle,     \* of each handle: "none", "open" or "closed"
    onDisk,     \* of each handle, the file on disk that it writes to
    path,       \* the file on disk that has the recorder's path
    pc,         \* of each task: "idle", or what it awaits
    target,     \* the handle that each task, or cleanup(), writes to or closes
    cancelled,  \* the tasks that have been cancelled
    refusal,    \* the user does not allow the recording: "no", "asked", "done"
    session,    \* "on"; "closing" the recorder at its end; "over"
    past,       \* the files with an event from before the refusal was done
    raised      \* the tasks in which add_event() raised

disk == <<handle, onDisk, path, past>>
vars == <<recorder, keeps, file, disk, pc, target, cancelled, refusal, session, raised>>

Init ==
    /\ recorder = TRUE /\ keeps = FALSE /\ file = None
    /\ handle = [a \in Adders |-> "none"] /\ onDisk = [a \in Adders |-> None]
    /\ path = None /\ past = {}
    /\ pc = [a \in Adders |-> "idle"] /\ target = [a \in Holders |-> None]
    /\ cancelled = {} /\ refusal = "no" /\ session = "on" /\ raised = {}

-----------------------------------------------------------------------------
(* add_event *)

StartsToAdd(a) ==
    /\ pc' = [pc EXCEPT ![a] = IF file = None THEN "opening" ELSE "writing"]
    /\ target' = [target EXCEPT ![a] = file]
    /\ UNCHANGED file

AddEvent(a) ==
    /\ pc[a] = "idle" /\ a \notin cancelled \cup raised
    /\ IF a = "tts" THEN keeps ELSE recorder
    /\ StartsToAdd(a)
    /\ UNCHANGED <<recorder, keeps, disk, cancelled, refusal, session, raised>>

\* open(path, "a") creates the file, or appends to the one that is there.
OpensFile(a) ==
    LET found == IF path = None THEN a ELSE path IN
    /\ path' = found
    /\ onDisk' = [onDisk EXCEPT ![a] = found]

\* The task notes the handle, whatever has been noted meanwhile, and writes.
Opened(a) ==
    /\ pc[a] = "opening"
    /\ OpensFile(a)
    /\ handle' = [handle EXCEPT ![a] = "open"]
    /\ IF a \in cancelled
       THEN pc' = [pc EXCEPT ![a] = "idle"] /\ UNCHANGED <<file, target>>
       ELSE /\ file' = a
            /\ pc' = [pc EXCEPT ![a] = "writing"]
            /\ target' = [target EXCEPT ![a] = a]
    /\ UNCHANGED <<recorder, keeps, past, cancelled, refusal, session, raised>>

\* What update_session() does next with the refusal that it has recorded.
GoesOn(a) ==
    IF a = "client" /\ refusal = "asked" /\ a \notin cancelled
    THEN pc' = [pc EXCEPT ![a] = "closing"] /\ target' = [target EXCEPT ![a] = file]
    ELSE pc' = [pc EXCEPT ![a] = "idle"] /\ UNCHANGED target

Written(a) ==
    /\ pc[a] = "writing" /\ handle[target[a]] = "open"
    /\ past' = IF refusal = "done" THEN past ELSE past \cup {onDisk[target[a]]}
    /\ GoesOn(a)
    /\ UNCHANGED <<recorder, keeps, file, handle, onDisk, path, cancelled, refusal, session, raised>>

\* ValueError: the file is closed.
WriteRaises(a) ==
    /\ pc[a] = "writing" /\ handle[target[a]] = "closed"
    /\ raised' = IF a \in cancelled THEN raised ELSE raised \cup {a}
    /\ pc' = [pc EXCEPT ![a] = "idle"]
    /\ UNCHANGED <<recorder, keeps, file, disk, target, cancelled, refusal, session>>

-----------------------------------------------------------------------------
(* shutdown(keep_recording=False), called by update_session *)

\* The refusal is recorded first.
Refuse ==
    /\ pc["client"] = "idle" /\ "client" \notin cancelled \cup raised /\ recorder
    /\ refusal' = "asked"
    /\ StartsToAdd("client")
    /\ UNCHANGED <<recorder, keeps, disk, cancelled, session, raised>>

\* Mutant of Deleted: closes the file only.
ClosedOnly ==
    /\ pc["client"] = "closing" /\ "client" \notin cancelled
    /\ handle' = [handle EXCEPT ![target["client"]] = "closed"]
    /\ recorder' = FALSE /\ refusal' = "done"
    /\ pc' = [pc EXCEPT !["client"] = "idle"]
    /\ UNCHANGED <<keeps, file, onDisk, path, past, target, cancelled, session, raised>>

\* Closed, and unlinked in the same step of the task.
Deleted ==
    /\ pc["client"] = "closing" /\ "client" \notin cancelled
    /\ handle' = [handle EXCEPT ![target["client"]] = "closed"]
    /\ path' = None
    /\ recorder' = FALSE /\ refusal' = "done"
    /\ pc' = [pc EXCEPT !["client"] = "idle"]
    /\ UNCHANGED <<keeps, file, onDisk, past, target, cancelled, session, raised>>

\* A cancelled task does not come to the unlink.
ClosedCancelled ==
    /\ pc["client"] = "closing" /\ "client" \in cancelled
    /\ handle' = [handle EXCEPT ![target["client"]] = "closed"]
    /\ pc' = [pc EXCEPT !["client"] = "idle"]
    /\ UNCHANGED <<recorder, keeps, file, onDisk, path, past, target, cancelled, refusal, session, raised>>

-----------------------------------------------------------------------------
(* The session *)

\* start_up_tts, with the recorder that the handler has
TtsCreated ==
    /\ session = "on" /\ pc["tts"] = "idle"
    /\ keeps' = recorder
    /\ UNCHANGED <<recorder, file, disk, pc, target, cancelled, refusal, session, raised>>

\* The task group of _run_route() cancels the loops; cleanup() shuts the recorder
\* down, before the exit of the quest manager cancels the TTS.
SessionEnds ==
    /\ session = "on"
    /\ cancelled' = cancelled \cup {"client", "server"}
    /\ session' = IF recorder /\ file # None THEN "closing" ELSE "over"
    /\ target' = [target EXCEPT !["cleanup"] = file]
    /\ UNCHANGED <<recorder, keeps, file, disk, pc, refusal, raised>>

\* The TTS, which goes on, may have noted another handle meanwhile.
CleanedUp ==
    /\ session = "closing"
    /\ handle' = [handle EXCEPT ![target["cleanup"]] = "closed"]
    /\ session' = "over"
    /\ UNCHANGED <<recorder, keeps, file, onDisk, path, past, pc, target, cancelled, refusal, raised>>

QuestsCancelled ==
    /\ session = "over"
    /\ cancelled' = Adders
    /\ UNCHANGED <<recorder, keeps, file, disk, pc, target, refusal, session, raised>>

Next ==
    \/ \E a \in Adders : AddEvent(a) \/ Opened(a) \/ Written(a) \/ WriteRaises(a)
    \/ Refuse \/ Deleted \/ ClosedCancelled
    \/ TtsCreated \/ SessionEnds \/ CleanedUp \/ QuestsCancelled

Spec == Init /\ [][Next]_vars

-----------------------------------------------------------------------------
(* Properties *)

\* Every variable holds what the code can store in it; opened_file is a handle that
\* has been opened.
TypeOK ==
    /\ recorder \in BOOLEAN /\ keeps \in BOOLEAN
    /\ file \in Adders \cup {None} /\ (file # None => handle[file] # "none")
    /\ handle \in [Adders -> {"none", "open", "closed"}]
    /\ onDisk \in [Adders -> Adders \cup {None}] /\ path \in Adders \cup {None}
    /\ pc \in [Adders -> {"idle", "opening", "writing", "closing"}]
    /\ target \in [Holders -> Adders \cup {None}]
    /\ cancelled \subseteq Adders /\ raised \subseteq Adders /\ past \subseteq Adders
    /\ refusal \in {"no", "asked", "done"} /\ session \in {"on", "closing", "over"}

\* Once a refusal is done, what was recorded before it is no longer there, through
\* whichever of several handles it was written.
PastIsDeleted == refusal = "done" => path \notin past

\* A user who allows the recording is not disconnected by it: as long as the session
\* is on and nothing was refused, add_event() raises in none of the tasks.
NoErrorWithConsent == refusal = "no" /\ session = "on" => raised = {}
=============================================================================
