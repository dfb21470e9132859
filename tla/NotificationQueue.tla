-------------------------- MODULE NotificationQueue -------------------------
(***************************************************************************)
(* The queue of e-mail and push notifications in the database              *)
(* (notification_service.ts).  processQueuedNotifications reads a batch of *)
(* pending rows and works through it, with an await at every update and    *)
(* every send; nothing keeps two runs of it apart.                         *)
(***************************************************************************)
EXTENDS Integers, FiniteSets

CONSTANTS
  Notes,            \* the rows that queueNotification creates
  NoteRuns,         \* bound: runs under way at once
  NoNote,
  MaxNoteFaults     \* bound: database errors and process crashes

ASSUME NotesAssumption ==
  IsFiniteSet(Notes) /\ NoNote \notin Notes /\ MaxNoteFaults \in Nat

VARIABLES
  noteStatus,   \* the status column, "absent" before the row exists
  noteRun,      \* the runs: what is left of the batch, the row in hand, the step
  sends,        \* how often the provider was handed each notification
  noteFaults,
  contested,    \* history: rows that two runs had in their batches at once
  cut           \* history: rows whose run was cut short

noteVars == <<noteStatus, noteRun, sends, noteFaults, contested, cut>>

NoRun == [batch |-> {}, note |-> NoNote, step |-> "idle"]

NoteInit ==
  /\ noteStatus = [n \in Notes |-> "absent"]
  /\ noteRun = [r \in NoteRuns |-> NoRun]
  /\ sends = [n \in Notes |-> 0]
  /\ noteFaults = 0 /\ contested = {} /\ cut = {}

queueNotification(n) ==
  /\ noteStatus[n] = "absent"
  /\ noteStatus' = [noteStatus EXCEPT ![n] = "pending"]
  /\ UNCHANGED <<noteRun, sends, noteFaults, contested, cut>>

InBatch(r) == noteRun[r].batch \cup ({noteRun[r].note} \ {NoNote})

\* Mutant: rows that are being processed are read again.
dueNotes_again == {n \in Notes : noteStatus[n] \in {"pending", "processing"}}

dueNotes == {n \in Notes : noteStatus[n] = "pending"}

\* The rows that are due now, at most batchSize of them.
fetchBatch(r) ==
  /\ noteRun[r].step = "idle"
  /\ \E batch \in (SUBSET dueNotes) \ {{}} :
       /\ noteRun' = [noteRun EXCEPT ![r] = [batch |-> batch, note |-> NoNote,
                                             step |-> "next"]]
       /\ contested' = contested \cup
            (batch \cap UNION {InBatch(s) : s \in NoteRuns \ {r}})
  /\ UNCHANGED <<noteStatus, sends, noteFaults, cut>>

RunGoes(r, from, to) ==
  /\ noteRun[r].step = from
  /\ noteRun' = [noteRun EXCEPT ![r].step = to]

\* The next row is marked as being processed.
markProcessing(r) ==
  \E n \in noteRun[r].batch :
    /\ noteRun[r].step = "next"
    /\ noteStatus' = [noteStatus EXCEPT ![n] = "processing"]
    /\ noteRun' = [noteRun EXCEPT ![r] = [batch |-> @.batch \ {n}, note |-> n,
                                          step |-> "marked"]]
    /\ UNCHANGED <<sends, noteFaults, contested, cut>>

\* The update to "processing" fails: the row has failed.
markThrows(r) ==
  \E n \in noteRun[r].batch :
    /\ noteFaults < MaxNoteFaults
    /\ noteFaults' = noteFaults + 1
    /\ noteRun[r].step = "next"
    /\ noteRun' = [noteRun EXCEPT ![r] = [batch |-> @.batch \ {n}, note |-> n,
                                          step |-> "failed"]]
    /\ UNCHANGED <<noteStatus, sends, contested, cut>>

\* sendEmail or sendPushNotification hands the message over.
sendSucceeds(r) ==
  /\ RunGoes(r, "marked", "sent")
  /\ sends' = [sends EXCEPT ![noteRun[r].note] = @ + 1]
  /\ UNCHANGED <<noteStatus, noteFaults, contested, cut>>

\* Without a provider the call returns as if the message had gone out.
noProvider(r) ==
  /\ RunGoes(r, "marked", "sent")
  /\ UNCHANGED <<noteStatus, sends, noteFaults, contested, cut>>

\* No such template, or the provider refuses.
sendThrows(r) ==
  /\ RunGoes(r, "marked", "failed")
  /\ UNCHANGED <<noteStatus, sends, noteFaults, contested, cut>>

WritesStatus(r, from, status) ==
  /\ noteRun[r].step = from
  /\ noteStatus' = [noteStatus EXCEPT ![noteRun[r].note] = status]
  /\ noteRun' = [noteRun EXCEPT ![r].step = "next", ![r].note = NoNote]
  /\ UNCHANGED <<sends, noteFaults, contested, cut>>

markCompleted(r) == WritesStatus(r, "sent", "completed")

markFailed(r) == WritesStatus(r, "failed", "failed")

\* The batch is done.
runEnds(r) ==
  /\ noteRun[r].step = "next" /\ noteRun[r].batch = {}
  /\ noteRun' = [noteRun EXCEPT ![r] = NoRun]
  /\ UNCHANGED <<noteStatus, sends, noteFaults, contested, cut>>

\* The update to "completed" fails: the catch takes the row for a failed one.
completedUpdateFails(r) ==
  /\ noteFaults < MaxNoteFaults
  /\ noteFaults' = noteFaults + 1
  /\ RunGoes(r, "sent", "failed")
  /\ UNCHANGED <<noteStatus, sends, contested, cut>>

\* The update in the catch fails, or the process dies: the run is over.
runCutShort(r) ==
  /\ noteFaults < MaxNoteFaults
  /\ noteFaults' = noteFaults + 1
  /\ noteRun[r].step # "idle"
  /\ cut' = cut \cup ({noteRun[r].note} \ {NoNote})
  /\ noteRun' = [noteRun EXCEPT ![r] = NoRun]
  /\ UNCHANGED <<noteStatus, sends, contested>>

NoteNext ==
  \/ \E n \in Notes : queueNotification(n)
  \/ \E r \in NoteRuns :
       \/ fetchBatch(r) \/ markProcessing(r) \/ markThrows(r) \/ sendSucceeds(r)
       \/ noProvider(r) \/ sendThrows(r) \/ markCompleted(r) \/ markFailed(r)
       \/ runEnds(r) \/ completedUpdateFails(r) \/ runCutShort(r)

NoteSpec == NoteInit /\ [][NoteNext]_noteVars

-----------------------------------------------------------------------------

\* Nobody gets a notification twice unless two runs had read its row before
\* either of them marked it: errors, crashes and later runs never resend.
SentTwiceOnlyIfContested == \A n \in Notes : sends[n] > 1 => n \in contested

\* A row that says "processing" is in the hands of a run, or that run was cut
\* short: no other path leaves a row where no later run will look at it.
ProcessingIsHeld ==
  \A n \in Notes : noteStatus[n] = "processing" =>
    n \in cut \/ \E r \in NoteRuns : noteRun[r].note = n
=============================================================================
