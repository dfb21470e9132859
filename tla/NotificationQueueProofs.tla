----------------------- MODULE NotificationQueueProofs ----------------------
(***************************************************************************)
(* The safety properties of the notification queue, for any number of      *)
(* notifications, runs, database errors and crashes.                       *)
(***************************************************************************)
EXTENDS NotificationQueue, TLAPS

NoteStatuses == {"absent", "pending", "processing", "completed", "failed"}
NoteSteps == {"idle", "next", "marked", "sent", "failed"}
InHand == {"marked", "sent", "failed"}

NoteTypeOK ==
  /\ noteStatus \in [Notes -> NoteStatuses]
  /\ noteRun \in [NoteRuns -> [batch : SUBSET Notes, note : Notes \cup {NoNote},
                               step : NoteSteps]]
  /\ sends \in [Notes -> Nat]
  /\ noteFaults \in Nat
  /\ contested \subseteq Notes

\* A run has a row in hand from the moment it takes it up to the update that
\* ends it, and that row has left the batch.
RowsInHand ==
  \A r \in NoteRuns :
    /\ noteRun[r].step \in InHand <=> noteRun[r].note # NoNote
    /\ noteRun[r].step = "idle" => noteRun[r].batch = {}
    /\ noteRun[r].note \notin noteRun[r].batch

\* A row that was never in two batches belongs to one run at a time.
OneRunEach ==
  \A n \in Notes \ contested : \A r, s \in NoteRuns :
    n \in InBatch(r) /\ n \in InBatch(s) => r = s

\* What is left of a batch is still pending, and what is marked is not.
BatchIsPending ==
  \A n \in Notes \ contested : \A r \in NoteRuns :
    /\ n \in noteRun[r].batch => noteStatus[n] = "pending"
    /\ noteRun[r].note = n /\ noteRun[r].step = "marked"
         => noteStatus[n] = "processing" /\ sends[n] = 0

\* Pending rows have not been sent, and no row was sent twice.
PendingIsUnsent ==
  \A n \in Notes \ contested :
    /\ noteStatus[n] \in {"absent", "pending"} => sends[n] = 0
    /\ sends[n] <= 1

NoteInv == NoteTypeOK /\ RowsInHand /\ OneRunEach /\ BatchIsPending /\ PendingIsUnsent

\* The inductive invariant, step by step of notification_service.ts.
LEMMA NoteStep == NoteInv /\ [NoteNext]_noteVars => NoteInv'
<1> SUFFICES ASSUME NoteInv, [NoteNext]_noteVars PROVE NoteInv'
  OBVIOUS
<1> USE NotesAssumption DEF NoteInv, NoteTypeOK, RowsInHand, OneRunEach, BatchIsPending,
        PendingIsUnsent, NoteStatuses, NoteSteps, InHand, InBatch
<1>1. CASE UNCHANGED noteVars
  BY <1>1 DEF noteVars
<1>2. ASSUME NEW n \in Notes, queueNotification(n) PROVE NoteInv'
  BY <1>2 DEF queueNotification
<1>3. ASSUME NEW r \in NoteRuns, fetchBatch(r) PROVE NoteInv'
  <2> HIDE DEF InBatch, NoteInv
  <2>1. PICK batch \in (SUBSET dueNotes) \ {{}} :
          /\ noteRun' = [noteRun EXCEPT ![r] = [batch |-> batch, note |-> NoNote,
                                                step |-> "next"]]
          /\ contested' = contested \cup
               (batch \cap UNION {InBatch(s) : s \in NoteRuns \ {r}})
    BY <1>3, Zenon DEF fetchBatch
  <2>2. noteRun[r].step = "idle" /\ UNCHANGED <<noteStatus, sends, noteFaults>>
    BY <1>3 DEF fetchBatch
  <2>3. batch \subseteq Notes /\ \A n \in batch : noteStatus[n] = "pending"
    BY <2>1 DEF dueNotes
  <2>4. contested \subseteq contested' /\ contested' \subseteq Notes
    BY <2>1, <2>3 DEF NoteInv
  <2>5. \A n \in batch \ contested' : \A s \in NoteRuns \ {r} : n \notin InBatch(s)
    BY <2>1
  <2>6. \A s \in NoteRuns : noteRun'[s] = IF s = r
          THEN [batch |-> batch, note |-> NoNote, step |-> "next"] ELSE noteRun[s]
    BY <2>1 DEF NoteInv
  <2>7. NoteTypeOK'
    BY <2>1, <2>2, <2>3, <2>4 DEF NoteInv
  <2>8. RowsInHand'
    BY <2>3, <2>6 DEF NoteInv
  <2>9. OneRunEach'
    BY <2>3, <2>4, <2>5, <2>6 DEF NoteInv, InBatch
  <2>10. BatchIsPending' /\ PendingIsUnsent'
    BY <2>2, <2>3, <2>4, <2>6 DEF NoteInv
  <2> QED
    BY <2>7, <2>8, <2>9, <2>10 DEF NoteInv
<1>4. ASSUME NEW r \in NoteRuns, markProcessing(r) PROVE NoteInv'
  BY <1>4 DEF markProcessing
<1>5. ASSUME NEW r \in NoteRuns, markThrows(r) PROVE NoteInv'
  BY <1>5 DEF markThrows
<1>6. ASSUME NEW r \in NoteRuns, sendSucceeds(r) PROVE NoteInv'
  BY <1>6 DEF sendSucceeds, RunGoes
<1>7. ASSUME NEW r \in NoteRuns, noProvider(r) \/ sendThrows(r) PROVE NoteInv'
  BY <1>7 DEF noProvider, sendThrows, RunGoes
<1>8. ASSUME NEW r \in NoteRuns, markCompleted(r) \/ markFailed(r) PROVE NoteInv'
  BY <1>8 DEF markCompleted, markFailed, WritesStatus
<1>9. ASSUME NEW r \in NoteRuns, runEnds(r) PROVE NoteInv'
  BY <1>9 DEF runEnds, NoRun
<1>10. ASSUME NEW r \in NoteRuns, completedUpdateFails(r) PROVE NoteInv'
  BY <1>10 DEF completedUpdateFails, RunGoes
<1>11. ASSUME NEW r \in NoteRuns, runCutShort(r) PROVE NoteInv'
  BY <1>11 DEF runCutShort, NoRun
<1> QED
  BY <1>1, <1>2, <1>3, <1>4, <1>5, <1>6, <1>7, <1>8, <1>9, <1>10, <1>11 DEF NoteNext

\* The invariant holds before the first run.
LEMMA NoteStart == NoteInit => NoteInv
  BY NotesAssumption DEF NoteInit, NoteInv, NoteTypeOK, RowsInHand, OneRunEach,
     BatchIsPending, PendingIsUnsent, NoteStatuses, NoteSteps, InHand, InBatch, NoRun

\* No error, crash or later run of processQueuedNotifications sends a
\* notification a second time, unless two runs had read its row at once.
THEOREM NotSentTwice == NoteSpec => []SentTwiceOnlyIfContested
<1>1. NoteInv => SentTwiceOnlyIfContested
  BY DEF NoteInv, NoteTypeOK, PendingIsUnsent, SentTwiceOnlyIfContested
<1> QED
  BY <1>1, NoteStart, NoteStep, PTL DEF NoteSpec

\* A row that says "processing" is in the hands of a run that will write its
\* status, unless that run was cut short.
THEOREM ProcessingStaysHeld == NoteSpec => []ProcessingIsHeld
<1>1. NoteInit => ProcessingIsHeld
  BY DEF NoteInit, ProcessingIsHeld
<1>2. NoteInv /\ ProcessingIsHeld /\ [NoteNext]_noteVars => ProcessingIsHeld'
  <2> SUFFICES ASSUME NoteInv, ProcessingIsHeld, [NoteNext]_noteVars
               PROVE  ProcessingIsHeld'
    OBVIOUS
  <2> USE NotesAssumption DEF NoteInv, NoteTypeOK, RowsInHand, InHand, ProcessingIsHeld
  <2>1. CASE UNCHANGED noteVars
    BY <2>1 DEF noteVars
  <2>2. ASSUME NEW n \in Notes, queueNotification(n) PROVE ProcessingIsHeld'
    BY <2>2 DEF queueNotification
  <2>3. ASSUME NEW r \in NoteRuns, fetchBatch(r) PROVE ProcessingIsHeld'
    BY <2>3 DEF fetchBatch, NoRun
  <2>4. ASSUME NEW r \in NoteRuns, markProcessing(r) PROVE ProcessingIsHeld'
    BY <2>4 DEF markProcessing
  <2>5. ASSUME NEW r \in NoteRuns, markThrows(r) PROVE ProcessingIsHeld'
    BY <2>5 DEF markThrows
  <2>6. ASSUME NEW r \in NoteRuns,
               sendSucceeds(r) \/ noProvider(r) \/ sendThrows(r) \/ completedUpdateFails(r)
        PROVE  ProcessingIsHeld'
    BY <2>6 DEF sendSucceeds, noProvider, sendThrows, completedUpdateFails, RunGoes
  <2>7. ASSUME NEW r \in NoteRuns, markCompleted(r) \/ markFailed(r)
        PROVE  ProcessingIsHeld'
    BY <2>7 DEF markCompleted, markFailed, WritesStatus
  <2>8. ASSUME NEW r \in NoteRuns, runEnds(r) PROVE ProcessingIsHeld'
    BY <2>8 DEF runEnds, NoRun
  <2>9. ASSUME NEW r \in NoteRuns, runCutShort(r) PROVE ProcessingIsHeld'
    BY <2>9 DEF runCutShort, NoRun
  <2> QED
    BY <2>1, <2>2, <2>3, <2>4, <2>5, <2>6, <2>7, <2>8, <2>9 DEF NoteNext
<1> QED
  BY <1>1, <1>2, NoteStart, NoteStep, PTL DEF NoteSpec
=============================================================================
