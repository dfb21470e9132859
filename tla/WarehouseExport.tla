-------------------------- MODULE WarehouseExport --------------------------
(***************************************************************************)
(* The warehouse export (backend warehouse_export.ts, jobs/                *)
(* warehouse_export_job.ts): run() uploads the contract events with a      *)
(* ledger above the stored watermark, then the platform metrics, then      *)
(* saves the last ledger it read as the watermark.  Runs may overlap (the  *)
(* timer does not wait for the run before it).  An event is a pair of its  *)
(* ledger and a number; the indexer may store one later than another of a  *)
(* higher ledger.  Rows and object names are left out.                     *)
(***************************************************************************)
EXTENDS Integers, FiniteSetsExt

CONSTANTS
  ExportRuns,      \* the runs that are made, each once
  MaxLedger,
  PerLedger,       \* events in a ledger
  MaxExportFaults  \* bound: calls that fail

VARIABLES
  whStored,        \* ContractEvent
  watermark,       \* sorobanEventCursor.lastLedger
  exported,        \* events in some uploaded object
  whRun,
  late,            \* history: events stored after a run had read past their ledger
  whFaults

exportVars == <<whStored, watermark, exported, whRun, late, whFaults>>

eventLedger(e) == e[1]

ExportInit ==
  /\ whStored = {} /\ exported = {} /\ late = {}
  /\ watermark = 0 /\ whFaults = 0
  /\ whRun = [r \in ExportRuns |-> [at |-> "idle", mark |-> 0, batch |-> {}]]

\* The indexer stores an event.
eventIndexed(e) ==
  /\ e \notin whStored
  /\ whStored' = whStored \union {e}
  /\ late' = IF \E f \in UNION {whRun[q].batch : q \in ExportRuns} \union exported :
                  eventLedger(f) >= eventLedger(e)
             THEN late \union {e} ELSE late
  /\ UNCHANGED <<watermark, exported, whRun, whFaults>>

exportFault == whFaults < MaxExportFaults /\ whFaults' = whFaults + 1

\* A read that fails counts as no watermark: everything is exported again.
loadWatermark(r) ==
  /\ whRun[r].at = "idle"
  /\ \/ whRun' = [whRun EXCEPT ![r].at = "read", ![r].mark = watermark] /\ UNCHANGED whFaults
     \/ whRun' = [whRun EXCEPT ![r].at = "read", ![r].mark = 0] /\ exportFault
  /\ UNCHANGED <<whStored, watermark, exported, late>>

eventsAfter(mark) == {e \in whStored : eventLedger(e) > mark}

readsEvents(r) ==
  LET rows == eventsAfter(whRun[r].mark) IN
  /\ whRun[r].at = "read"
  /\ whRun' = [whRun EXCEPT ![r].at = IF rows = {} THEN "metrics" ELSE "upload",
                            ![r].batch = rows]
  /\ UNCHANGED <<whStored, watermark, exported, late, whFaults>>

uploadsEvents(r) ==
  /\ whRun[r].at = "upload"
  /\ exported' = exported \union whRun[r].batch
  /\ whRun' = [whRun EXCEPT ![r].at = "metrics"]
  /\ UNCHANGED <<whStored, watermark, late, whFaults>>

newWatermark_newest(run) ==
  Max({run.mark} \union {eventLedger(e) : e \in whStored})

\* The ledger of the last row, or the old mark if there was none.
newWatermark(run) ==
  Max({run.mark} \union {eventLedger(e) : e \in run.batch})

\* The metrics are uploaded; the watermark is saved only if it moved.
uploadsMetrics(r) ==
  /\ whRun[r].at = "metrics"
  /\ whRun' = [whRun EXCEPT ![r].at = IF newWatermark(whRun[r]) > whRun[r].mark
                                      THEN "save" ELSE "ended"]
  /\ UNCHANGED <<whStored, watermark, exported, late, whFaults>>

saveWatermark(r) ==
  /\ whRun[r].at = "save"
  /\ watermark' = newWatermark(whRun[r])
  /\ whRun' = [whRun EXCEPT ![r].at = "ended"]
  /\ UNCHANGED <<whStored, exported, late, whFaults>>

\* A query, a quality check, an upload or the save throws and ends the run.
exportThrows(r) ==
  /\ whRun[r].at \in {"read", "upload", "metrics", "save"}
  /\ exportFault
  /\ whRun' = [whRun EXCEPT ![r].at = "ended"]
  /\ UNCHANGED <<whStored, watermark, exported, late>>

ExportNext ==
  \/ \E e \in (1 .. MaxLedger) \X (1 .. PerLedger) : eventIndexed(e)
  \/ \E r \in ExportRuns :
       \/ loadWatermark(r) \/ readsEvents(r) \/ uploadsEvents(r)
       \/ uploadsMetrics(r) \/ saveWatermark(r) \/ exportThrows(r)

\* Every stored event at or below the watermark has been exported, unless it
\* was stored after a run had read events of its ledger or a later one: such
\* an event is never exported.  The watermark never promises more than was
\* uploaded, whatever runs overlap and wherever one of them fails.
WatermarkCoversExported ==
  \A e \in whStored : eventLedger(e) <= watermark => e \in exported \union late
=============================================================================
