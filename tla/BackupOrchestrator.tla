------------------------- MODULE BackupOrchestrator -------------------------
(***************************************************************************)
(* lib/backup-orchestrator.ts: start sets the four timers of the backup    *)
(* activities, awaiting the first check and the first drill on the way;    *)
(* stop clears the timers whose handles the object holds.                  *)
(*                                                                         *)
(* An interval timer fires every Period, late by at most Jitter; only the  *)
(* scheduler's is timed, the others fire whenever they like.               *)
(***************************************************************************)
EXTENDS BackupService

CONSTANTS
  Jitter,       \* bound: how late the event loop runs a timer
  MaxStarts,    \* bound: calls of start that get past the guard
  MaxRestarts   \* bound: process restarts

VARIABLES
  running,   \* the running field
  starts,    \* how many starts got past the guard
  awaiting,  \* what each of them waits for
  timers,    \* the live intervals, by kind and by the start that set them
  handle,    \* whose interval each timer field holds, 0 for null
  nextCycle, \* when the scheduler interval of each start fires next
  interrupted, \* history: the starts that stop was called during
  restarts

orchestratorVars == <<running, starts, awaiting, timers, handle, nextCycle, interrupted,
                     restarts>>
allBackupVars == <<backupVars, orchestratorVars>>

Kinds == {"scheduler", "monitor", "drill", "prune"}
Starts == 1..MaxStarts
Period == Min({FullInterval, IncrementalInterval})

OrchestratorInit ==
  /\ BackupInit
  /\ running = FALSE
  /\ starts = 0
  /\ awaiting = [n \in Starts |-> "nothing"]
  /\ timers = {}
  /\ handle = [k \in Kinds |-> 0]
  /\ nextCycle = [n \in Starts |-> 0]
  /\ interrupted = {} /\ restarts = 0

SetIntervals(kinds, n) ==
  /\ timers' = timers \cup (kinds \X {n})
  /\ handle' = [k \in Kinds |-> IF k \in kinds THEN n ELSE handle[k]]

Awaits(n, from, to) ==
  /\ awaiting[n] = from
  /\ awaiting' = [awaiting EXCEPT ![n] = to]

\* A full backup, the scheduler's interval, and the first check.
start ==
  LET n == starts + 1 IN
  /\ ~running
  /\ starts < MaxStarts
  /\ running' = TRUE
  /\ starts' = n
  /\ runFull
  /\ SetIntervals({"scheduler"}, n)
  /\ nextCycle' = [nextCycle EXCEPT ![n] = clock + Period]
  /\ runChecks
  /\ Awaits(n, "nothing", "check")
  /\ UNCHANGED <<clock, prunes, drills, interrupted, restarts>>

\* The first check is over: the monitor's interval, and the first drill.
startChecked(n) ==
  /\ Awaits(n, "check", "drill")
  /\ SetIntervals({"monitor"}, n)
  /\ runDrill
  /\ UNCHANGED <<clock, serviceVars, scheduleVars, alerts, prunes,
                 running, starts, nextCycle, interrupted, restarts>>

\* The first drill is over: the remaining two intervals.
startDrilled(n) ==
  /\ Awaits(n, "drill", "nothing")
  /\ SetIntervals({"drill", "prune"}, n)
  /\ UNCHANGED <<backupVars, running, starts, nextCycle, interrupted, restarts>>

clearedKinds == Kinds

stop ==
  /\ running
  /\ running' = FALSE
  /\ timers' = timers \ {<<k, handle[k]>> : k \in clearedKinds}
  /\ handle' = [k \in Kinds |-> IF k \in clearedKinds THEN 0 ELSE handle[k]]
  /\ interrupted' = interrupted \cup {n \in Starts : awaiting[n] # "nothing"}
  /\ UNCHANGED <<backupVars, starts, awaiting, nextCycle, restarts>>

-----------------------------------------------------------------------------

\* Mutant: whether an incremental backup is due is asked first.
dueBackup_incremental_first ==
  IF shouldRunIncrementalBackup THEN "incremental"
  ELSE IF shouldRunFullBackup THEN "full" ELSE "none"

dueBackup ==
  IF shouldRunFullBackup THEN "full"
  ELSE IF shouldRunIncrementalBackup THEN "incremental" ELSE "none"

runSchedulerCycle(n) ==
  /\ <<"scheduler", n>> \in timers
  /\ clock >= nextCycle[n]
  /\ nextCycle' = [nextCycle EXCEPT ![n] = @ + Period]
  /\ \/ dueBackup = "full" /\ runFull
     \/ dueBackup = "incremental" /\ runIncremental
     \/ dueBackup = "none" /\ UNCHANGED <<serviceVars, scheduleVars>>
  /\ UNCHANGED <<clock, alerts, prunes, drills,
                 running, starts, awaiting, timers, handle, interrupted, restarts>>

runMonitorOnce ==
  /\ "monitor" \in {t[1] : t \in timers}
  /\ runChecks
  /\ UNCHANGED <<clock, serviceVars, scheduleVars, prunes, drills, orchestratorVars>>

\* One drill and one pruning are under way at a time: a bound, as the code
\* lets a slow one overlap the next.
runDrillOnce ==
  /\ "drill" \in {t[1] : t \in timers}
  /\ drills = {}
  /\ runDrill
  /\ UNCHANGED <<clock, serviceVars, scheduleVars, alerts, prunes, orchestratorVars>>

runPruneOnce ==
  /\ "prune" \in {t[1] : t \in timers}
  /\ prunes = {}
  /\ pruneOldBackups
  /\ UNCHANGED <<clock, serviceVars, scheduleVars, alerts, drills, orchestratorVars>>

\* External: time passes, but no timer is kept waiting for longer than Jitter.
BackupTimePasses ==
  /\ clock < MaxTime
  /\ \A n \in Starts : <<"scheduler", n>> \in timers => clock < nextCycle[n] + Jitter
  /\ clock' = clock + 1
  /\ UNCHANGED <<serviceVars, scheduleVars, alerts, prunes, drills, orchestratorVars>>

\* External: the process ends and a new one comes up.
ProcessRestarts ==
  /\ restarts < MaxRestarts
  /\ BackupProcessRestarts
  /\ running' = FALSE
  /\ awaiting' = [n \in Starts |-> "nothing"]
  /\ timers' = {}
  /\ handle' = [k \in Kinds |-> 0]
  /\ restarts' = restarts + 1
  /\ UNCHANGED <<starts, nextCycle, interrupted>>

Lifecycle ==
  \/ start \/ stop
  \/ \E n \in Starts : startChecked(n) \/ startDrilled(n)

Scheduling == BackupTimePasses \/ \E n \in Starts : runSchedulerCycle(n)

Checking == runMonitorOnce \/ runDrillOnce \/ runPruneOnce

OrchestratorNext ==
  \/ Lifecycle \/ Scheduling \/ Checking \/ ProcessRestarts
  \/ BackupCalls /\ UNCHANGED orchestratorVars

-----------------------------------------------------------------------------

\* While a scheduler interval is live full backups keep being started, however
\* late its ticks come: one tick may find a full backup not quite due, the
\* next one does not, and an incremental backup that is due never takes its
\* place.  "Stop all backup activities": once stopped no interval is left,
\* unless stop was ever called while start awaited its first check or drill
\* (the start then goes on to set the intervals that are left, which nothing
\* clears).
BackupsWhileStarted ==
  /\ (\E n \in Starts : <<"scheduler", n>> \in timers)
       => clock - lastFull <= FullInterval + Period + Jitter
  /\ ~running /\ interrupted = {} => timers = {}
=============================================================================
