--------------------------- MODULE BackupService ----------------------------
(***************************************************************************)
(* Backups of the backend's data: the jobs and the objects in S3           *)
(* (backup_service.ts), when the next backup is due (backup_scheduler.ts), *)
(* the health checks (backup_monitor.ts), the restore drill                *)
(* (backup_restore_drill.ts) and the restore it is made of                 *)
(* (recovery_service.ts).  The timers that set them going are in           *)
(* BackupOrchestrator.                                                     *)
(*                                                                         *)
(* Every call to S3 is an await, and may fail with or without having taken *)
(* effect.  What a backup contains is left out: an object is there or not. *)
(***************************************************************************)
EXTENDS Integers, FiniteSets, FiniteSetsExt

CONSTANTS
  FullInterval, IncrementalInterval,  \* SchedulerConfig
  Retention,      \* retentionDays
  MaxJobs,        \* bound: backups ever created
  MaxTime         \* bound: the last moment looked at

ASSUME BackupAssumption ==
  /\ FullInterval \in Nat \ {0} /\ IncrementalInterval \in Nat \ {0}
  /\ Retention \in Nat
  /\ MaxJobs \in Nat /\ MaxTime \in Nat

VARIABLES
  clock,        \* Date.now()
  created,      \* how many ids randomUUID has given out
  jobs,         \* the jobs map, from ids to jobs
  objects,      \* the ids with an object in the bucket
  lastFull, lastIncremental,  \* the scheduler's last*BackupTime
  alerts,       \* the failed jobs that the monitor has an alert for
  prunes,       \* calls of pruneOldBackups that wait for S3
  drills        \* runs of the drill that wait for S3

serviceVars == <<created, jobs, objects>>
scheduleVars == <<lastFull, lastIncremental>>
backupVars == <<clock, serviceVars, scheduleVars, alerts, prunes, drills>>

Ids == 1..MaxJobs
NoJob == 0

BackupInit ==
  /\ clock = FullInterval
  /\ created = 0
  /\ jobs = << >>
  /\ objects = {}
  /\ lastFull = 0 /\ lastIncremental = 0
  /\ alerts = {} /\ prunes = {} /\ drills = {}

With(id, job) == [i \in DOMAIN jobs \cup {id} |-> IF i = id THEN job ELSE jobs[i]]
Without(id) == [i \in DOMAIN jobs \ {id} |-> jobs[i]]

-----------------------------------------------------------------------------

CompletedIds(types) ==
  {i \in DOMAIN jobs : jobs[i].status = "completed" /\ jobs[i].type \in types}

\* Newest first; among jobs of one millisecond the sort keeps the map's order.
getLatestCompleted(types) ==
  LET newest == {i \in CompletedIds(types) :
                   \A j \in CompletedIds(types) : jobs[j].createdAt <= jobs[i].createdAt}
  IN  IF newest = {} THEN NoJob ELSE Min(newest)

\* The job is stored and runs as far as the upload before anything else.
createBackup(type, base) ==
  /\ created < MaxJobs
  /\ created' = created + 1
  /\ jobs' = With(created + 1, [type |-> type, status |-> "running",
                                createdAt |-> clock, base |-> base])
  /\ UNCHANGED objects

\* The upload ends.  A failed one may have stored its object all the same.
runBackup(id) ==
  /\ id \in DOMAIN jobs /\ jobs[id].status = "running"
  /\ \/ /\ jobs' = [jobs EXCEPT ![id].status = "completed"]
        /\ objects' = objects \cup {id}
     \/ /\ jobs' = [jobs EXCEPT ![id].status = "failed"]
        /\ objects' \in {objects, objects \cup {id}}
  /\ UNCHANGED <<clock, created, scheduleVars, alerts, prunes, drills>>

shouldRunFullBackup == clock - lastFull >= FullInterval

shouldRunIncrementalBackup == clock - lastIncremental >= IncrementalInterval

runFull ==
  /\ createBackup("full", NoJob)
  /\ lastFull' = clock
  /\ UNCHANGED lastIncremental

runIncremental ==
  /\ createBackup("incremental", getLatestCompleted({"full"}))
  /\ lastIncremental' = clock
  /\ UNCHANGED lastFull

-----------------------------------------------------------------------------

\* pruneOldBackups fixes the cutoff, then asks S3 for its keys.
pruneOldBackups ==
  prunes' = prunes \cup {[cutoff |-> clock - Retention, step |-> "listing",
                          keys |-> {}, deleting |-> NoJob]}

PruneGoes(p, next) ==
  /\ prunes' = (prunes \ {p}) \cup next
  /\ UNCHANGED <<clock, created, scheduleVars, alerts, drills>>

\* A failed listing ends the pruning.
pruneListed(p) ==
  /\ p.step = "listing"
  /\ \/ PruneGoes(p, {[p EXCEPT !.step = "pruning", !.keys = objects]})
     \/ PruneGoes(p, {})
  /\ UNCHANGED <<jobs, objects>>

\* Mutant: the cutoff falls inside the retention.
isPrunable_early(p, id) == id \in DOMAIN jobs /\ jobs[id].createdAt <= p.cutoff

isPrunable(p, id) == id \in DOMAIN jobs /\ jobs[id].createdAt < p.cutoff

\* The next key whose job is too old is deleted in S3; a call that fails,
\* whether the object is gone or not, ends the pruning.
pruneObject(p) ==
  /\ p.step = "pruning"
  /\ \E id \in p.keys :
       /\ isPrunable(p, id)
       /\ \/ /\ objects' = objects \ {id}
             /\ PruneGoes(p, {[p EXCEPT !.step = "deleted", !.deleting = id,
                                        !.keys = @ \ {id}]})
          \/ /\ objects' \in {objects, objects \ {id}}
             /\ PruneGoes(p, {})
  /\ UNCHANGED jobs

\* The answer of S3 is back and the job goes too.
pruneJob(p) ==
  /\ p.step = "deleted"
  /\ jobs' = Without(p.deleting)
  /\ PruneGoes(p, {[p EXCEPT !.step = "pruning", !.deleting = NoJob]})
  /\ UNCHANGED objects

\* The keys that are left have no job, or one that is to be kept.
pruneDone(p) ==
  /\ p.step = "pruning"
  /\ \A id \in p.keys : ~isPrunable(p, id)
  /\ PruneGoes(p, {})
  /\ UNCHANGED <<jobs, objects>>

-----------------------------------------------------------------------------

\* The failed jobs that have no alert yet.
failedJobs == {i \in DOMAIN jobs : jobs[i].status = "failed"} \ alerts

\* runChecks: the alerts are kept before the first of them is sent out.  The
\* warnings about old backups change nothing and are left out.
runChecks == alerts' = alerts \cup failedJobs

-----------------------------------------------------------------------------

\* runDrill restores the newest full backup, which reads the job and then
\* waits for its object; with none the run fails at once.
runDrill ==
  LET latest == getLatestCompleted({"full"})
  IN  drills' = drills \cup (IF latest = NoJob THEN {}
                             ELSE {[id |-> latest, createdAt |-> jobs[latest].createdAt]})

\* The object came and was applied, or S3 failed: the run has a result.
drillEnds(d) ==
  /\ drills' = drills \ {d}
  /\ UNCHANGED <<clock, serviceVars, scheduleVars, alerts, prunes>>

\* External: the process is replaced.  Only the bucket outlives it.
BackupProcessRestarts ==
  /\ jobs' = << >>
  /\ lastFull' = 0 /\ lastIncremental' = 0
  /\ alerts' = {} /\ prunes' = {} /\ drills' = {}
  /\ UNCHANGED <<clock, created, objects>>

BackupCalls ==
  \/ \E id \in DOMAIN jobs : runBackup(id)
  \/ \E p \in prunes : \/ pruneListed(p) \/ pruneObject(p)
                      \/ pruneJob(p) \/ pruneDone(p)
  \/ \E d \in drills : drillEnds(d)

-----------------------------------------------------------------------------

Retained(createdAt) == clock - createdAt <= Retention

\* Whatever pruning, uploads and S3 errors do meanwhile, a completed backup
\* within the retention can be restored, and so can the one that a drill is
\* waiting for.
RetainedBackupsRestorable ==
  /\ \A i \in CompletedIds({"full", "incremental"}) :
       Retained(jobs[i].createdAt) => i \in objects
  /\ \A d \in drills : Retained(d.createdAt) => d.id \in objects
=============================================================================
