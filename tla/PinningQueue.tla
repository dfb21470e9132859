---------------------------- MODULE PinningQueue ----------------------------
(***************************************************************************)
(* The IPFS pinning queue in Redis (ipfs/pinning_queue.ts) and the service *)
(* that works through it (ipfs/pinning_service.ts).  processQueue runs on  *)
(* an interval without waiting for the run before, so several runs, the    *)
(* workers, are under way at once; each await is a step.                   *)
(*                                                                         *)
(* A Redis command that is not idempotent is a step of its own.  The read  *)
(* and the write by which updateStatus and the end of dequeue rewrite one  *)
(* hash are one step.  Priorities, which only order the queue, are left    *)
(* out: any queued job may be next.                                        *)
(***************************************************************************)
EXTENDS Integers, FiniteSets

CONSTANTS
  PinJobs,        \* the ids that uuid gives out
  Cids,
  Workers,        \* bound: runs of processQueue under way at once
  NoPinJob,
  MaxRetries,     \* config.ipfs.pinRetryCount
  MaxPinCrashes,  \* bound: process restarts
  MaxManual       \* bound: retries asked for through the API

ASSUME PinningAssumption ==
  /\ IsFiniteSet(PinJobs) /\ NoPinJob \notin PinJobs
  /\ MaxRetries \in Nat /\ MaxPinCrashes \in Nat /\ MaxManual \in Nat

VARIABLES
  pinJob,      \* the job hashes
  pinQueue,    \* the sorted set of queued ids
  processing,  \* the set of ids being worked on
  flag,        \* the cids that Redis says are pinned
  nodePins,    \* the cids the IPFS node has pinned
  worker,      \* what each run of processQueue is doing, and with which job
  retryTimers, \* the jobs with a setTimeout for a retry
  retrying,    \* the jobs that a retryFailed has found and is about to write
  verifying,   \* the cids that verifyAllPins has found missing
  ipfsUp,      \* whether the node answers
  pinCrashes, manual,
  lostJobs,    \* history: jobs whose worker died between pop and mark
  muddled      \* history: cids whose jobs overlapped or were cut short

redisVars == <<pinJob, pinQueue, processing, flag>>
historyVars == <<lostJobs, muddled>>
pinVars == <<redisVars, nodePins, worker, retryTimers, retrying, verifying,
             ipfsUp, pinCrashes, manual, historyVars>>

Absent == [cid |-> NoPinJob, action |-> "pin", status |-> "absent", retries |-> 0]
IdleWorker == [step |-> "idle", job |-> NoPinJob, retries |-> 0]

PinInit ==
  /\ pinJob = [j \in PinJobs |-> Absent]
  /\ pinQueue = {} /\ processing = {} /\ flag = {} /\ nodePins = {}
  /\ worker = [w \in Workers |-> IdleWorker]
  /\ retryTimers = {} /\ retrying = {} /\ verifying = {}
  /\ ipfsUp = TRUE
  /\ pinCrashes = 0 /\ manual = 0
  /\ lostJobs = {} /\ muddled = {}

Held == {worker[w].job : w \in Workers} \ {NoPinJob}
CidOf(w) == pinJob[worker[w].job].cid
Popped == {worker[w].job : w \in {v \in Workers : worker[v].step = "popped"}}
Busy(c) == {j \in Held : pinJob[j].cid = c}

At(w, step) == worker[w].step = step
Goes2(w, step) == worker' = [worker EXCEPT ![w].step = step]
EndsRun(w) == worker' = [worker EXCEPT ![w] = IdleWorker]

-----------------------------------------------------------------------------

enqueue(j, c, action) ==
  /\ pinJob[j].status = "absent"
  /\ pinJob' = [pinJob EXCEPT ![j] = [cid |-> c, action |-> action,
                                      status |-> "queued", retries |-> 0]]
  /\ pinQueue' = pinQueue \cup {j}
  /\ UNCHANGED <<processing, flag, nodePins, worker, retryTimers, retrying,
                 verifying, ipfsUp, pinCrashes, manual, historyVars>>

\* pinContent skips what is pinned already.
pinContent(j, c) == c \notin flag /\ enqueue(j, c, "pin")

unpinContent(j, c) == enqueue(j, c, "unpin")

\* A run starts: a healthy node, and zpopmin takes a job out of the queue.
dequeuePop(w) ==
  /\ At(w, "idle")
  /\ ipfsUp
  /\ \E j \in pinQueue :
       /\ pinQueue' = pinQueue \ {j}
       /\ worker' = [worker EXCEPT ![w] = [step |-> "popped", job |-> j, retries |-> 0]]
       /\ muddled' = IF Busy(pinJob[j].cid) # {} THEN muddled \cup {pinJob[j].cid}
                     ELSE muddled
  /\ UNCHANGED <<pinJob, processing, flag, nodePins, retryTimers, retrying,
                 verifying, ipfsUp, pinCrashes, manual, lostJobs>>

dequeueMark(w) ==
  LET j == worker[w].job IN
  /\ At(w, "popped")
  /\ pinJob' = [pinJob EXCEPT ![j].status = "pinning"]
  /\ processing' = processing \cup {j}
  /\ worker' = [worker EXCEPT ![w].step = "acting", ![w].retries = pinJob[j].retries]
  /\ UNCHANGED <<pinQueue, flag, nodePins, retryTimers, retrying, verifying,
                 ipfsUp, pinCrashes, manual, historyVars>>

\* pinAdd or pinRm succeeds.
nodeActs(w) ==
  /\ At(w, "acting")
  /\ ipfsUp
  /\ nodePins' = IF pinJob[worker[w].job].action = "pin"
                 THEN nodePins \cup {CidOf(w)} ELSE nodePins \ {CidOf(w)}
  /\ Goes2(w, "done")
  /\ UNCHANGED <<redisVars, retryTimers, retrying, verifying, ipfsUp,
                 pinCrashes, manual, historyVars>>

updateStatus(j, status) ==
  /\ pinJob' = [pinJob EXCEPT ![j].status = status,
                              ![j].retries = IF status = "failed" THEN @ + 1 ELSE @]
  /\ processing' = processing \ {j}

statusWritten(w) ==
  /\ At(w, "done")
  /\ updateStatus(worker[w].job,
                  IF pinJob[worker[w].job].action = "pin" THEN "pinned" ELSE "unpinned")
  /\ Goes2(w, "flagging")
  /\ UNCHANGED <<pinQueue, flag, nodePins, retryTimers, retrying, verifying,
                 ipfsUp, pinCrashes, manual, historyVars>>

\* Mutant: unpinning leaves the flag.
flagWritten_kept(w) ==
  /\ At(w, "flagging")
  /\ flag' = IF pinJob[worker[w].job].action = "pin" THEN flag \cup {CidOf(w)} ELSE flag
  /\ EndsRun(w)
  /\ UNCHANGED <<pinJob, pinQueue, processing, nodePins, retryTimers, retrying,
                 verifying, ipfsUp, pinCrashes, manual, historyVars>>

flagWritten(w) ==
  /\ At(w, "flagging")
  /\ flag' = IF pinJob[worker[w].job].action = "pin"
             THEN flag \cup {CidOf(w)} ELSE flag \ {CidOf(w)}
  /\ EndsRun(w)
  /\ UNCHANGED <<pinJob, pinQueue, processing, nodePins, retryTimers, retrying,
                 verifying, ipfsUp, pinCrashes, manual, historyVars>>

\* The node does not answer: pinAdd or pinRm throws, done or not.
nodeFails(w) ==
  /\ At(w, "acting")
  /\ ~ipfsUp
  /\ Goes2(w, "failing")
  /\ \/ UNCHANGED <<nodePins, muddled>>
     \/ /\ nodePins' = IF pinJob[worker[w].job].action = "pin"
                       THEN nodePins \cup {CidOf(w)} ELSE nodePins \ {CidOf(w)}
        /\ muddled' = muddled \cup {CidOf(w)}
  /\ UNCHANGED <<redisVars, retryTimers, retrying, verifying, ipfsUp,
                 pinCrashes, manual, lostJobs>>

\* The catch: the job has failed, and while it has retries left a timer will
\* come back to it.  job.retries is what dequeue read.
jobFails(w) ==
  LET j == worker[w].job IN
  /\ At(w, "failing")
  /\ updateStatus(j, "failed")
  /\ retryTimers' = IF worker[w].retries < MaxRetries THEN retryTimers \cup {j}
                    ELSE retryTimers
  /\ EndsRun(w)
  /\ UNCHANGED <<pinQueue, flag, nodePins, retrying, verifying, ipfsUp,
                 pinCrashes, manual, historyVars>>

-----------------------------------------------------------------------------

\* retryFailed looks for a failed job with the cid, and takes the first.
retryFinds(c) ==
  LET found == {j \in PinJobs : pinJob[j].cid = c /\ pinJob[j].status = "failed"}
  IN  \/ found = {} /\ UNCHANGED retrying
      \/ \E j \in found : retrying' = retrying \cup {j}

\* The timer of a job fires: if the job still is failed, retryFailed(cid).
retryTimerFires(j) ==
  /\ j \in retryTimers
  /\ retryTimers' = retryTimers \ {j}
  /\ \/ pinJob[j].status = "failed" /\ retryFinds(pinJob[j].cid)
     \/ pinJob[j].status # "failed" /\ UNCHANGED retrying
  /\ UNCHANGED <<redisVars, nodePins, worker, verifying, ipfsUp, pinCrashes,
                 manual, historyVars>>

\* The API asks for a retry.
retryRequested(c) ==
  /\ manual < MaxManual
  /\ manual' = manual + 1
  /\ retryFinds(c)
  /\ UNCHANGED <<redisVars, nodePins, worker, retryTimers, verifying, ipfsUp,
                 pinCrashes, historyVars>>

\* Mutant: the status is written, but not the queue.
retryFailed_unqueued(j) ==
  /\ j \in retrying
  /\ retrying' = retrying \ {j}
  /\ pinJob' = [pinJob EXCEPT ![j].status = "queued", ![j].retries = 0]
  /\ UNCHANGED <<pinQueue, processing, flag, nodePins, worker, retryTimers, verifying,
                 ipfsUp, pinCrashes, manual, historyVars>>

\* The hash that was read is written back as queued, with no retries.
retryFailed(j) ==
  /\ j \in retrying
  /\ retrying' = retrying \ {j}
  /\ pinJob' = [pinJob EXCEPT ![j].status = "queued", ![j].retries = 0]
  /\ pinQueue' = pinQueue \cup {j}
  /\ UNCHANGED <<processing, flag, nodePins, worker, retryTimers, verifying,
                 ipfsUp, pinCrashes, manual, historyVars>>

\* verifyAllPins asks the node about a flagged cid, then drops the flag.
verifyFinds(c) ==
  /\ c \in flag \ (nodePins \cup verifying)
  /\ ipfsUp
  /\ verifying' = verifying \cup {c}
  /\ UNCHANGED <<redisVars, nodePins, worker, retryTimers, retrying, ipfsUp,
                 pinCrashes, manual, historyVars>>

verifyDrops(c) ==
  /\ c \in verifying
  /\ verifying' = verifying \ {c}
  /\ flag' = flag \ {c}
  /\ UNCHANGED <<pinJob, pinQueue, processing, nodePins, worker, retryTimers,
                 retrying, ipfsUp, pinCrashes, manual, historyVars>>

\* External: the node goes down and comes back.
NodeToggles ==
  /\ ipfsUp' = ~ipfsUp
  /\ UNCHANGED <<redisVars, nodePins, worker, retryTimers, retrying, verifying,
                 pinCrashes, manual, historyVars>>

\* External: the process dies, and with it its runs and its timers.
PinProcessRestarts ==
  /\ pinCrashes < MaxPinCrashes
  /\ pinCrashes' = pinCrashes + 1
  /\ lostJobs' = lostJobs \cup Popped
  /\ muddled' = muddled \cup {pinJob[j].cid : j \in Held}
  /\ worker' = [w \in Workers |-> IdleWorker]
  /\ retryTimers' = {} /\ retrying' = {} /\ verifying' = {}
  /\ UNCHANGED <<redisVars, nodePins, ipfsUp, manual>>

WorkerSteps(w) ==
  \/ dequeuePop(w) \/ dequeueMark(w) \/ nodeActs(w) \/ nodeFails(w)
  \/ statusWritten(w) \/ flagWritten(w) \/ jobFails(w)

PinNext ==
  \/ \E j \in PinJobs, c \in Cids : pinContent(j, c) \/ unpinContent(j, c)
  \/ \E w \in Workers : WorkerSteps(w)
  \/ \E j \in PinJobs : retryTimerFires(j) \/ retryFailed(j)
  \/ \E c \in Cids : retryRequested(c) \/ verifyFinds(c) \/ verifyDrops(c)
  \/ NodeToggles \/ PinProcessRestarts

-----------------------------------------------------------------------------

\* No job slips out of the queue unseen, however runs, retries and restarts
\* interleave.  A queued job is in the queue or just popped from it, unless its
\* run was killed between zpopmin and the write that marks it; a job that was
\* being worked on stays in the processing set, where the monitor sees it; a
\* failed job has a retry on its way, as long as no other job has the same cid,
\* nobody retried by hand and the process was not restarted (the retries are
\* counted, but every retry starts the count again).
JobsAccounted ==
  \A j \in PinJobs :
    /\ pinJob[j].status = "queued" => j \in pinQueue \cup Popped \cup lostJobs
    /\ pinJob[j].status = "pinning" => j \in processing
    /\ pinJob[j].status = "failed" =>
         \/ j \in retryTimers \cup retrying
         \/ \E i \in PinJobs \ {j} : pinJob[i].cid = pinJob[j].cid
         \/ manual > 0 \/ pinCrashes > 0

\* A cid that Redis says is pinned is pinned on the node, or about to lose the
\* flag, unless two jobs for it ran at once or a job was cut short.
FlagMeansPinned ==
  \A c \in flag : \/ c \in nodePins \cup muddled
                  \/ \E w \in Workers : /\ worker[w].step \in {"done", "flagging"}
                                        /\ CidOf(w) = c
=============================================================================
