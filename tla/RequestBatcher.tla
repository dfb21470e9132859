--------------------------- MODULE RequestBatcher ---------------------------
(***************************************************************************)
(* The request batcher of the SDK (packages/sdk/src/rpcBatchCache.ts).     *)
(* Requests wait until the batch is full or a timer fires; one call of     *)
(* batchFn serves the batch.                                               *)
(***************************************************************************)
EXTENDS Integers, FiniteSets, FiniteSetsExt

CONSTANTS
  BatchRequests,
  MaxBatchSize,
  MaxTimers       \* bound: timers ever set

VARIABLES
  asked,    \* state of each request: "new", "queued", "sent", "settled"
  timerId,  \* this.timer: the number of a timer, 0 for null
  armed,    \* timers that have not fired and were not cleared
  timersSet,
  batches   \* calls of batchFn awaiting their answer: sets of requests

batchVars == <<asked, timerId, armed, timersSet, batches>>

BatchInit ==
  /\ asked = [q \in BatchRequests |-> "new"]
  /\ timerId = 0 /\ armed = {} /\ timersSet = 0
  /\ batches = {}

queued == {q \in BatchRequests : asked[q] = "queued"}

clearTimer_forgotten == armed' = armed \ {timerId} /\ UNCHANGED timerId

\* if (this.timer) { clearTimeout(this.timer); this.timer = null; }
clearTimer == armed' = armed \ {timerId} /\ timerId' = 0

\* flush of the requests in the queue.
flush(batch) ==
  /\ clearTimer
  /\ asked' = [q \in BatchRequests |-> IF q \in batch THEN "sent" ELSE asked[q]]
  /\ batches' = IF batch = {} THEN batches ELSE batches \union {batch}

full(queue) == Cardinality(queue) >= MaxBatchSize

enqueueRequest(q) ==
  LET queue == queued \union {q} IN
  /\ asked[q] = "new"
  /\ IF full(queue) THEN flush(queue) /\ UNCHANGED timersSet
     ELSE /\ asked' = [asked EXCEPT ![q] = "queued"]
          /\ UNCHANGED batches
          /\ IF timerId = 0
             THEN /\ timersSet < MaxTimers
                  /\ timersSet' = timersSet + 1
                  /\ timerId' = timersSet + 1
                  /\ armed' = armed \union {timersSet + 1}
             ELSE UNCHANGED <<timerId, armed, timersSet>>

\* The timer fires and flushes what is queued.
timerFires(n) ==
  /\ n \in armed
  /\ flush(queued)
  /\ UNCHANGED timersSet

\* batchFn answers, or rejects: every request of the batch is settled.
batchSettles(batch) ==
  /\ batches' = batches \ {batch}
  /\ asked' = [q \in BatchRequests |-> IF q \in batch THEN "settled" ELSE asked[q]]
  /\ UNCHANGED <<timerId, armed, timersSet>>

BatchNext ==
  \/ \E q \in BatchRequests : enqueueRequest(q)
  \/ \E n \in armed : timerFires(n)
  \/ \E b \in batches : batchSettles(b)

\* Timers fire, and calls of batchFn answer or reject.
BatchFairness ==
  /\ WF_batchVars(\E n \in armed : timerFires(n))
  /\ WF_batchVars(\E b \in batches : batchSettles(b))

\* A request that was enqueued is settled, also when a full batch was
\* flushed before its timer fired.
EnqueuedIsSettled == \A q \in BatchRequests : (asked[q] = "queued") ~> (asked[q] = "settled")
=============================================================================
