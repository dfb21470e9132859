---------------------------- MODULE WebhookQueue ----------------------------
(***************************************************************************)
(* The in-memory webhook queue with its dead-letter list                   *)
(* (lib/webhook_retry.ts).  tick takes the whole pending list, awaits the  *)
(* delivery of each due job in turn, and puts back what is left; jobs may  *)
(* be enqueued, and other ticks may run, during each of those awaits.      *)
(***************************************************************************)
EXTENDS Integers, Sequences, SequencesExt, FiniteSets

CONSTANTS
  Hooks,        \* the jobs
  Ticks,        \* bound: ticks under way at once
  MaxAttempts,  \* MAX_ATTEMPTS
  MaxDelay,     \* MAX_DELAY_SECS, with BASE_DELAY_SECS = 1
  MaxHookTime   \* bound: the last second looked at

ASSUME WebhookAssumption ==
  MaxAttempts \in Nat \ {0} /\ MaxDelay \in Nat /\ MaxHookTime \in Nat

VARIABLES
  hookClock,
  pending, deadLetter,  \* the two lists of the queue
  attempts, nextAttemptAt,
  tick,       \* the ticks under way: jobsToProcess, remaining, currentSecs
  fresh,      \* history: the jobs not enqueued yet
  delivered, drained,   \* history: how jobs ended
  exposed     \* history: the jobs that a tick's last assignment may drop

hookVars == <<hookClock, pending, deadLetter, attempts, nextAttemptAt, tick,
              fresh, delivered, drained, exposed>>

NoTick == [running |-> FALSE, todo |-> << >>, remaining |-> << >>, now |-> 0]
Running == {t \in Ticks : tick[t].running}

HookInit ==
  /\ hookClock = 0
  /\ pending = << >> /\ deadLetter = << >>
  /\ attempts = [h \in Hooks |-> 0]
  /\ nextAttemptAt = [h \in Hooks |-> 0]
  /\ tick = [t \in Ticks |-> NoTick]
  /\ fresh = Hooks /\ delivered = {} /\ drained = {} /\ exposed = {}

computeBackoffDelaySecs(n) == IF 2 ^ n > MaxDelay THEN MaxDelay ELSE 2 ^ n

isJobExhausted(n) == n >= MaxAttempts

isJobDue(h, now) == now >= nextAttemptAt[h]

\* createWebhookJob and enqueue: the job is due at once.
enqueueHook(h) ==
  /\ h \in fresh
  /\ fresh' = fresh \ {h}
  /\ nextAttemptAt' = [nextAttemptAt EXCEPT ![h] = hookClock]
  /\ pending' = Append(pending, h)
  /\ exposed' = IF Running # {} THEN exposed \cup {h} ELSE exposed
  /\ UNCHANGED <<hookClock, deadLetter, attempts, tick, delivered, drained>>

\* Mutant: the pending list is not emptied.
tickBegins_shared(t) ==
  /\ ~tick[t].running
  /\ tick' = [tick EXCEPT ![t] = [running |-> TRUE, todo |-> pending,
                                  remaining |-> << >>, now |-> hookClock]]
  /\ UNCHANGED <<hookClock, pending, deadLetter, attempts, nextAttemptAt, fresh,
                 delivered, drained, exposed>>

\* While another tick runs, what either of them holds is at stake.
tickBegins(t) ==
  /\ ~tick[t].running
  /\ tick' = [tick EXCEPT ![t] = [running |-> TRUE, todo |-> pending,
                                  remaining |-> << >>, now |-> hookClock]]
  /\ pending' = << >>
  /\ exposed' = IF Running = {} THEN exposed
                ELSE exposed \cup ToSet(pending)
                       \cup UNION {ToSet(tick[r].todo \o tick[r].remaining) : r \in Running}
  /\ UNCHANGED <<hookClock, deadLetter, attempts, nextAttemptAt, fresh, delivered, drained>>

Working(t) == tick[t].running /\ tick[t].todo # << >>

tickKeeps(t) ==
  LET h == Head(tick[t].todo) IN
  /\ Working(t)
  /\ ~isJobDue(h, tick[t].now)
  /\ tick' = [tick EXCEPT ![t].todo = Tail(@), ![t].remaining = Append(@, h)]
  /\ UNCHANGED <<hookClock, pending, deadLetter, attempts, nextAttemptAt, fresh,
                 delivered, drained, exposed>>

tickDelivers(t) ==
  LET h == Head(tick[t].todo) IN
  /\ Working(t)
  /\ isJobDue(h, tick[t].now)
  /\ tick' = [tick EXCEPT ![t].todo = Tail(@)]
  /\ delivered' = delivered \cup {h}
  /\ UNCHANGED <<hookClock, pending, deadLetter, attempts, nextAttemptAt, fresh,
                 drained, exposed>>

\* recordJobFailure counts from when the tick began.
tickFails(t) ==
  LET h == Head(tick[t].todo)
      n == attempts[h] + 1
  IN
  /\ Working(t)
  /\ isJobDue(h, tick[t].now)
  /\ attempts' = [attempts EXCEPT ![h] = n]
  /\ nextAttemptAt' = [nextAttemptAt EXCEPT ![h] = tick[t].now + computeBackoffDelaySecs(n)]
  /\ deadLetter' = IF isJobExhausted(n) THEN Append(deadLetter, h) ELSE deadLetter
  /\ tick' = [tick EXCEPT ![t].todo = Tail(@),
                          ![t].remaining = IF isJobExhausted(n) THEN @ ELSE Append(@, h)]
  /\ UNCHANGED <<hookClock, pending, fresh, delivered, drained, exposed>>

\* deliver throws: the tick is over and puts nothing back.
tickThrows(t) ==
  /\ Working(t)
  /\ isJobDue(Head(tick[t].todo), tick[t].now)
  /\ exposed' = exposed \cup ToSet(tick[t].todo \o tick[t].remaining)
  /\ tick' = [tick EXCEPT ![t] = NoTick]
  /\ UNCHANGED <<hookClock, pending, deadLetter, attempts, nextAttemptAt, fresh,
                 delivered, drained>>

\* The pending list is replaced, whatever it holds by now.
tickEnds(t) ==
  /\ tick[t].running /\ tick[t].todo = << >>
  /\ pending' = tick[t].remaining
  /\ tick' = [tick EXCEPT ![t] = NoTick]
  /\ UNCHANGED <<hookClock, deadLetter, attempts, nextAttemptAt, fresh, delivered,
                 drained, exposed>>

drainDlq ==
  /\ deadLetter # << >>
  /\ drained' = drained \cup ToSet(deadLetter)
  /\ deadLetter' = << >>
  /\ UNCHANGED <<hookClock, pending, attempts, nextAttemptAt, tick, fresh, delivered, exposed>>

HookTimePasses ==
  /\ hookClock < MaxHookTime
  /\ hookClock' = hookClock + 1
  /\ UNCHANGED <<pending, deadLetter, attempts, nextAttemptAt, tick, fresh,
                 delivered, drained, exposed>>

HookNext ==
  \/ \E h \in Hooks : enqueueHook(h)
  \/ \E t \in Ticks : \/ tickBegins(t) \/ tickKeeps(t) \/ tickDelivers(t)
                      \/ tickFails(t) \/ tickThrows(t) \/ tickEnds(t)
  \/ drainDlq \/ HookTimePasses

-----------------------------------------------------------------------------

InHand == UNION {ToSet(tick[t].todo \o tick[t].remaining) : t \in Ticks}

\* No webhook disappears, except one that was enqueued during a tick, was in
\* a tick that overlapped another one or was left over when a delivery threw;
\* one that runs out of attempts always reaches the dead-letter list.  However
\* ticks overlap, no webhook is in the hands of two of them or both in hand and
\* pending, so none is attempted twice at a time, after it was delivered, or
\* more often than MAX_ATTEMPTS.
WebhooksOnce ==
  LET all == pending \o deadLetter
      inTick(t) == tick[t].todo \o tick[t].remaining
  IN
  /\ Hooks \subseteq fresh \cup ToSet(all) \cup InHand \cup delivered \cup drained \cup exposed
  /\ IsInjective(all)
  /\ \A t \in Ticks : /\ IsInjective(inTick(t) \o all)
                      /\ \A u \in Ticks \ {t} :
                           ToSet(inTick(t)) \cap ToSet(inTick(u)) = {}
  /\ delivered \cap (ToSet(all) \cup InHand) = {}
  /\ \A h \in Hooks : attempts[h] <= MaxAttempts
=============================================================================
