------------------------- MODULE SorobanClientPool --------------------------
(***************************************************************************)
(* The pool of Soroban RPC clients (lib/soroban.ts).  withClient acquires  *)
(* a client, or waits for one with a timeout, fires the call through the   *)
(* shared circuit breaker, and gives the client back whatever the outcome. *)
(* The steps of concurrent calls interleave at the awaits.                 *)
(*                                                                         *)
(* The clients are all alike, so the pool is a set.  A call that the       *)
(* breaker times out is abandoned: its promise may settle later but        *)
(* nothing listens to it any more.                                         *)
(***************************************************************************)
EXTENDS CircuitBreaker, Sequences, SequencesExt

CONSTANTS
  Calls,       \* the callers of withClient, each with one call at a time
  Clients,     \* the clients the pool was filled with
  NoClient,
  MaxResults   \* bound: results counted before callers stop calling

ASSUME PoolAssumption ==
  /\ IsFiniteSet(Clients)
  /\ NoClient \notin Clients
  /\ MaxResults \in Nat

VARIABLES
  step,     \* how far each call has got
  client,   \* the client each call has been given
  pool,     \* the clients nobody has
  waiters,  \* the calls waiting for a client, first come first served
  inUse,    \* the inUse counter
  outage    \* whether the RPC endpoints may fail

poolVars == <<client, pool, waiters, inUse>>
vars == <<breakerVars, step, poolVars, outage>>

Steps == {"idle", "waiting", "acquired", "running", "leaving"}

PoolTypeOK ==
  /\ step \in [Calls -> Steps]
  /\ client \in [Calls -> Clients \cup {NoClient}]
  /\ pool \in SUBSET Clients
  /\ waiters \in Seq(Calls)
  /\ inUse \in Nat
  /\ outage \in BOOLEAN

Init ==
  /\ BreakerInit
  /\ step = [c \in Calls |-> "idle"]
  /\ client = [c \in Calls |-> NoClient]
  /\ pool = Clients
  /\ waiters = << >>
  /\ inUse = 0
  /\ outage = TRUE

Goes(c, from, to) ==
  /\ step[c] = from
  /\ step' = [step EXCEPT ![c] = to]

-----------------------------------------------------------------------------

\* While results are counted the number of calls is bounded; after the outage
\* a circuit that is not closed may be tried any number of times.
WithinBound == totalCount < MaxResults \/ (~outage /\ state # "CLOSED")

acquire(c) ==
  /\ WithinBound
  /\ \/ /\ Goes(c, "idle", "acquired")
        /\ \E k \in pool : /\ client' = [client EXCEPT ![c] = k]
                           /\ pool' = pool \ {k}
        /\ inUse' = inUse + 1
        /\ UNCHANGED waiters
     \/ /\ pool = {}
        /\ Goes(c, "idle", "waiting")
        /\ waiters' = Append(waiters, c)
        /\ UNCHANGED <<client, pool, inUse>>
  /\ UNCHANGED <<breakerVars, outage>>

\* Mutant: the waiter is taken off the list and its promise never rejected.
acquireTimeout_silent(c) ==
  /\ step[c] = "waiting"
  /\ \E i \in DOMAIN waiters : waiters[i] = c /\ waiters' = RemoveAt(waiters, i)
  /\ UNCHANGED <<breakerVars, step, client, pool, inUse, outage>>

\* The timer of a waiter fires: the call fails without having had a client.
acquireTimeout(c) ==
  /\ Goes(c, "waiting", "idle")
  /\ \E i \in DOMAIN waiters : waiters[i] = c /\ waiters' = RemoveAt(waiters, i)
  /\ UNCHANGED <<breakerVars, client, pool, inUse, outage>>

\* fire: an open circuit fails at once, any other lets the call through.
fire(c) ==
  /\ getState
  /\ \/ currentState = "OPEN" /\ Goes(c, "acquired", "leaving")
     \/ currentState # "OPEN" /\ Goes(c, "acquired", "running")
  /\ UNCHANGED <<poolVars, outage>>

\* One of the endpoints answers before the timeout.
succeeds(c) ==
  /\ Goes(c, "running", "leaving")
  /\ onSuccess
  /\ UNCHANGED <<poolVars, outage>>

\* All endpoints fail, or the breaker's timeout comes first.
failsOrTimesOut(c) ==
  /\ outage
  /\ Goes(c, "running", "leaving")
  /\ onFailure
  /\ UNCHANGED <<poolVars, outage>>

\* Mutant: no return after the client was handed to a waiter.
release_both(c) ==
  /\ step[c] = "leaving"
  /\ \/ /\ waiters # << >>
        /\ step' = [step EXCEPT ![c] = "idle", ![Head(waiters)] = "acquired"]
        /\ client' = [client EXCEPT ![c] = NoClient, ![Head(waiters)] = client[c]]
        /\ waiters' = Tail(waiters)
     \/ /\ waiters = << >>
        /\ step' = [step EXCEPT ![c] = "idle"]
        /\ client' = [client EXCEPT ![c] = NoClient]
        /\ UNCHANGED waiters
  /\ inUse' = inUse - 1
  /\ pool' = pool \cup {client[c]}
  /\ UNCHANGED <<breakerVars, outage>>

\* The client goes to the first waiter, whose timer is cleared, or back.
release(c) ==
  /\ step[c] = "leaving"
  /\ \/ /\ waiters # << >>
        /\ step' = [step EXCEPT ![c] = "idle", ![Head(waiters)] = "acquired"]
        /\ client' = [client EXCEPT ![c] = NoClient, ![Head(waiters)] = client[c]]
        /\ waiters' = Tail(waiters)
        /\ UNCHANGED <<pool, inUse>>
     \/ /\ waiters = << >>
        /\ step' = [step EXCEPT ![c] = "idle"]
        /\ client' = [client EXCEPT ![c] = NoClient]
        /\ inUse' = inUse - 1
        /\ pool' = pool \cup {client[c]}
        /\ UNCHANGED waiters
  /\ UNCHANGED <<breakerVars, outage>>

\* A health or metrics endpoint reads the state of the breaker.
getStats == getState /\ UNCHANGED <<step, poolVars, outage>>

\* External: the endpoints recover.
OutageEnds ==
  /\ outage
  /\ outage' = FALSE
  /\ UNCHANGED <<breakerVars, step, poolVars>>

TimePasses == ClockTicks /\ UNCHANGED <<step, poolVars, outage>>

Ends(c) == succeeds(c) \/ failsOrTimesOut(c)

Next ==
  \/ \E c \in Calls : \/ acquire(c) \/ acquireTimeout(c) \/ fire(c)
                      \/ succeeds(c) \/ failsOrTimesOut(c) \/ release(c)
  \/ getStats
  \/ OutageEnds
  \/ TimePasses

\* Timers fire, promise callbacks run, and callers keep calling.
Fairness ==
  /\ WF_vars(TimePasses)
  /\ \A c \in Calls : /\ WF_vars(acquire(c))
                      /\ WF_vars(acquireTimeout(c))
                      /\ WF_vars(fire(c))
                      /\ WF_vars(Ends(c))
                      /\ WF_vars(release(c))

Spec == Init /\ [][Next]_vars

FairSpec == Spec /\ Fairness

-----------------------------------------------------------------------------

Holders == {c \in Calls : client[c] # NoClient}

\* No client is lost or lent twice, on whichever path a call ends: open
\* circuit, failure, timeout, or a client that is handed on to a waiter.
PoolBalanced ==
  /\ \A c \in Holders : client[c] \notin pool
  /\ \A c, d \in Holders : client[c] = client[d] => c = d
  /\ \A k \in Clients : k \in pool \/ \E c \in Holders : client[c] = k
  /\ inUse = Cardinality(Clients \ pool)

\* Nobody waits while a client is free, however timeouts and releases race.
NoIdleClient == waiters # << >> => pool = {}

\* A circuit is kept from closed only by failures it has seen, enough of
\* them, since it was last closed; results that arrive late never unsettle it.
OpenHasEvidence ==
  state # "CLOSED" => totalCount >= VolumeThreshold /\ failureCount > 0

\* withClient always comes to an end: a call that waits for a client, or for
\* an endpoint that never answers, is answered or fails.
EveryCallEnds == \A c \in Calls : step[c] # "idle" ~> step[c] = "idle"

\* Once the endpoints answer again the circuit closes and stays closed, however
\* the late results of the outage have left it.
CircuitRecovers == <>[](~outage) => <>[](state = "CLOSED")
=============================================================================
