--------------------------- MODULE CircuitBreaker ---------------------------
(***************************************************************************)
(* The circuit breaker of the backend (lib/circuit_breaker.ts) that guards *)
(* every call to a Soroban RPC or Horizon endpoint: its state and what     *)
(* each of its methods does to it.  The calls themselves, which finish in  *)
(* any order, are in SorobanClientPool.                                    *)
(*                                                                         *)
(* nextAttempt is kept as the time that is left until it, cooldown, which  *)
(* is 0 when Date.now() >= nextAttempt.                                    *)
(***************************************************************************)
EXTENDS Integers

CONSTANTS
  VolumeThreshold,  \* results needed before the error rate is looked at
  ErrorThreshold,   \* the error rate that trips the circuit, in percent
  ResetTimeout      \* how long a tripped circuit stays open

ASSUME BreakerAssumption ==
  /\ VolumeThreshold \in Nat \ {0}
  /\ ErrorThreshold \in 1..100
  /\ ResetTimeout \in Nat \ {0}

VARIABLES
  state,         \* the state field, as of the last transition
  failureCount,  \* failures since the circuit was last reset
  successCount,  \* successes since the circuit was last reset
  totalCount,    \* both
  cooldown       \* how long until nextAttempt

counters == <<failureCount, successCount, totalCount>>
breakerVars == <<state, counters, cooldown>>

CircuitStates == {"CLOSED", "OPEN", "HALF_OPEN"}

BreakerTypeOK ==
  /\ state \in CircuitStates
  /\ failureCount \in Nat
  /\ successCount \in Nat
  /\ totalCount \in Nat
  /\ cooldown \in 0..ResetTimeout

BreakerInit ==
  /\ state = "CLOSED"
  /\ failureCount = 0
  /\ successCount = 0
  /\ totalCount = 0
  /\ cooldown = 0

\* Mutant: nextAttempt is never compared with the clock.
currentState_stuck == state

\* What getState returns, and leaves in the state field.
currentState == IF state = "OPEN" /\ cooldown = 0 THEN "HALF_OPEN" ELSE state

getState ==
  /\ state' = currentState
  /\ UNCHANGED <<counters, cooldown>>

reset ==
  /\ state' = "CLOSED"
  /\ failureCount' = 0
  /\ successCount' = 0
  /\ totalCount' = 0
  /\ cooldown' = 0

trip ==
  /\ state' = "OPEN"
  /\ cooldown' = ResetTimeout

\* Whichever call succeeds while the circuit is half open closes it.
onSuccess ==
  \/ /\ state = "HALF_OPEN"
     /\ reset
  \/ /\ state # "HALF_OPEN"
     /\ successCount' = successCount + 1
     /\ totalCount' = totalCount + 1
     /\ UNCHANGED <<state, failureCount, cooldown>>

\* The condition of onFailure, with the failure counted.  The rates are
\* fractions of small integers, compared without rounding here.
mustTrip ==
  \/ state = "HALF_OPEN"
  \/ /\ totalCount + 1 >= VolumeThreshold
     /\ (failureCount + 1) * 100 >= ErrorThreshold * (totalCount + 1)

\* A failure that arrives while the circuit is open may trip it again, which
\* puts nextAttempt off.
onFailure ==
  /\ failureCount' = failureCount + 1
  /\ totalCount' = totalCount + 1
  /\ UNCHANGED successCount
  /\ \/ mustTrip /\ trip
     \/ ~mustTrip /\ UNCHANGED <<state, cooldown>>

\* External: time passes.
ClockTicks ==
  /\ cooldown > 0
  /\ cooldown' = cooldown - 1
  /\ UNCHANGED <<state, counters>>
=============================================================================
