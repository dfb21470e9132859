---------------------- MODULE SorobanClientPoolProofs -----------------------
(***************************************************************************)
(* The safety properties of the client pool and its circuit breaker, for   *)
(* any number of calls and clients and any thresholds.                     *)
(***************************************************************************)
EXTENDS SorobanClientPool, FiniteSetTheorems, SequenceTheorems, TLAPS

Holding == {"acquired", "running", "leaving"}

\* A call has a client exactly between acquire and release.
HoldersAreActive == \A c \in Calls : client[c] # NoClient <=> step[c] \in Holding

\* The waiting calls are the entries of the list, each there once.
WaitersAreWaiting ==
  /\ \A c \in Calls : step[c] = "waiting" <=> \E i \in DOMAIN waiters : waiters[i] = c
  /\ \A i, j \in DOMAIN waiters : waiters[i] = waiters[j] => i = j

\* The inductive invariant of the pool.
PoolInv ==
  /\ PoolTypeOK
  /\ HoldersAreActive
  /\ WaitersAreWaiting
  /\ PoolBalanced
  /\ NoIdleClient

\* The inductive invariant of the breaker.
BreakerInv == BreakerTypeOK /\ OpenHasEvidence

\* Every step keeps the counters and the state of the breaker consistent.
LEMMA BreakerStep ==
  BreakerInv /\ [Next]_vars => BreakerInv'
<1> SUFFICES ASSUME BreakerInv, [Next]_vars PROVE BreakerInv'
  OBVIOUS
<1> USE BreakerAssumption DEF BreakerInv, BreakerTypeOK, OpenHasEvidence,
        CircuitStates, counters
<1>1. CASE UNCHANGED breakerVars
  BY <1>1 DEF breakerVars
<1>2. CASE getState
  BY <1>2 DEF getState, currentState
<1>3. CASE onSuccess
  BY <1>3 DEF onSuccess, reset
<1>4. CASE onFailure
  <2>1. CASE mustTrip
    BY <1>4, <2>1 DEF onFailure, mustTrip, trip
  <2>2. CASE ~mustTrip
    BY <1>4, <2>2 DEF onFailure
  <2> QED
    BY <2>1, <2>2
<1>5. CASE ClockTicks
  BY <1>5 DEF ClockTicks
<1> QED
  BY <1>1, <1>2, <1>3, <1>4, <1>5
  DEF Next, vars, acquire, acquireTimeout, fire, succeeds, failsOrTimesOut,
      release, getStats, OutageEnds, TimePasses

\* The circuit is open or half open only after enough results, with a failure
\* among them, were counted (onFailure, reset of lib/circuit_breaker.ts).
THEOREM CircuitNeedsEvidence == Spec => []OpenHasEvidence
<1>1. Init => BreakerInv
  BY BreakerAssumption
  DEF Init, BreakerInit, BreakerInv, BreakerTypeOK, OpenHasEvidence, CircuitStates
<1>2. BreakerInv => OpenHasEvidence
  BY DEF BreakerInv
<1> QED
  BY <1>1, <1>2, BreakerStep, PTL DEF Spec

-----------------------------------------------------------------------------

\* The length and the entries of a concatenation.
LEMMA Concatenation ==
  ASSUME NEW u \in Seq(Calls), NEW v \in Seq(Calls)
  PROVE  /\ u \o v \in Seq(Calls)
         /\ Len(u \o v) = Len(u) + Len(v)
         /\ \A j \in 1..Len(u) : (u \o v)[j] = u[j]
         /\ \A j \in (Len(u) + 1)..(Len(u) + Len(v)) : (u \o v)[j] = v[j - Len(u)]
<1>1. u \o v \in Seq(Calls) /\ Len(u \o v) = Len(u) + Len(v)
  OBVIOUS
<1>2. \A j \in 1..Len(u) : (u \o v)[j] = u[j]
  OBVIOUS
<1>3. \A j \in (Len(u) + 1)..(Len(u) + Len(v)) : (u \o v)[j] = v[j - Len(u)]
  OBVIOUS
<1> QED
  BY <1>1, <1>2, <1>3

\* What is left of the list of waiters once entry i has been taken out.
LEMMA RemoveWaiter ==
  ASSUME NEW s \in Seq(Calls), NEW i \in DOMAIN s,
         \A j, k \in DOMAIN s : s[j] = s[k] => j = k
  PROVE  LET t == RemoveAt(s, i) IN
         /\ t \in Seq(Calls)
         /\ \A c \in Calls : (\E j \in DOMAIN t : t[j] = c)
                               <=> c # s[i] /\ \E j \in DOMAIN s : s[j] = c
         /\ \A j, k \in DOMAIN t : t[j] = t[k] => j = k
<1> DEFINE n == Len(s)
           u == SubSeq(s, 1, i - 1)
           v == SubSeq(s, i + 1, n)
           t == RemoveAt(s, i)
<1>1. n \in Nat /\ DOMAIN s = 1..n /\ i \in 1..n
  OBVIOUS
<1>2. /\ u \in Seq(Calls) /\ Len(u) = i - 1
      /\ \A j \in 1..(i - 1) : u[j] = s[j]
  BY <1>1
<1>3. /\ v \in Seq(Calls) /\ Len(v) = n - i
      /\ \A j \in 1..(n - i) : v[j] = s[i + j]
  <2>1. v \in Seq(Calls) /\ Len(v) = n - i
    BY <1>1
  <2>2. ASSUME NEW j \in 1..(n - i) PROVE v[j] = s[i + j]
    <3>1. v[j] = s[(i + 1) + j - 1]
      BY <1>1
    <3>2. (i + 1) + j - 1 = i + j
      BY <1>1
    <3> QED
      BY <3>1, <3>2
  <2> QED
    BY <2>1, <2>2
<1>4. t = u \o v
  BY Zenon DEF RemoveAt
<1> HIDE DEF n, u, v, t
<1>5. /\ t \in Seq(Calls) /\ Len(t) = (i - 1) + (n - i)
      /\ \A j \in 1..(i - 1) : t[j] = u[j]
      /\ \A j \in i..(n - 1) : t[j] = v[j - (i - 1)]
  <2>1. /\ t \in Seq(Calls) /\ Len(t) = Len(u) + Len(v)
        /\ \A j \in 1..Len(u) : t[j] = u[j]
        /\ \A j \in (Len(u) + 1)..(Len(u) + Len(v)) : t[j] = v[j - Len(u)]
    BY <1>2, <1>3, <1>4, Concatenation, Zenon
  <2>2. (i - 1) + 1 = i /\ (i - 1) + (n - i) = n - 1
    BY <1>1
  <2> QED
    BY <1>2, <1>3, <2>1, <2>2
<1>6. DOMAIN t = 1..(n - 1)
  BY <1>1, <1>5
<1>7. /\ \A j \in 1..(i - 1) : t[j] = s[j]
      /\ \A j \in i..(n - 1) : t[j] = s[j + 1]
  <2>1. ASSUME NEW j \in 1..(i - 1) PROVE t[j] = s[j]
    BY <1>2, <1>5
  <2>2. ASSUME NEW j \in i..(n - 1) PROVE t[j] = s[j + 1]
    <3>1. t[j] = v[j - (i - 1)]
      BY <1>5
    <3>2. j - (i - 1) \in 1..(n - i) /\ i + (j - (i - 1)) = j + 1
      BY <1>1
    <3>3. v[j - (i - 1)] = s[i + (j - (i - 1))]
      BY <1>3, <3>2
    <3> QED
      BY <3>1, <3>2, <3>3
  <2> QED
    BY <2>1, <2>2
<1>8. ASSUME NEW j \in DOMAIN t, NEW k \in DOMAIN t, t[j] = t[k]
      PROVE  j = k
  <2> DEFINE at(x) == IF x < i THEN x ELSE x + 1
  <2>1. \A x \in DOMAIN t : at(x) \in DOMAIN s /\ t[x] = s[at(x)]
    BY <1>1, <1>6, <1>7, SMTT(30)
  <2>2. at(j) = at(k)
    BY <1>8, <2>1
  <2> QED
    BY <1>1, <1>6, <2>2
<1>9. ASSUME NEW c \in Calls, NEW j \in DOMAIN t, t[j] = c
      PROVE  c # s[i] /\ \E k \in DOMAIN s : s[k] = c
  <2>1. CASE j < i
    <3>1. j \in DOMAIN s /\ s[j] = c /\ j # i
      BY <1>1, <1>6, <1>7, <1>9, <2>1
    <3> QED
      BY <3>1
  <2>2. CASE ~(j < i)
    <3>1. j + 1 \in DOMAIN s /\ s[j + 1] = c /\ j + 1 # i
      BY <1>1, <1>6, <1>7, <1>9, <2>2
    <3> QED
      BY <3>1
  <2> QED
    BY <2>1, <2>2
<1>10. ASSUME NEW c \in Calls, c # s[i], NEW k \in DOMAIN s, s[k] = c
       PROVE  \E j \in DOMAIN t : t[j] = c
  <2>1. CASE k < i
    <3>1. k \in DOMAIN t /\ t[k] = s[k]
      BY <1>1, <1>6, <1>7, <2>1
    <3> QED
      BY <3>1, <1>10
  <2>2. CASE k > i
    <3>1. k - 1 \in DOMAIN t /\ t[k - 1] = s[k]
      BY <1>1, <1>6, <1>7, <2>2
    <3> QED
      BY <3>1, <1>10
  <2> QED
    BY <1>1, <1>10, <2>1, <2>2
<1> QED
  BY <1>5, <1>8, <1>9, <1>10 DEF t

\* Steps that leave the pool alone and keep each call on its side of acquire
\* and release.
LEMMA PoolUntouched ==
  ASSUME PoolInv, UNCHANGED poolVars, PoolTypeOK',
         \A c \in Calls : step'[c] \in Holding <=> step[c] \in Holding,
         \A c \in Calls : step'[c] = "waiting" <=> step[c] = "waiting"
  PROVE  PoolInv'
BY DEF PoolInv, poolVars, HoldersAreActive, WaitersAreWaiting, PoolBalanced,
       NoIdleClient, Holders

\* A call takes a client out of the pool, or joins the waiters.
LEMMA AcquireStep ==
  ASSUME PoolInv, NEW c \in Calls, acquire(c)
  PROVE  PoolInv'
<1> USE PoolAssumption DEF PoolInv, PoolTypeOK, Steps, Holding, Goes
<1>1. CASE step'[c] = "acquired"
  <2>1. PICK k \in pool : /\ client' = [client EXCEPT ![c] = k]
                          /\ pool' = pool \ {k}
    BY <1>1 DEF acquire
  <2>2. /\ step[c] = "idle"
        /\ step' = [step EXCEPT ![c] = "acquired"]
        /\ inUse' = inUse + 1
        /\ UNCHANGED <<waiters, outage>>
    BY <1>1 DEF acquire
  <2>3. PoolTypeOK'
    BY <2>1, <2>2
  <2>4. HoldersAreActive'
    BY <2>1, <2>2 DEF HoldersAreActive
  <2>5. WaitersAreWaiting'
    BY <2>2 DEF WaitersAreWaiting
  <2>6. PoolBalanced'
    <3>1. client[c] = NoClient
      BY <2>2 DEF HoldersAreActive
    <3>2. Holders' = Holders \cup {c}
      BY <2>1 DEF Holders
    <3>3. /\ \A d \in Holders' : client'[d] \notin pool'
          /\ \A d, e \in Holders' : client'[d] = client'[e] => d = e
          /\ \A x \in Clients : x \in pool' \/ \E d \in Holders' : client'[d] = x
      BY <2>1, <3>1, <3>2 DEF PoolBalanced, Holders
    <3>4. Cardinality(Clients \ pool') = Cardinality(Clients \ pool) + 1
      <4>1. Clients \ pool' = (Clients \ pool) \cup {k}
        BY <2>1
      <4>2. IsFiniteSet(Clients \ pool)
        BY FS_Subset
      <4> QED
        BY <4>1, <4>2, FS_AddElement, Zenon
    <3> QED
      BY <2>2, <3>3, <3>4 DEF PoolBalanced
  <2>7. NoIdleClient'
    BY <2>1, <2>2 DEF NoIdleClient
  <2> QED
    BY <2>3, <2>4, <2>5, <2>6, <2>7
<1>2. CASE step'[c] # "acquired"
  <2>1. /\ pool = {}
        /\ step[c] = "idle"
        /\ step' = [step EXCEPT ![c] = "waiting"]
        /\ waiters' = Append(waiters, c)
        /\ UNCHANGED <<client, pool, inUse, outage>>
    BY <1>2 DEF acquire
  <2>2. PoolTypeOK'
    BY <2>1
  <2>3. HoldersAreActive'
    BY <2>1 DEF HoldersAreActive
  <2>4. WaitersAreWaiting'
    <3>1. /\ DOMAIN waiters = 1..Len(waiters)
          /\ DOMAIN waiters' = 1..(Len(waiters) + 1)
          /\ Len(waiters) \in Nat
          /\ \A i \in 1..Len(waiters) : waiters'[i] = waiters[i]
          /\ waiters'[Len(waiters) + 1] = c
      BY <2>1
    <3>2. \A i \in DOMAIN waiters : waiters[i] # c
      BY <2>1 DEF WaitersAreWaiting
    <3>3. \A i, j \in DOMAIN waiters' : waiters'[i] = waiters'[j] => i = j
      BY <3>1, <3>2 DEF WaitersAreWaiting
    <3>4. \A d \in Calls : step'[d] = "waiting"
                             <=> \E i \in DOMAIN waiters' : waiters'[i] = d
      BY <2>1, <3>1 DEF WaitersAreWaiting
    <3> QED
      BY <3>3, <3>4 DEF WaitersAreWaiting
  <2>5. PoolBalanced' /\ NoIdleClient'
    BY <2>1, Zenon DEF PoolBalanced, NoIdleClient, Holders
  <2> QED
    BY <2>2, <2>3, <2>4, <2>5
<1> QED
  BY <1>1, <1>2

\* A waiter gives up.
LEMMA AcquireTimeoutStep ==
  ASSUME PoolInv, NEW c \in Calls, acquireTimeout(c)
  PROVE  PoolInv'
<1> USE DEF PoolInv, PoolTypeOK, Steps, Holding, Goes
<1>1. /\ step[c] = "waiting"
      /\ step' = [step EXCEPT ![c] = "idle"]
      /\ UNCHANGED <<client, pool, inUse, outage>>
  BY DEF acquireTimeout
<1>2. PICK i \in DOMAIN waiters : waiters[i] = c /\ waiters' = RemoveAt(waiters, i)
  BY DEF acquireTimeout
<1>3. /\ waiters' \in Seq(Calls)
      /\ \A d \in Calls : (\E j \in DOMAIN waiters' : waiters'[j] = d)
                            <=> d # c /\ \E j \in DOMAIN waiters : waiters[j] = d
      /\ \A j, k \in DOMAIN waiters' : waiters'[j] = waiters'[k] => j = k
  BY <1>2, RemoveWaiter DEF WaitersAreWaiting
<1>4. PoolTypeOK'
  BY <1>1, <1>3
<1>5. HoldersAreActive'
  BY <1>1 DEF HoldersAreActive
<1>6. WaitersAreWaiting'
  BY <1>1, <1>3, ZenonT(40) DEF WaitersAreWaiting
<1>7. PoolBalanced'
  BY <1>1 DEF PoolBalanced, Holders
<1>8. NoIdleClient'
  <2>1. waiters # << >>
    BY <1>2
  <2> QED
    BY <1>1, <2>1 DEF NoIdleClient
<1> QED
  BY <1>4, <1>5, <1>6, <1>7, <1>8

\* The client goes to the first waiter: neither the pool nor the counter moves.
LEMMA HandOnStep ==
  ASSUME PoolInv, NEW c \in Calls, release(c), waiters # << >>
  PROVE  PoolInv'
<1> USE DEF PoolInv, PoolTypeOK, Steps, Holding
<1> DEFINE h == Head(waiters)
<1>1. /\ step[c] = "leaving"
      /\ step' = [step EXCEPT ![c] = "idle", ![h] = "acquired"]
      /\ client' = [client EXCEPT ![c] = NoClient, ![h] = client[c]]
      /\ waiters' = Tail(waiters)
      /\ UNCHANGED <<pool, inUse, outage>>
  BY DEF release
<1>2. /\ Len(waiters) \in Nat \ {0}
      /\ DOMAIN waiters = 1..Len(waiters)
      /\ DOMAIN waiters' = 1..(Len(waiters) - 1)
      /\ waiters' \in Seq(Calls)
      /\ \A i \in DOMAIN waiters' : waiters'[i] = waiters[i + 1]
      /\ h = waiters[1]
      /\ h \in Calls
  BY <1>1
<1>3. /\ step[h] = "waiting"
      /\ h # c
      /\ client[h] = NoClient
      /\ client[c] # NoClient
  BY <1>1, <1>2 DEF WaitersAreWaiting, HoldersAreActive
<1> HIDE DEF h
<1>4. PoolTypeOK'
  BY <1>1, <1>2
<1>5. HoldersAreActive'
  BY <1>1, <1>2, <1>3 DEF HoldersAreActive
<1>6. WaitersAreWaiting'
  <2>1. ASSUME NEW i \in DOMAIN waiters', NEW j \in DOMAIN waiters',
               waiters'[i] = waiters'[j]
        PROVE  i = j
    <3>1. i + 1 \in DOMAIN waiters /\ j + 1 \in DOMAIN waiters
      BY <1>2
    <3>2. waiters[i + 1] = waiters[j + 1]
      BY <1>2, <2>1
    <3>3. i + 1 = j + 1
      BY <3>1, <3>2 DEF WaitersAreWaiting
    <3> QED
      BY <1>2, <3>3
  <2>2. ASSUME NEW d \in Calls, step'[d] = "waiting"
        PROVE  \E i \in DOMAIN waiters' : waiters'[i] = d
    <3>1. d # h /\ step[d] = "waiting"
      BY <1>1, <1>2, <2>2
    <3>2. PICK j \in DOMAIN waiters : waiters[j] = d
      BY <3>1 DEF WaitersAreWaiting
    <3>3. j - 1 \in DOMAIN waiters' /\ waiters'[j - 1] = d
      BY <1>2, <3>1, <3>2
    <3> QED
      BY <3>3
  <2>3. ASSUME NEW d \in Calls, NEW i \in DOMAIN waiters', waiters'[i] = d
        PROVE  step'[d] = "waiting"
    <3>1. i + 1 \in DOMAIN waiters /\ waiters[i + 1] = d /\ i + 1 # 1
      BY <1>2, <2>3
    <3>2. step[d] = "waiting" /\ d # h
      BY <1>2, <3>1 DEF WaitersAreWaiting
    <3> QED
      BY <1>1, <1>2, <3>2
  <2> QED
    BY <2>1, <2>2, <2>3 DEF WaitersAreWaiting
<1>7. PoolBalanced'
  <2>1. Holders' = (Holders \ {c}) \cup {h}
    BY <1>1, <1>2, <1>3 DEF Holders
  <2>2. c \in Holders /\ h \notin Holders /\ client'[h] = client[c]
    BY <1>1, <1>2, <1>3, SMTT(30) DEF Holders
  <2>3. \A d \in Holders \ {c} : client'[d] = client[d]
    BY <1>1, <1>2, <1>3, <2>2, SMTT(30) DEF Holders
  <2>4. ASSUME NEW d \in Holders' PROVE client'[d] \notin pool'
    <3>1. CASE d = h
      <4>1. client[c] \notin pool
        BY <2>2 DEF PoolBalanced
      <4> QED
        BY <1>1, <2>2, <3>1, <4>1, SMTT(30)
    <3>2. CASE d # h
      <4>1. d \in Holders /\ client'[d] = client[d]
        BY <2>1, <2>3, <3>2, SMTT(30)
      <4>2. client[d] \notin pool
        BY <4>1 DEF PoolBalanced
      <4> QED
        BY <1>1, <4>1, <4>2
    <3> QED
      BY <3>1, <3>2
  <2>5. ASSUME NEW d \in Holders', NEW e \in Holders', client'[d] = client'[e]
        PROVE  d = e
    <3>1. CASE d = h /\ e # h
      BY <2>1, <2>2, <2>3, <2>5, <3>1, SMTT(30) DEF PoolBalanced
    <3>2. CASE d # h /\ e = h
      BY <2>1, <2>2, <2>3, <2>5, <3>2, ZenonT(40) DEF PoolBalanced
    <3>3. CASE d # h /\ e # h
      BY <2>1, <2>3, <2>5, <3>3, SMTT(30) DEF PoolBalanced
    <3> QED
      BY <3>1, <3>2, <3>3, SMTT(30)
  <2>6. ASSUME NEW k \in Clients, k \notin pool
        PROVE  \E d \in Holders' : client'[d] = k
    <3>1. PICK d \in Holders : client[d] = k
      BY <2>6 DEF PoolBalanced
    <3>2. CASE d = c
      BY <2>1, <2>2, <3>1, <3>2, ZenonT(40)
    <3>3. CASE d # c
      BY <2>1, <2>3, <3>1, <3>3, ZenonT(40)
    <3> QED
      BY <3>2, <3>3
  <2> QED
    BY <1>1, <2>4, <2>5, <2>6, Zenon DEF PoolBalanced
<1>8. NoIdleClient'
  BY <1>1 DEF NoIdleClient
<1> QED
  BY <1>4, <1>5, <1>6, <1>7, <1>8

\* Nobody waits: the client goes back to the pool.
LEMMA GiveBackStep ==
  ASSUME PoolInv, NEW c \in Calls, release(c), waiters = << >>
  PROVE  PoolInv'
<1> USE PoolAssumption DEF PoolInv, PoolTypeOK, Steps, Holding
<1>1. /\ step[c] = "leaving"
      /\ step' = [step EXCEPT ![c] = "idle"]
      /\ client' = [client EXCEPT ![c] = NoClient]
      /\ inUse' = inUse - 1
      /\ pool' = pool \cup {client[c]}
      /\ UNCHANGED <<waiters, outage>>
  BY DEF release
<1>2. c \in Holders /\ client[c] \in Clients \ pool
  BY <1>1 DEF HoldersAreActive, Holders, PoolBalanced
<1>3. inUse' = Cardinality(Clients \ pool') /\ inUse' \in Nat
  <2>1. Clients \ pool' = (Clients \ pool) \ {client[c]}
    BY <1>1
  <2>2. IsFiniteSet(Clients \ pool)
    BY FS_Subset
  <2>3. IsFiniteSet(Clients \ pool')
    BY FS_Subset
  <2>4. Cardinality((Clients \ pool) \ {client[c]}) = Cardinality(Clients \ pool) - 1
    BY <1>2, <2>2, FS_RemoveElement, ZenonT(40)
  <2>5. Cardinality(Clients \ pool') \in Nat
    BY <2>3, FS_CardinalityType
  <2> QED
    BY <1>1, <2>1, <2>4, <2>5, Zenon DEF PoolBalanced
<1>4. PoolTypeOK'
  BY <1>1, <1>2, <1>3
<1>5. HoldersAreActive'
  BY <1>1 DEF HoldersAreActive
<1>6. WaitersAreWaiting'
  BY <1>1 DEF WaitersAreWaiting
<1>7. PoolBalanced'
  <2>1. Holders' = Holders \ {c}
    BY <1>1 DEF Holders
  <2>2. \A d \in Holders \ {c} : client'[d] = client[d]
    BY <1>1 DEF Holders
  <2>3. ASSUME NEW d \in Holders' PROVE client'[d] \notin pool'
    <3>1. d \in Holders /\ d # c /\ client'[d] = client[d]
      BY <2>1, <2>2
    <3>2. client[d] \notin pool /\ client[d] # client[c]
      BY <1>2, <3>1 DEF PoolBalanced
    <3> QED
      BY <1>1, <3>1, <3>2
  <2>4. ASSUME NEW d \in Holders', NEW e \in Holders', client'[d] = client'[e]
        PROVE  d = e
    BY <2>1, <2>2, <2>4, SMTT(30) DEF PoolBalanced
  <2>5. ASSUME NEW k \in Clients, k \notin pool'
        PROVE  \E d \in Holders' : client'[d] = k
    <3>1. k \notin pool /\ k # client[c]
      BY <1>1, <2>5
    <3>2. PICK d \in Holders : client[d] = k
      BY <3>1 DEF PoolBalanced
    <3> QED
      BY <2>1, <2>2, <3>1, <3>2, SMTT(30)
  <2> QED
    BY <1>3, <2>3, <2>4, <2>5, ZenonT(40) DEF PoolBalanced
<1>8. NoIdleClient'
  BY <1>1 DEF NoIdleClient
<1> QED
  BY <1>4, <1>5, <1>6, <1>7, <1>8, SMTT(30)

\* Every step of every call keeps the inductive invariant of the pool.
LEMMA PoolStep ==
  PoolInv /\ [Next]_vars => PoolInv'
<1> SUFFICES ASSUME PoolInv, [Next]_vars PROVE PoolInv'
  OBVIOUS
<1>1. ASSUME NEW c \in Calls, acquire(c) PROVE PoolInv'
  BY <1>1, AcquireStep
<1>2. ASSUME NEW c \in Calls, acquireTimeout(c) PROVE PoolInv'
  BY <1>2, AcquireTimeoutStep
<1>3. ASSUME NEW c \in Calls, fire(c) \/ succeeds(c) \/ failsOrTimesOut(c)
      PROVE  PoolInv'
  <2>1. /\ UNCHANGED <<poolVars, outage>>
        /\ \/ Goes(c, "acquired", "leaving")
           \/ Goes(c, "acquired", "running")
           \/ Goes(c, "running", "leaving")
    BY <1>3 DEF fire, succeeds, failsOrTimesOut
  <2>2. PoolTypeOK'
    BY <2>1 DEF PoolInv, PoolTypeOK, Goes, Steps, poolVars
  <2>3. step \in [Calls -> Steps]
    BY DEF PoolInv, PoolTypeOK
  <2>4. \A d \in Calls : step'[d] \in Holding <=> step[d] \in Holding
    BY <2>1, <2>3 DEF Goes, Holding
  <2>5. \A d \in Calls : step'[d] = "waiting" <=> step[d] = "waiting"
    BY <2>1, <2>3 DEF Goes
  <2> QED
    BY <2>1, <2>2, <2>4, <2>5, PoolUntouched, ZenonT(40)
<1>4. ASSUME NEW c \in Calls, release(c) PROVE PoolInv'
  BY <1>4, HandOnStep, GiveBackStep
<1>5. CASE getStats \/ OutageEnds \/ TimePasses \/ UNCHANGED vars
  <2>1. UNCHANGED <<step, poolVars>> /\ outage' \in {outage, FALSE}
    BY <1>5, Zenon DEF getStats, OutageEnds, TimePasses, vars
  <2>2. PoolTypeOK'
    BY <2>1, ZenonT(40) DEF PoolInv, PoolTypeOK, poolVars
  <2> QED
    BY <2>1, <2>2, PoolUntouched
<1> QED
  BY <1>1, <1>2, <1>3, <1>4, <1>5, ZenonT(40) DEF Next

\* A new pool holds all its clients (the constructor).
LEMMA PoolStart == Init => PoolInv
<1> SUFFICES ASSUME Init PROVE PoolInv
  OBVIOUS
<1> USE PoolAssumption DEF Init
<1>1. PoolTypeOK
  BY DEF PoolTypeOK, Steps
<1>2. HoldersAreActive /\ WaitersAreWaiting /\ NoIdleClient
  BY DEF HoldersAreActive, WaitersAreWaiting, NoIdleClient, Holding
<1>3. PoolBalanced
  <2>1. Clients \ pool = {} /\ Holders = {}
    BY DEF Holders
  <2>2. Cardinality(Clients \ pool) = 0
    BY <2>1, FS_EmptySet
  <2> QED
    BY <2>1, <2>2 DEF PoolBalanced
<1> QED
  BY <1>1, <1>2, <1>3 DEF PoolInv

\* No client of the pool is ever lost, lent twice or miscounted
\* (acquire, release and withClient of lib/soroban.ts).
THEOREM PoolStaysBalanced == Spec => []PoolBalanced
<1>1. PoolInv => PoolBalanced
  BY SMTT(30) DEF PoolInv
<1> QED
  BY <1>1, PoolStart, PoolStep, PTL DEF Spec

\* Nobody waits in acquire while a client is free.
THEOREM WaitersAreServed == Spec => []NoIdleClient
<1>1. PoolInv => NoIdleClient
  BY DEF PoolInv
<1> QED
  BY <1>1, PoolStart, PoolStep, PTL DEF Spec
=============================================================================
