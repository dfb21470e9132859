----------------------------- MODULE KeyRotation -----------------------------
(***************************************************************************)
(* The signing keys (key_rotation_service.ts): one active key per type, the*)
(* ones it replaced, which still verify during a transition window, and    *)
(* the scheduler that rotates by age.  rotateKeys goes through the types   *)
(* and awaits an audit entry after each; calls of it overlap.  Keys are    *)
(* numbered in the order of their creation; a key is its number, its type  *)
(* and its times.                                                          *)
(***************************************************************************)
EXTENDS Integers, Sequences, SequencesExt, FiniteSets

CONSTANTS
  KeyTypes,
  Rotators,          \* bound: calls of rotateKeys under way at once
  RotationInterval,  \* rotationIntervalMs
  TransitionWindow,  \* transitionWindowMs
  MaxKeys, MaxKeyTime  \* bounds: keys ever made, and the clock

ASSUME KeyAssumption ==
  /\ IsFiniteSet(KeyTypes) /\ RotationInterval \in Nat /\ TransitionWindow \in Nat
  /\ MaxKeys \in Nat /\ MaxKeyTime \in Nat

VARIABLES
  keys,        \* the keys ever made
  keyClock,
  rotator,     \* the types each call of rotateKeys has left, and its step
  lastSigned   \* history: when each key signed last, or -1

keyVars == <<keys, keyClock, rotator, lastSigned>>

NewKey(t) == [type |-> t, status |-> "active", createdAt |-> keyClock, rotatedAt |-> 0]

IdleRotator == [step |-> "idle", todo |-> {}]

\* bootstrapKeys
KeyInit ==
  /\ keyClock = 0
  /\ keys = [i \in 1..Cardinality(KeyTypes) |-> NewKey(SetToSeq(KeyTypes)[i])]
  /\ rotator = [c \in Rotators |-> IdleRotator]
  /\ lastSigned = [i \in DOMAIN keys |-> -1]

getActive(t) == {i \in DOMAIN keys : keys[i].type = t /\ keys[i].status = "active"}

getValidating(t) ==
  {i \in DOMAIN keys : keys[i].type = t /\ keys[i].status \in {"active", "retiring"}}

-----------------------------------------------------------------------------

isOver_from_creation(k) == keyClock - k.createdAt > TransitionWindow

isOver(k) == keyClock - k.rotatedAt > TransitionWindow

\* rotate and pruneRetiring, with no await between them.
rotated(t) ==
  LET retired(k) ==
        IF k.type # t THEN k
        ELSE IF k.status = "active" THEN [k EXCEPT !.status = "retiring", !.rotatedAt = keyClock]
        ELSE IF k.status = "retiring" /\ isOver(k) THEN [k EXCEPT !.status = "retired"]
        ELSE k
  IN  Append([i \in DOMAIN keys |-> retired(keys[i])], NewKey(t))

rotate(c, t, todo) ==
  /\ Len(keys) < MaxKeys
  /\ keys' = rotated(t)
  /\ lastSigned' = Append(lastSigned, -1)
  /\ rotator' = [rotator EXCEPT ![c] = [step |-> "audit", todo |-> todo]]
  /\ UNCHANGED keyClock

\* A call by hand, for one type or for all of them.
rotateKeys(c) ==
  \E ts \in {KeyTypes} \union {{t} : t \in KeyTypes} : \E t \in ts :
    rotator[c].step = "idle" /\ rotate(c, t, ts \ {t})

rotateNext(c) ==
  /\ rotator[c].step = "next"
  /\ \E t \in rotator[c].todo : rotate(c, t, rotator[c].todo \ {t})

\* startRotationScheduler: the age is checked and the key rotated with no await
\* between, one type after the other.
schedulerFires(c) ==
  \E t \in KeyTypes : \E i \in getActive(t) :
    /\ rotator[c].step = "idle"
    /\ keyClock - keys[i].createdAt >= RotationInterval
    /\ rotate(c, t, {})

\* AuditEventLog.record returns, or throws and ends the call.
audited(c) ==
  /\ rotator[c].step = "audit"
  /\ rotator' = [rotator EXCEPT ![c] =
       IF @.todo = {} THEN IdleRotator ELSE [@ EXCEPT !.step = "next"]]
  /\ UNCHANGED <<keys, keyClock, lastSigned>>

auditThrows(c) ==
  /\ rotator[c].step = "audit"
  /\ rotator' = [rotator EXCEPT ![c] = IdleRotator]
  /\ UNCHANGED <<keys, keyClock, lastSigned>>

signWithActiveKey(t) ==
  \E i \in getActive(t) :
    /\ lastSigned' = [lastSigned EXCEPT ![i] = keyClock]
    /\ UNCHANGED <<keys, keyClock, rotator>>

KeyTimePasses ==
  /\ keyClock < MaxKeyTime /\ keyClock' = keyClock + 1
  /\ UNCHANGED <<keys, rotator, lastSigned>>

KeyNext ==
  \/ \E c \in Rotators :
       \/ rotateKeys(c) \/ rotateNext(c) \/ schedulerFires(c)
       \/ audited(c) \/ auditThrows(c)
  \/ \E t \in KeyTypes : signWithActiveKey(t)
  \/ KeyTimePasses

-----------------------------------------------------------------------------
(***************************************************************************)
(* What a key has signed verifies for at least the transition window after *)
(* it was signed, however often and from wherever the keys are rotated in  *)
(* the meantime, and there is always exactly one key to sign with.  A      *)
(* replaced key whose window is over verifies until the next rotation of   *)
(* its type and no longer: keys are retired by rotations, and by nothing   *)
(* that runs periodically.                                                 *)
(***************************************************************************)
KeysVerifyWhileTheyShould ==
  /\ \A t \in KeyTypes : Cardinality(getActive(t)) = 1
  /\ \A i \in DOMAIN keys :
       lastSigned[i] >= 0 /\ keyClock - lastSigned[i] <= TransitionWindow
         => i \in getValidating(keys[i].type)
  /\ \A i \in DOMAIN keys : \A j \in getActive(keys[i].type) :
       keys[i].status = "retiring" /\ isOver(keys[i])
         => keys[j].createdAt - keys[i].rotatedAt <= TransitionWindow
=============================================================================
