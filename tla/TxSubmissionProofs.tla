------------------------- MODULE TxSubmissionProofs -------------------------
(***************************************************************************)
(* What signAndSubmit reports is true of the ledger, for any number of     *)
(* calls and any expiry, number of polls and lag of the node that the      *)
(* assumption allows.                                                      *)
(***************************************************************************)
EXTENDS TxSubmission, TLAPS

Phases == {"idle", "built", "rejected", "polling", "threw", "confirmed", "failedOnChain",
           "unconfirmed"}

TxTypeOK ==
  /\ txClock \in Nat
  /\ call \in [Submissions -> Phases]
  /\ builtAt \in [Submissions -> Nat]
  /\ polledAt \in [Submissions -> Nat]
  /\ pollsMade \in [Submissions -> Nat]
  /\ sent \subseteq Submissions
  /\ inLedger \in [Submissions -> {"no", "success", "failed"}]
  /\ closedAt \in [Submissions -> Nat]

\* Nothing reaches the ledger that was not sent, or after it has expired.
LedgerHoldsSent ==
  \A c \in Submissions :
    /\ c \in sent => call[c] \notin {"idle", "built", "rejected"}
    /\ inLedger[c] # "no" => c \in sent /\ closedAt[c] <= builtAt[c] + TxTimeout

\* Every poll is one interval later than the one before.
PollsTakeTime ==
  \A c \in Submissions :
    /\ call[c] \in {"idle", "built"} => pollsMade[c] = 0
    /\ call[c] = "polling" => polledAt[c] >= builtAt[c] + SignTime + pollsMade[c]

\* Who gave up did so after the transaction had expired.
GivenUpExpired ==
  \A c \in Submissions : call[c] = "unconfirmed" => txClock > builtAt[c] + TxTimeout

TxInv == TxTypeOK /\ LedgerHoldsSent /\ PollsTakeTime /\ GivenUpExpired /\ OutcomeIsTrue

\* When the polls are used up and the node shows nothing, the transaction has
\* expired and is not in the ledger (the loop of signAndSubmit).
LEMMA NotFoundIsFinal ==
  ASSUME TxInv, NEW c \in Submissions,
         call[c] = "polling", txClock >= polledAt[c],
         shown(c) = "NOT_FOUND", outOfPolls(pollsMade[c])
  PROVE  txClock > builtAt[c] + TxTimeout /\ inLedger[c] = "no"
<1>1. /\ txClock \in Nat /\ builtAt[c] \in Nat /\ polledAt[c] \in Nat
      /\ pollsMade[c] \in Nat /\ closedAt[c] \in Nat
      /\ inLedger[c] \in {"no", "success", "failed"}
  BY DEF TxInv, TxTypeOK
<1>2. polledAt[c] >= builtAt[c] + SignTime + pollsMade[c]
  BY DEF TxInv, PollsTakeTime
<1>3. txClock >= builtAt[c] + SignTime + TxTimeout
  BY <1>1, <1>2, TxAssumption DEF outOfPolls
<1>4. txClock > builtAt[c] + TxTimeout
  BY <1>1, <1>3, TxAssumption
<1>5. inLedger[c] # "no" => closedAt[c] + RpcLag <= txClock
  BY <1>1, <1>3, TxAssumption DEF TxInv, LedgerHoldsSent
<1>6. inLedger[c] = "no"
  BY <1>1, <1>5 DEF shown
<1> QED
  BY <1>4, <1>6

\* Every step of a call, of the ledger and of the clock keeps the invariant.
LEMMA TxStep == TxInv /\ [TxNext]_txVars => TxInv'
<1> SUFFICES ASSUME TxInv, [TxNext]_txVars PROVE TxInv'
  OBVIOUS
<1> USE TxAssumption DEF TxInv, TxTypeOK, LedgerHoldsSent, PollsTakeTime, GivenUpExpired,
        OutcomeIsTrue, Phases, ledgerVars
<1>1. CASE UNCHANGED txVars
  BY <1>1 DEF txVars
<1>2. CASE TxTimePasses
  BY <1>2 DEF TxTimePasses
<1>3. ASSUME NEW c \in Submissions, build(c) PROVE TxInv'
  BY <1>3 DEF build
<1>4. ASSUME NEW c \in Submissions, rejectedEarly(c) PROVE TxInv'
  BY <1>4 DEF rejectedEarly
<1>5. ASSUME NEW c \in Submissions, sendTransactionThrows(c) PROVE TxInv'
  BY <1>5 DEF sendTransactionThrows
<1>6. ASSUME NEW c \in Submissions, NEW f \in BOOLEAN, send(c, f) PROVE TxInv'
  BY <1>6 DEF send
<1>7. ASSUME NEW c \in Submissions, pollTransaction(c) PROVE TxInv'
  <2>1. CASE shown(c) = "NOT_FOUND" /\ ~outOfPolls(pollsMade[c])
    BY <1>7, <2>1 DEF pollTransaction
  <2>2. CASE shown(c) = "NOT_FOUND" /\ outOfPolls(pollsMade[c])
    <3>1. txClock > builtAt[c] + TxTimeout /\ inLedger[c] = "no"
      BY <1>7, <2>2, NotFoundIsFinal DEF pollTransaction
    <3>2. call' = [call EXCEPT ![c] = "unconfirmed"]
      BY <1>7, <2>2 DEF pollTransaction, outcome
    <3> QED
      BY <1>7, <2>2, <3>1, <3>2 DEF pollTransaction
  <2>3. CASE shown(c) # "NOT_FOUND"
    <3>1. shown(c) = inLedger[c] /\ inLedger[c] # "no"
      BY <2>3 DEF shown
    <3>2. CASE inLedger[c] = "success"
      <4>1. call' = [call EXCEPT ![c] = "confirmed"]
        BY <1>7, <2>3, <3>1, <3>2 DEF pollTransaction, outcome
      <4> QED
        BY <1>7, <2>3, <3>2, <4>1 DEF pollTransaction
    <3>3. CASE inLedger[c] = "failed"
      <4>1. call' = [call EXCEPT ![c] = "failedOnChain"]
        BY <1>7, <2>3, <3>1, <3>3 DEF pollTransaction, outcome
      <4> QED
        BY <1>7, <2>3, <3>3, <4>1 DEF pollTransaction
    <3> QED
      BY <3>1, <3>2, <3>3
  <2> QED
    BY <2>1, <2>2, <2>3
<1>8. ASSUME NEW c \in Submissions, pollThrows(c) PROVE TxInv'
  BY <1>8 DEF pollThrows
<1>9. ASSUME NEW c \in Submissions, NEW r \in {"success", "failed"}, ledgerCloses(c, r)
      PROVE  TxInv'
  BY <1>9 DEF ledgerCloses
<1> QED
  BY <1>1, <1>2, <1>3, <1>4, <1>5, <1>6, <1>7, <1>8, <1>9 DEF TxNext

\* The outcome signAndSubmit reports is the one in the ledger, and stays so: a
\* transaction that "did not confirm in time" never takes effect later.
THEOREM OutcomesAreTrue == TxSpec => []OutcomeIsTrue
<1>1. TxInit => TxInv
  BY TxAssumption DEF TxInit, TxInv, TxTypeOK, LedgerHoldsSent, PollsTakeTime,
     GivenUpExpired, OutcomeIsTrue, Phases
<1>2. TxInv => OutcomeIsTrue
  BY DEF TxInv
<1> QED
  BY <1>1, <1>2, TxStep, PTL DEF TxSpec
=============================================================================
