---------------------------- MODULE TxSubmission ----------------------------
(***************************************************************************)
(* signAndSubmit of the web client (frontend lib/contractClient.ts): read  *)
(* the account, build a transaction that expires, simulate, let the wallet *)
(* sign, send, and poll for the outcome.  Time is counted in polling       *)
(* intervals of 1.5 s.  All calls are for one account, whose transactions  *)
(* the ledger takes in sequence.  The ledger and the RPC node are external.*)
(***************************************************************************)
EXTENDS Integers, FiniteSets

CONSTANTS
  Submissions,  \* calls of signAndSubmit
  TxTimeout,    \* setTimeout(30): 20 intervals in the code
  MaxPolls,     \* the bound of the polling loop, 20 in the code
  SignTime,     \* the least time between build and send (wallet dialogue)
  RpcLag,       \* how long a node may take to show what is in the ledger
  MaxTxTime     \* bound on the clock

\* The loop polls until the transaction has expired, and a node lags less
\* than the user takes to sign.
ASSUME TxAssumption ==
  /\ TxTimeout \in Nat /\ MaxPolls \in Nat /\ SignTime \in Nat /\ RpcLag \in Nat
  /\ MaxPolls >= TxTimeout /\ SignTime > RpcLag

VARIABLES
  txClock,    \* the time
  acctSeq,    \* sequence number of the account in the ledger
  call,       \* where each call is, or how it ended
  seqOf,      \* sequence number each transaction was built with
  builtAt, polledAt, pollsMade,
  sent,       \* transactions that reached the network
  inLedger,   \* "no", "success" or "failed"
  closedAt    \* when the ledger that holds it closed

txVars == <<txClock, acctSeq, call, seqOf, builtAt, polledAt, pollsMade, sent, inLedger,
            closedAt>>

TxInit ==
  /\ txClock = 0
  /\ acctSeq = 0
  /\ call = [c \in Submissions |-> "idle"]
  /\ seqOf = [c \in Submissions |-> 0]
  /\ builtAt = [c \in Submissions |-> 0]
  /\ polledAt = [c \in Submissions |-> 0]
  /\ pollsMade = [c \in Submissions |-> 0]
  /\ sent = {}
  /\ inLedger = [c \in Submissions |-> "no"]
  /\ closedAt = [c \in Submissions |-> 0]

ledgerVars == <<acctSeq, inLedger, closedAt>>

\* getAccount has answered: build.
build(c) ==
  /\ call[c] = "idle"
  /\ call' = [call EXCEPT ![c] = "built"]
  /\ seqOf' = [seqOf EXCEPT ![c] = acctSeq + 1]
  /\ builtAt' = [builtAt EXCEPT ![c] = txClock]
  /\ UNCHANGED <<txClock, polledAt, pollsMade, sent, ledgerVars>>

\* The simulation fails, the wallet refuses, or the node answers ERROR.
rejectedEarly(c) ==
  /\ call[c] = "built"
  /\ call' = [call EXCEPT ![c] = "rejected"]
  /\ UNCHANGED <<txClock, seqOf, builtAt, polledAt, pollsMade, sent, ledgerVars>>

\* Signed and sent; the node forwards it, or asks to try again later, which
\* the code does not tell from PENDING.
send(c, forwarded) ==
  /\ call[c] = "built" /\ txClock >= builtAt[c] + SignTime
  /\ call' = [call EXCEPT ![c] = "polling"]
  /\ sent' = IF forwarded THEN sent \union {c} ELSE sent
  /\ polledAt' = [polledAt EXCEPT ![c] = txClock]
  /\ UNCHANGED <<txClock, seqOf, builtAt, pollsMade, ledgerVars>>

\* The answer to sendTransaction is lost, and the call throws.
sendTransactionThrows(c) ==
  /\ call[c] = "built" /\ txClock >= builtAt[c] + SignTime
  /\ call' = [call EXCEPT ![c] = "threw"]
  /\ sent' = sent \union {c}
  /\ UNCHANGED <<txClock, seqOf, builtAt, polledAt, pollsMade, ledgerVars>>

\* What getTransaction answers.
shown(c) ==
  IF inLedger[c] # "no" /\ closedAt[c] + RpcLag <= txClock THEN inLedger[c] ELSE "NOT_FOUND"

outOfPolls_early(n) == n + 1 >= MaxPolls

\* i < 20 is false.
outOfPolls(n) == n >= MaxPolls

\* What the caller is told when the loop ends.
outcome(status) ==
  IF status = "success" THEN "confirmed"
  ELSE IF status = "failed" THEN "failedOnChain" ELSE "unconfirmed"

\* getTransaction right after the send, then once per interval.
pollTransaction(c) ==
  /\ call[c] = "polling" /\ txClock >= polledAt[c]
  /\ IF shown(c) = "NOT_FOUND" /\ ~outOfPolls(pollsMade[c])
     THEN /\ pollsMade' = [pollsMade EXCEPT ![c] = @ + 1]
          /\ polledAt' = [polledAt EXCEPT ![c] = txClock + 1]
          /\ UNCHANGED call
     ELSE /\ call' = [call EXCEPT ![c] = outcome(shown(c))]
          /\ UNCHANGED <<pollsMade, polledAt>>
  /\ UNCHANGED <<txClock, seqOf, builtAt, sent, ledgerVars>>

pollThrows(c) ==
  /\ call[c] = "polling" /\ txClock >= polledAt[c]
  /\ call' = [call EXCEPT ![c] = "threw"]
  /\ UNCHANGED <<txClock, seqOf, builtAt, polledAt, pollsMade, sent, ledgerVars>>

\* A ledger closes with the transaction, in sequence and before it expires.
ledgerCloses(c, result) ==
  /\ c \in sent /\ inLedger[c] = "no"
  /\ seqOf[c] = acctSeq + 1 /\ txClock <= builtAt[c] + TxTimeout
  /\ acctSeq' = acctSeq + 1
  /\ inLedger' = [inLedger EXCEPT ![c] = result]
  /\ closedAt' = [closedAt EXCEPT ![c] = txClock]
  /\ UNCHANGED <<txClock, call, seqOf, builtAt, polledAt, pollsMade, sent>>

TxTimePasses ==
  /\ txClock < MaxTxTime
  /\ txClock' = txClock + 1
  /\ UNCHANGED <<call, seqOf, builtAt, polledAt, pollsMade, sent, ledgerVars>>

TxNext ==
  \/ TxTimePasses
  \/ \E c \in Submissions :
       \/ build(c) \/ rejectedEarly(c) \/ sendTransactionThrows(c)
       \/ \E f \in BOOLEAN : send(c, f)
       \/ pollTransaction(c) \/ pollThrows(c)
       \/ \E r \in {"success", "failed"} : ledgerCloses(c, r)

TxSpec == TxInit /\ [][TxNext]_txVars

(***************************************************************************)
(* Properties.                                                             *)
(***************************************************************************)
\* How signAndSubmit ends is true of the ledger and stays so.  A call that
\* says "Transaction did not confirm in time" has no effect, then or later:
\* its caller may submit again.  A call that threw may have one.
OutcomeIsTrue ==
  \A c \in Submissions :
    /\ call[c] = "unconfirmed" => inLedger[c] = "no"
    /\ call[c] = "confirmed" => inLedger[c] = "success"
    /\ call[c] = "failedOnChain" => inLedger[c] = "failed"
    /\ call[c] = "rejected" => inLedger[c] = "no"
=============================================================================
