--------------------------- MODULE HorizonIndexer ---------------------------
(***************************************************************************)
(* The Horizon indexer (services/indexer.ts): a poll loop that pages       *)
(* through the transactions of the contract's account and upserts each of  *)
(* them.  A transaction is its paging token, 1, 2, 3 ...; several share a  *)
(* ledger.  start does not wait for the loop of an earlier start to end,   *)
(* so two loops may be under way; each await is a step.                    *)
(***************************************************************************)
EXTENDS Integers, Sequences, SequencesExt, FiniteSets, FiniteSetsExt

CONSTANTS
  Loops,            \* bound: poll loops under way at once
  MaxTip,           \* bound: transactions on the chain
  PageSize,
  TxPerLedger,
  MaxIndexerFaults  \* bound: failing calls and crashes

ASSUME IndexerAssumption ==
  /\ IsFiniteSet(Loops) /\ MaxTip \in Nat /\ PageSize \in Nat \ {0}
  /\ TxPerLedger \in Nat \ {0} /\ MaxIndexerFaults \in Nat

Now == 0  \* the cursor "now"

ledgerSeq(tx) == (tx - 1) \div TxPerLedger

VARIABLES
  tip,            \* transactions on the chain
  stored,         \* the rows of indexedTransaction
  isRunning,
  loop,           \* what each poll loop is doing
  indexerFaults,
  unstored        \* history: transactions whose upsert failed

indexerVars == <<tip, stored, isRunning, loop, indexerFaults, unstored>>

NoLoop == [step |-> "none", cursor |-> Now, records |-> <<>>]

\* The table already holds some transaction, or is empty.
IndexerInit ==
  /\ tip = 1
  /\ stored \in {{}, {1}}
  /\ isRunning = FALSE
  /\ loop = [l \in Loops |-> NoLoop]
  /\ indexerFaults = 0 /\ unstored = {}

LoopGoes(l, from, to) ==
  /\ loop[l].step = from
  /\ loop' = [loop EXCEPT ![l].step = to]

IndexerFault ==
  /\ indexerFaults < MaxIndexerFaults
  /\ indexerFaults' = indexerFaults + 1

-----------------------------------------------------------------------------

transactionApplied ==
  /\ tip < MaxTip /\ tip' = tip + 1
  /\ UNCHANGED <<stored, isRunning, loop, indexerFaults, unstored>>

startIndexer(l) ==
  /\ ~isRunning /\ isRunning' = TRUE
  /\ LoopGoes(l, "none", "resume")
  /\ UNCHANGED <<tip, stored, indexerFaults, unstored>>

\* stop clears the flag; a loop sees it when it comes to its while again.
stopIndexer ==
  /\ isRunning /\ isRunning' = FALSE
  /\ UNCHANGED <<tip, stored, loop, indexerFaults, unstored>>

resumeCursor_now(l) ==
  /\ loop[l].step = "resume"
  /\ loop' = [loop EXCEPT ![l].cursor = Now, ![l].step = "while"]
  /\ UNCHANGED <<tip, stored, isRunning, indexerFaults, unstored>>

\* resumeCursor: a row of the highest ledger, whichever the database returns
\* first, or "now".
resumeCursor(l) ==
  /\ loop[l].step = "resume"
  /\ \E c \in IF stored = {} THEN {Now}
              ELSE {t \in stored : \A u \in stored : ledgerSeq(u) <= ledgerSeq(t)} :
       loop' = [loop EXCEPT ![l].cursor = c, ![l].step = "while"]
  /\ UNCHANGED <<tip, stored, isRunning, indexerFaults, unstored>>

\* The query fails: the loop is over, and so is the indexer.
resumeFails(l) ==
  /\ IndexerFault
  /\ loop[l].step = "resume"
  /\ loop' = [loop EXCEPT ![l] = NoLoop]
  /\ isRunning' = FALSE
  /\ UNCHANGED <<tip, stored, unstored>>

whileEnds(l) ==
  /\ ~isRunning /\ loop[l].step = "while"
  /\ loop' = [loop EXCEPT ![l] = NoLoop]
  /\ UNCHANGED <<tip, stored, isRunning, indexerFaults, unstored>>

\* The page Horizon returns after a cursor; after "now" there is nothing yet.
pageAfter(cursor) ==
  IF cursor = Now THEN <<>>
  ELSE [i \in 1..Min({PageSize, tip - cursor}) |-> cursor + i]

\* An empty page, like a failed request, leads back to the while after a delay.
\* The cursor is set here and not after the page: nothing reads it before.
fetchPage(l) ==
  /\ isRunning /\ loop[l].step = "while"
  /\ pageAfter(loop[l].cursor) # <<>>
  /\ LET page == pageAfter(loop[l].cursor)
     IN  loop' = [loop EXCEPT ![l] = [step |-> "storing", cursor |-> Last(page),
                                      records |-> page]]
  /\ UNCHANGED <<tip, stored, isRunning, indexerFaults, unstored>>

storedFirst_any(records) == Range(records)

\* The records are upserted one after the other.
storedFirst(records) == {Head(records)}

\* storeTx, whether or not the upsert works: its errors are only logged.
storeTx(l) ==
  /\ loop[l].step = "storing" /\ loop[l].records # <<>>
  /\ \E t \in storedFirst(loop[l].records) :
       /\ \/ stored' = stored \union {t} /\ UNCHANGED <<indexerFaults, unstored>>
          \/ IndexerFault /\ unstored' = unstored \union {t} /\ UNCHANGED stored
       /\ loop' = [loop EXCEPT ![l].records = SelectSeq(@, LAMBDA u : u # t)]
  /\ UNCHANGED <<tip, isRunning>>

pageDone(l) ==
  /\ loop[l].records = <<>> /\ LoopGoes(l, "storing", "while")
  /\ UNCHANGED <<tip, stored, isRunning, indexerFaults, unstored>>

\* The process dies and comes back with its table.
indexerCrashes ==
  /\ IndexerFault
  /\ isRunning' = FALSE
  /\ loop' = [l \in Loops |-> NoLoop]
  /\ UNCHANGED <<tip, stored, unstored>>

IndexerNext ==
  \/ transactionApplied \/ stopIndexer \/ indexerCrashes
  \/ \E l \in Loops :
       \/ startIndexer(l) \/ resumeCursor(l) \/ resumeFails(l) \/ whileEnds(l)
       \/ fetchPage(l) \/ storeTx(l) \/ pageDone(l)

\* A loop goes on: its timers fire and its calls are answered.
LoopGoesOn(l) ==
  resumeCursor(l) \/ whileEnds(l) \/ fetchPage(l) \/ storeTx(l) \/ pageDone(l)

IndexerFairness == \A l \in Loops : WF_indexerVars(LoopGoesOn(l))

-----------------------------------------------------------------------------
(***************************************************************************)
(* The table has no holes but those of failed upserts: below the highest   *)
(* stored transaction each one since the first is stored, or its upsert    *)
(* failed and was passed over for good.  It holds through crashes within a *)
(* page, restarts of the loop, two loops at once, and a resume from any    *)
(* row of the last ledger.                                                 *)
(***************************************************************************)
NoSilentHoles ==
  \A t \in stored, u \in stored :
    \A v \in t..u : v \in stored \/ v \in unstored

(***************************************************************************)
(* Indexing keeps up: while the indexer runs with a row to resume from,    *)
(* every transaction is in the end stored, unless its upsert failed.       *)
(***************************************************************************)
IndexerKeepsUp ==
  \A t \in 1..MaxTip :
    (t <= tip /\ stored # {} /\ t > Max(stored \union {0}))
      ~> (t \in stored \/ t \in unstored \/ ~isRunning)
=============================================================================
