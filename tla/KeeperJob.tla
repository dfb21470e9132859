------------------------------ MODULE KeeperJob ------------------------------
(***************************************************************************)
(* The keeper (jobs/keeper_job.ts, jobs/handlers/keeper.handler.ts): a cron*)
(* job that reads from the indexed contract events which group cycles are  *)
(* due and asks the contract to pay them out in one batch.  The job fires  *)
(* whether or not the run before has ended, so runs overlap; each await is *)
(* a step.  A due cycle is a key "group:cycle", as in the code.            *)
(***************************************************************************)
EXTENDS Integers, FiniteSets

CONSTANTS
  DueKeys,           \* the group cycles
  KeeperMembers,
  KeeperRuns,        \* bound: runs of execute under way at once
  MaxKeeperRetries,  \* MAX_RETRIES
  MaxHandlers        \* bound: handlers made by start

ASSUME KeeperAssumption ==
  /\ IsFiniteSet(KeeperRuns) /\ IsFiniteSet(KeeperMembers)
  /\ MaxKeeperRetries \in Nat \ {0} /\ MaxHandlers \in Nat \ {0}

VARIABLES
  contributions,  \* the ContributionMade events indexed, by key
  paidKeys,       \* the keys with a PayoutExecuted event indexed
  chainPaid,      \* the keys the contract has paid out
  cronOn,         \* whether the cron task is started
  handler,        \* the handler that start made last
  retryMap,       \* one map per handler
  keeperRun,
  counted         \* keys counted as executed with status "success"

keeperVars == <<contributions, paidKeys, chainPaid, cronOn, handler, retryMap,
                keeperRun, counted>>

IdleRun == [step |-> "idle", keys |-> {}, handler |-> 0]

KeeperInit ==
  /\ contributions = [k \in DueKeys |-> {}]
  /\ paidKeys = {} /\ chainPaid = {}
  /\ cronOn = FALSE /\ handler = 0
  /\ retryMap = [h \in 1..MaxHandlers |-> [k \in DueKeys |-> 0]]
  /\ keeperRun = [r \in KeeperRuns |-> IdleRun]
  /\ counted = {}

-----------------------------------------------------------------------------
(* The contract and the indexer. *)

contributionIndexed(k, m) ==
  /\ m \notin contributions[k]
  /\ contributions' = [contributions EXCEPT ![k] = @ \union {m}]
  /\ UNCHANGED <<paidKeys, chainPaid, cronOn, handler, retryMap, keeperRun, counted>>

\* A member has the contract pay the cycle out.
paidByMember(k) ==
  /\ k \notin chainPaid
  /\ chainPaid' = chainPaid \union {k}
  /\ UNCHANGED <<contributions, paidKeys, cronOn, handler, retryMap, keeperRun, counted>>

payoutIndexed(k) ==
  /\ k \in chainPaid \ paidKeys
  /\ paidKeys' = paidKeys \union {k}
  /\ UNCHANGED <<contributions, chainPaid, cronOn, handler, retryMap, keeperRun, counted>>

-----------------------------------------------------------------------------
(* keeper_job.ts *)

\* Every start makes a handler with an empty retry map; runs under way keep
\* the handler they began with.
startKeeper ==
  /\ ~cronOn /\ handler < MaxHandlers
  /\ cronOn' = TRUE /\ handler' = handler + 1
  /\ UNCHANGED <<contributions, paidKeys, chainPaid, retryMap, keeperRun, counted>>

stopKeeper ==
  /\ cronOn /\ cronOn' = FALSE
  /\ UNCHANGED <<contributions, paidKeys, chainPaid, handler, retryMap, keeperRun, counted>>

-----------------------------------------------------------------------------
(* keeper.handler.ts *)

\* The first query of findDueGroups: the cycles with two contributors or more.
runOnce(r) ==
  /\ cronOn /\ keeperRun[r].step = "idle"
  /\ keeperRun' = [keeperRun EXCEPT ![r] =
       [step |-> "contributions", handler |-> handler,
        keys |-> {k \in DueKeys : Cardinality(contributions[k]) >= 2}]]
  /\ UNCHANGED <<contributions, paidKeys, chainPaid, cronOn, handler, retryMap, counted>>

actionable_off_by_one(due, h) == {k \in due : retryMap[h][k] <= MaxKeeperRetries}

actionable(due, h) == {k \in due : retryMap[h][k] < MaxKeeperRetries}

\* The second query, the filter, and the call when a cycle is left.
findDueGroups(r) ==
  LET batch == actionable(keeperRun[r].keys \ paidKeys, keeperRun[r].handler)
  IN  /\ keeperRun[r].step = "contributions"
      /\ keeperRun' = [keeperRun EXCEPT ![r] =
           IF batch = {} THEN IdleRun ELSE [@ EXCEPT !.step = "called", !.keys = batch]]
      /\ UNCHANGED <<contributions, paidKeys, chainPaid, cronOn, handler, retryMap, counted>>

\* A query fails: runOnce rejects, the cron callback logs it.
findThrows(r) ==
  /\ keeperRun[r].step = "contributions"
  /\ keeperRun' = [keeperRun EXCEPT ![r] = IdleRun]
  /\ UNCHANGED <<contributions, paidKeys, chainPaid, cronOn, handler, retryMap, counted>>

\* What the RPC server does with the request of StellarClient: its method is
\* simulateTransaction, which leaves the ledger as it is.
executePayoutsBatch(keys) == chainPaid' = chainPaid

Retried(r, count) ==
  retryMap' = [retryMap EXCEPT ![keeperRun[r].handler] =
                 [k \in DueKeys |-> IF k \in keeperRun[r].keys THEN count[k] ELSE @[k]]]

batchSucceeds(r) ==
  /\ keeperRun[r].step = "called"
  /\ executePayoutsBatch(keeperRun[r].keys)
  /\ counted' = counted \union keeperRun[r].keys
  /\ Retried(r, [k \in DueKeys |-> 0])
  /\ keeperRun' = [keeperRun EXCEPT ![r] = IdleRun]
  /\ UNCHANGED <<contributions, paidKeys, cronOn, handler>>

\* The whole batch fails, and every cycle of it is one failure on.
batchFails(r) ==
  /\ keeperRun[r].step = "called"
  /\ Retried(r, [k \in DueKeys |-> retryMap[keeperRun[r].handler][k] + 1])
  /\ keeperRun' = [keeperRun EXCEPT ![r] = IdleRun]
  /\ UNCHANGED <<contributions, paidKeys, chainPaid, cronOn, handler, counted>>

KeeperNext ==
  \/ \E k \in DueKeys, m \in KeeperMembers : contributionIndexed(k, m)
  \/ \E k \in DueKeys : paidByMember(k) \/ payoutIndexed(k)
  \/ startKeeper \/ stopKeeper
  \/ \E r \in KeeperRuns :
       runOnce(r) \/ findDueGroups(r) \/ findThrows(r) \/ batchSucceeds(r) \/ batchFails(r)

KeeperSpec == KeeperInit /\ [][KeeperNext]_keeperVars

-----------------------------------------------------------------------------
(***************************************************************************)
(* MAX_RETRIES bounds the failures of a cycle although runs overlap: each  *)
(* run under way when the bound is reached may still add one, so a handler *)
(* sees at most MAX_RETRIES - 1 failures in a row plus one per overlapping *)
(* run, counting the batches that have not answered yet.                   *)
(***************************************************************************)
KeeperFailuresBounded ==
  \A h \in 1..MaxHandlers, k \in DueKeys :
    LET asked == {r \in KeeperRuns : /\ keeperRun[r].step = "called"
                                     /\ keeperRun[r].handler = h
                                     /\ k \in keeperRun[r].keys}
    IN  retryMap[h][k] + Cardinality(asked)
          <= (MaxKeeperRetries - 1) + Cardinality(KeeperRuns)

(***************************************************************************)
(* The metric keeper_payouts_executed_total is described as "Total group   *)
(* payouts executed by the keeper": a cycle counted with status "success"  *)
(* has been paid out by the contract.                                      *)
(***************************************************************************)
CountedPayoutsExecuted == counted \subseteq chainPaid
=============================================================================
