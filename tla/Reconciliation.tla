--------------------------- MODULE Reconciliation ---------------------------
(***************************************************************************)
(* The reconciliation service (reconciliation_service.ts): it compares the *)
(* latest event row of each group with the group's state on the chain, and *)
(* writes the latter into the row.  A run first compares every group, then *)
(* heals; each await is a step.  The chain is read through the Soroban     *)
(* pool; when that fails the last state in the cache of GroupStateCache is *)
(* used instead.  Besides the timer's run, run() is started on demand.     *)
(***************************************************************************)
EXTENDS GroupStateCache, TLC

CONSTANTS RecRuns   \* bound: runs under way at once

VARIABLES
  rows,     \* the data of each event row of a group, by the row's own state
  recRun,
  muddledRows  \* history: rows healed from a cached state, or from a
               \* comparison with another row

recVars == <<rows, recRun, muddledRows>>

IdleRec == [step |-> "idle", todo |-> {}, group |-> NoReader, row |-> 0, data |-> 0,
            drifted |-> {}]

RecInit ==
  /\ rows = [g \in CachedGroups |-> (0 :> 0)]
  /\ recRun = [n \in RecRuns |-> IdleRec]
  /\ muddledRows = {}

\* Rows are appended in the order of the changes.
latestRow(g) == CHOOSE o \in DOMAIN rows[g] : \A p \in DOMAIN rows[g] : p <= o

-----------------------------------------------------------------------------

\* The indexer stores the event of a change, with the state at that change.
eventStored(g) ==
  /\ latestRow(g) < onChain[g]
  /\ rows' = [rows EXCEPT ![g] = @ @@ ((latestRow(g) + 1) :> (latestRow(g) + 1))]
  /\ UNCHANGED <<onChain, cacheVars, recRun, muddledRows>>

\* run: sampleGroupIds finds every group that has a row.
sampleGroupIds(n) ==
  /\ recRun[n].step = "idle"
  /\ recRun' = [recRun EXCEPT ![n] = [IdleRec EXCEPT !.step = "next", !.todo = CachedGroups]]
  /\ UNCHANGED <<onChain, cacheVars, rows, muddledRows>>

\* diffGroup: the row is read first.
diffGroup(n) ==
  \E g \in recRun[n].todo :
    /\ recRun[n].step = "next"
    /\ recRun' = [recRun EXCEPT ![n].step = "rowRead", ![n].group = g,
                                ![n].todo = @ \ {g}, ![n].row = latestRow(g),
                                ![n].data = rows[g][latestRow(g)]]
    /\ UNCHANGED <<onChain, cacheVars, rows, muddledRows>>

Drift(n, value, fromCache) ==
  IF recRun[n].data = value THEN {}
  ELSE {[group |-> recRun[n].group, row |-> recRun[n].row, value |-> value,
         fromCache |-> fromCache]}

chainState_cached_first(g) == IF groupCache[g] = NoVersion THEN onChain[g] ELSE groupCache[g]

\* What get_group returns.
chainState(g) == onChain[g]

\* fetchOnChainGroupState: the simulation answers, and the state primes the
\* cache.
readOnChain(n) ==
  LET g == recRun[n].group
  IN  /\ recRun[n].step = "rowRead"
      /\ groupCache' = [groupCache EXCEPT ![g] = chainState(g)]
      /\ recRun' = [recRun EXCEPT ![n].step = "next",
                                  ![n].drifted = @ \union Drift(n, chainState(g), FALSE)]
      /\ UNCHANGED <<onChain, inFlight, reader, unannounced, tainted, rows, muddledRows>>

\* The call fails or the circuit is open: the cached state, if there is one.
readCached(n) ==
  LET g == recRun[n].group
  IN  /\ recRun[n].step = "rowRead"
      /\ recRun' = [recRun EXCEPT ![n].step = "next",
           ![n].drifted = IF groupCache[g] = NoVersion THEN @
                          ELSE @ \union Drift(n, groupCache[g], TRUE)]
      /\ UNCHANGED <<onChain, cacheVars, rows, muddledRows>>

\* Every group is compared: on to the healing.
allCompared(n) ==
  /\ recRun[n].step = "next" /\ recRun[n].todo = {}
  /\ recRun' = [recRun EXCEPT ![n].step = "heal"]
  /\ UNCHANGED <<onChain, cacheVars, rows, muddledRows>>

\* heal patches whichever row of the group is the latest by then.  Its read and
\* its write are one step: rows are only appended, and only heal writes to them.
\* The compared fields are one value.
healedRow(d) == latestRow(d.group)

heal(n) ==
  \E d \in recRun[n].drifted :
    LET o == healedRow(d)
    IN  /\ recRun[n].step = "heal"
        /\ rows' = [rows EXCEPT ![d.group][o] = d.value]
        /\ muddledRows' = IF d.fromCache \/ o # d.row
                          THEN muddledRows \union {<<d.group, o>>}
                          ELSE muddledRows \ {<<d.group, o>>}
        /\ recRun' = [recRun EXCEPT ![n].drifted = @ \ {d}]
        /\ UNCHANGED <<onChain, cacheVars>>

\* A query of heal fails: the record stays unhealed.
healFails(n) ==
  \E d \in recRun[n].drifted :
    /\ recRun[n].step = "heal"
    /\ recRun' = [recRun EXCEPT ![n].drifted = @ \ {d}]
    /\ UNCHANGED <<onChain, cacheVars, rows, muddledRows>>

runDone(n) ==
  /\ recRun[n].step = "heal" /\ recRun[n].drifted = {}
  /\ recRun' = [recRun EXCEPT ![n] = IdleRec]
  /\ UNCHANGED <<onChain, cacheVars, rows, muddledRows>>

\* A query that is not caught ends the run.
runFails(n) ==
  /\ recRun[n].step = "next"
  /\ recRun' = [recRun EXCEPT ![n] = IdleRec]
  /\ UNCHANGED <<onChain, cacheVars, rows, muddledRows>>

RecNext ==
  \/ \E g \in CachedGroups :
       \/ eventStored(g)
       \/ (groupChanges(g) \/ ttlEnds(g)) /\ UNCHANGED recVars
  \/ \E n \in RecRuns :
       \/ sampleGroupIds(n) \/ diffGroup(n) \/ readOnChain(n) \/ readCached(n)
       \/ allCompared(n) \/ heal(n) \/ healFails(n) \/ runDone(n) \/ runFails(n)

-----------------------------------------------------------------------------
(***************************************************************************)
(* A heal takes a row back to a state older than the row's own event only  *)
(* if it wrote a cached state, or wrote into a row that was not yet there  *)
(* when the group was compared.  Otherwise the chain was read after the    *)
(* row and cannot be behind it.                                            *)
(***************************************************************************)
HealTakesBackOnlyIfMuddled ==
  \A g \in CachedGroups : \A o \in DOMAIN rows[g] :
    rows[g][o] < o => <<g, o>> \in muddledRows
=============================================================================
