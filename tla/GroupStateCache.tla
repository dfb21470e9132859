--------------------------- MODULE GroupStateCache ---------------------------
(***************************************************************************)
(* The cache of group states in Redis (lib/cache.ts).  The state of a group*)
(* is the number of times it has changed on the chain.  Readers go through *)
(* getOrLoad, whose loads are shared by a map of promises in flight; the   *)
(* events of the contract invalidate.  Each await is a step.               *)
(***************************************************************************)
EXTENDS Integers, FiniteSets

CONSTANTS
  CachedGroups,
  Readers,     \* bound: calls of getOrLoad under way at once
  NoReader,
  MaxVersion,  \* bound: changes of a group
  NoVersion    \* not in the cache

ASSUME CacheAssumption ==
  /\ IsFiniteSet(Readers) /\ NoReader \notin Readers
  /\ MaxVersion \in Nat /\ NoVersion \notin Nat

VARIABLES
  onChain,     \* the state of each group
  groupCache,  \* the Redis keys
  inFlight,    \* who loads each key
  reader,
  unannounced, \* groups that changed and whose event is still to come
  tainted      \* history: entries out of date that no event will remove

cacheVars == <<groupCache, inFlight, reader, unannounced, tainted>>

IdleReader(g) == [step |-> "idle", group |-> g, got |-> NoVersion, passed |-> FALSE]

CacheInit ==
  /\ onChain = [g \in CachedGroups |-> 0]
  /\ groupCache = [g \in CachedGroups |-> NoVersion]
  /\ inFlight = [g \in CachedGroups |-> NoReader]
  /\ reader \in [Readers -> {IdleReader(g) : g \in CachedGroups}]
  /\ unannounced = {} /\ tainted = {}

-----------------------------------------------------------------------------

\* A load that has read the chain will store what is out of date by then.
Overtakes(g) ==
  [r \in Readers |-> [reader[r] EXCEPT !.passed =
                        @ \/ (reader[r].step = "loaded" /\ reader[r].group = g)]]

\* A change whose event is among STATE_MUTATING_EVENTS.
groupChanges(g) ==
  /\ onChain[g] < MaxVersion
  /\ onChain' = [onChain EXCEPT ![g] = @ + 1]
  /\ unannounced' = unannounced \union {g}
  /\ UNCHANGED <<groupCache, inFlight, reader, tainted>>

\* A change whose event is not, for which isStateMutatingEvent is false.
groupChangesUnlisted(g) ==
  /\ onChain[g] < MaxVersion
  /\ onChain' = [onChain EXCEPT ![g] = @ + 1]
  /\ tainted' = IF groupCache[g] = NoVersion THEN tainted ELSE tainted \union {g}
  /\ reader' = Overtakes(g)
  /\ UNCHANGED <<groupCache, inFlight, unannounced>>

invalidate_kept(g) ==
  /\ g \in unannounced
  /\ unannounced' = unannounced \ {g}
  /\ reader' = Overtakes(g)
  /\ UNCHANGED <<onChain, groupCache, inFlight, tainted>>

\* invalidate, on an event for which isStateMutatingEvent holds.
invalidate(g) ==
  /\ g \in unannounced
  /\ unannounced' = unannounced \ {g}
  /\ groupCache' = [groupCache EXCEPT ![g] = NoVersion]
  /\ reader' = Overtakes(g)
  /\ tainted' = tainted \ {g}
  /\ UNCHANGED <<onChain, inFlight>>

\* The ten seconds of the key are over.
ttlEnds(g) ==
  /\ groupCache[g] # NoVersion
  /\ groupCache' = [groupCache EXCEPT ![g] = NoVersion]
  /\ tainted' = tainted \ {g}
  /\ UNCHANGED <<onChain, inFlight, reader, unannounced>>

\* getOrLoad: the first await.  A hit returns at once.
cacheMiss(r) ==
  /\ reader[r].step = "idle" /\ groupCache[reader[r].group] = NoVersion
  /\ reader' = [reader EXCEPT ![r].step = "missed"]
  /\ UNCHANGED <<onChain, groupCache, inFlight, unannounced, tainted>>

mayLoad(g) == inFlight[g] = NoReader

\* The map of promises is looked up and written without an await between.
joinOrLoad(r) ==
  LET g == reader[r].group
  IN  /\ reader[r].step = "missed"
      /\ reader' = [reader EXCEPT ![r].step = IF mayLoad(g) THEN "loading" ELSE "joined"]
      /\ inFlight' = [inFlight EXCEPT ![g] = IF mayLoad(g) THEN r ELSE @]
      /\ UNCHANGED <<onChain, groupCache, unannounced, tainted>>

loader(r) ==
  /\ reader[r].step = "loading"
  /\ reader' = [reader EXCEPT ![r].step = "loaded", ![r].got = onChain[reader[r].group]]
  /\ UNCHANGED <<onChain, groupCache, inFlight, unannounced, tainted>>

\* set(key, result, TTL_SECONDS)
setLoaded(r) ==
  /\ reader[r].step = "loaded"
  /\ groupCache' = [groupCache EXCEPT ![reader[r].group] = reader[r].got]
  /\ tainted' = IF reader[r].passed THEN tainted \union {reader[r].group}
                ELSE tainted \ {reader[r].group}
  /\ reader' = [reader EXCEPT ![r].step = "set"]
  /\ UNCHANGED <<onChain, inFlight, unannounced>>

Settles(r) ==
  LET g == reader[r].group
  IN  /\ inFlight' = [inFlight EXCEPT ![g] = NoReader]
      /\ reader' = [s \in Readers |->
           IF s = r \/ (reader[s].step = "joined" /\ reader[s].group = g)
           THEN IdleReader(reader[s].group) ELSE reader[s]]
      /\ UNCHANGED <<onChain, groupCache, unannounced, tainted>>

loadResolves(r) == reader[r].step = "set" /\ Settles(r)

\* The load or the write of the key fails.
loadRejects(r) == reader[r].step \in {"loading", "loaded"} /\ Settles(r)

CacheNext ==
  \/ \E g \in CachedGroups : \/ groupChanges(g) \/ groupChangesUnlisted(g)
                            \/ invalidate(g) \/ ttlEnds(g)
  \/ \E r \in Readers :
       \/ cacheMiss(r) \/ joinOrLoad(r) \/ loader(r) \/ setLoaded(r)
       \/ loadResolves(r) \/ loadRejects(r)

CacheSpec == CacheInit /\ [][CacheNext]_<<onChain, cacheVars>>

-----------------------------------------------------------------------------
(***************************************************************************)
(* At most one load per key is under way, and whoever joined it is served  *)
(* by it: the lookup after the first await sees every load that began      *)
(* during that await.                                                      *)
(***************************************************************************)
SingleFlight ==
  \A r \in Readers :
    LET others == {s \in Readers \ {r} : reader[s].group = reader[r].group}
        loads(s) == reader[s].step \in {"loading", "loaded", "set"}
    IN  /\ loads(r) => inFlight[reader[r].group] = r /\ \A s \in others : ~loads(s)
        /\ reader[r].step = "joined" => \E s \in others : loads(s)

(***************************************************************************)
(* A cached state is out of date only until the event of the change comes, *)
(* or, up to its ten seconds, if its load had read the chain before the    *)
(* event and stored what it read after it, or if the event of the change   *)
(* is not among those that invalidate.                                     *)
(***************************************************************************)
CacheStaleOnlyIfOvertaken ==
  \A g \in CachedGroups :
    groupCache[g] # NoVersion /\ groupCache[g] # onChain[g]
      => g \in unannounced \union tainted
=============================================================================
