----------------------- MODULE GroupStateCacheProofs -----------------------
(***************************************************************************)
(* The two promises of the group state cache, for every number of groups   *)
(* and readers: loads of one key are shared, and a stale entry has one of  *)
(* the named causes.                                                       *)
(***************************************************************************)
EXTENDS GroupStateCache, TLAPS

ReaderSteps == {"idle", "missed", "loading", "joined", "loaded", "set"}

ReaderStates ==
  [step : ReaderSteps, group : CachedGroups, got : Nat \union {NoVersion}, passed : BOOLEAN]

CacheTypeOK ==
  /\ onChain \in [CachedGroups -> Nat]
  /\ groupCache \in [CachedGroups -> Nat \union {NoVersion}]
  /\ inFlight \in [CachedGroups -> Readers \union {NoReader}]
  /\ reader \in [Readers -> ReaderStates]

Loads(r) == reader[r].step \in {"loading", "loaded", "set"}

\* inFlight names the reader that loads a key, and nobody waits for a key
\* that nobody loads.
FlightInv ==
  /\ \A r \in Readers : Loads(r) => inFlight[reader[r].group] = r
  /\ \A g \in CachedGroups : inFlight[g] # NoReader =>
       Loads(inFlight[g]) /\ reader[inFlight[g]].group = g
  /\ \A r \in Readers : reader[r].step = "joined" => inFlight[reader[r].group] # NoReader

\* What a load holds is the present state, unless the event of a change is
\* still to come or has come since.
LoadInv ==
  \A r \in Readers :
    reader[r].step = "loaded" /\ reader[r].got # onChain[reader[r].group]
      => reader[r].passed \/ reader[r].group \in unannounced

\* Every action leaves the variables in their types.
LEMMA CacheTypeStep ==
  ASSUME CacheTypeOK, CacheNext
  PROVE  CacheTypeOK'
<1> USE CacheAssumption DEF CacheTypeOK, ReaderStates, ReaderSteps
<1>1. ASSUME NEW g \in CachedGroups
      PROVE  Overtakes(g) \in [Readers -> ReaderStates]
  BY DEF Overtakes
<1>2. ASSUME NEW g \in CachedGroups, groupChanges(g) \/ groupChangesUnlisted(g)
      PROVE  CacheTypeOK'
  <2>1. CASE groupChanges(g)
    BY <2>1 DEF groupChanges
  <2>2. CASE groupChangesUnlisted(g)
    <3>1. reader' \in [Readers -> ReaderStates]
      BY <1>1, <2>2 DEF groupChangesUnlisted
    <3>2. onChain' \in [CachedGroups -> Nat]
      BY <2>2 DEF groupChangesUnlisted
    <3> QED
      BY <2>2, <3>1, <3>2 DEF groupChangesUnlisted
  <2> QED
    BY <1>2, <2>1, <2>2
<1>3. ASSUME NEW g \in CachedGroups, invalidate(g) \/ ttlEnds(g)
      PROVE  CacheTypeOK'
  BY <1>1, <1>3 DEF invalidate, ttlEnds
<1>4. ASSUME NEW r \in Readers, cacheMiss(r) \/ joinOrLoad(r)
      PROVE  CacheTypeOK'
  BY <1>4 DEF cacheMiss, joinOrLoad, mayLoad
<1>5. ASSUME NEW r \in Readers, loader(r) \/ setLoaded(r)
      PROVE  CacheTypeOK'
  BY <1>5 DEF loader, setLoaded
<1>6. ASSUME NEW r \in Readers, loadResolves(r) \/ loadRejects(r)
      PROVE  CacheTypeOK'
  <2>1. Settles(r)
    BY <1>6 DEF loadResolves, loadRejects
  <2>2. \A s \in Readers : IdleReader(reader[s].group) \in ReaderStates
    BY DEF IdleReader
  <2>3. reader' \in [Readers -> ReaderStates]
    BY <2>1, <2>2 DEF Settles
  <2> QED
    BY <2>1, <2>3 DEF Settles
<1> QED
  BY <1>2, <1>3, <1>4, <1>5, <1>6 DEF CacheNext

\* A change of the group or of the cached copy touches no load.
LEMMA OvertakesKeeps ==
  ASSUME CacheTypeOK, NEW g \in CachedGroups, NEW r \in Readers
  PROVE  /\ Overtakes(g)[r].step = reader[r].step
         /\ Overtakes(g)[r].group = reader[r].group
         /\ Overtakes(g)[r].got = reader[r].got
         /\ Overtakes(g)[r].passed =
              (reader[r].passed \/ (reader[r].step = "loaded" /\ reader[r].group = g))
BY DEF CacheTypeOK, ReaderStates, Overtakes

\* The map of promises keeps naming the loads.
LEMMA FlightStep ==
  ASSUME CacheTypeOK, FlightInv, CacheNext
  PROVE  FlightInv'
<1> USE CacheAssumption DEF CacheTypeOK, ReaderStates, ReaderSteps
<1>1. ASSUME NEW g \in CachedGroups,
             groupChanges(g) \/ groupChangesUnlisted(g) \/ invalidate(g) \/ ttlEnds(g)
      PROVE  FlightInv'
  <2>1. /\ inFlight' = inFlight
        /\ \A r \in Readers : reader'[r].step = reader[r].step /\ reader'[r].group = reader[r].group
    BY <1>1, OvertakesKeeps DEF groupChanges, groupChangesUnlisted, invalidate, ttlEnds
  <2> QED
    BY <2>1 DEF FlightInv, Loads
<1>2. ASSUME NEW r \in Readers, cacheMiss(r)
      PROVE  FlightInv'
  BY <1>2 DEF cacheMiss, FlightInv, Loads
<1>3. ASSUME NEW r \in Readers, joinOrLoad(r)
      PROVE  FlightInv'
  BY <1>3 DEF joinOrLoad, mayLoad, FlightInv, Loads
<1>4. ASSUME NEW r \in Readers, loader(r) \/ setLoaded(r)
      PROVE  FlightInv'
  <2>1. /\ inFlight' = inFlight
        /\ \A s \in Readers \ {r} : reader'[s] = reader[s]
        /\ reader[r].step \in {"loading", "loaded"} /\ reader'[r].step \in {"loaded", "set"}
        /\ reader'[r].group = reader[r].group
    BY <1>4 DEF loader, setLoaded
  <2>2. \A s \in Readers : /\ reader'[s].group = reader[s].group
                           /\ Loads(s)' = Loads(s)
                           /\ reader'[s].step = "joined" => reader[s].step = "joined"
    BY <2>1 DEF Loads
  <2> QED
    BY <2>1, <2>2 DEF FlightInv
<1>5. ASSUME NEW r \in Readers, loadResolves(r) \/ loadRejects(r)
      PROVE  FlightInv'
  BY <1>5 DEF loadResolves, loadRejects, Settles, IdleReader, FlightInv, Loads
<1> QED
  BY <1>1, <1>2, <1>3, <1>4, <1>5 DEF CacheNext

\* A load and an entry are out of date for the named reasons only.
LEMMA StaleStep ==
  ASSUME CacheTypeOK, LoadInv, CacheStaleOnlyIfOvertaken, CacheNext
  PROVE  LoadInv' /\ CacheStaleOnlyIfOvertaken'
<1> USE CacheAssumption DEF CacheTypeOK, ReaderStates, ReaderSteps, LoadInv,
                            CacheStaleOnlyIfOvertaken
<1>1. ASSUME NEW g \in CachedGroups, groupChanges(g)
      PROVE  LoadInv' /\ CacheStaleOnlyIfOvertaken'
  BY <1>1 DEF groupChanges
<1>2. ASSUME NEW g \in CachedGroups, groupChangesUnlisted(g)
      PROVE  LoadInv' /\ CacheStaleOnlyIfOvertaken'
  <2>1. CacheStaleOnlyIfOvertaken'
    BY <1>2 DEF groupChangesUnlisted
  <2>2. ASSUME NEW r \in Readers, reader'[r].step = "loaded",
               reader'[r].got # onChain'[reader'[r].group]
        PROVE  reader'[r].passed \/ reader'[r].group \in unannounced'
    <3>1. reader'[r] = Overtakes(g)[r]
      BY <1>2 DEF groupChangesUnlisted
    <3>2. /\ reader'[r].step = reader[r].step /\ reader'[r].group = reader[r].group
          /\ reader'[r].got = reader[r].got
      BY <3>1, OvertakesKeeps
    <3>3. /\ reader[r].step = "loaded" /\ reader'[r].group = reader[r].group
          /\ reader[r].got # onChain'[reader[r].group]
      BY <2>2, <3>2
    <3>4. CASE reader[r].group = g
      BY <3>1, <3>3, <3>4, OvertakesKeeps, Zenon
    <3>5. CASE reader[r].group # g
      <4>1. reader[r].got # onChain[reader[r].group]
        BY <1>2, <3>3, <3>5 DEF groupChangesUnlisted
      <4>2. CASE reader[r].passed
        BY <3>1, <4>2, OvertakesKeeps, Zenon
      <4>3. CASE reader[r].group \in unannounced
        BY <1>2, <3>3, <3>5, <4>3 DEF groupChangesUnlisted
      <4> QED
        BY <3>3, <4>1, <4>2, <4>3
    <3> QED
      BY <3>4, <3>5
  <2> QED
    BY <2>1, <2>2
<1>3. ASSUME NEW g \in CachedGroups, invalidate(g)
      PROVE  LoadInv' /\ CacheStaleOnlyIfOvertaken'
  <2>1. CacheStaleOnlyIfOvertaken'
    BY <1>3 DEF invalidate
  <2>2. ASSUME NEW r \in Readers, reader'[r].step = "loaded",
               reader'[r].got # onChain'[reader'[r].group]
        PROVE  reader'[r].passed \/ reader'[r].group \in unannounced'
    <3>1. reader'[r] = Overtakes(g)[r]
      BY <1>3 DEF invalidate
    <3>2. /\ reader'[r].step = reader[r].step /\ reader'[r].group = reader[r].group
          /\ reader'[r].got = reader[r].got
      BY <3>1, OvertakesKeeps
    <3>3. /\ reader[r].step = "loaded" /\ reader'[r].group = reader[r].group
          /\ reader[r].got # onChain'[reader[r].group]
      BY <2>2, <3>2
    <3>4. CASE reader[r].group = g
      BY <3>1, <3>3, <3>4, OvertakesKeeps, Zenon
    <3>5. CASE reader[r].group # g
      <4>1. reader[r].got # onChain[reader[r].group]
        BY <1>3, <3>3, <3>5 DEF invalidate
      <4>2. CASE reader[r].passed
        BY <3>1, <4>2, OvertakesKeeps, Zenon
      <4>3. CASE reader[r].group \in unannounced
        BY <1>3, <3>3, <3>5, <4>3 DEF invalidate
      <4> QED
        BY <3>3, <4>1, <4>2, <4>3
    <3> QED
      BY <3>4, <3>5
  <2> QED
    BY <2>1, <2>2
<1>4. ASSUME NEW g \in CachedGroups, ttlEnds(g)
      PROVE  LoadInv' /\ CacheStaleOnlyIfOvertaken'
  BY <1>4 DEF ttlEnds
<1>5. ASSUME NEW r \in Readers, cacheMiss(r) \/ joinOrLoad(r) \/ loader(r)
      PROVE  LoadInv' /\ CacheStaleOnlyIfOvertaken'
  BY <1>5 DEF cacheMiss, joinOrLoad, loader
<1>6. ASSUME NEW r \in Readers, setLoaded(r)
      PROVE  LoadInv' /\ CacheStaleOnlyIfOvertaken'
  BY <1>6 DEF setLoaded
<1>7. ASSUME NEW r \in Readers, loadResolves(r) \/ loadRejects(r)
      PROVE  LoadInv' /\ CacheStaleOnlyIfOvertaken'
  BY <1>7 DEF loadResolves, loadRejects, Settles, IdleReader
<1> QED
  BY <1>1, <1>2, <1>3, <1>4, <1>5, <1>6, <1>7 DEF CacheNext

\* At first nothing is cached and nobody reads.
LEMMA CacheInitial ==
  CacheInit => CacheTypeOK /\ FlightInv /\ LoadInv /\ CacheStaleOnlyIfOvertaken
<1> SUFFICES ASSUME CacheInit
             PROVE  CacheTypeOK /\ FlightInv /\ LoadInv /\ CacheStaleOnlyIfOvertaken
  OBVIOUS
<1>1. \A g \in CachedGroups : /\ IdleReader(g) \in ReaderStates
                              /\ IdleReader(g).step = "idle"
  BY DEF IdleReader, ReaderStates, ReaderSteps
<1>2. \A r \in Readers : reader[r] \in ReaderStates /\ reader[r].step = "idle"
  BY <1>1 DEF CacheInit
<1>3. CacheTypeOK
  BY <1>2 DEF CacheInit, CacheTypeOK
<1>4. FlightInv /\ LoadInv
  BY <1>2 DEF CacheInit, FlightInv, Loads, LoadInv, ReaderStates
<1>5. CacheStaleOnlyIfOvertaken
  BY DEF CacheInit, CacheStaleOnlyIfOvertaken
<1> QED
  BY <1>3, <1>4, <1>5

\* Steps that change no variable of the cache.
LEMMA CacheStutter ==
  ASSUME UNCHANGED <<onChain, cacheVars>>
  PROVE  /\ CacheTypeOK => CacheTypeOK'
         /\ FlightInv => FlightInv'
         /\ LoadInv /\ CacheStaleOnlyIfOvertaken => LoadInv' /\ CacheStaleOnlyIfOvertaken'
BY DEF cacheVars, CacheTypeOK, FlightInv, Loads, LoadInv, CacheStaleOnlyIfOvertaken

\* getOrLoad: at most one load per key is under way, and a call that found a
\* promise in flight is answered by a load that really is under way.
THEOREM LoadsAreShared == CacheSpec => []SingleFlight
<1>1. CacheTypeOK /\ FlightInv /\ [CacheNext]_<<onChain, cacheVars>>
        => CacheTypeOK' /\ FlightInv'
  BY CacheTypeStep, FlightStep, CacheStutter
<1>2. CacheTypeOK /\ FlightInv => SingleFlight
  BY CacheAssumption DEF CacheTypeOK, ReaderStates, FlightInv, Loads, SingleFlight
<1> QED
  BY <1>1, <1>2, CacheInitial, PTL DEF CacheSpec

\* An entry that differs from the chain waits for the event of the change, or
\* was stored by a load that the event had overtaken, or saw a change whose
\* event does not invalidate.
THEOREM StaleForAReason == CacheSpec => []CacheStaleOnlyIfOvertaken
<1>1. CacheTypeOK /\ LoadInv /\ CacheStaleOnlyIfOvertaken
        /\ [CacheNext]_<<onChain, cacheVars>>
        => CacheTypeOK' /\ LoadInv' /\ CacheStaleOnlyIfOvertaken'
  BY CacheTypeStep, StaleStep, CacheStutter
<1> QED
  BY <1>1, CacheInitial, PTL DEF CacheSpec
=============================================================================
