---------------------------- MODULE OfflineSync ----------------------------
(***************************************************************************)
(* The offline queue of the web client (frontend lib/syncService.ts over   *)
(* lib/db.ts).  Actions taken while offline are rows of an IndexedDB store *)
(* that all tabs of the browser share; isCurrentlySyncing, the interval    *)
(* and the connection handlers belong to one tab.  Every await is a step   *)
(* boundary.  updateSyncQueueItem is a get and a put, two transactions.    *)
(* Rows are numbered in the order of their timestamps.  What refreshCache  *)
(* caches is not told apart, only whether it succeeds.                     *)
(***************************************************************************)
EXTENDS Integers, FiniteSets, FiniteSetsExt, Sequences, SequencesExt

CONSTANTS
  Tabs,
  MaxRows,        \* bound: actions ever queued
  MaxTries,       \* maxRetries of replayQueue, 3 in the code
  MaxToggles,     \* bound: changes of navigator.onLine
  MaxCloses,      \* bound: tabs closed or services stopped
  MaxSyncFaults   \* bound: IndexedDB or network calls that reject

VARIABLES
  onLine,     \* navigator.onLine
  row,        \* syncQueue: the status of each row, "none" before, "gone" after
  tries,      \* the retryCount of each row
  executed,   \* history: how often executeQueuedAction ended for the row
  tab,        \* "closed", "open" (listening) or "stopped"
  interval,   \* the tabs with a periodic sync
  handlers,   \* connection handlers of each tab that are awaiting, in order
  sync,       \* the syncAll of each tab
  sharedRows,  \* history: rows two tabs replayed at once
  unremoved,  \* history: rows whose removal was rejected
  orphaned,   \* history: rows a replay was cut off from
  crossed,    \* history: tabs where handlers overlapped or failed
  toggles, closes, syncFaults

offlineVars == <<onLine, row, tries, executed, tab, interval, handlers, sync,
                 sharedRows, unremoved, orphaned, crossed, toggles, closes,
                 syncFaults>>

Rows == 1 .. MaxRows

\* No syncAll: isCurrentlySyncing is sync[t].at # "idle".
IdleSync == [at |-> "idle", batch |-> {}, seen |-> [i \in Rows |-> 0],
             want |-> "", got |-> -1]

NothingQueued ==
  /\ row = [i \in Rows |-> "none"]
  /\ tries = [i \in Rows |-> 0]
  /\ executed = [i \in Rows |-> 0]
  /\ tab = [t \in Tabs |-> "closed"]
  /\ interval = {}
  /\ handlers = [t \in Tabs |-> <<>>]
  /\ sync = [t \in Tabs |-> IdleSync]
  /\ sharedRows = {} /\ unremoved = {} /\ orphaned = {} /\ crossed = {}

OfflineInit ==
  /\ NothingQueued
  /\ onLine \in BOOLEAN
  /\ toggles = 0 /\ closes = 0 /\ syncFaults = 0

queueVars == <<row, tries, executed, sharedRows, unremoved, orphaned>>
connVars == <<onLine, tab, interval, handlers, crossed>>

(***************************************************************************)
(* Connection handlers.  A handler writes the metadata store first; those  *)
(* writes complete in the order the handlers began.                        *)
(***************************************************************************)
Handler(k) == [kind |-> k, at |-> "meta"]

\* initSyncService once the database is open.
initSyncService(t) ==
  /\ tab[t] # "open"
  /\ tab' = [tab EXCEPT ![t] = "open"]
  /\ handlers' = [handlers EXCEPT
                    ![t] = Append(@, Handler(IF onLine THEN "init" ELSE "initOffline"))]
  /\ crossed' = IF handlers[t] = <<>> THEN crossed ELSE crossed \union {t}
  /\ UNCHANGED <<onLine, interval, sync, toggles, closes, syncFaults,
                 queueVars>>

\* The browser changes navigator.onLine and fires the event in every tab.
connectionChanges ==
  /\ toggles < MaxToggles
  /\ toggles' = toggles + 1
  /\ onLine' = ~onLine
  /\ handlers' = [t \in Tabs |->
                    IF tab[t] = "open"
                    THEN Append(handlers[t], Handler(IF onLine THEN "offline" ELSE "online"))
                    ELSE handlers[t]]
  /\ UNCHANGED <<tab, interval, sync, crossed, closes, syncFaults, queueVars>>

\* syncAll up to its first await.
syncAll(s) == IF s.at = "idle" /\ onLine THEN [IdleSync EXCEPT !.at = "read"] ELSE s

AtMeta(t, k) ==
  /\ k \in DOMAIN handlers[t] /\ handlers[t][k].at = "meta"
  /\ \A j \in 1 .. k - 1 : handlers[t][j].at # "meta"

Marking(t) == \E h \in Range(handlers[t]) : h.kind = "offline" /\ h.at = "stale"

\* startPeriodicSync, and whether an offline handler will still undo it.
startPeriodicSync(t) ==
  /\ interval' = interval \union {t}
  /\ crossed' = IF Marking(t) \/ tab[t] = "stopped" THEN crossed \union {t}
                ELSE IF Len(handlers[t]) = 1 THEN crossed \ {t} ELSE crossed

initDone(t, k) ==
  /\ AtMeta(t, k) /\ handlers[t][k].kind \in {"init", "initOffline"}
  /\ handlers' = [handlers EXCEPT ![t] = RemoveAt(@, k)]
  /\ IF handlers[t][k].kind = "init" THEN startPeriodicSync(t)
     ELSE UNCHANGED <<interval, crossed>>
  /\ UNCHANGED <<onLine, tab, sync, toggles, closes, syncFaults, queueVars>>

handleOnline(t, k) ==
  /\ AtMeta(t, k) /\ handlers[t][k].kind = "online"
  /\ handlers' = [handlers EXCEPT ![t] = RemoveAt(@, k)]
  /\ sync' = [sync EXCEPT ![t] = syncAll(@)]
  /\ startPeriodicSync(t)
  /\ UNCHANGED <<onLine, tab, toggles, closes, syncFaults, queueVars>>

\* handleOffline goes on to await markGroupsAsStale.
handleOffline(t, k) ==
  /\ AtMeta(t, k) /\ handlers[t][k].kind = "offline"
  /\ handlers' = [handlers EXCEPT ![t][k].at = "stale"]
  /\ UNCHANGED <<onLine, tab, interval, sync, crossed, toggles, closes, syncFaults,
                 queueVars>>

stopPeriodicSync_kept(t) == UNCHANGED interval

stopPeriodicSync(t) == interval' = interval \ {t}

groupsMarked(t, k) ==
  /\ k \in DOMAIN handlers[t] /\ handlers[t][k].at = "stale"
  /\ handlers' = [handlers EXCEPT ![t] = RemoveAt(@, k)]
  /\ stopPeriodicSync(t)
  /\ UNCHANGED <<onLine, tab, sync, crossed, toggles, closes, syncFaults, queueVars>>

\* An await of the handler rejects: nothing after it runs.
handlerRejects(t, k) ==
  /\ k \in DOMAIN handlers[t] /\ (handlers[t][k].at = "meta" => AtMeta(t, k))
  /\ syncFaults < MaxSyncFaults /\ syncFaults' = syncFaults + 1
  /\ handlers' = [handlers EXCEPT ![t] = RemoveAt(@, k)]
  /\ crossed' = crossed \union {t}
  /\ UNCHANGED <<onLine, tab, interval, sync, toggles, closes, queueVars>>

\* stopSyncService leaves the handlers that are awaiting.
stopSyncService(t) ==
  /\ tab[t] = "open" /\ closes < MaxCloses
  /\ closes' = closes + 1
  /\ tab' = [tab EXCEPT ![t] = "stopped"]
  /\ stopPeriodicSync(t)
  /\ crossed' = crossed \ {t}
  /\ UNCHANGED <<onLine, handlers, sync, toggles, syncFaults, queueVars>>

\* The tab is closed; its promises are gone, the rows stay.
tabCloses(t) ==
  /\ tab[t] # "closed" /\ closes < MaxCloses
  /\ closes' = closes + 1
  /\ tab' = [tab EXCEPT ![t] = "closed"]
  /\ interval' = interval \ {t}
  /\ crossed' = crossed \ {t}
  /\ handlers' = [handlers EXCEPT ![t] = <<>>]
  /\ sync' = [sync EXCEPT ![t] = IdleSync]
  /\ orphaned' = orphaned \union sync[t].batch
  /\ UNCHANGED <<onLine, row, tries, executed, sharedRows, unremoved, toggles, syncFaults>>

\* The interval fires, or the tab comes to the foreground, or forceSyncNow.
syncTriggered(t) ==
  /\ tab[t] = "open" \/ t \in interval
  /\ sync[t].at = "idle" /\ onLine
  /\ sync' = [sync EXCEPT ![t] = syncAll(@)]
  /\ UNCHANGED <<connVars, toggles, closes, syncFaults, queueVars>>

queueAction(t, i) ==
  /\ tab[t] = "open" /\ row[i] = "none"
  /\ \A j \in 1 .. i - 1 : row[j] # "none"
  /\ row' = [row EXCEPT ![i] = "pending"]
  /\ sync' = [sync EXCEPT ![t] = syncAll(@)]
  /\ UNCHANGED <<connVars, tries, executed, sharedRows, unremoved, orphaned,
                 toggles, closes, syncFaults>>

(***************************************************************************)
(* replayQueue.                                                            *)
(***************************************************************************)
item(t) == Min(sync[t].batch)

\* The next row, or refreshCache after the last.
nextItem(s, rest) ==
  [s EXCEPT !.batch = rest, !.at = IF rest = {} THEN "refresh" ELSE "get",
            !.want = "processing"]

replayReads(t, pending) ==
  /\ sync[t].at = "read"
  /\ sync' = [sync EXCEPT ![t] = nextItem([@ EXCEPT !.seen = tries], pending)]
  /\ sharedRows' = sharedRows \union
       {i \in pending : \E u \in Tabs \ {t} : i \in sync[u].batch}
  /\ UNCHANGED <<connVars, row, tries, executed, unremoved, orphaned,
                 toggles, closes, syncFaults>>

getPendingSyncItems_resumed(t) ==
  replayReads(t, {i \in Rows : row[i] \in {"pending", "processing"}})

getPendingSyncItems(t) == replayReads(t, {i \in Rows : row[i] = "pending"})

\* updateSyncQueueItem reads the row ...
updateGets(t) ==
  /\ sync[t].at = "get"
  /\ sync' = [sync EXCEPT ![t].at = "put", ![t].got =
                              IF row[item(t)] = "gone" THEN -1 ELSE tries[item(t)]]
  /\ UNCHANGED <<connVars, queueVars, toggles, closes, syncFaults>>

\* ... and writes it back, if there was one, with its new status.
updatePuts(t) ==
  LET i == item(t)
      s == sync[t]
  IN
  /\ s.at = "put"
  /\ row' = IF s.got >= 0 THEN [row EXCEPT ![i] = s.want] ELSE row
  /\ tries' = IF s.got < 0 THEN tries
              ELSE [tries EXCEPT ![i] = IF s.want = "processing" THEN s.got ELSE s.seen[i] + 1]
  /\ sync' = [sync EXCEPT ![t] = IF s.want = "processing" THEN [s EXCEPT !.at = "execute"]
                                 ELSE nextItem(s, s.batch \ {i})]
  /\ UNCHANGED <<connVars, executed, sharedRows, unremoved, orphaned,
                 toggles, closes, syncFaults>>

executeQueuedAction(t) ==
  /\ sync[t].at = "execute"
  /\ executed' = [executed EXCEPT ![item(t)] = @ + 1]
  /\ sync' = [sync EXCEPT ![t].at = "remove"]
  /\ UNCHANGED <<connVars, row, tries, sharedRows, unremoved, orphaned,
                 toggles, closes, syncFaults>>

removeSyncQueueItem(t) ==
  /\ sync[t].at = "remove"
  /\ row' = [row EXCEPT ![item(t)] = "gone"]
  /\ sync' = [sync EXCEPT ![t] = nextItem(@, @.batch \ {item(t)})]
  /\ UNCHANGED <<connVars, tries, executed, sharedRows, unremoved, orphaned,
                 toggles, closes, syncFaults>>

\* The status the catch block of replayQueue writes.
caughtStatus(retryCount) == IF retryCount >= MaxTries THEN "failed" ELSE "pending"

\* A call in the try block rejects.
replayCatches(t) ==
  LET i == item(t) IN
  /\ sync[t].at = "remove" \/ (sync[t].at \in {"get", "put"} /\ sync[t].want = "processing")
  /\ syncFaults < MaxSyncFaults /\ syncFaults' = syncFaults + 1
  /\ sync' = [sync EXCEPT ![t].at = "get", ![t].want = caughtStatus(sync[t].seen[i] + 1)]
  /\ unremoved' = IF sync[t].at = "remove" THEN unremoved \union {i} ELSE unremoved
  /\ UNCHANGED <<connVars, row, tries, executed, sharedRows, orphaned, toggles, closes>>

afterReject_flag_kept(s) == [IdleSync EXCEPT !.at = "stuck"]

\* The finally block of syncAll resets isCurrentlySyncing.
afterReject(s) == IdleSync

\* A call outside it rejects: the read, the catch block's own update, refreshCache.
syncRejects(t) ==
  /\ \/ sync[t].at \in {"read", "refresh", "meta"}
     \/ sync[t].at \in {"get", "put"} /\ sync[t].want # "processing"
  /\ syncFaults < MaxSyncFaults /\ syncFaults' = syncFaults + 1
  /\ sync' = [sync EXCEPT ![t] = afterReject(@)]
  /\ orphaned' = orphaned \union sync[t].batch
  /\ UNCHANGED <<connVars, row, tries, executed, sharedRows, unremoved, toggles, closes>>

refreshCache(t) ==
  /\ sync[t].at = "refresh"
  /\ sync' = [sync EXCEPT ![t].at = "meta"]
  /\ UNCHANGED <<connVars, queueVars, toggles, closes, syncFaults>>

syncDone(t) ==
  /\ sync[t].at = "meta"
  /\ sync' = [sync EXCEPT ![t] = IdleSync]
  /\ UNCHANGED <<connVars, queueVars, toggles, closes, syncFaults>>

HandlerSteps(t) ==
  \E k \in DOMAIN handlers[t] :
    initDone(t, k) \/ handleOnline(t, k) \/ handleOffline(t, k) \/ groupsMarked(t, k)

ReplaySteps(t) ==
  \/ getPendingSyncItems(t) \/ updateGets(t) \/ updatePuts(t)
  \/ executeQueuedAction(t) \/ removeSyncQueueItem(t)
  \/ refreshCache(t) \/ syncDone(t)

OfflineNext ==
  \/ connectionChanges
  \/ \E t \in Tabs :
       \/ initSyncService(t) \/ stopSyncService(t) \/ tabCloses(t)
       \/ HandlerSteps(t)
       \/ \E k \in DOMAIN handlers[t] : handlerRejects(t, k)
       \/ syncTriggered(t)
       \/ \E i \in Rows : queueAction(t, i)
       \/ ReplaySteps(t)
       \/ replayCatches(t) \/ syncRejects(t)

\* Callbacks of a tab run, and its interval fires again and again.
OfflineFairness ==
  \A t \in Tabs :
    /\ WF_offlineVars(HandlerSteps(t))
    /\ WF_offlineVars(ReplaySteps(t))
    /\ WF_offlineVars(t \in interval /\ syncTriggered(t))

(***************************************************************************)
(* Properties.                                                             *)
(***************************************************************************)
\* A row marked processing is being replayed by some tab, or the tab that
\* did was closed or could not write the outcome: such a row is replayed by
\* nobody again (getPendingSyncItems reads pending rows only).  A row leaves
\* the store only after its action was executed, and an action is executed
\* twice only if two tabs read it as pending (isCurrentlySyncing is a variable
\* of the tab, the queue is not) or its removal was rejected afterwards.
QueuedActionsOnce ==
  \A i \in Rows :
    /\ row[i] = "processing" => i \in orphaned \/ \E t \in Tabs : i \in sync[t].batch
    /\ row[i] = "gone" => executed[i] > 0
    /\ executed[i] > 1 => i \in sharedRows \union unremoved

\* Once a tab's connection handlers are done, it has a periodic sync exactly
\* when it listens and is online, unless handleOnline ended during the
\* awaits of an earlier handleOffline (whose stopPeriodicSync then comes
\* last), a handler rejected, or the service was stopped during one.
PeriodicSyncFollowsConnection ==
  \A t \in Tabs :
    handlers[t] = <<>> /\ t \notin crossed =>
      (t \in interval <=> tab[t] = "open" /\ onLine)

\* A pending action is picked up while some tab listens, online, with its
\* periodic sync as it should be.
PendingIsReplayed ==
  \A i \in Rows :
    (row[i] = "pending") ~>
      \/ row[i] # "pending"
      \/ ~onLine
      \/ \A t \in Tabs : tab[t] # "open" \/ t \in crossed
=============================================================================
