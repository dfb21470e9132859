----------------------------- MODULE Analytics -----------------------------
(***************************************************************************)
(* The analytics job (backend analytics_service.ts, analytics_aggregator.ts,*)
(* jobs/analytics_resync_job.ts).  syncSorobanEvents turns contract events *)
(* into analytics events dated on the day they are indexed; runAggregation *)
(* writes one row per platform, user and group for the day before.  A run  *)
(* may overlap another: the hourly job, the daily timer and manual calls   *)
(* know nothing of each other.  Every database call is a step; the tables  *)
(* have a unique key on (owner, date).  A contract event concerns one user *)
(* and is named after them; amounts and counts are left out: the events of *)
(* a past day do not change, so every run computes the same row.           *)
(***************************************************************************)
EXTENDS Integers, FiniteSets

CONSTANTS
  AnalyticsRuns,   \* the calls that are made, each once
  UserIds, GroupIds,
  Platform,        \* the key of the one platform row
  NoKey,
  MaxDay,          \* bound on the days; the first is 2
  MaxDbFaults      \* bound: database calls that reject

VARIABLES
  today,
  chainEvents,     \* ContractEvent: users with an event, not yet or already indexed
  analyticsEvents, \* AnalyticsEvent: <<day, key>>
  copies,          \* history: analytics events made from each contract event
  metricRows,      \* PlatformMetrics, UserMetrics, GroupMetrics: <<day, key>>
  aggRun,          \* the runs
  begun, faulted,  \* history: days some run aggregated; days a call failed for
  raced,           \* history: events two runs looked for at once
  dbFaults

analyticsVars == <<today, chainEvents, analyticsEvents, copies, metricRows, aggRun, begun,
                   faulted, raced, dbFaults>>

IdleAgg == [at |-> "idle", day |-> 0, stage |-> "none", left |-> {}, key |-> NoKey,
            exists |-> FALSE]

EndedAgg == [IdleAgg EXCEPT !.at = "ended"]

AnalyticsInit ==
  /\ today = 2
  /\ chainEvents = {} /\ analyticsEvents = {}
  /\ copies = [u \in UserIds |-> 0]
  /\ metricRows = {}
  /\ aggRun = [r \in AnalyticsRuns |-> IdleAgg]
  /\ begun = {} /\ faulted = {} /\ raced = {} /\ dbFaults = 0

SetAgg(r, changed) == aggRun' = [aggRun EXCEPT ![r] = changed]

dayPasses ==
  /\ today < MaxDay
  /\ today' = today + 1
  /\ UNCHANGED <<chainEvents, analyticsEvents, copies, metricRows, aggRun, begun, faulted,
                 raced, dbFaults>>

\* The indexer stores a contract event.
contractEventStored(u) ==
  /\ u \notin chainEvents
  /\ chainEvents' = chainEvents \union {u}
  /\ UNCHANGED <<today, analyticsEvents, copies, metricRows, aggRun, begun, faulted, raced,
                 dbFaults>>

\* recordEvent: the web application reports activity of a group.
recordEvent(g) ==
  /\ <<today, g>> \notin analyticsEvents
  /\ analyticsEvents' = analyticsEvents \union {<<today, g>>}
  /\ UNCHANGED <<today, chainEvents, copies, metricRows, aggRun, begun, faulted, raced,
                 dbFaults>>

(***************************************************************************)
(* syncSorobanEvents                                                       *)
(***************************************************************************)
syncSorobanEvents(r) ==
  /\ aggRun[r].at = "idle"
  /\ SetAgg(r, [IdleAgg EXCEPT !.at = "sync", !.left = chainEvents])
  /\ UNCHANGED <<today, chainEvents, analyticsEvents, copies, metricRows, begun, faulted,
                 raced, dbFaults>>

indexed(u) == copies[u] > 0

\* findFirst by eventName; an event that is there is skipped.
lookUp(r, u) ==
  /\ aggRun[r].at = "sync" /\ u \in aggRun[r].left
  /\ IF indexed(u)
     THEN SetAgg(r, [aggRun[r] EXCEPT !.left = @ \ {u}]) /\ UNCHANGED raced
     ELSE /\ SetAgg(r, [aggRun[r] EXCEPT !.at = "create", !.key = u])
          /\ raced' = IF \E q \in AnalyticsRuns : aggRun[q].at = "create" /\ aggRun[q].key = u
                      THEN raced \union {u} ELSE raced
  /\ UNCHANGED <<today, chainEvents, analyticsEvents, copies, metricRows, begun, faulted,
                 dbFaults>>

createEvent(r) ==
  LET u == aggRun[r].key IN
  /\ aggRun[r].at = "create"
  /\ analyticsEvents' = analyticsEvents \union {<<today, u>>}
  /\ copies' = [copies EXCEPT ![u] = @ + 1]
  /\ SetAgg(r, [aggRun[r] EXCEPT !.at = "sync", !.left = @ \ {u}, !.key = NoKey])
  /\ UNCHANGED <<today, chainEvents, metricRows, begun, faulted, raced, dbFaults>>

\* A rejected call ends the sync and, with it, the resync.
syncThrows(r) ==
  /\ aggRun[r].at \in {"sync", "create"}
  /\ dbFaults < MaxDbFaults /\ dbFaults' = dbFaults + 1
  /\ SetAgg(r, EndedAgg)
  /\ UNCHANGED <<today, chainEvents, analyticsEvents, copies, metricRows, begun, faulted,
                 raced>>

(***************************************************************************)
(* runAggregation                                                          *)
(***************************************************************************)
yesterday_today == today

yesterday == today - 1

\* runAggregation on its own or after the sync: it is for yesterday.
runAggregation(r) ==
  /\ aggRun[r].at = "idle" \/ (aggRun[r].at = "sync" /\ aggRun[r].left = {})
  /\ SetAgg(r, [IdleAgg EXCEPT !.at = "read", !.day = yesterday, !.stage = "platform"])
  /\ begun' = begun \union {yesterday}
  /\ UNCHANGED <<today, chainEvents, analyticsEvents, copies, metricRows, faulted, raced,
                 dbFaults>>

\* The keys a stage writes rows for.
stageKeys(stage, day) ==
  CASE stage = "platform" -> {Platform}
    [] stage = "user" -> {u \in UserIds : <<day, u>> \in analyticsEvents}
    [] stage = "group" -> {g \in GroupIds : <<day, g>> \in analyticsEvents}

\* Each stage catches its own errors; the caches are dropped after the last.
nextStage(run) ==
  CASE run.stage = "platform" -> [run EXCEPT !.stage = "user", !.at = "read"]
    [] run.stage = "user" -> [run EXCEPT !.stage = "group", !.at = "read"]
    [] run.stage = "group" -> EndedAgg

goOn(run, rest) ==
  IF rest = {} THEN nextStage(run) ELSE [run EXCEPT !.at = "find", !.left = rest]

readEvents(r) ==
  /\ aggRun[r].at = "read"
  /\ SetAgg(r, goOn(aggRun[r], stageKeys(aggRun[r].stage, aggRun[r].day)))
  /\ UNCHANGED <<today, chainEvents, analyticsEvents, copies, metricRows, begun, faulted,
                 raced, dbFaults>>

\* findFirst for the next key; the map is in the order findMany gave.
findExisting(r, k) ==
  /\ aggRun[r].at = "find" /\ k \in aggRun[r].left
  /\ SetAgg(r, [aggRun[r] EXCEPT !.at = "write", !.key = k,
                              !.exists = <<aggRun[r].day, k>> \in metricRows])
  /\ UNCHANGED <<today, chainEvents, analyticsEvents, copies, metricRows, begun, faulted,
                 raced, dbFaults>>

\* Update the row that was found, or create one: a create that meets the
\* unique key throws and ends the stage.
writeMetrics(r) ==
  LET run == aggRun[r]
      newRow == <<run.day, run.key>>
  IN
  /\ run.at = "write"
  /\ IF ~run.exists /\ newRow \in metricRows
     THEN SetAgg(r, nextStage(run)) /\ UNCHANGED metricRows
     ELSE /\ metricRows' = metricRows \union {newRow}
          /\ SetAgg(r, goOn(run, run.left \ {run.key}))
  /\ UNCHANGED <<today, chainEvents, analyticsEvents, copies, begun, faulted, raced,
                 dbFaults>>

\* Another database error ends the stage.
stageThrows(r) ==
  /\ aggRun[r].at \in {"read", "find", "write"}
  /\ dbFaults < MaxDbFaults /\ dbFaults' = dbFaults + 1
  /\ SetAgg(r, nextStage(aggRun[r]))
  /\ faulted' = faulted \union {aggRun[r].day}
  /\ UNCHANGED <<today, chainEvents, analyticsEvents, copies, metricRows, begun, raced>>

AnalyticsNext ==
  \/ dayPasses
  \/ \E u \in UserIds : contractEventStored(u)
  \/ \E g \in GroupIds : recordEvent(g)
  \/ \E r \in AnalyticsRuns :
       \/ syncSorobanEvents(r) \/ createEvent(r) \/ syncThrows(r)
       \/ \E u \in UserIds : lookUp(r, u)
       \/ runAggregation(r) \/ readEvents(r) \/ writeMetrics(r) \/ stageThrows(r)
       \/ \E k \in UserIds \union GroupIds \union {Platform} : findExisting(r, k)

(***************************************************************************)
(* Properties.                                                             *)
(***************************************************************************)
\* Once no run works on a past day that was aggregated without a database
\* error, the day has its platform row and a row for every user and group
\* with events, however the runs overlapped: of two runs of which one gives
\* up a stage because the other created the row first, the other goes on.  A
\* contract event is indexed twice only if two runs looked for it before
\* either had created it (analytics events have no unique name).
DayCountsEveryEvent ==
  /\ \A d \in begun \ faulted :
       (\A r \in AnalyticsRuns : aggRun[r].day # d) =>
         \A stage \in {"platform", "user", "group"} :
           \A k \in stageKeys(stage, d) : <<d, k>> \in metricRows
  /\ \A u \in UserIds : copies[u] > 1 => u \in raced
=============================================================================
