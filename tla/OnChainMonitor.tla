--------------------------- MODULE OnChainMonitor ---------------------------
(***************************************************************************)
(* The on-chain monitor (backend on_chain_monitor.ts): start() begins a    *)
(* tick; a tick checks the events of the rolling window, sends an alert for*)
(* each admin action, and sets a timer for the next tick.  stop() clears   *)
(* the timer it knows of; a check in flight sets another one when it ends, *)
(* and start() meanwhile begins a second chain of ticks.  Time is in units *)
(* below the poll interval; a check takes at most CheckTime and the indexer*)
(* stores an event at most IndexLag after it happened.  The threshold      *)
(* alerts are left out; so is the limit of 500 rows (the instances have    *)
(* fewer).                                                                 *)
(***************************************************************************)
EXTENDS Integers, FiniteSets

CONSTANTS
  TickChains,      \* the chains of ticks, one per start()
  RollingWindow, PollInterval, CheckTime, IndexLag,
  MaxMonTime, MaxMonEvents, MaxMonFaults

ASSUME MonitorAssumption == IndexLag + PollInterval + CheckTime <= RollingWindow

VARIABLES
  monTime,
  monRunning,
  chain,           \* per chain: state, when it is due or began, events left to alert
  monTimer,        \* the chain whose timer this.timer holds
  monEvents,       \* admin actions: [id, ts, stored], with whether the monitor ran then
  alerted,
  disturbed,       \* history: stop() was called, or a query or a sink failed
  survivors,       \* history: chains that were checking when stop() was called
  monFaults

monVars == <<monTime, monRunning, chain, monTimer, monEvents, alerted, disturbed, survivors,
             monFaults>>

IdleChain == [at |-> "none", time |-> 0, left |-> {}]
OverChain == [IdleChain EXCEPT !.at = "over"]

MonInit ==
  /\ monTime = 0
  /\ monRunning = FALSE
  /\ chain = [c \in TickChains |-> IdleChain]
  /\ monTimer = {}
  /\ monEvents = {} /\ alerted = {}
  /\ disturbed = FALSE /\ survivors = {} /\ monFaults = 0

InCheck(c) == chain[c].at \in {"query", "alert"}

startMonitor(c) ==
  /\ ~monRunning /\ chain[c].at = "none"
  /\ monRunning' = TRUE
  /\ chain' = [chain EXCEPT ![c] = [at |-> "query", time |-> monTime, left |-> {}]]
  /\ UNCHANGED <<monTime, monTimer, monEvents, alerted, disturbed, survivors, monFaults>>

\* clearTimeout of this.timer.
clearMonTimer == [c \in TickChains |->
                 IF c \in monTimer /\ chain[c].at = "timer"
                 THEN OverChain ELSE chain[c]]

stopMonitor ==
  /\ monRunning
  /\ monRunning' = FALSE
  /\ chain' = clearMonTimer
  /\ disturbed' = TRUE
  /\ survivors' = survivors \union {c \in TickChains : InCheck(c)}
  /\ UNCHANGED <<monTime, monTimer, monEvents, alerted, monFaults>>

\* The timer is due: a tick of a monitor that was stopped ends the chain.
monitorTick(c) ==
  /\ chain[c].at = "timer" /\ chain[c].time = monTime
  /\ chain' = [chain EXCEPT ![c] = IF monRunning
                                   THEN [at |-> "query", time |-> monTime, left |-> {}]
                                   ELSE OverChain]
  /\ UNCHANGED <<monTime, monRunning, monTimer, monEvents, alerted, disturbed, survivors,
                 monFaults>>

inWindow_poll(e, c) == e.stored /\ e.ts >= chain[c].time - PollInterval

\* since is computed when the check begins.
inWindow(e, c) == e.stored /\ e.ts >= chain[c].time - RollingWindow

\* The query.
check(c) ==
  /\ chain[c].at = "query"
  /\ chain' = [chain EXCEPT ![c].at = "alert",
                            ![c].left = {e.id : e \in {e \in monEvents : inWindow(e, c)}}]
  /\ UNCHANGED <<monTime, monRunning, monTimer, monEvents, alerted, disturbed, survivors,
                 monFaults>>

\* The next alert goes to the sink.
alertSink(c, i) ==
  /\ chain[c].at = "alert" /\ i \in chain[c].left
  /\ alerted' = alerted \union {i}
  /\ chain' = [chain EXCEPT ![c].left = @ \ {i}]
  /\ UNCHANGED <<monTime, monRunning, monTimer, monEvents, disturbed, survivors, monFaults>>

rearm(c) ==
  /\ chain' = [chain EXCEPT ![c] = [at |-> "timer", time |-> monTime + PollInterval,
                                    left |-> {}]]
  /\ monTimer' = {c}

checkDone(c) ==
  /\ chain[c].at = "alert" /\ chain[c].left = {}
  /\ rearm(c)
  /\ UNCHANGED <<monTime, monRunning, monEvents, alerted, disturbed, survivors, monFaults>>

\* The query or the sink throws: the alerts that are left are dropped.
checkFails(c) ==
  /\ InCheck(c)
  /\ monFaults < MaxMonFaults /\ monFaults' = monFaults + 1
  /\ disturbed' = TRUE
  /\ rearm(c)
  /\ UNCHANGED <<monTime, monRunning, monEvents, alerted, survivors>>

adminAction ==
  /\ Cardinality(monEvents) < MaxMonEvents
  /\ monEvents' = monEvents \union
                    {[id |-> Cardinality(monEvents) + 1, ts |-> monTime, stored |-> FALSE,
                      watched |-> monRunning]}
  /\ UNCHANGED <<monTime, monRunning, chain, monTimer, alerted, disturbed, survivors, monFaults>>

actionStored(e) ==
  /\ ~e.stored
  /\ monEvents' = (monEvents \ {e}) \union {[e EXCEPT !.stored = TRUE]}
  /\ UNCHANGED <<monTime, monRunning, chain, monTimer, alerted, disturbed, survivors, monFaults>>

\* Time does not pass a due timer, the end of a check or of the indexing lag.
monTimePasses ==
  /\ monTime < MaxMonTime
  /\ \A c \in TickChains :
       /\ chain[c].at = "timer" => chain[c].time > monTime
       /\ InCheck(c) => monTime < chain[c].time + CheckTime
  /\ \A e \in monEvents : ~e.stored => monTime < e.ts + IndexLag
  /\ monTime' = monTime + 1
  /\ UNCHANGED <<monRunning, chain, monTimer, monEvents, alerted, disturbed, survivors,
                 monFaults>>

MonNext ==
  \/ stopMonitor \/ adminAction \/ monTimePasses
  \/ \E c \in TickChains :
       \/ startMonitor(c) \/ monitorTick(c) \/ check(c) \/ checkDone(c) \/ checkFails(c)
       \/ \E i \in 1 .. MaxMonEvents : alertSink(c, i)
  \/ \E e \in monEvents : actionStored(e)

(***************************************************************************)
(* Properties.                                                             *)
(***************************************************************************)
\* A monitor that runs undisturbed alerts for every admin action no later
\* than the rolling window after it (and the check that finds it): the window
\* is long enough for the indexer's lag, the poll interval and a check.
\* Unless stop() was ever called during a check, a running monitor has one
\* chain of ticks and a stopped one none.  (A chain that was checking goes on
\* if start() is called before its next tick, and takes this.timer from the
\* new chain, so that a later stop() misses the new one.)
MonitorKeepsWatch ==
  /\ ~disturbed =>
       \A e \in monEvents :
         e.watched /\ monTime > e.ts + RollingWindow + CheckTime => e.id \in alerted
  /\ survivors = {} =>
       Cardinality({c \in TickChains : chain[c].at \in {"timer", "query", "alert"}})
         = IF monRunning THEN 1 ELSE 0
=============================================================================
