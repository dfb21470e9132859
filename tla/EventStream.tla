---------------------------- MODULE EventStream ----------------------------
(***************************************************************************)
(* The event service of the web client (frontend lib/EventService.ts): an  *)
(* EventSource, and polling while it is down.  Contract events are         *)
(* numbered in ledger order; the cursor is the number of an event, 0 for   *)
(* null.  The debounce only delays delivery: an event counts as seen once  *)
(* it is in the buffer, which every flush, stopWatching's too, dispatches. *)
(***************************************************************************)
EXTENDS Integers, FiniteSets, FiniteSetsExt

CONSTANTS
  MaxEvents,      \* bound: events the contract emits
  PollLimit,      \* page size of poll, 50 in the code
  MaxWatches,     \* bound: calls of startWatching
  MaxSources,     \* bound: EventSource objects opened
  MaxPollsOpen    \* bound: polls awaiting their answer at once

VARIABLES
  emitted,        \* events emitted so far: 1 .. emitted
  isWatching,
  seeds,          \* calls of startWatching awaiting the seed, [stopped]
  sseSource,      \* the EventSource the service knows, 0 for null
  sources,        \* EventSource objects that are not closed
  connected,      \* those that have received "connected"
  sseConnected,
  reconnectTimer,
  pollTimer,
  polls,          \* polls awaiting their answer: a bag of cursors asked with
  latestCursor,
  seen,           \* history: events handed to scheduleFlush
  leaked,         \* history: a startWatching went on after it was stopped
  watches, opened

streamVars == <<emitted, isWatching, seeds, sseSource, sources, connected,
                sseConnected, reconnectTimer, pollTimer, polls, latestCursor, seen,
                leaked, watches, opened>>

StreamInit ==
  /\ emitted = 0
  /\ isWatching = FALSE
  /\ seeds = [fresh |-> 0, stopped |-> 0]
  /\ sseSource = 0 /\ sources = {} /\ connected = {}
  /\ sseConnected = FALSE /\ reconnectTimer = FALSE /\ pollTimer = FALSE
  /\ polls = [c \in 0 .. MaxEvents |-> 0]
  /\ latestCursor = 0
  /\ seen = {}
  /\ leaked = FALSE
  /\ watches = 0 /\ opened = 0

\* The backend broadcasts an event to the open streams (routes/sse.ts).
eventEmitted ==
  /\ emitted < MaxEvents
  /\ emitted' = emitted + 1
  /\ seen' = IF connected = {} THEN seen ELSE seen \union {emitted + 1}
  /\ UNCHANGED <<isWatching, seeds, sseSource, sources, connected, sseConnected,
                 reconnectTimer, pollTimer, polls, latestCursor, leaked, watches, opened>>

startWatching ==
  /\ ~isWatching /\ watches < MaxWatches
  /\ isWatching' = TRUE
  /\ watches' = watches + 1
  /\ seeds' = [seeds EXCEPT !.fresh = @ + 1]
  /\ UNCHANGED <<emitted, sseSource, sources, connected, sseConnected, reconnectTimer,
                 pollTimer, polls, latestCursor, seen, leaked, opened>>

\* connectSSE, given that the service is watching: a new EventSource.
connectSSE ==
  /\ opened < MaxSources
  /\ opened' = opened + 1
  /\ sseSource' = opened + 1
  /\ sources' = sources \union {opened + 1}

\* The cursor of the first page of one event, oldest first; null if it fails.
seedCursor == {0, IF emitted = 0 THEN 0 ELSE 1}

\* The seed has arrived: connectSSE if watching (again).
seedArrives(kind) ==
  /\ seeds[kind] > 0
  /\ seeds' = [seeds EXCEPT ![kind] = @ - 1]
  /\ latestCursor' \in seedCursor
  /\ IF isWatching
     THEN /\ \/ connectSSE /\ UNCHANGED pollTimer
             \/ pollTimer' = TRUE /\ UNCHANGED <<opened, sseSource, sources>>
          /\ leaked' = (leaked \/ kind = "stopped")
     ELSE UNCHANGED <<opened, sseSource, sources, pollTimer, leaked>>
  /\ UNCHANGED <<emitted, isWatching, connected, sseConnected, reconnectTimer, polls,
                 seen, watches>>

\* disconnectSSE closes the EventSource the service knows.
disconnectSSE ==
  /\ sources' = sources \ {sseSource}
  /\ connected' = connected \ {sseSource}
  /\ sseSource' = 0
  /\ sseConnected' = FALSE

\* stopWatching; a seed or a poll that is awaited goes on.
stopWatching ==
  /\ isWatching
  /\ isWatching' = FALSE
  /\ disconnectSSE
  /\ reconnectTimer' = FALSE
  /\ pollTimer' = FALSE
  /\ seeds' = [fresh |-> 0, stopped |-> seeds.stopped + seeds.fresh]
  /\ UNCHANGED <<emitted, polls, latestCursor, seen, leaked, watches, opened>>

\* The "connected" message of an EventSource.
onConnected(s) ==
  /\ s \in sources \ connected
  /\ connected' = connected \union {s}
  /\ sseConnected' = TRUE
  /\ pollTimer' = FALSE
  /\ UNCHANGED <<emitted, isWatching, seeds, sseSource, sources, reconnectTimer, polls,
                 latestCursor, seen, leaked, watches, opened>>

\* onerror of an EventSource: the one the service knows is closed, polling
\* takes over and a reconnect is scheduled.  The source that failed is left
\* to the browser, which connects it again unless it was closed.
onError(s) ==
  /\ s \in sources
  /\ sources' = sources \ {sseSource}
  /\ connected' = connected \ {s, sseSource}
  /\ sseSource' = 0
  /\ sseConnected' = FALSE
  /\ pollTimer' = TRUE
  /\ reconnectTimer' = isWatching
  /\ UNCHANGED <<emitted, isWatching, seeds, polls, latestCursor, seen, leaked,
                 watches, opened>>

reconnects ==
  /\ reconnectTimer
  /\ reconnectTimer' = FALSE
  /\ \/ connectSSE /\ UNCHANGED pollTimer
     \/ pollTimer' = TRUE /\ UNCHANGED <<opened, sseSource, sources>>
  /\ UNCHANGED <<emitted, isWatching, seeds, connected, sseConnected, polls,
                 latestCursor, seen, leaked, watches>>

\* The poll timer fires.
poll ==
  /\ pollTimer
  /\ IF sseConnected
     THEN pollTimer' = FALSE /\ UNCHANGED polls
     ELSE /\ MapThenSumSet(LAMBDA c : polls[c], DOMAIN polls) < MaxPollsOpen
          /\ polls' = [polls EXCEPT ![latestCursor] = @ + 1]
          /\ UNCHANGED pollTimer
  /\ UNCHANGED <<emitted, isWatching, seeds, sseSource, sources, connected, sseConnected,
                 reconnectTimer, latestCursor, seen, leaked, watches, opened>>

\* The last event of the page after the cursor; the cursor if there is none.
pageEnd_tip(c) == emitted

pageEnd(c) == IF c + PollLimit < emitted THEN c + PollLimit ELSE emitted

\* The answer to a poll asked with cursor c.
pollArrives(c) ==
  /\ polls[c] > 0
  /\ polls' = [polls EXCEPT ![c] = @ - 1]
  /\ seen' = seen \union {e \in c + 1 .. c + PollLimit : e <= emitted}
  /\ latestCursor' = IF pageEnd(c) > c THEN pageEnd(c) ELSE latestCursor
  /\ UNCHANGED <<emitted, isWatching, seeds, sseSource, sources, connected, sseConnected,
                 reconnectTimer, pollTimer, leaked, watches, opened>>

\* fetchEvents catches the error and answers with no events.
pollFails(c) ==
  /\ polls[c] > 0
  /\ polls' = [polls EXCEPT ![c] = @ - 1]
  /\ UNCHANGED <<emitted, isWatching, seeds, sseSource, sources, connected, sseConnected,
                 reconnectTimer, pollTimer, latestCursor, seen, leaked, watches, opened>>

StreamNext ==
  \/ eventEmitted \/ startWatching \/ stopWatching \/ reconnects \/ poll
  \/ \E k \in {"fresh", "stopped"} : seedArrives(k)
  \/ \E s \in sources : onConnected(s) \/ onError(s)
  \/ \E c \in 0 .. MaxEvents : pollArrives(c) \/ pollFails(c)

(***************************************************************************)
(* Properties.                                                             *)
(***************************************************************************)
\* The polling cursor never passes an event that was not handed to the
\* listeners, whatever the order in which polls, seeds and stream events
\* arrive: an event missed while the stream was down is fetched as soon as
\* polling resumes.  (The event the seed points at was there before and counts
\* as history.)  At most one EventSource is open, it is the one the service
\* can close, and none is open after stopWatching, unless stopWatching and
\* startWatching were called while an earlier startWatching awaited its seed:
\* that one then connects too, and stopWatching closes only the last.
StreamMissesNothing ==
  /\ 2 .. latestCursor \subseteq seen
  /\ ~leaked => /\ sources \subseteq {sseSource}
                /\ ~isWatching => sources = {} /\ ~reconnectTimer
=============================================================================
