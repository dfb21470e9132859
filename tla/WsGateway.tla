------------------------------ MODULE WsGateway ------------------------------
(***************************************************************************)
(* The WebSocket gateway (ws_gateway.ts).  Its handlers run to completion; *)
(* what interleaves are the events of the sockets and the heartbeat.  A    *)
(* socket that fails or is terminated still has its close event to come,   *)
(* and messages it had received may be handled before that.                *)
(***************************************************************************)
EXTENDS Integers, FiniteSets

CONSTANTS Sockets, Topics, Authorized   \* isAuthorized

ASSUME GatewayAssumption == Authorized \subseteq Sockets \X Topics

VARIABLES
  socket,         \* none, open, closing (its close event is to come), closed
  clients,        \* the sockets in the map of clients
  subscriptions,  \* the pairs of a socket and a topic in the map of topics
  topics,         \* the same, as each client's own set
  isAlive,
  answering,      \* whether the other end still answers pings
  unanswered,     \* the sockets with a ping that may be answered
  gatewayOn

gatewayVars == <<socket, clients, subscriptions, topics, isAlive, answering,
                 unanswered, gatewayOn>>

GatewayInit ==
  /\ socket = [s \in Sockets |-> "none"]
  /\ clients = {} /\ subscriptions = {} /\ topics = {}
  /\ isAlive = [s \in Sockets |-> TRUE]
  /\ answering = Sockets
  /\ unanswered = {}
  /\ gatewayOn = TRUE

Handled(s) == socket[s] \in {"open", "closing"}

-----------------------------------------------------------------------------

\* onConnection with a valid token; a connection without one is closed at once.
onConnection(s) ==
  /\ gatewayOn /\ socket[s] = "none"
  /\ socket' = [socket EXCEPT ![s] = "open"]
  /\ clients' = clients \union {s}
  /\ UNCHANGED <<subscriptions, topics, isAlive, answering, unanswered, gatewayOn>>

handleSubscribe(s, t) ==
  /\ Handled(s) /\ <<s, t>> \in Authorized
  /\ subscriptions' = subscriptions \union {<<s, t>>}
  /\ topics' = topics \union {<<s, t>>}
  /\ UNCHANGED <<socket, clients, isAlive, answering, unanswered, gatewayOn>>

handleUnsubscribe(s, t) ==
  /\ Handled(s)
  /\ subscriptions' = subscriptions \ {<<s, t>>}
  /\ topics' = topics \ {<<s, t>>}
  /\ UNCHANGED <<socket, clients, isAlive, answering, unanswered, gatewayOn>>

onClose_once(s) ==
  /\ subscriptions' = IF s \in clients THEN subscriptions \ {p \in topics : p[1] = s}
                      ELSE subscriptions
  /\ clients' = clients \ {s}

\* The client's own set of topics stays as it is.
onClose(s) ==
  /\ subscriptions' = subscriptions \ {p \in topics : p[1] = s}
  /\ clients' = clients \ {s}

\* An error: onClose runs now, and again when the socket closes.
socketErrs(s) ==
  /\ socket[s] = "open"
  /\ onClose(s)
  /\ socket' = [socket EXCEPT ![s] = "closing"]
  /\ UNCHANGED <<topics, isAlive, answering, unanswered, gatewayOn>>

socketCloses(s) ==
  /\ Handled(s)
  /\ onClose(s)
  /\ socket' = [socket EXCEPT ![s] = "closed"]
  /\ UNCHANGED <<topics, isAlive, answering, unanswered, gatewayOn>>

heartbeatTerminates_never(s) == FALSE

heartbeatTerminates(s) == s \in clients /\ ~isAlive[s]

\* startHeartbeat: every client is terminated, or is pinged and has to answer
\* before the next beat.
heartbeat ==
  LET gone == {s \in Sockets : heartbeatTerminates(s)}
  IN  /\ gatewayOn
      /\ socket' = [s \in Sockets |-> IF s \in gone THEN "closing" ELSE socket[s]]
      /\ isAlive' = [s \in Sockets |-> isAlive[s] /\ s \notin clients]
      /\ unanswered' = unanswered \union (clients \ gone)
      /\ UNCHANGED <<clients, subscriptions, topics, answering, gatewayOn>>

pong(s) ==
  /\ socket[s] = "open" /\ s \in answering \intersect unanswered
  /\ isAlive' = [isAlive EXCEPT ![s] = TRUE]
  /\ unanswered' = unanswered \ {s}
  /\ UNCHANGED <<socket, clients, subscriptions, topics, answering, gatewayOn>>

\* The other end vanishes without closing.
vanishes(s) ==
  /\ s \in answering /\ answering' = answering \ {s}
  /\ UNCHANGED <<socket, clients, subscriptions, topics, isAlive, unanswered, gatewayOn>>

\* stop ends the heartbeat and accepts nobody new; the sockets stay open.
stopGateway ==
  /\ gatewayOn /\ gatewayOn' = FALSE
  /\ UNCHANGED <<socket, clients, subscriptions, topics, isAlive, answering, unanswered>>

\* Those whom publish(t) sends a frame.  Frames are sent as they are queued.
publish(t) == {s \in Sockets : <<s, t>> \in subscriptions /\ socket[s] = "open"}

GatewayNext ==
  \/ \E s \in Sockets :
       \/ onConnection(s) \/ socketErrs(s) \/ socketCloses(s) \/ pong(s) \/ vanishes(s)
       \/ \E t \in Topics : handleSubscribe(s, t) \/ handleUnsubscribe(s, t)
  \/ heartbeat \/ stopGateway

\* The interval fires, and a socket under termination emits close.
GatewayFairness ==
  /\ WF_gatewayVars(heartbeat)
  /\ \A s \in Sockets : WF_gatewayVars(socket[s] = "closing" /\ socketCloses(s))

-----------------------------------------------------------------------------
(***************************************************************************)
(* Nothing leaks: a closed socket is neither a client nor subscribed,      *)
(* although onClose may run twice and messages may be handled between; and *)
(* an open one is sent exactly what it subscribed to.                      *)
(***************************************************************************)
NoLeakedSubscription ==
  \A s \in Sockets :
    /\ socket[s] \in {"none", "closed"} =>
         s \notin clients /\ \A t \in Topics : <<s, t>> \notin subscriptions
    /\ socket[s] = "open" => \A t \in Topics : s \in publish(t) <=> <<s, t>> \in topics

(***************************************************************************)
(* A client whose other end has vanished is dropped in the end, by the     *)
(* second heartbeat that it leaves unanswered, while the gateway runs.     *)
(***************************************************************************)
VanishedClientsDropped ==
  \A s \in Sockets :
    (socket[s] = "open" /\ s \notin answering) ~> (socket[s] = "closed" \/ ~gatewayOn)
=============================================================================
