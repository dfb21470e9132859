----------------------------- MODULE MCProgress -----------------------------
(***************************************************************************)
(* An instance for TLC of the components that promise that something       *)
(* happens in the end.  They share no state; `focus` says which of them    *)
(* moves in a behaviour, so that one run checks them all and the states    *)
(* add up instead of multiplying.                                          *)
(***************************************************************************)
EXTENDS SorobanClientPool, WsGateway, OfflineSync, RequestBatcher, HorizonIndexer

VARIABLE focus

progressVars == <<focus, vars, gatewayVars, offlineVars, batchVars, indexerVars>>

\* Every socket may subscribe to every topic.
MCAuthorized == Sockets \X Topics

ProgressInit ==
  /\ focus \in {"pool", "gateway", "offline", "batcher", "indexer"}
  /\ Init /\ GatewayInit /\ OfflineInit /\ BatchInit /\ IndexerInit
  /\ focus # "offline" => onLine
  /\ focus # "indexer" => stored = {}

ProgressNext ==
  /\ UNCHANGED focus
  /\ \/ /\ focus = "pool" /\ Next
        /\ UNCHANGED <<gatewayVars, offlineVars, batchVars, indexerVars>>
     \/ /\ focus = "gateway" /\ GatewayNext
        /\ UNCHANGED <<vars, offlineVars, batchVars, indexerVars>>
     \/ /\ focus = "offline" /\ OfflineNext
        /\ UNCHANGED <<vars, gatewayVars, batchVars, indexerVars>>
     \/ /\ focus = "batcher" /\ BatchNext
        /\ UNCHANGED <<vars, gatewayVars, offlineVars, indexerVars>>
     \/ /\ focus = "indexer" /\ IndexerNext
        /\ UNCHANGED <<vars, gatewayVars, offlineVars, batchVars>>

\* Fairness of SorobanClientPool, for the behaviours in which it moves.  The
\* fair actions of the others are not enabled where they begin.
PoolFairness ==
  /\ WF_vars(focus = "pool" /\ TimePasses)
  /\ \A c \in Calls : /\ WF_vars(focus = "pool" /\ acquire(c))
                      /\ WF_vars(focus = "pool" /\ acquireTimeout(c))
                      /\ WF_vars(focus = "pool" /\ fire(c))
                      /\ WF_vars(focus = "pool" /\ Ends(c))
                      /\ WF_vars(focus = "pool" /\ release(c))

MCProgressSpec ==
  /\ ProgressInit /\ [][ProgressNext]_progressVars
  /\ PoolFairness /\ GatewayFairness
  /\ OfflineFairness /\ BatchFairness /\ IndexerFairness
=============================================================================
