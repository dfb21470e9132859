----------------------------- MODULE MCServices -----------------------------
(***************************************************************************)
(* An instance for TLC of the background jobs, queues, caches and client   *)
(* stores of the backend and the frontend.  They share no state but the    *)
(* cached groups; `focus` says which of them moves in a behaviour, so that *)
(* one run checks them all and the states add up instead of multiplying.   *)
(***************************************************************************)
EXTENDS Integers, Analytics, WarehouseExport, BackupOrchestrator, NotificationQueue,
        ReminderScheduler, KeeperJob, PinningQueue, WebhookQueue, Reconciliation,
        KeyRotation, AuditLog, RateLimiter, OnChainMonitor, TxSubmission,
        ActivityFeed, WalletSession, AsyncData, EventStream, OfflineSync

VARIABLE focus

jobVars == <<analyticsVars, exportVars, allBackupVars, noteVars, reminderVars, keeperVars>>
storeVars == <<pinVars, hookVars, onChain, cacheVars, recVars, keyVars, auditVars,
               limiterVars, monVars>>
webVars == <<txVars, feedVars, walletVars, asyncVars, streamVars, offlineVars>>
servicesVars == <<focus, jobVars, storeVars, webVars>>

JobFocus == {"analytics", "export", "backup schedule", "backup storage", "notifications",
             "reminders", "keeper"}
StoreFocus == {"pinning", "webhooks", "cache", "reconciliation", "keys", "audit", "limiter",
               "monitor"}
WebFocus == {"submission", "feed", "wallet", "hook", "stream", "connection", "tabs"}

\* Timezones, in hours, and filters of the feed, which a cfg cannot write.
MCOffsets == {-5, 0, 5}
MCFeedFilters == {1..MaxFeedEvents, {2, 4}}

-----------------------------------------------------------------------------

\* Two tabs in a browser that stays on line: what they do to the queue they share.
SteadyInit ==
  /\ NothingQueued
  /\ onLine = TRUE
  /\ toggles = MaxToggles /\ closes = MaxCloses /\ syncFaults = MaxSyncFaults - 1

\* Backups with checks, drills, pruning, failures and restarts, of a process
\* that is started once and for as long as it takes three backups.
BackupsWithStorage ==
  OrchestratorNext /\ starts' <= 1 /\ created' <= 3 /\ clock' <= 2 * FullInterval

\* One tab only, whose connection comes and goes.
OneTab == \E t \in Tabs : \A u \in Tabs \ {t} : tab'[u] = "closed"

\* A component with several initial states starts in one of them where another
\* is looked at.
OneInitialState ==
  /\ focus # "feed" => feedFilter = 1..MaxFeedEvents
  /\ focus # "hook" => enabled /\ deps = CHOOSE d \in Inputs : TRUE
  /\ focus # "audit" => skew = [p \in Auditors |-> 0]
  /\ focus # "connection" => onLine
  /\ focus # "cache" => reader = [r \in Readers |-> IdleReader(CHOOSE g \in CachedGroups : TRUE)]

JobInit ==
  AnalyticsInit /\ ExportInit /\ OrchestratorInit /\ NoteInit /\ ReminderInit /\ KeeperInit

StoreInit ==
  /\ PinInit /\ HookInit /\ CacheInit /\ RecInit /\ KeyInit
  /\ AuditInit /\ LimiterInit /\ MonInit

WebInit ==
  /\ TxInit /\ FeedInit /\ WalletInit /\ AsyncInit /\ StreamInit
  /\ IF focus = "tabs" THEN SteadyInit ELSE OfflineInit

ServicesInit ==
  /\ focus \in JobFocus \union StoreFocus \union WebFocus
  /\ JobInit /\ StoreInit /\ WebInit
  /\ OneInitialState

-----------------------------------------------------------------------------

JobNext ==
  \/ /\ focus = "analytics" /\ AnalyticsNext
     /\ UNCHANGED <<exportVars, allBackupVars, noteVars, reminderVars, keeperVars>>
  \/ /\ focus = "export" /\ ExportNext
     /\ UNCHANGED <<analyticsVars, allBackupVars, noteVars, reminderVars, keeperVars>>
  \/ /\ focus = "backup schedule" /\ (Lifecycle \/ Scheduling)
     /\ UNCHANGED <<analyticsVars, exportVars, noteVars, reminderVars, keeperVars>>
  \/ /\ focus = "backup storage" /\ BackupsWithStorage
     /\ UNCHANGED <<analyticsVars, exportVars, noteVars, reminderVars, keeperVars>>
  \/ /\ focus = "notifications" /\ NoteNext
     /\ UNCHANGED <<analyticsVars, exportVars, allBackupVars, reminderVars, keeperVars>>
  \/ /\ focus = "reminders" /\ ReminderNext
     /\ UNCHANGED <<analyticsVars, exportVars, allBackupVars, noteVars, keeperVars>>
  \/ /\ focus = "keeper" /\ KeeperNext
     /\ UNCHANGED <<analyticsVars, exportVars, allBackupVars, noteVars, reminderVars>>

StoreNext ==
  \/ /\ focus = "pinning" /\ PinNext
     /\ UNCHANGED <<hookVars, onChain, cacheVars, recVars, keyVars, auditVars, limiterVars, monVars>>
  \/ /\ focus = "webhooks" /\ HookNext
     /\ UNCHANGED <<pinVars, onChain, cacheVars, recVars, keyVars, auditVars, limiterVars, monVars>>
  \/ /\ focus = "cache" /\ CacheNext
     /\ UNCHANGED <<pinVars, hookVars, recVars, keyVars, auditVars, limiterVars, monVars>>
  \/ /\ focus = "reconciliation" /\ RecNext
     /\ UNCHANGED <<pinVars, hookVars, keyVars, auditVars, limiterVars, monVars>>
  \/ /\ focus = "keys" /\ KeyNext
     /\ UNCHANGED <<pinVars, hookVars, onChain, cacheVars, recVars, auditVars, limiterVars, monVars>>
  \/ /\ focus = "audit" /\ AuditNext
     /\ UNCHANGED <<pinVars, hookVars, onChain, cacheVars, recVars, keyVars, limiterVars, monVars>>
  \/ /\ focus = "limiter" /\ LimiterNext
     /\ UNCHANGED <<pinVars, hookVars, onChain, cacheVars, recVars, keyVars, auditVars, monVars>>
  \/ /\ focus = "monitor" /\ MonNext
     /\ UNCHANGED <<pinVars, hookVars, onChain, cacheVars, recVars, keyVars, auditVars,
                    limiterVars>>

WebNext ==
  \/ /\ focus = "submission" /\ TxNext
     /\ UNCHANGED <<feedVars, walletVars, asyncVars, streamVars, offlineVars>>
  \/ /\ focus = "feed" /\ FeedNext
     /\ UNCHANGED <<txVars, walletVars, asyncVars, streamVars, offlineVars>>
  \/ /\ focus = "wallet" /\ WalletNext
     /\ UNCHANGED <<txVars, feedVars, asyncVars, streamVars, offlineVars>>
  \/ /\ focus = "hook" /\ AsyncNext
     /\ UNCHANGED <<txVars, feedVars, walletVars, streamVars, offlineVars>>
  \/ /\ focus = "stream" /\ StreamNext
     /\ UNCHANGED <<txVars, feedVars, walletVars, asyncVars, offlineVars>>
  \/ /\ focus = "connection" /\ OfflineNext /\ OneTab
     /\ UNCHANGED <<txVars, feedVars, walletVars, asyncVars, streamVars>>
  \/ /\ focus = "tabs" /\ OfflineNext
     /\ UNCHANGED <<txVars, feedVars, walletVars, asyncVars, streamVars>>

ServicesNext ==
  /\ UNCHANGED focus
  /\ \/ focus \in JobFocus /\ JobNext /\ UNCHANGED <<storeVars, webVars>>
     \/ focus \in StoreFocus /\ StoreNext /\ UNCHANGED <<jobVars, webVars>>
     \/ focus \in WebFocus /\ WebNext /\ UNCHANGED <<jobVars, storeVars>>

MCServicesSpec == ServicesInit /\ [][ServicesNext]_servicesVars
=============================================================================
