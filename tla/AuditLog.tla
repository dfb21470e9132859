------------------------------ MODULE AuditLog ------------------------------
(***************************************************************************)
(* The audit log (audit_event_log.ts): rows chained by hash, each naming   *)
(* the hash of the row that was the latest by createdAt when it was made.  *)
(* Several server processes append, each in a serializable transaction;    *)
(* createdAt comes from the process's own clock, and two rows may get the  *)
(* same one.  A hash is the number of its row, 0 the genesis hash.         *)
(***************************************************************************)
EXTENDS Integers, Sequences, FiniteSets, FiniteSetsExt

CONSTANTS
  Auditors,    \* the server processes
  MaxEntries,  \* bound: rows ever made
  MaxAuditTime,  \* bound: the clock
  MaxSkew      \* bound: how far ahead a clock may run

ASSUME AuditAssumption ==
  /\ IsFiniteSet(Auditors)
  /\ MaxEntries \in Nat /\ MaxAuditTime \in Nat /\ MaxSkew \in Nat

VARIABLES
  entries,    \* the rows, in the order of their commits
  auditor,    \* the transaction of each process
  auditClock,
  skew        \* how far ahead each clock runs

auditVars == <<entries, auditor, auditClock, skew>>

GENESIS_HASH == 0

NoTx == [step |-> "idle", prevHash |-> 0, createdAt |-> 0, snapshot |-> 0]

AuditInit ==
  /\ entries = <<>>
  /\ auditor = [p \in Auditors |-> NoTx]
  /\ auditClock = 0
  /\ skew \in [Auditors -> 0..MaxSkew]

-----------------------------------------------------------------------------

\* findFirst by createdAt, descending: any of the rows with the latest one.
latest ==
  IF entries = <<>> THEN {GENESIS_HASH}
  ELSE {i \in DOMAIN entries : \A j \in DOMAIN entries :
          entries[j].createdAt <= entries[i].createdAt}

\* record: the transaction reads the row to chain from; createdAt is taken when
\* the read returns.
recordBegins(p) ==
  /\ auditor[p].step = "idle"
  /\ \E h \in latest :
       auditor' = [auditor EXCEPT ![p] = [NoTx EXCEPT !.step = "read", !.prevHash = h,
                                                      !.snapshot = Len(entries)]]
  /\ UNCHANGED <<entries, auditClock, skew>>

hashComputed(p) ==
  /\ auditor[p].step = "read"
  /\ auditor' = [auditor EXCEPT ![p].step = "create", ![p].createdAt = auditClock + skew[p]]
  /\ UNCHANGED <<entries, auditClock, skew>>

mayCommit_always(p) == TRUE

\* Serializable: two transactions that read the same latest row and both insert
\* do not both commit.
mayCommit(p) == auditor[p].snapshot = Len(entries)

recordCommits(p) ==
  /\ auditor[p].step = "create" /\ mayCommit(p) /\ Len(entries) < MaxEntries
  /\ entries' = Append(entries, [prevHash |-> auditor[p].prevHash,
                                 createdAt |-> auditor[p].createdAt])
  /\ auditor' = [auditor EXCEPT ![p] = NoTx]
  /\ UNCHANGED <<auditClock, skew>>

\* The transaction is aborted, and nothing retries it: auditMiddleware logs that.
recordAborts(p) ==
  /\ auditor[p].step = "create" /\ ~mayCommit(p)
  /\ auditor' = [auditor EXCEPT ![p] = NoTx]
  /\ UNCHANGED <<entries, auditClock, skew>>

AuditTimePasses ==
  /\ auditClock < MaxAuditTime /\ auditClock' = auditClock + 1
  /\ UNCHANGED <<entries, auditor, skew>>

AuditNext ==
  \/ \E p \in Auditors : recordBegins(p) \/ hashComputed(p) \/ recordCommits(p) \/ recordAborts(p)
  \/ AuditTimePasses

-----------------------------------------------------------------------------
(* verify *)

\* The orders in which the database may return the rows by createdAt.
ByCreatedAt ==
  {s \in [DOMAIN entries -> DOMAIN entries] :
     /\ \A i, j \in DOMAIN s : i # j => s[i] # s[j]
     /\ \A i, j \in DOMAIN s : i < j => entries[s[i]].createdAt <= entries[s[j]].createdAt}

\* The positions at which prevHash is not the hash of the row before.
violations(s) ==
  {i \in DOMAIN s : entries[s[i]].prevHash # IF i = 1 THEN GENESIS_HASH ELSE s[i - 1]}

-----------------------------------------------------------------------------

\* The clocks put every row after the rows before it.
ClocksInOrder ==
  \A i, j \in DOMAIN entries : i < j => entries[i].createdAt < entries[j].createdAt

(***************************************************************************)
(* verify finds the untouched chain whole, and no two rows share their     *)
(* predecessor, as long as the clocks of the processes put the rows in the *)
(* order of their commits.  With two rows in one millisecond, or a clock   *)
(* that is behind, it may report a chain that nobody has touched.          *)
(***************************************************************************)
UntouchedChainVerifies ==
  ClocksInOrder => \A s \in ByCreatedAt : violations(s) = {}
=============================================================================
