---------------------------- MODULE GroupStorage ----------------------------
(***************************************************************************)
(* The persistent and temporary storage that one savings group owns in the *)
(* stellar-save contract, the token balance it is responsible for, and the *)
(* ledger clock.  The operations on it are in GroupMembership, GroupCycles *)
(* and GroupGovernance; SavingsGroup composes them.                        *)
(*                                                                         *)
(* A Soroban invocation is atomic: one that returns Err or traps leaves    *)
(* storage as it was.  An operation is therefore one action, enabled when  *)
(* the invocation returns Ok, and its failing paths are steps that change  *)
(* nothing.  The exception is an Err that the contract itself catches (see *)
(* tick in GroupCycles).                                                   *)
(***************************************************************************)
EXTENDS Integers, FiniteSets, FiniteSetsExt

CONSTANTS
  Members,        \* the addresses that may take part in the group
  Creator,        \* group.creator, who may also be a member
  NoMember,       \* an absent storage entry of type Address
  MaxSize,        \* the largest max_members the contract config admits
  MinMembers,     \* group.min_members, and the smallest max_members
  Amounts,        \* the contribution amounts the contract config admits
  Durations,      \* the cycle durations the contract config admits
  Grace,          \* group.grace_period_seconds
  Genesis,        \* the ledger timestamp when the group is created
  MaxTime,        \* bound: the last ledger timestamp considered
  MaxFunds,       \* bound: the largest amount one invocation transfers
  OtherFunds,     \* tokens the contract holds for its other groups
  InitialStatus,  \* the status field with which the group is first stored
  PayoutOrder     \* group.payout_order

Statuses == {"Pending", "Active", "Paused", "Completed", "Cancelled"}
Terminal == {"Completed", "Cancelled"}
Sizes == MinMembers..MaxSize
Cycles == 0..MaxSize
Positions == 0..MaxSize
NoPosition == MaxSize + 1
Funds == 0..MaxFunds

ASSUME SizesAssumption ==
  /\ MaxSize \in Nat \ {0}
  /\ MinMembers \in 1..MaxSize

ASSUME MembersAssumption ==
  /\ IsFiniteSet(Members)
  /\ NoMember \notin Members

ASSUME AmountsAssumption ==
  /\ Amounts \subseteq Nat \ {0}
  /\ Amounts # {}
  /\ Durations \subseteq Nat \ {0}
  /\ Durations # {}
  /\ Grace \in Nat
  /\ MaxTime \in Nat
  /\ MaxFunds \in Nat
  /\ OtherFunds \in Nat

\* Ledger time is a Unix timestamp: far more than two cycles after time 0.
ASSUME GenesisAssumption ==
  /\ Genesis \in Nat
  /\ Genesis <= MaxTime
  /\ \A d \in Durations : 2 * d <= Genesis

ASSUME GroupAssumption ==
  /\ InitialStatus \in {"Pending", "Active"}
  /\ PayoutOrder \in {"Sequential", "Random", "Bid"}

VARIABLES
  group,            \* the Group struct
  statusKey,        \* the separate group_status entry
  profile,          \* member_profile: payout_position, NoPosition when absent
  eligibility,      \* member_payout_eligibility, NoPosition when absent
  memberMap,        \* group_members: a Map<u32, Address>
  mapStored,        \* whether group_members is present, empty or not
  positionIndex,    \* group_payout_position_index
  sequenceStored,   \* whether payout_sequence is present
  invitations,      \* group_invitations
  contribution,     \* contribution_individual amounts, 0 when absent
  cycleTotal,       \* contribution_cycle_total
  cycleCount,       \* contribution_cycle_count
  groupBalance,     \* group_balance
  totalPaidOut,     \* group_total_paid_out
  payoutRecipient,  \* payout_recipient
  payoutAmount,     \* the amount of payout_record, 0 when absent
  refunded,         \* who has a refund_record, by cycle
  autoContribute,   \* who has the member_auto_contribute flag
  held,             \* tokens in the contract's account due to this group
  guard,            \* reentrancy_guard left non-zero in temporary storage
  now,              \* env.ledger().timestamp()
  disputeVotes,     \* who has a group_dispute_vote
  disputeCount,     \* dispute_count
  dissolveVotes,    \* who has a dissolve vote
  dissolveCount,    \* the dissolve vote count
  pendingAmount,    \* contribution_pending_amount, 0 when absent
  changeVotes,      \* who has a contribution-change vote
  changeCount       \* contribution_amount_vote_count

groupVars == <<group, statusKey>>
memberVars == <<profile, eligibility, memberMap, mapStored, positionIndex,
                sequenceStored, invitations>>
contributionVars == <<contribution, cycleTotal, cycleCount, groupBalance>>
payoutVars == <<totalPaidOut, payoutRecipient, payoutAmount>>
disputeVars == <<disputeVotes, disputeCount>>
dissolveVars == <<dissolveVotes, dissolveCount>>
changeVars == <<pendingAmount, changeVotes, changeCount>>
voteVars == <<disputeVars, dissolveVars, changeVars>>
cycleVars == <<contributionVars, payoutVars, refunded, autoContribute, held>>
ledgerVars == <<guard, now>>
vars == <<groupVars, memberVars, cycleVars, ledgerVars, voteVars>>

GroupRecords ==
  [status: Statuses, isActive: BOOLEAN, started: BOOLEAN, startedAt: Nat,
   paused: BOOLEAN, disputeActive: BOOLEAN, memberCount: Nat,
   currentCycle: Cycles, maxMembers: Sizes, amount: Amounts,
   duration: Durations, dynamic: BOOLEAN, invitationOnly: BOOLEAN]

-----------------------------------------------------------------------------
(* Group methods and readers used by several operations.                   *)

is_complete(g) == g.currentCycle >= g.maxMembers \/ g.status = "Completed"

advance_cycle(g) ==
  LET next == [g EXCEPT !.currentCycle = @ + 1] IN
  IF is_complete(next)
  THEN [next EXCEPT !.status = "Completed", !.isActive = FALSE]
  ELSE next

CycleDeadline == group.startedAt + group.duration * (group.currentCycle + 1)

is_cycle_deadline_passed == group.started /\ now > CycleDeadline + Grace

is_active_member(m) == profile[m] # NoPosition

has_received_payout(m) ==
  /\ eligibility[m] # NoPosition
  /\ payoutRecipient[eligibility[m]] = m

\* The keys of the group_members map, and the members it lists.
ListedKeys == {k \in Positions : memberMap[k] # NoMember}
ListedMembers == {memberMap[k] : k \in ListedKeys}

\* External: the token contract lets the contract pay out what it holds.
TokensAvailable(amount) == held + OtherFunds >= amount

-----------------------------------------------------------------------------
(* A group as it is first stored, before anyone has joined.                *)

InitGroup ==
  /\ \E a \in Amounts, d \in Durations, n \in Sizes :
       group = [status |-> InitialStatus, isActive |-> TRUE,
                started |-> FALSE, startedAt |-> 0, paused |-> FALSE,
                disputeActive |-> FALSE, memberCount |-> 0,
                currentCycle |-> 0, maxMembers |-> n, amount |-> a,
                duration |-> d, dynamic |-> FALSE, invitationOnly |-> FALSE]
  /\ statusKey = "Pending"

InitStorage ==
  /\ profile = [m \in Members |-> NoPosition]
  /\ eligibility = [m \in Members |-> NoPosition]
  /\ memberMap = [p \in Positions |-> NoMember]
  /\ positionIndex = [p \in Positions |-> NoMember]
  /\ mapStored = FALSE
  /\ sequenceStored = FALSE
  /\ invitations = {}
  /\ contribution = [c \in Cycles |-> [m \in Members |-> 0]]
  /\ cycleTotal = [c \in Cycles |-> 0]
  /\ cycleCount = [c \in Cycles |-> 0]
  /\ groupBalance = 0
  /\ totalPaidOut = 0
  /\ payoutRecipient = [c \in Cycles |-> NoMember]
  /\ payoutAmount = [c \in Cycles |-> 0]
  /\ refunded = [c \in Cycles |-> {}]
  /\ autoContribute = {}
  /\ held = 0
  /\ guard = FALSE
  /\ now = Genesis
  /\ disputeVotes = {} /\ disputeCount = 0
  /\ dissolveVotes = {} /\ dissolveCount = 0
  /\ pendingAmount = 0 /\ changeVotes = {} /\ changeCount = 0

Init == InitGroup /\ InitStorage

GroupTypeOK == group \in GroupRecords /\ statusKey \in Statuses

MemberTypeOK ==
  /\ profile \in [Members -> Positions \cup {NoPosition}]
  /\ eligibility \in [Members -> Positions \cup {NoPosition}]
  /\ memberMap \in [Positions -> Members \cup {NoMember}]
  /\ mapStored \in BOOLEAN
  /\ positionIndex \in [Positions -> Members \cup {NoMember}]
  /\ sequenceStored \in BOOLEAN
  /\ invitations \subseteq Members

ContributionTypeOK ==
  /\ contribution \in [Cycles -> [Members -> Amounts \cup {0}]]
  /\ cycleTotal \in [Cycles -> Nat]
  /\ cycleCount \in [Cycles -> Nat]
  /\ groupBalance \in Int

PayoutTypeOK ==
  /\ totalPaidOut \in Nat
  /\ payoutRecipient \in [Cycles -> Members \cup {NoMember}]
  /\ payoutAmount \in [Cycles -> Nat]

ReturnTypeOK ==
  /\ refunded \in [Cycles -> SUBSET Members]
  /\ autoContribute \subseteq Members
  /\ held \in Int

LedgerTypeOK == guard \in BOOLEAN /\ now \in Nat

VoteTypeOK ==
  /\ disputeVotes \subseteq Members /\ disputeCount \in Nat
  /\ dissolveVotes \subseteq Members /\ dissolveCount \in Nat
  /\ pendingAmount \in Amounts \cup {0}
  /\ changeVotes \subseteq Members /\ changeCount \in Nat

\* Every storage entry holds a value of the type the contract reads it as.
TypeOK ==
  /\ GroupTypeOK
  /\ MemberTypeOK
  /\ ContributionTypeOK
  /\ PayoutTypeOK
  /\ ReturnTypeOK
  /\ LedgerTypeOK
  /\ VoteTypeOK
=============================================================================
