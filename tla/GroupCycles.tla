---------------------------- MODULE GroupCycles -----------------------------
(***************************************************************************)
(* The money operations of a group: contributions (contract.rs), payouts   *)
(* (payout_executor.rs, pool.rs), the deadline tick, refunds (refund.rs)   *)
(* and emergency withdrawals.                                              *)
(*                                                                         *)
(* execute_payout stores its reentrancy guard as the literal 1, which      *)
(* Soroban encodes as an i32, and never clears it.  Readers ask for a u64, *)
(* so while the entry lives every reader traps.  The entry is shared by    *)
(* all groups and dies with its time to live (GuardExpires).               *)
(***************************************************************************)
EXTENDS GroupStorage

\* Mutant: a batch adds one cycle's amount to the balance.
RecordContributions_once(members, cycles) ==
  LET new(c, m) == c \in cycles /\ m \in members IN
  /\ contribution' = [c \in Cycles |-> [m \in Members |->
         IF new(c, m) THEN group.amount ELSE contribution[c][m]]]
  /\ cycleTotal' = [c \in Cycles |-> IF c \in cycles
         THEN cycleTotal[c] + group.amount * Cardinality(members)
         ELSE cycleTotal[c]]
  /\ cycleCount' = [c \in Cycles |-> IF c \in cycles
         THEN cycleCount[c] + Cardinality(members)
         ELSE cycleCount[c]]
  /\ groupBalance' = groupBalance + group.amount * Cardinality(members)

\* record_contribution_unchecked, for each of a set of members and cycles.
RecordContributions(members, cycles) ==
  LET new(c, m) == c \in cycles /\ m \in members IN
  /\ contribution' = [c \in Cycles |-> [m \in Members |->
         IF new(c, m) THEN group.amount ELSE contribution[c][m]]]
  /\ cycleTotal' = [c \in Cycles |-> IF c \in cycles
         THEN cycleTotal[c] + group.amount * Cardinality(members)
         ELSE cycleTotal[c]]
  /\ cycleCount' = [c \in Cycles |-> IF c \in cycles
         THEN cycleCount[c] + Cardinality(members)
         ELSE cycleCount[c]]
  /\ groupBalance' =
         groupBalance + group.amount * Cardinality(members) * Cardinality(cycles)

\* External: transfer_from moves the members' tokens to the contract.
ReceiveTokens(members, cycles) ==
  held' = held + group.amount * Cardinality(members) * Cardinality(cycles)

contribute(m) ==
  /\ group.status = "Active"
  /\ ~is_cycle_deadline_passed
  /\ is_active_member(m)
  /\ ~guard
  /\ contribution[group.currentCycle][m] = 0
  /\ RecordContributions({m}, {group.currentCycle})
  /\ ReceiveTokens({m}, {group.currentCycle})
  /\ UNCHANGED <<groupVars, memberVars, payoutVars, refunded, autoContribute,
                 ledgerVars, voteVars>>

\* No deadline, and no upper bound on the cycles paid for in advance.
contribute_batch(m, cycles) ==
  /\ cycles # {}
  /\ group.status = "Active"
  /\ is_active_member(m)
  /\ \A c \in cycles : c >= group.currentCycle /\ contribution[c][m] = 0
  /\ RecordContributions({m}, cycles)
  /\ ReceiveTokens({m}, cycles)
  /\ UNCHANGED <<groupVars, memberVars, payoutVars, refunded, autoContribute,
                 ledgerVars, voteVars>>

\* The contribution is recorded; no token is moved and no deadline checked.
contribute_with_proof(m) ==
  /\ group.status = "Active"
  /\ is_active_member(m)
  /\ contribution[group.currentCycle][m] = 0
  /\ RecordContributions({m}, {group.currentCycle})
  /\ UNCHANGED <<groupVars, memberVars, payoutVars, refunded, autoContribute,
                 held, ledgerVars, voteVars>>

enable_auto_contribute(m) ==
  /\ group.status = "Active"
  /\ is_active_member(m)
  /\ autoContribute' = autoContribute \cup {m}
  /\ UNCHANGED <<groupVars, memberVars, contributionVars, payoutVars,
                 refunded, held, ledgerVars, voteVars>>

disable_auto_contribute(m) ==
  /\ is_active_member(m)
  /\ autoContribute' = autoContribute \ {m}
  /\ UNCHANGED <<groupVars, memberVars, contributionVars, payoutVars,
                 refunded, held, ledgerVars, voteVars>>

\* Mutant: members who have already contributed are charged again.
execute_auto_contributions_again(able) ==
  /\ group.status = "Active"
  /\ mapStored
  /\ able \subseteq ListedMembers \cap autoContribute
  /\ RecordContributions(able, {group.currentCycle})
  /\ ReceiveTokens(able, {group.currentCycle})
  /\ UNCHANGED <<groupVars, memberVars, payoutVars, refunded, autoContribute,
                 ledgerVars, voteVars>>

\* able: the flagged members whose token balance and allowance suffice.
\* Listed members are charged whether or not they still have a profile.
execute_auto_contributions(able) ==
  LET c == group.currentCycle
      due == {m \in ListedMembers \cap autoContribute : contribution[c][m] = 0}
  IN
  /\ group.status = "Active"
  /\ mapStored
  /\ able \subseteq due
  /\ RecordContributions(able, {c})
  /\ ReceiveTokens(able, {c})
  /\ UNCHANGED <<groupVars, memberVars, payoutVars, refunded, autoContribute,
                 ledgerVars, voteVars>>

-----------------------------------------------------------------------------
(* Payouts.                                                                *)

\* calculate_total_pool: what the recipient of a cycle is paid.
TotalPool == group.amount * group.memberCount

\* validate_pool_ready_for_payout.
PoolReady ==
  /\ group.memberCount > 0
  /\ cycleCount[group.currentCycle] >= group.memberCount
  /\ cycleTotal[group.currentCycle] = TotalPool

\* The checks that make execute_payout return Err before it looks for the
\* recipient.
PayoutAllowed ==
  /\ ~group.paused
  /\ group.status = "Active"
  /\ ~group.disputeActive
  /\ payoutRecipient[group.currentCycle] = NoMember
  /\ PoolReady

\* identify_recipient.  Only a sequential order with an index entry finds
\* one: every other path reads the group_members map as a Vec and traps.
RecipientFound ==
  /\ PayoutOrder = "Sequential"
  /\ positionIndex[group.currentCycle] # NoMember
  /\ group.currentCycle < group.memberCount

\* verify_recipient_eligibility and verify_contract_balance.
RecipientPayable ==
  /\ is_active_member(positionIndex[group.currentCycle])
  /\ TokensAvailable(TotalPool)

PayoutSucceeds ==
  ~guard /\ PayoutAllowed /\ RecipientFound /\ RecipientPayable

\* The invocation returns Err; in every case not listed it traps.
PayoutReturnsErr ==
  /\ ~guard
  /\ \/ ~PayoutAllowed
     \/ PayoutAllowed /\ RecipientFound /\ ~RecipientPayable

\* record_payout, the paid-out counter and execute_transfer.
PayRecipient ==
  LET c == group.currentCycle IN
  /\ payoutRecipient' = [payoutRecipient EXCEPT ![c] = positionIndex[c]]
  /\ payoutAmount' = [payoutAmount EXCEPT ![c] = TotalPool]
  /\ totalPaidOut' = totalPaidOut + TotalPool
  /\ held' = held - TotalPool

\* payout_in_progress is set and cleared within the invocation, and the
\* status entry is not written when the last payout completes the group.
execute_payout ==
  /\ PayoutSucceeds
  /\ ~is_complete(group)
  /\ PayRecipient
  /\ group' = advance_cycle(group)
  /\ guard' = TRUE
  /\ UNCHANGED <<statusKey, memberVars, contributionVars, refunded,
                 autoContribute, now, voteVars>>

\* Mutant: an Err of execute_payout is returned instead of caught.
tick_returning_err ==
  /\ group.isActive
  /\ ~is_complete(group)
  /\ is_cycle_deadline_passed
  /\ \/ /\ cycleCount[group.currentCycle] >= group.memberCount
        /\ PayoutSucceeds
        /\ PayRecipient
        /\ guard' = TRUE
     \/ /\ cycleCount[group.currentCycle] < group.memberCount
        /\ UNCHANGED <<payoutVars, held, guard>>
  /\ group' = advance_cycle(group)
  /\ UNCHANGED <<statusKey, memberVars, contributionVars, refunded,
                 autoContribute, now, voteVars>>

\* Mutant: tick stores the group that execute_payout has already advanced.
tick_advancing_twice ==
  /\ group.isActive
  /\ ~is_complete(group)
  /\ is_cycle_deadline_passed
  /\ \/ /\ cycleCount[group.currentCycle] >= group.memberCount
        /\ PayoutSucceeds
        /\ PayRecipient
        /\ guard' = TRUE
        /\ group' = advance_cycle(advance_cycle(group))
     \/ /\ cycleCount[group.currentCycle] < group.memberCount
        /\ UNCHANGED <<payoutVars, held, guard>>
        /\ group' = advance_cycle(group)
  /\ UNCHANGED <<statusKey, memberVars, contributionVars, refunded,
                 autoContribute, now, voteVars>>

\* tick.  An Err of execute_payout is caught: the cycle advances unpaid and
\* only the guard remains of what execute_payout wrote.  A trap is not
\* caught, and the whole tick is undone.
tick ==
  /\ group.isActive
  /\ ~is_complete(group)
  /\ is_cycle_deadline_passed
  /\ \/ /\ cycleCount[group.currentCycle] >= group.memberCount
        /\ PayoutSucceeds
        /\ PayRecipient
        /\ guard' = TRUE
     \/ /\ cycleCount[group.currentCycle] >= group.memberCount
        /\ PayoutReturnsErr
        /\ guard' = TRUE
        /\ UNCHANGED <<payoutVars, held>>
     \/ /\ cycleCount[group.currentCycle] < group.memberCount
        /\ UNCHANGED <<payoutVars, held, guard>>
  /\ group' = advance_cycle(group)
  /\ UNCHANGED <<statusKey, memberVars, contributionVars, refunded,
                 autoContribute, now, voteVars>>

-----------------------------------------------------------------------------
(* Refunds and withdrawals.                                                *)

\* Mutant: an earlier refund is not looked up.
request_refund_again(m, c) ==
  /\ contribution[c][m] # 0
  /\ statusKey # "Completed"
  /\ TokensAvailable(contribution[c][m])
  /\ refunded' = [refunded EXCEPT ![c] = @ \cup {m}]
  /\ held' = held - contribution[c][m]
  /\ UNCHANGED <<groupVars, memberVars, contributionVars, payoutVars,
                 autoContribute, ledgerVars, voteVars>>

\* The payout_status entry that should refuse a refund after the payout is
\* never written, so only the status entry decides.
request_refund(m, c) ==
  /\ contribution[c][m] # 0
  /\ m \notin refunded[c]
  /\ statusKey # "Completed"
  /\ TokensAvailable(contribution[c][m])
  /\ refunded' = [refunded EXCEPT ![c] = @ \cup {m}]
  /\ held' = held - contribution[c][m]
  /\ UNCHANGED <<groupVars, memberVars, contributionVars, payoutVars,
                 autoContribute, ledgerVars, voteVars>>

\* get_member_total_contributions.
MemberTotal(m) ==
  MapThenSumSet(LAMBDA c : contribution[c][m], 0..group.currentCycle)

\* The last-activity entry is the cycle total, read as a u64: the read traps
\* when it is present, so nobody can withdraw from a cycle that has a
\* contribution.  Otherwise the time since started_at decides.
emergency_withdraw(m) ==
  \E amount \in Funds :
    /\ is_active_member(m)
    /\ ~is_complete(group)
    /\ cycleCount[group.currentCycle] = 0
    /\ now - group.startedAt >= 2 * group.duration
    /\ amount = IF has_received_payout(m) THEN 0 ELSE MemberTotal(m)
    /\ TokensAvailable(amount)
    /\ groupBalance' = groupBalance - amount
    /\ held' = held - amount
    /\ profile' = [profile EXCEPT ![m] = NoPosition]
    /\ UNCHANGED <<groupVars, eligibility, memberMap, mapStored,
                   positionIndex, sequenceStored, invitations, contribution,
                   cycleTotal, cycleCount, payoutVars, refunded,
                   autoContribute, ledgerVars, voteVars>>

-----------------------------------------------------------------------------
(* The environment.                                                        *)

\* External: ledgers close.  Before activation no operation that can succeed
\* depends on how late it is, so the clock starts with the group.
LedgerCloses ==
  /\ group.started
  /\ now < MaxTime
  /\ now' = now + 1
  /\ UNCHANGED <<groupVars, memberVars, cycleVars, guard, voteVars>>

\* External: the temporary entry's time to live runs out.
GuardExpires ==
  /\ guard
  /\ guard' = FALSE
  /\ UNCHANGED <<groupVars, memberVars, cycleVars, now, voteVars>>
=============================================================================
