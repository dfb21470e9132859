---------------------------- MODULE SavingsGroup ----------------------------
(***************************************************************************)
(* One savings group of the stellar-save contract: the operations of       *)
(* GroupMembership, GroupCycles and GroupGovernance interleaved with the   *)
(* passing of ledger time.  The specifications differ in the operations    *)
(* they allow, so that a property can be stated where it holds and refuted *)
(* where it does not.                                                      *)
(***************************************************************************)
EXTENDS GroupMembership, GroupCycles, GroupGovernance

Environment == LedgerCloses \/ GuardExpires

\* Membership before the group starts, except for what re-orders it by hand.
Enrolment ==
  \/ \E m \in Members : join_group(m) \/ invite_member(m) \/ revoke_invitation(m)
  \/ assign_sequential \/ assign_randomized \/ randomize_payout_order
  \/ \E enabled \in BOOLEAN : set_invitation_only(enabled)
  \/ \E a \in Amounts, d \in Durations, n \in Sizes : update_group(a, d, n)
  \/ activate_group

Reordering == assign_manual \/ \E m \in Members : remove_member(m)

\* Contributions that move tokens, and payouts.
Rotation ==
  \/ \E m \in Members : contribute(m)
  \/ \E m \in Members, cs \in SUBSET Cycles : contribute_batch(m, cs)
  \/ \E m \in Members : enable_auto_contribute(m) \/ disable_auto_contribute(m)
  \/ \E able \in SUBSET Members : execute_auto_contributions(able)
  \/ execute_payout
  \/ tick

\* Operations that give tokens back to the contributor.
Returns ==
  \/ \E m \in Members, c \in Cycles : request_refund(m, c)
  \/ \E m \in Members : emergency_withdraw(m)

\* Status changes that move no tokens.
StatusChanges ==
  \/ pause_group \/ resume_group \/ cancel_group
  \/ \E m \in Members : raise_dispute(m)
  \/ resolve_dispute

AmountChanges ==
  \/ \E allowed \in BOOLEAN : set_dynamic_contributions(allowed)
  \/ \E a \in Amounts : propose_contribution_change(a)
  \/ \E m \in Members : vote_contribution_change(m)

Dissolution == \E m \in Members : vote_dissolve(m)

Unfunded == \E m \in Members : contribute_with_proof(m)

-----------------------------------------------------------------------------

\* Every operation of the contract on one group.
Next ==
  \/ Environment \/ Enrolment \/ Reordering \/ Rotation \/ Returns
  \/ StatusChanges \/ AmountChanges \/ Dissolution \/ Unfunded

Spec == Init /\ [][Next]_vars

\* The positions are those of joining or of assign_payout_positions in its
\* sequential and randomized modes, and nobody is removed.
OrderedNext ==
  \/ Environment \/ Enrolment \/ Rotation \/ Returns
  \/ StatusChanges \/ AmountChanges \/ Dissolution \/ Unfunded

OrderedSpec == Init /\ [][OrderedNext]_vars

\* Tokens enter by contributions and leave by payouts and withdrawals.
EscrowNext ==
  \/ Environment \/ Enrolment \/ Reordering \/ Rotation
  \/ StatusChanges \/ AmountChanges
  \/ \E m \in Members : emergency_withdraw(m)

EscrowSpec == Init /\ [][EscrowNext]_vars

-----------------------------------------------------------------------------
(* Properties.                                                             *)

\* The rotation the group promises its members.
R == INSTANCE Rosca WITH
       People <- Members, Nobody <- NoMember, LastRound <- MaxSize,
       Money <- Nat, round <- group.currentCycle, pot <- cycleTotal,
       recipient <- payoutRecipient, paid <- payoutAmount

\* Whatever the members, the creator and the keeper do, in whatever order, the
\* group behaves as a rotation: a payout hands over exactly what its cycle
\* collected and closes it, and a closed cycle is never touched again.
IsRosca == R!RoscaSpec

\* Every recipient holds exactly what the cycle has collected, even when the
\* amount was changed by a vote between two of its contributions or some of
\* it was paid in advance: nobody is owed more, and nobody is owed less.
PaidInFull == R!PaidInFull

\* Neither a late contribution, a tick that repeats a payout nor a second
\* payout ever changes the recipient, the amount or the pot of a paid cycle.
PaymentsFinal == R!PaidIsFinal

\* The counters the payout decision is taken from agree with the records:
\* record_contribution_unchecked keeps cycle_total the sum, and cycle_count
\* the number, of the contribution records of the cycle.
BooksMatchRecords ==
  \A c \in Cycles :
    /\ cycleTotal[c] = MapThenSumSet(LAMBDA m : contribution[c][m], Members)
    /\ cycleCount[c] = Cardinality({m \in Members : contribution[c][m] # 0})

\* While the status entry says Pending the group holds no money and has not
\* begun: the operations guarded by it (remove_member, update_group,
\* assign_payout_positions) can never disturb a running group, although the
\* status field that contributions are guarded by is a separate copy.
PendingMeansUntouched ==
  statusKey = "Pending" =>
    /\ group.status = InitialStatus
    /\ ~group.started
    /\ group.currentCycle = 0
    /\ \A c \in Cycles : cycleCount[c] = 0

\* The rotation never runs past its last cycle, whoever ticks or pays, and
\* whatever update_group made of max_members before the start.
CycleInRange == group.currentCycle <= group.maxMembers

\* member_count, the number of contributions that completes a cycle, is never
\* smaller than the number of members who can contribute: a payout never goes
\* out while a member of the group has yet to pay.
CountCoversMembers ==
  Cardinality({m \in Members : is_active_member(m)}) <= group.memberCount

\* The group's two counters account for its tokens, to the last one: what is
\* held is what was contributed and not paid out (get_group_balance).
Conservation == held = groupBalance - totalPaidOut

RefundedTotal ==
  MapThenSumSet(
    LAMBDA c : MapThenSumSet(LAMBDA m : contribution[c][m], refunded[c]), Cycles)

\* With refunds as well, what is missing from the counters is exactly what
\* the refund records say was returned: request_refund adjusts no counter.
RefundsAccounted == held = groupBalance - totalPaidOut - RefundedTotal

\* Nobody is paid in two cycles of the rotation.
NobodyPaidTwice ==
  \A c, d \in Cycles :
    payoutRecipient[c] # NoMember /\ payoutRecipient[c] = payoutRecipient[d]
      => c = d

\* The dispute counter that pauses the group counts the members who have a
\* vote on record, across rounds: resolve_dispute forgets all of them.
DisputeTally == disputeCount = Cardinality(disputeVotes)

\* Unless it is dissolved, a started group whose every position is taken gets
\* to the end of its rotation, whoever defaults, withdraws or pauses it, as
\* long as someone calls tick.  (DeadlineAdvances shows that a group that was
\* started with fewer members may not.)
RotationEnds ==
  group.started ~> (is_complete(group) \/ group.status = "Cancelled")
=============================================================================
