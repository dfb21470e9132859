--------------------------- MODULE MCSavingsGroup ---------------------------
(***************************************************************************)
(* Instances of SavingsGroup for TLC.  Each specification keeps the        *)
(* operations that one question is about and leaves out the others, which  *)
(* would only multiply the states.                                         *)
(***************************************************************************)
EXTENDS SavingsGroupClaims, TLC

\* Members other than the creator are interchangeable.
MemberSymmetry == Permutations(Members \ {Creator})

\* The shortest way into a running group.
Begin == activate_group \/ \E m \in Members : join_group(m)

Withdrawals == \E m \in Members : emergency_withdraw(m)

Paying == execute_payout \/ tick \/ \E m \in Members : contribute(m)

-----------------------------------------------------------------------------

\* Every way of contributing that moves tokens, with payouts, ticks,
\* withdrawals and votes that change the amount between two payments.
EscrowMoves ==
  \/ Environment \/ Begin \/ Rotation \/ Withdrawals \/ AmountChanges

MCEscrow == Init /\ [][EscrowMoves]_vars

\* Everything that changes who is in the group, and who may still leave.
EnrolmentMoves == Enrolment \/ Reordering \/ Withdrawals \/ cancel_group

\* Removals, updates and status changes race with the first payments, and
\* money is returned while the rotation goes on.
LifecycleMoves ==
  \/ Environment \/ Begin \/ StatusChanges \/ Paying \/ Returns \/ Dissolution
  \/ \E m \in Members : remove_member(m)
  \/ \E a \in Amounts, d \in Durations, n \in Sizes : update_group(a, d, n)

\* Positions are assigned and members leave, without removals.
OrderMoves ==
  \/ Environment \/ Begin \/ Paying \/ Withdrawals
  \/ assign_sequential \/ assign_randomized \/ randomize_payout_order
  \/ \E m \in Members : raise_dispute(m)
  \/ resolve_dispute

MCOrder == Init /\ [][OrderMoves]_vars

\* A keeper ticks, ledgers close and temporary entries expire.
Fairness == WF_vars(tick) /\ WF_vars(LedgerCloses) /\ WF_vars(GuardExpires)

KeeperMoves ==
  \/ Environment \/ Begin \/ Paying \/ Withdrawals \/ Dissolution \/ Unfunded
  \/ pause_group \/ resume_group \/ cancel_group

MCKeeper == Init /\ [][KeeperMoves]_vars /\ Fairness

-----------------------------------------------------------------------------
(* The specifications of the runs that end in a counterexample.            *)

RemovalMoves ==
  \/ Environment \/ Begin \/ Paying \/ assign_sequential
  \/ \E m \in Members : remove_member(m)

MCRemovals == Init /\ [][RemovalMoves]_vars

MCRefunds == Init /\ [][LifecycleMoves]_vars

\* A group stored as create_group stores it: everyone keeps trying to join.
MCCreated ==
  /\ Init
  /\ [][Next]_vars
  /\ \A m \in Members : WF_vars(join_group(m))
=============================================================================
