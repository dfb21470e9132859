-------------------------- MODULE GroupGovernance ---------------------------
(***************************************************************************)
(* Status changes the creator or the members decide on: pause and resume,  *)
(* disputes and cancellation (contract.rs), and the votes on dissolving    *)
(* the group and on changing the contribution amount (governance/).        *)
(***************************************************************************)
EXTENDS GroupStorage

pause_group ==
  /\ statusKey = "Active"
  /\ statusKey' = "Paused"
  /\ group' = [group EXCEPT !.paused = TRUE, !.status = "Paused"]
  /\ UNCHANGED <<memberVars, cycleVars, ledgerVars, voteVars>>

resume_group ==
  /\ statusKey = "Paused"
  /\ statusKey' = "Active"
  /\ group' = [group EXCEPT !.paused = FALSE, !.status = "Active"]
  /\ UNCHANGED <<memberVars, cycleVars, ledgerVars, voteVars>>

\* Cancelling writes the status entry only.
cancel_group ==
  /\ statusKey \notin Terminal
  /\ statusKey' = "Cancelled"
  /\ UNCHANGED <<group, memberVars, cycleVars, ledgerVars, voteVars>>

-----------------------------------------------------------------------------
(* Disputes: more than half of the members pause the group, whatever its   *)
(* status is.                                                              *)

raise_dispute(m) ==
  LET count == disputeCount + 1
      autoPaused == count >= group.memberCount \div 2 + 1
  IN
  /\ is_active_member(m)
  /\ m \notin disputeVotes
  /\ disputeVotes' = disputeVotes \cup {m}
  /\ disputeCount' = count
  /\ \/ /\ autoPaused
        /\ group' = [group EXCEPT !.disputeActive = TRUE, !.paused = TRUE,
                                  !.status = "Paused"]
        /\ statusKey' = "Paused"
     \/ /\ ~autoPaused
        /\ UNCHANGED groupVars
  /\ UNCHANGED <<memberVars, cycleVars, ledgerVars, dissolveVars, changeVars>>

resolve_dispute ==
  /\ group.disputeActive
  /\ group' = [group EXCEPT !.disputeActive = FALSE, !.paused = FALSE,
                            !.status = "Active"]
  /\ statusKey' = "Active"
  /\ disputeCount' = 0
  /\ disputeVotes' = disputeVotes \ ListedMembers
  /\ UNCHANGED <<memberVars, cycleVars, ledgerVars, dissolveVars, changeVars>>

-----------------------------------------------------------------------------
(* Dissolution: the last vote cancels the group and returns the current    *)
(* cycle's contributions.                                                  *)

DueRefund ==
  {m \in ListedMembers :
     /\ eligibility[m] # NoPosition
     /\ ~has_received_payout(m)
     /\ contribution[group.currentCycle][m] # 0
     /\ m \notin refunded[group.currentCycle]}

execute_dissolution ==
  \E total \in Funds :
    LET c == group.currentCycle IN
    /\ total = MapThenSumSet(LAMBDA m : contribution[c][m], DueRefund)
    /\ TokensAvailable(total)
    /\ group' = [group EXCEPT !.status = "Cancelled", !.isActive = FALSE]
    /\ statusKey' = "Cancelled"
    /\ refunded' = [refunded EXCEPT ![c] = @ \cup DueRefund]
    /\ held' = held - total

vote_dissolve(m) ==
  /\ statusKey \in {"Active", "Paused"}
  /\ is_active_member(m)
  /\ m \notin dissolveVotes
  /\ dissolveVotes' = dissolveVotes \cup {m}
  /\ dissolveCount' = dissolveCount + 1
  /\ \/ /\ dissolveCount + 1 >= group.memberCount
        /\ execute_dissolution
     \/ /\ dissolveCount + 1 < group.memberCount
        /\ UNCHANGED <<groupVars, refunded, held>>
  /\ UNCHANGED <<memberVars, contributionVars, payoutVars, autoContribute,
                 ledgerVars, disputeVars, changeVars>>

-----------------------------------------------------------------------------
(* Changing the contribution amount.                                       *)

set_dynamic_contributions(allowed) ==
  /\ group.status = "Pending"
  /\ group' = [group EXCEPT !.dynamic = allowed]
  /\ UNCHANGED <<statusKey, memberVars, cycleVars, ledgerVars, voteVars>>

\* A new proposal resets the tally, not the record of who has voted.
propose_contribution_change(amount) ==
  /\ group.dynamic
  /\ group.status = "Active"
  /\ pendingAmount' = amount
  /\ changeCount' = 0
  /\ UNCHANGED <<groupVars, memberVars, cycleVars, ledgerVars, disputeVars,
                 dissolveVars, changeVotes>>

\* The vote that reaches the majority applies the change at once, in the
\* middle of the current cycle (execute_contribution_change).
vote_contribution_change(m) ==
  LET count == changeCount + 1
      majority == group.memberCount \div 2 + 1
  IN
  /\ group.dynamic
  /\ is_active_member(m)
  /\ pendingAmount # 0
  /\ m \notin changeVotes
  /\ changeVotes' = changeVotes \cup {m}
  /\ \/ /\ count >= majority
        /\ group' = [group EXCEPT !.amount = pendingAmount]
        /\ pendingAmount' = 0
        /\ changeCount' = 0
     \/ /\ count < majority
        /\ changeCount' = count
        /\ UNCHANGED <<group, pendingAmount>>
  /\ UNCHANGED <<statusKey, memberVars, cycleVars, ledgerVars, disputeVars,
                 dissolveVars>>
=============================================================================
