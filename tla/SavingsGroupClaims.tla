------------------------- MODULE SavingsGroupClaims -------------------------
(***************************************************************************)
(* Statements that the repository's documentation, comments and tests make *)
(* about a savings group and that its code does not keep.  Each is checked *)
(* by a run that ends in a counterexample.                                 *)
(***************************************************************************)
EXTENDS SavingsGroup

\* docs/faq.md: contributions stay under the group's own escrow pool until a
\* payout; one group's operations leave the other groups' tokens alone.
OtherGroupsUntouched == held >= 0

\* refund.rs: in a running group a contribution is returned only as long as
\* its cycle has not been paid out.
RefundOnlyUnpaid ==
  [][\A c \in Cycles :
       refunded'[c] # refunded[c] => payoutRecipient[c] = NoMember]_vars

\* contract.rs, tick: anyone can advance the cycle once its deadline is past.
DeadlineAdvances ==
  \A c \in Cycles :
    (group.isActive /\ group.currentCycle = c /\ is_cycle_deadline_passed)
      ~> (group.currentCycle > c \/ ~group.isActive)

\* tests/integration_tests.rs: members join the group that was created.
MembersJoin == <>(group.memberCount > 0)
=============================================================================
