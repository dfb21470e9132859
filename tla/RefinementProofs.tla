-------------------------- MODULE RefinementProofs --------------------------
(***************************************************************************)
(* SavingsGroup implements Rosca, for every number of members, cycle       *)
(* duration and contribution amount, and under every interleaving of the   *)
(* contract's operations: each step maps to Collect, Pay, Skip or to a     *)
(* stutter.  The only invariant needed is the type invariant.              *)
(***************************************************************************)
EXTENDS SavingsGroupProofs

\* The storage that the rotation is about.
rotationVars == <<group.currentCycle, cycleTotal, payoutRecipient, payoutAmount>>

\* Contributions only ever enter the open cycle or a later one.
LEMMA RecordIsCollect ==
  ASSUME TypeOK, NEW members \in SUBSET Members, NEW cycles \in SUBSET Cycles,
         RecordContributions(members, cycles),
         \A c \in cycles : c >= group.currentCycle,
         UNCHANGED <<group, payoutVars>>
  PROVE  R!Collect
<1> DEFINE added == group.amount * Cardinality(members)
<1>1. added \in Nat
  BY GroupFields, Counts, NatProduct DEF TypeOK
<1>2. /\ cycleTotal \in [Cycles -> Nat]
      /\ cycleTotal' = [c \in Cycles |-> IF c \in cycles THEN cycleTotal[c] + added
                                                         ELSE cycleTotal[c]]
  BY DEF TypeOK, ContributionTypeOK, RecordContributions
<1>3. group.currentCycle \in Nat /\ Cycles \subseteq Nat
  BY GroupFields, SizesAssumption DEF TypeOK, Cycles
<1> HIDE DEF added
<1>4. cycleTotal' \in [Cycles -> Nat]
  BY <1>1, <1>2
<1>5. \A c \in Cycles : cycleTotal'[c] >= cycleTotal[c]
  BY <1>1, <1>2
<1>6. \A c \in Cycles : c < group.currentCycle => cycleTotal'[c] = cycleTotal[c]
  BY <1>2, <1>3
<1>7. UNCHANGED <<group.currentCycle, payoutRecipient, payoutAmount>>
  BY DEF payoutVars
<1> QED
  BY <1>4, <1>5, <1>6, <1>7 DEF R!Collect, R!Rounds, Cycles

\* A payout hands the recipient what its cycle has collected.
LEMMA PayoutIsPay ==
  ASSUME TypeOK, PayoutSucceeds, PayRecipient, ~is_complete(group),
         group' = advance_cycle(group), UNCHANGED contributionVars
  PROVE  R!Pay
<1>1. /\ group.currentCycle < MaxSize /\ group.currentCycle \in Cycles
      /\ group'.currentCycle = group.currentCycle + 1
  BY AdvanceType, GroupFields DEF TypeOK
<1>2. cycleTotal[group.currentCycle] = TotalPool /\ group.memberCount > 0
  BY DEF PayoutSucceeds, PayoutAllowed, PoolReady
<1>3. TotalPool > 0
  <2>1. \A x, y \in Nat : x > 0 /\ y > 0 => x * y > 0
    OBVIOUS
  <2>2. /\ group.amount \in Nat /\ group.amount > 0
        /\ group.memberCount \in Nat
    BY GroupFields DEF TypeOK
  <2> QED
    BY <1>2, <2>1, <2>2 DEF TotalPool
<1>4. payoutRecipient[group.currentCycle] = NoMember
  BY DEF PayoutSucceeds, PayoutAllowed
<1>5. positionIndex[group.currentCycle] \in Members
  BY <1>1 DEF TypeOK, MemberTypeOK, PayoutSucceeds, RecipientFound, Cycles, Positions
<1>6. /\ payoutRecipient' = [payoutRecipient EXCEPT ![group.currentCycle] =
                               positionIndex[group.currentCycle]]
      /\ payoutAmount' = [payoutAmount EXCEPT ![group.currentCycle] = TotalPool]
  BY DEF PayRecipient
<1>7. UNCHANGED cycleTotal
  BY DEF contributionVars
<1> QED
  BY <1>1, <1>2, <1>3, <1>4, <1>5, <1>6, <1>7, Zenon DEF R!Pay

\* A tick pays and closes the open cycle, or closes it unpaid.
LEMMA TickRefines ==
  ASSUME TypeOK, tick
  PROVE  R!RoscaNext
<1>1. /\ ~is_complete(group) /\ group' = advance_cycle(group)
      /\ UNCHANGED contributionVars
  BY DEF tick
<1>2. CASE PayoutSucceeds /\ PayRecipient
  BY <1>1, <1>2, PayoutIsPay DEF R!RoscaNext
<1>3. CASE UNCHANGED <<payoutVars, held>>
  <2>1. /\ group.currentCycle < MaxSize
        /\ group'.currentCycle = group.currentCycle + 1
    BY <1>1, AdvanceType DEF TypeOK
  <2>2. R!Skip
    BY <1>1, <1>3, <2>1 DEF R!Skip, contributionVars, payoutVars
  <2> QED
    BY <2>2 DEF R!RoscaNext
<1> QED
  BY <1>2, <1>3 DEF tick

\* Contributions and payouts are steps of the abstract rotation.
LEMMA RotationRefines ==
  ASSUME TypeOK, Rotation \/ Unfunded
  PROVE  R!RoscaNext \/ UNCHANGED rotationVars
<1>1. group.currentCycle \in Cycles /\ group.currentCycle \in Nat
  BY GroupFields DEF TypeOK
<1>2. ASSUME NEW m \in Members, contribute(m) \/ contribute_with_proof(m)
      PROVE  R!Collect
  <2>1. \A c \in {group.currentCycle} : c >= group.currentCycle
    BY <1>1
  <2>2. RecordContributions({m}, {group.currentCycle})
        /\ UNCHANGED <<group, payoutVars>>
    BY <1>2 DEF contribute, contribute_with_proof, groupVars
  <2> QED
    BY <1>1, <2>1, <2>2, RecordIsCollect
<1>3. ASSUME NEW m \in Members, NEW cs \in SUBSET Cycles, contribute_batch(m, cs)
      PROVE  R!Collect
  BY <1>3, RecordIsCollect DEF contribute_batch, groupVars
<1>4. ASSUME NEW able \in SUBSET Members, execute_auto_contributions(able)
      PROVE  R!Collect
  <2>1. \A c \in {group.currentCycle} : c >= group.currentCycle
    BY <1>1
  <2>2. RecordContributions(able, {group.currentCycle})
        /\ UNCHANGED <<group, payoutVars>>
    BY <1>4 DEF execute_auto_contributions, groupVars
  <2> QED
    BY <1>1, <2>1, <2>2, RecordIsCollect
<1>5. ASSUME NEW m \in Members,
             enable_auto_contribute(m) \/ disable_auto_contribute(m)
      PROVE  UNCHANGED rotationVars
  BY <1>5 DEF enable_auto_contribute, disable_auto_contribute, rotationVars,
              groupVars, contributionVars, payoutVars
<1>6. CASE execute_payout
  BY <1>6, PayoutIsPay DEF execute_payout, R!RoscaNext
<1>7. CASE tick
  BY <1>7, TickRefines
<1> QED
  BY <1>2, <1>3, <1>4, <1>5, <1>6, <1>7 DEF Rotation, Unfunded, R!RoscaNext

\* Everything that neither records a contribution nor closes a cycle leaves
\* the rotation alone.
LEMMA OthersStutter ==
  ASSUME TypeOK,
         \/ Environment \/ Enrolment \/ Reordering \/ Returns
         \/ StatusChanges \/ AmountChanges \/ Dissolution
  PROVE  UNCHANGED rotationVars
<1> USE DEF cycleVars, contributionVars, payoutVars, groupVars
<1>1. group \in GroupRecords
  BY GroupFields DEF TypeOK
<1>2. UNCHANGED <<cycleTotal, payoutRecipient, payoutAmount>>
  <2>1. CASE Environment
    BY <2>1, ZenonT(40) DEF Environment, LedgerCloses, GuardExpires
  <2>2. CASE Enrolment
    BY <2>2, ZenonT(40) DEF Enrolment, join_group, invite_member, revoke_invitation,
                assign_sequential, assign_randomized, WritePositions,
                randomize_payout_order, set_invitation_only, update_group,
                activate_group
  <2>3. CASE Reordering
    BY <2>3, SMTT(30) DEF Reordering, assign_manual, WritePositions, remove_member
  <2>4. CASE Returns
    BY <2>4 DEF Returns, request_refund, emergency_withdraw
  <2>5. CASE StatusChanges
    BY <2>5 DEF StatusChanges, pause_group, resume_group, cancel_group,
                raise_dispute, resolve_dispute
  <2>6. CASE AmountChanges
    BY <2>6 DEF AmountChanges, set_dynamic_contributions,
                propose_contribution_change, vote_contribution_change
  <2>7. CASE Dissolution
    BY <2>7 DEF Dissolution, vote_dissolve
  <2> QED
    BY <2>1, <2>2, <2>3, <2>4, <2>5, <2>6, <2>7
<1>3. group'.currentCycle = group.currentCycle
  <2>1. CASE Environment
    BY <2>1, ZenonT(40) DEF Environment, LedgerCloses, GuardExpires
  <2>2. CASE Enrolment
    BY <1>1, <2>2, ZenonT(40)
       DEF GroupRecords, Enrolment, join_group, invite_member, revoke_invitation,
           assign_sequential, assign_randomized, WritePositions,
           randomize_payout_order, set_invitation_only, update_group,
           activate_group
  <2>3. CASE Reordering
    BY <1>1, <2>3, ZenonT(40)
       DEF GroupRecords, Reordering, assign_manual, WritePositions, remove_member
  <2>4. CASE Returns
    BY <2>4 DEF Returns, request_refund, emergency_withdraw
  <2>5. CASE StatusChanges
    BY <1>1, <2>5, Zenon
       DEF GroupRecords, StatusChanges, pause_group, resume_group, cancel_group,
           raise_dispute, resolve_dispute
  <2>6. CASE AmountChanges
    BY <1>1, <2>6
       DEF GroupRecords, AmountChanges, set_dynamic_contributions,
           propose_contribution_change, vote_contribution_change
  <2>7. CASE Dissolution
    BY <1>1, <2>7, Zenon DEF GroupRecords, Dissolution, vote_dissolve, execute_dissolution
  <2> QED
    BY <2>1, <2>2, <2>3, <2>4, <2>5, <2>6, <2>7
<1> QED
  BY <1>2, <1>3 DEF rotationVars

\* A group as it is first stored maps to the initial state of the rotation.
LEMMA InitRefines == Init => R!RoscaInit
<1> SUFFICES ASSUME Init PROVE R!RoscaInit
  OBVIOUS
<1>1. group.currentCycle = 0
  BY DEF Init, InitGroup
<1> QED
  BY <1>1 DEF Init, InitStorage, R!RoscaInit, R!Rounds, Cycles

\* Every operation maps to a step of the rotation or to a stutter.
LEMMA StepRefines == TypeOK /\ [Next]_vars => [R!RoscaNext]_R!roscaVars
<1> SUFFICES ASSUME TypeOK, [Next]_vars
             PROVE  R!RoscaNext \/ UNCHANGED rotationVars
  BY DEF rotationVars, R!roscaVars
<1>1. CASE UNCHANGED vars
  BY <1>1 DEF vars, rotationVars, groupVars, cycleVars, contributionVars, payoutVars
<1> QED
  BY <1>1, RotationRefines, OthersStutter DEF Next

\* A group is a rotating savings association: whatever order the members, the
\* creator and the keeper act in, a payout hands over exactly the pot of the
\* open cycle and closes it, and a closed cycle is never touched again.
THEOREM GroupIsRosca == Spec => IsRosca
  BY InitRefines, StepRefines, TypeCorrect, PTL DEF Spec, IsRosca, R!RoscaSpec

-----------------------------------------------------------------------------
(* What the rotation guarantees, for the group: the steps of Rosca keep    *)
(* its invariant, and the steps of the group are steps of Rosca.           *)

\* The mapped variables have the types the rotation gives them.
LEMMA RotationTypes ==
  ASSUME TypeOK
  PROVE  /\ group.currentCycle \in Nat
         /\ Cycles \subseteq Nat
         /\ cycleTotal \in [Cycles -> Nat]
         /\ payoutRecipient \in [Cycles -> Members \cup {NoMember}]
         /\ payoutAmount \in [Cycles -> Nat]
<1>1. group.currentCycle \in Nat /\ Cycles \subseteq Nat
  BY GroupFields, SizesAssumption DEF TypeOK, Cycles
<1>2. cycleTotal \in [Cycles -> Nat]
  BY DEF TypeOK, ContributionTypeOK
<1>3. /\ payoutRecipient \in [Cycles -> Members \cup {NoMember}]
      /\ payoutAmount \in [Cycles -> Nat]
  BY DEF TypeOK, PayoutTypeOK
<1> QED
  BY <1>1, <1>2, <1>3

\* A step of the rotation keeps what has been paid.
LEMMA RotationKeepsPayments ==
  ASSUME TypeOK, R!PaidInFull, [R!RoscaNext]_R!roscaVars
  PROVE  R!PaidInFull'
<1> USE RotationTypes DEF R!PaidInFull, R!Rounds, Cycles
<1>1. CASE R!Collect
  BY <1>1 DEF R!Collect
<1>2. CASE R!Pay
  BY <1>2 DEF R!Pay
<1>3. CASE R!Skip
  BY <1>3 DEF R!Skip
<1>4. CASE UNCHANGED R!roscaVars
  BY <1>4 DEF R!roscaVars
<1> QED
  BY <1>1, <1>2, <1>3, <1>4 DEF R!RoscaNext

\* Nothing is paid to begin with.
LEMMA InitialPayments == Init => R!PaidInFull
  BY InitRefines, MembersAssumption DEF R!RoscaInit, R!PaidInFull, R!Rounds

\* Whoever was paid for a cycle got all that the cycle collected.
THEOREM GroupPaysInFull == Spec => []PaidInFull
<1>1. Init => R!PaidInFull
  BY InitialPayments
<1>2. TypeOK /\ R!PaidInFull /\ [Next]_vars => R!PaidInFull'
  BY StepRefines, RotationKeepsPayments
<1> QED
  BY <1>1, <1>2, TypeCorrect, PTL DEF Spec, PaidInFull

\* The recipient, the amount and the pot of a paid cycle never change again.
THEOREM GroupPaymentsFinal == Spec => PaymentsFinal
<1> DEFINE Final ==
      \A r \in R!Rounds : payoutRecipient[r] # NoMember =>
        payoutRecipient'[r] = payoutRecipient[r]
          /\ payoutAmount'[r] = payoutAmount[r] /\ cycleTotal'[r] = cycleTotal[r]
<1>1. TypeOK /\ R!PaidInFull /\ [Next]_vars => [Final]_R!roscaVars
  <2> SUFFICES ASSUME TypeOK, R!PaidInFull, R!RoscaNext PROVE Final
    BY StepRefines
  <2> USE RotationTypes DEF R!PaidInFull, R!Rounds, Cycles
  <2>1. CASE R!Collect
    BY <2>1 DEF R!Collect
  <2>2. CASE R!Pay
    BY <2>2 DEF R!Pay
  <2>3. CASE R!Skip
    BY <2>3 DEF R!Skip
  <2> QED
    BY <2>1, <2>2, <2>3 DEF R!RoscaNext
<1> QED
  BY <1>1, TypeCorrect, GroupPaysInFull, PTL
     DEF Spec, PaidInFull, PaymentsFinal, R!PaidIsFinal
=============================================================================
