-------------------------- MODULE LifecycleProofs ---------------------------
(***************************************************************************)
(* The invariants that tie the two copies of a group's status, its cycle   *)
(* counter, its member count and its token counters together, proved for   *)
(* every number of members and under every interleaving.                   *)
(***************************************************************************)
EXTENDS SavingsGroupProofs

\* A group that is stored as Active before it starts admits nobody, so that
\* no operation guarded by the status field alone finds a member to act for.
ClosedMeansEmpty ==
  statusKey = "Pending" /\ InitialStatus = "Active" =>
    /\ group.memberCount = 0
    /\ autoContribute = {}
    /\ \A m \in Members : profile[m] = NoPosition

\* A group in which nothing has happened has no dispute to resolve.
NoDispute == statusKey = "Pending" => ~group.disputeActive

PendingInv == TypeOK /\ PendingMeansUntouched /\ ClosedMeansEmpty /\ NoDispute

\* A group as it is first stored is pending and untouched.
LEMMA PendingInit == Init => PendingInv
<1> SUFFICES ASSUME Init PROVE PendingInv
  OBVIOUS
<1>1. TypeOK
  BY InitType
<1>2. PICK a \in Amounts, d \in Durations, n \in Sizes :
        group = [status |-> InitialStatus, isActive |-> TRUE,
                 started |-> FALSE, startedAt |-> 0, paused |-> FALSE,
                 disputeActive |-> FALSE, memberCount |-> 0,
                 currentCycle |-> 0, maxMembers |-> n, amount |-> a,
                 duration |-> d, dynamic |-> FALSE, invitationOnly |-> FALSE]
  BY Zenon DEF Init, InitGroup
<1>3. PendingMeansUntouched
  BY <1>2 DEF Init, InitStorage, PendingMeansUntouched
<1>4. ClosedMeansEmpty
  BY <1>2 DEF Init, InitStorage, ClosedMeansEmpty
<1>5. NoDispute
  BY <1>2 DEF NoDispute
<1> QED
  BY <1>1, <1>3, <1>4, <1>5 DEF PendingInv

\* Recording contributions in a pending group records none.
LEMMA PendingRecord ==
  ASSUME PendingInv, Rotation \/ Unfunded, statusKey = "Pending"
  PROVE  /\ UNCHANGED <<group, statusKey, profile>>
         /\ autoContribute' \subseteq autoContribute
         /\ \A c \in Cycles : cycleCount'[c] = 0
<1>1. TypeOK /\ PendingMeansUntouched /\ ClosedMeansEmpty
  BY DEF PendingInv
<1>2. ~group.started /\ group.status = InitialStatus
  BY <1>1 DEF PendingMeansUntouched
<1>3. ASSUME NEW m \in Members, group.status = "Active", is_active_member(m)
      PROVE  FALSE
  BY <1>1, <1>2, <1>3 DEF ClosedMeansEmpty, is_active_member
<1>4. ASSUME NEW m \in Members,
             \/ contribute(m) \/ contribute_with_proof(m) \/ enable_auto_contribute(m)
             \/ \E cs \in SUBSET Cycles : contribute_batch(m, cs)
      PROVE  FALSE
  BY <1>3, <1>4 DEF contribute, contribute_with_proof, enable_auto_contribute,
                    contribute_batch
<1>5. ASSUME NEW m \in Members, disable_auto_contribute(m)
      PROVE  /\ UNCHANGED <<group, statusKey, profile, cycleCount>>
             /\ autoContribute' \subseteq autoContribute
  BY <1>5 DEF disable_auto_contribute, groupVars, memberVars, contributionVars
<1>6. ASSUME NEW able \in SUBSET Members, execute_auto_contributions(able)
      PROVE  /\ UNCHANGED <<group, statusKey, profile, autoContribute>>
             /\ \A c \in Cycles : cycleCount'[c] = 0
  <2>1. autoContribute = {}
    BY <1>1, <1>2, <1>6 DEF execute_auto_contributions, ClosedMeansEmpty
  <2>2. able = {}
    BY <1>6, <2>1 DEF execute_auto_contributions
  <2>3. Cardinality(able) = 0
    BY <2>2, FS_EmptySet
  <2>4. \A c \in Cycles : cycleCount[c] = 0
    BY <1>1 DEF PendingMeansUntouched
  <2>5. \A c \in Cycles : cycleCount'[c] = 0
    BY <1>6, <2>3, <2>4 DEF execute_auto_contributions, RecordContributions
  <2> QED
    BY <1>6, <2>5 DEF execute_auto_contributions, groupVars, memberVars
<1>7. ASSUME execute_payout PROVE FALSE
  BY <1>1, <1>2, <1>7 DEF execute_payout, PayoutSucceeds, PayoutAllowed, PoolReady,
                          ClosedMeansEmpty
<1>8. ASSUME tick PROVE FALSE
  BY <1>2, <1>8 DEF tick, is_cycle_deadline_passed
<1> QED
  BY <1>1, <1>4, <1>5, <1>6, <1>7, <1>8
     DEF Rotation, Unfunded, PendingMeansUntouched

\* Before the start, whatever else happens leaves the status fields alone or
\* moves the status entry on.
LEMMA PendingOthers ==
  ASSUME PendingInv, Next, ~Rotation, ~Unfunded, statusKey' = "Pending"
  PROVE  /\ statusKey = "Pending"
         /\ group'.status = group.status
         /\ group'.started = group.started
         /\ group'.currentCycle = group.currentCycle
         /\ group'.disputeActive = group.disputeActive
         /\ UNCHANGED <<cycleCount, autoContribute>>
<1> USE DEF cycleVars, contributionVars, groupVars
<1>1. group \in GroupRecords
  BY GroupFields DEF PendingInv, TypeOK
<1>2. CASE Environment
  BY <1>2, SMTT(30) DEF Environment, LedgerCloses, GuardExpires
<1>3. CASE Enrolment
  BY <1>1, <1>3, ZenonT(40)
     DEF GroupRecords, Enrolment, join_group, invite_member, revoke_invitation,
         assign_sequential, assign_randomized, WritePositions,
         randomize_payout_order, set_invitation_only, update_group, activate_group
<1>4. CASE Reordering
  BY <1>1, <1>4
     DEF GroupRecords, Reordering, assign_manual, WritePositions, remove_member
<1>5. CASE Returns
  BY <1>5 DEF Returns, request_refund, emergency_withdraw
<1>6. CASE StatusChanges
  BY <1>1, <1>6
     DEF GroupRecords, StatusChanges, pause_group, resume_group, cancel_group,
         raise_dispute, resolve_dispute
<1>7. CASE AmountChanges
  BY <1>1, <1>7
     DEF GroupRecords, AmountChanges, set_dynamic_contributions,
         propose_contribution_change, vote_contribution_change
<1>8. CASE Dissolution
  BY <1>1, <1>8 DEF GroupRecords, Dissolution, vote_dissolve, execute_dissolution
<1> QED
  BY <1>2, <1>3, <1>4, <1>5, <1>6, <1>7, <1>8 DEF Next

\* Nobody joins a group that is stored as Active, and so nobody is re-ordered.
LEMMA ClosedStaysEmpty ==
  ASSUME PendingInv, Next, ~Rotation, ~Unfunded, statusKey' = "Pending",
         InitialStatus = "Active"
  PROVE  /\ group'.memberCount = 0
         /\ \A m \in Members : profile'[m] = NoPosition
<1> USE DEF cycleVars, contributionVars, groupVars, memberVars
<1>1. /\ group \in GroupRecords /\ statusKey = "Pending"
      /\ group.status = "Active" /\ group.memberCount = 0
      /\ \A m \in Members : profile[m] = NoPosition
      /\ profile \in [Members -> Positions \cup {NoPosition}]
  BY PendingOthers, GroupFields
     DEF PendingInv, TypeOK, MemberTypeOK, PendingMeansUntouched, ClosedMeansEmpty
<1>2. ASSUME NEW positions, WritePositions(positions)
      PROVE  UNCHANGED group /\ \A m \in Members : profile'[m] = NoPosition
  BY <1>1, <1>2 DEF WritePositions, is_active_member
<1>3. CASE Environment
  BY <1>1, <1>3, SMTT(30) DEF Environment, LedgerCloses, GuardExpires
<1>4. CASE Enrolment
  BY <1>1, <1>2, <1>4, ZenonT(40)
     DEF GroupRecords, Enrolment, join_group, invite_member, revoke_invitation,
         assign_sequential, assign_randomized,
         randomize_payout_order, set_invitation_only, update_group, activate_group
<1>5. CASE Reordering
  BY <1>1, <1>2, <1>5
     DEF Reordering, assign_manual, remove_member, is_active_member
<1>6. CASE Returns
  BY <1>1, <1>6 DEF Returns, request_refund, emergency_withdraw, is_active_member
<1>7. CASE StatusChanges
  BY <1>1, <1>7
     DEF GroupRecords, StatusChanges, pause_group, resume_group, cancel_group,
         raise_dispute, resolve_dispute
<1>8. CASE AmountChanges
  BY <1>1, <1>8
     DEF GroupRecords, AmountChanges, set_dynamic_contributions,
         propose_contribution_change, vote_contribution_change
<1>9. CASE Dissolution
  BY <1>1, <1>9 DEF Dissolution, vote_dissolve
<1> QED
  BY <1>3, <1>4, <1>5, <1>6, <1>7, <1>8, <1>9, SMTT(30) DEF Next

\* No operation touches a pending group without taking it out of Pending.
LEMMA PendingStep == PendingInv /\ [Next]_vars => PendingInv'
<1> SUFFICES ASSUME PendingInv, [Next]_vars PROVE PendingInv'
  OBVIOUS
<1>1. TypeOK'
  BY NextType DEF PendingInv
<1>2. PendingMeansUntouched' /\ ClosedMeansEmpty' /\ NoDispute'
  <2>1. CASE statusKey' # "Pending"
    BY <2>1 DEF PendingMeansUntouched, ClosedMeansEmpty, NoDispute
  <2>2. CASE statusKey' = "Pending" /\ (Rotation \/ Unfunded)
    <3>1. UNCHANGED statusKey
      BY <2>2, Zenon
         DEF Rotation, Unfunded, contribute, contribute_batch, contribute_with_proof,
             enable_auto_contribute, disable_auto_contribute, execute_payout, tick,
             execute_auto_contributions, groupVars
    <3>2. /\ UNCHANGED <<group, statusKey, profile>>
          /\ autoContribute' \subseteq autoContribute
          /\ \A c \in Cycles : cycleCount'[c] = 0
      BY <2>2, <3>1, PendingRecord
    <3> QED
      BY <2>2, <3>2, ZenonT(40)
         DEF PendingInv, PendingMeansUntouched, ClosedMeansEmpty, NoDispute
  <2>3. CASE statusKey' = "Pending" /\ Next /\ ~(Rotation \/ Unfunded)
    <3>1. PendingMeansUntouched' /\ NoDispute'
      BY <2>3, PendingOthers DEF PendingInv, PendingMeansUntouched, NoDispute
    <3>2. ClosedMeansEmpty'
      BY <2>3, PendingOthers, ClosedStaysEmpty DEF PendingInv, ClosedMeansEmpty
    <3> QED
      BY <3>1, <3>2
  <2>4. CASE UNCHANGED vars
    BY <2>4
       DEF vars, groupVars, memberVars, cycleVars, contributionVars, PendingInv,
           PendingMeansUntouched, ClosedMeansEmpty, NoDispute
  <2> QED
    BY <2>1, <2>2, <2>3, <2>4
<1> QED
  BY <1>1, <1>2 DEF PendingInv

\* The inductive invariant holds in every reachable state.
LEMMA PendingAlways == Spec => []PendingInv
  BY PendingInit, PendingStep, PTL DEF Spec

\* As long as the status entry says Pending, no operation has begun the group
\* or recorded money for it, whichever copy of the status it looks at.
THEOREM PendingIsUntouched == Spec => []PendingMeansUntouched
<1>1. PendingInv => PendingMeansUntouched
  BY DEF PendingInv
<1> QED
  BY <1>1, PendingAlways, PTL

-----------------------------------------------------------------------------

\* Only update_group changes the size of a group, and then the first cycle is
\* still open; only a payout or a tick moves the cycle, and then there is a
\* next one.
LEMMA RangeStep ==
  ASSUME PendingInv, CycleInRange, Next
  PROVE  CycleInRange'
<1> USE DEF groupVars
<1>1. /\ TypeOK /\ group \in GroupRecords
      /\ group.currentCycle \in Nat /\ group.maxMembers \in Nat
  BY GroupFields DEF PendingInv, TypeOK
<1>2. ASSUME group'.currentCycle = group.currentCycle,
             group'.maxMembers = group.maxMembers
      PROVE  CycleInRange'
  BY <1>2 DEF CycleInRange
<1>3. ASSUME ~is_complete(group), group' = advance_cycle(group)
      PROVE  CycleInRange'
  <2>1. group.currentCycle < group.maxMembers
    BY <1>1, <1>3 DEF is_complete
  <2>2. /\ group'.currentCycle = group.currentCycle + 1
        /\ group'.maxMembers = group.maxMembers
    BY <1>1, <1>3 DEF advance_cycle, GroupRecords
  <2> QED
    BY <1>1, <2>1, <2>2 DEF CycleInRange
<1>4. ASSUME NEW a \in Amounts, NEW d \in Durations, NEW n \in Sizes,
             update_group(a, d, n)
      PROVE  CycleInRange'
  <2>1. group'.currentCycle = 0 /\ group'.maxMembers = n
    BY <1>1, <1>4 DEF GroupRecords, update_group, PendingInv, PendingMeansUntouched
  <2> QED
    BY <2>1, SizesAssumption DEF CycleInRange, Sizes
<1>5. CASE Environment
  BY <1>2, <1>5 DEF Environment, LedgerCloses, GuardExpires
<1>6. CASE Enrolment
  BY <1>1, <1>2, <1>4, <1>6, Zenon
     DEF GroupRecords, Enrolment, join_group, invite_member, revoke_invitation,
         assign_sequential, assign_randomized, WritePositions,
         randomize_payout_order, set_invitation_only, activate_group
<1>7. CASE Reordering
  BY <1>1, <1>2, <1>7
     DEF GroupRecords, Reordering, assign_manual, WritePositions, remove_member
<1>8. CASE Rotation \/ Unfunded
  BY <1>2, <1>3, <1>8, Zenon
     DEF Rotation, Unfunded, contribute, contribute_batch, contribute_with_proof,
         enable_auto_contribute, disable_auto_contribute,
         execute_auto_contributions, execute_payout, tick
<1>9. CASE Returns
  BY <1>2, <1>9, Zenon DEF Returns, request_refund, emergency_withdraw
<1>10. CASE StatusChanges
  BY <1>1, <1>2, <1>10, Zenon
     DEF GroupRecords, StatusChanges, pause_group, resume_group, cancel_group,
         raise_dispute, resolve_dispute
<1>11. CASE AmountChanges
  BY <1>1, <1>2, <1>11
     DEF GroupRecords, AmountChanges, set_dynamic_contributions,
         propose_contribution_change, vote_contribution_change
<1>12. CASE Dissolution
  BY <1>1, <1>2, <1>12, Zenon
     DEF GroupRecords, Dissolution, vote_dissolve, execute_dissolution
<1> QED
  BY <1>5, <1>6, <1>7, <1>8, <1>9, <1>10, <1>11, <1>12, SMTT(30) DEF Next

\* The cycle counter never passes the size of the group, however payouts,
\* ticks and updates interleave.
THEOREM CycleStaysInRange == Spec => []CycleInRange
<1>1. Init => CycleInRange
  BY SizesAssumption DEF Init, InitGroup, CycleInRange, Sizes
<1>2. PendingInv /\ CycleInRange /\ [Next]_vars => CycleInRange'
  <2>1. CycleInRange /\ UNCHANGED vars => CycleInRange'
    BY DEF vars, groupVars, CycleInRange
  <2> QED
    BY <2>1, RangeStep
<1> QED
  BY <1>1, <1>2, PendingAlways, PTL DEF Spec

-----------------------------------------------------------------------------

\* What moves tokens moves a counter by the same amount.
LEMMA EscrowStep ==
  ASSUME TypeOK, Conservation, EscrowNext
  PROVE  Conservation'
<1> USE DEF cycleVars, contributionVars, payoutVars
<1>1. held \in Int /\ groupBalance \in Int /\ totalPaidOut \in Nat
  BY DEF TypeOK, ReturnTypeOK, ContributionTypeOK, PayoutTypeOK
<1>2. ASSUME UNCHANGED <<held, groupBalance, totalPaidOut>>
      PROVE  Conservation'
  BY <1>2 DEF Conservation
<1>3. ASSUME NEW members \in SUBSET Members, NEW cycles \in SUBSET Cycles,
             RecordContributions(members, cycles), ReceiveTokens(members, cycles),
             UNCHANGED totalPaidOut
      PROVE  Conservation'
  <2> DEFINE sum == group.amount * Cardinality(members) * Cardinality(cycles)
  <2>1. sum \in Nat
    BY GroupFields, Counts, NatProduct, ZenonT(40) DEF TypeOK
  <2>2. held' = held + sum /\ groupBalance' = groupBalance + sum
    BY <1>3 DEF RecordContributions, ReceiveTokens
  <2> HIDE DEF sum
  <2> QED
    BY <1>1, <1>3, <2>1, <2>2 DEF Conservation
<1>4. ASSUME PayRecipient, UNCHANGED groupBalance
      PROVE  Conservation'
  <2>1. TotalPool \in Nat
    BY GroupFields, NatProduct DEF TypeOK, TotalPool
  <2> QED
    BY <1>1, <1>4, <2>1 DEF PayRecipient, Conservation
<1>5. ASSUME NEW m \in Members, emergency_withdraw(m)
      PROVE  Conservation'
  <2>1. PICK amount \in Funds :
          groupBalance' = groupBalance - amount /\ held' = held - amount
    BY <1>5 DEF emergency_withdraw
  <2>2. amount \in Nat
    BY AmountsAssumption DEF Funds
  <2>3. UNCHANGED totalPaidOut
    BY <1>5 DEF emergency_withdraw
  <2> QED
    BY <1>1, <2>1, <2>2, <2>3, SMTT(30) DEF Conservation
<1>6. CASE Environment
  BY <1>2, <1>6, ZenonT(40) DEF Environment, LedgerCloses, GuardExpires
<1>7. CASE Enrolment
  BY <1>2, <1>7, ZenonT(40)
     DEF Enrolment, join_group, invite_member, revoke_invitation,
         assign_sequential, assign_randomized, WritePositions,
         randomize_payout_order, set_invitation_only, update_group, activate_group
<1>8. CASE Reordering
  BY <1>2, <1>8 DEF Reordering, assign_manual, WritePositions, remove_member
<1>9. CASE Rotation
  <2>1. group.currentCycle \in Cycles
    BY GroupFields, ZenonT(40) DEF TypeOK
  <2>2. ASSUME \/ \E m \in Members : contribute(m)
               \/ \E m \in Members, cs \in SUBSET Cycles : contribute_batch(m, cs)
               \/ \E able \in SUBSET Members : execute_auto_contributions(able)
        PROVE  Conservation'
    BY <1>3, <2>1, <2>2, Zenon DEF contribute, contribute_batch, execute_auto_contributions
  <2>3. ASSUME NEW m \in Members,
               enable_auto_contribute(m) \/ disable_auto_contribute(m)
        PROVE  Conservation'
    BY <1>2, <2>3, SMTT(30) DEF enable_auto_contribute, disable_auto_contribute
  <2>4. CASE execute_payout \/ tick
    BY <1>2, <1>4, <2>4 DEF execute_payout, tick
  <2> QED
    BY <1>9, <2>2, <2>3, <2>4 DEF Rotation
<1>10. CASE StatusChanges
  BY <1>2, <1>10
     DEF StatusChanges, pause_group, resume_group, cancel_group,
         raise_dispute, resolve_dispute
<1>11. CASE AmountChanges
  BY <1>2, <1>11
     DEF AmountChanges, set_dynamic_contributions,
         propose_contribution_change, vote_contribution_change
<1> QED
  BY <1>5, <1>6, <1>7, <1>8, <1>9, <1>10, <1>11 DEF EscrowNext

\* As long as money enters by contributions that transfer tokens and leaves by
\* payouts and withdrawals, the two counters account for every token held,
\* also when the amount changes or cycles are paid in advance.
THEOREM EscrowConserved == EscrowSpec => []Conservation
<1>1. Init => TypeOK /\ Conservation
  BY InitType DEF Init, InitStorage, Conservation
<1>2. TypeOK /\ [EscrowNext]_vars => TypeOK'
  <2>1. EscrowNext => Next
    BY DEF EscrowNext, Next, Returns
  <2> QED
    BY <2>1, NextType
<1>3. TypeOK /\ Conservation /\ [EscrowNext]_vars => Conservation'
  <2>1. Conservation /\ UNCHANGED vars => Conservation'
    BY DEF vars, cycleVars, contributionVars, payoutVars, Conservation
  <2> QED
    BY <2>1, EscrowStep
<1> QED
  BY <1>1, <1>2, <1>3, PTL DEF EscrowSpec

-----------------------------------------------------------------------------
\* The members who are counted.
ActiveMembers == {m \in Members : is_active_member(m)}

\* Any set of members can be counted.
LEMMA FiniteMembers ==
  \A S \in SUBSET Members : IsFiniteSet(S) /\ Cardinality(S) \in Nat
BY MembersAssumption, FS_Subset, FS_CardinalityType

\* No operation leaves member_count below the number of profiles.
LEMMA CountStep ==
  ASSUME TypeOK, CountCoversMembers, Next
  PROVE  CountCoversMembers'
<1> USE DEF groupVars, memberVars
<1>1. /\ group \in GroupRecords /\ group.memberCount \in Nat
      /\ profile \in [Members -> Positions \cup {NoPosition}]
  BY GroupFields DEF TypeOK, MemberTypeOK
<1>2. /\ IsFiniteSet(ActiveMembers) /\ Cardinality(ActiveMembers) \in Nat
      /\ Cardinality(ActiveMembers) <= group.memberCount
  BY FiniteMembers DEF ActiveMembers, CountCoversMembers
<1>3. ASSUME ActiveMembers' \subseteq ActiveMembers,
             group'.memberCount = group.memberCount
      PROVE  CountCoversMembers'
  <2>1. /\ Cardinality(ActiveMembers') <= Cardinality(ActiveMembers)
        /\ Cardinality(ActiveMembers') \in Nat
    BY <1>2, <1>3, FS_Subset, FS_CardinalityType
  <2>2. Cardinality(ActiveMembers') <= group'.memberCount
    BY <1>1, <1>2, <1>3, <2>1
  <2> QED
    BY <2>2 DEF CountCoversMembers, ActiveMembers
<1>4. ASSUME UNCHANGED profile, group'.memberCount = group.memberCount
      PROVE  CountCoversMembers'
  BY <1>3, <1>4 DEF ActiveMembers, is_active_member
<1>5. ASSUME NEW positions, WritePositions(positions)
      PROVE  CountCoversMembers'
  <2>1. ActiveMembers' \subseteq ActiveMembers
    BY <1>5 DEF WritePositions, ActiveMembers, is_active_member
  <2> QED
    BY <1>3, <1>5, <2>1 DEF WritePositions
<1>6. ASSUME NEW m \in Members, join_group(m)
      PROVE  CountCoversMembers'
  <2>1. ActiveMembers' \subseteq ActiveMembers \cup {m}
    BY <1>1, <1>6 DEF join_group, ActiveMembers, is_active_member
  <2>2. /\ IsFiniteSet(ActiveMembers \cup {m})
        /\ Cardinality(ActiveMembers \cup {m}) <= Cardinality(ActiveMembers) + 1
        /\ Cardinality(ActiveMembers \cup {m}) \in Nat
    BY <1>2, FS_AddElement, FS_CardinalityType
  <2>3. /\ Cardinality(ActiveMembers') <= Cardinality(ActiveMembers \cup {m})
        /\ Cardinality(ActiveMembers') \in Nat
    BY <2>1, <2>2, FS_Subset, FS_CardinalityType
  <2>4. group'.memberCount = group.memberCount + 1
    BY <1>1, <1>6 DEF join_group, GroupRecords
  <2>5. Cardinality(ActiveMembers') <= group'.memberCount
    BY <1>1, <1>2, <2>2, <2>3, <2>4
  <2> QED
    BY <2>5 DEF CountCoversMembers, ActiveMembers
<1>7. ASSUME NEW m \in Members, remove_member(m)
      PROVE  CountCoversMembers'
  <2>1. ActiveMembers' = ActiveMembers \ {m} /\ m \in ActiveMembers
    BY <1>1, <1>7 DEF remove_member, ActiveMembers, is_active_member
  <2>2. Cardinality(ActiveMembers') = Cardinality(ActiveMembers) - 1
    BY <1>2, <2>1, FS_RemoveElement, Zenon
  <2>3. group'.memberCount = group.memberCount - 1
    BY <1>1, <1>7 DEF remove_member, GroupRecords
  <2>4. Cardinality(ActiveMembers') <= group'.memberCount
    BY <1>1, <1>2, <2>2, <2>3
  <2> QED
    BY <2>4 DEF CountCoversMembers, ActiveMembers
<1>8. ASSUME NEW m \in Members, emergency_withdraw(m)
      PROVE  CountCoversMembers'
  <2>1. ActiveMembers' \subseteq ActiveMembers
    BY <1>1, <1>8 DEF emergency_withdraw, ActiveMembers, is_active_member
  <2> QED
    BY <1>3, <1>8, <2>1 DEF emergency_withdraw
<1>9. ASSUME ~is_complete(group), group' = advance_cycle(group)
      PROVE  group'.memberCount = group.memberCount
  BY <1>1, <1>9 DEF advance_cycle, GroupRecords
<1>10. CASE Environment
  BY <1>4, <1>10 DEF Environment, LedgerCloses, GuardExpires
<1>11. CASE Enrolment
  <2>1. CASE \/ \E m \in Members : invite_member(m) \/ revoke_invitation(m)
             \/ randomize_payout_order \/ activate_group
             \/ \E enabled \in BOOLEAN : set_invitation_only(enabled)
             \/ \E a \in Amounts, d \in Durations, n \in Sizes : update_group(a, d, n)
    BY <1>1, <1>4, <2>1, Zenon
       DEF GroupRecords, invite_member, revoke_invitation, randomize_payout_order,
           set_invitation_only, update_group, activate_group
  <2> QED
    BY <1>5, <1>6, <1>11, <2>1, ZenonT(40) DEF Enrolment, assign_sequential, assign_randomized
<1>12. CASE Reordering
  BY <1>5, <1>7, <1>12, ZenonT(40) DEF Reordering, assign_manual
<1>13. CASE Rotation \/ Unfunded
  BY <1>4, <1>9, <1>13, ZenonT(40)
     DEF Rotation, Unfunded, contribute, contribute_batch, contribute_with_proof,
         enable_auto_contribute, disable_auto_contribute,
         execute_auto_contributions, execute_payout, tick
<1>14. CASE Returns
  BY <1>4, <1>8, <1>14 DEF Returns, request_refund
<1>15. CASE StatusChanges
  BY <1>1, <1>4, <1>15, Zenon
     DEF GroupRecords, StatusChanges, pause_group, resume_group, cancel_group,
         raise_dispute, resolve_dispute
<1>16. CASE AmountChanges
  BY <1>1, <1>4, <1>16
     DEF GroupRecords, AmountChanges, set_dynamic_contributions,
         propose_contribution_change, vote_contribution_change
<1>17. CASE Dissolution
  BY <1>1, <1>4, <1>17, Zenon
     DEF GroupRecords, Dissolution, vote_dissolve, execute_dissolution
<1> QED
  BY <1>10, <1>11, <1>12, <1>13, <1>14, <1>15, <1>16, <1>17 DEF Next

\* The number of contributions a payout waits for is never smaller than the
\* number of members who can still contribute, whoever joins, is removed or
\* withdraws, and however the positions are assigned.
THEOREM CountAlwaysCovers == Spec => []CountCoversMembers
<1>1. Init => CountCoversMembers
  <2> SUFFICES ASSUME Init PROVE CountCoversMembers
    OBVIOUS
  <2>1. {m \in Members : is_active_member(m)} = {}
    BY DEF Init, InitStorage, is_active_member
  <2>2. group.memberCount = 0
    BY DEF Init, InitGroup
  <2> QED
    BY <2>1, <2>2, FS_EmptySet DEF CountCoversMembers
<1>2. TypeOK /\ CountCoversMembers /\ [Next]_vars => CountCoversMembers'
  <2>1. CountCoversMembers /\ UNCHANGED vars => CountCoversMembers'
    BY DEF vars, groupVars, memberVars, CountCoversMembers, is_active_member
  <2> QED
    BY <2>1, CountStep
<1> QED
  BY <1>1, <1>2, TypeCorrect, PTL DEF Spec
=============================================================================
