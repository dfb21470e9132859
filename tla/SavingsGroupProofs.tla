------------------------- MODULE SavingsGroupProofs -------------------------
(***************************************************************************)
(* Theorems about SavingsGroup, for any number of members, any contract    *)
(* limits and any amounts.                                                 *)
(***************************************************************************)
EXTENDS SavingsGroup, FiniteSetTheorems, TLAPS

-----------------------------------------------------------------------------
(* Type correctness.  TypeOK is inductive by itself; one lemma per action. *)

\* A contribution is never zero.
LEMMA AmountsPositive == \A x \in Amounts : x \in Nat /\ x > 0
BY AmountsAssumption

\* Products of natural numbers, as a fact the provers can cite.
LEMMA NatProduct == \A x, y \in Nat : x * y \in Nat
OBVIOUS

\* What GroupTypeOK says of each field of the group record.
LEMMA GroupFields ==
  ASSUME GroupTypeOK
  PROVE  /\ group \in GroupRecords
         /\ group.status \in Statuses
         /\ group.startedAt \in Nat
         /\ group.memberCount \in Nat
         /\ group.currentCycle \in Cycles
         /\ group.currentCycle \in Nat
         /\ group.maxMembers \in Sizes
         /\ group.maxMembers \in Nat
         /\ group.maxMembers <= MaxSize
         /\ group.amount \in Amounts
         /\ group.amount \in Nat
         /\ group.amount > 0
         /\ group.duration \in Nat
<1>1. group \in GroupRecords
  BY DEF GroupTypeOK
<1>2. /\ group.status \in Statuses
      /\ group.startedAt \in Nat
      /\ group.memberCount \in Nat
      /\ group.currentCycle \in Cycles
      /\ group.maxMembers \in Sizes
      /\ group.amount \in Amounts
      /\ group.duration \in Durations
  BY <1>1 DEF GroupRecords
<1>3. group.currentCycle \in Nat
  BY <1>2, SizesAssumption DEF Cycles
<1>4. group.maxMembers \in Nat /\ group.maxMembers <= MaxSize
  BY <1>2, SizesAssumption DEF Sizes
<1>5. group.amount \in Nat /\ group.amount > 0
  BY <1>2, AmountsPositive
<1>6. group.duration \in Nat
  BY <1>2, AmountsAssumption, Zenon
<1> QED
  BY <1>1, <1>2, <1>3, <1>4, <1>5, <1>6

\* A part of the storage that an action leaves alone keeps its type.
LEMMA Kept ==
  /\ GroupTypeOK /\ UNCHANGED groupVars => GroupTypeOK'
  /\ MemberTypeOK /\ UNCHANGED memberVars => MemberTypeOK'
  /\ ContributionTypeOK /\ UNCHANGED contributionVars => ContributionTypeOK'
  /\ PayoutTypeOK /\ UNCHANGED payoutVars => PayoutTypeOK'
  /\ ReturnTypeOK /\ UNCHANGED <<refunded, autoContribute, held>>
       => ReturnTypeOK'
  /\ LedgerTypeOK /\ UNCHANGED ledgerVars => LedgerTypeOK'
  /\ VoteTypeOK /\ UNCHANGED voteVars => VoteTypeOK'
<1>1. GroupTypeOK /\ UNCHANGED groupVars => GroupTypeOK'
  BY DEF GroupTypeOK, groupVars
<1>2. MemberTypeOK /\ UNCHANGED memberVars => MemberTypeOK'
  BY DEF MemberTypeOK, memberVars
<1>3. ContributionTypeOK /\ UNCHANGED contributionVars => ContributionTypeOK'
  BY DEF ContributionTypeOK, contributionVars
<1>4. PayoutTypeOK /\ UNCHANGED payoutVars => PayoutTypeOK'
  BY DEF PayoutTypeOK, payoutVars
<1>5. ReturnTypeOK /\ UNCHANGED <<refunded, autoContribute, held>>
        => ReturnTypeOK'
  BY DEF ReturnTypeOK
<1>6. LedgerTypeOK /\ UNCHANGED ledgerVars => LedgerTypeOK'
  BY DEF LedgerTypeOK, ledgerVars
<1>7. VoteTypeOK /\ UNCHANGED voteVars => VoteTypeOK'
  BY DEF VoteTypeOK, voteVars, disputeVars, dissolveVars, changeVars
<1> QED
  BY <1>1, <1>2, <1>3, <1>4, <1>5, <1>6, <1>7

\* The storage of a new group is well typed.
LEMMA InitType == Init => TypeOK
<1> SUFFICES ASSUME Init PROVE TypeOK
  OBVIOUS
<1>1. GroupTypeOK
  <2>1. PICK a \in Amounts, d \in Durations, n \in Sizes :
          group = [status |-> InitialStatus, isActive |-> TRUE,
                   started |-> FALSE, startedAt |-> 0, paused |-> FALSE,
                   disputeActive |-> FALSE, memberCount |-> 0,
                   currentCycle |-> 0, maxMembers |-> n, amount |-> a,
                   duration |-> d, dynamic |-> FALSE, invitationOnly |-> FALSE]
    BY Zenon DEF Init, InitGroup
  <2>2. 0 \in Cycles
    BY SizesAssumption DEF Cycles
  <2>3. statusKey \in Statuses
    BY DEF Init, InitGroup, Statuses
  <2>4. InitialStatus \in Statuses
    BY GroupAssumption DEF Statuses
  <2> QED
    BY <2>1, <2>2, <2>3, <2>4 DEF GroupTypeOK, GroupRecords
<1>2. MemberTypeOK
  BY Zenon DEF Init, InitStorage, MemberTypeOK
<1>3. ContributionTypeOK
  BY DEF Init, InitStorage, ContributionTypeOK
<1>4. PayoutTypeOK
  BY DEF Init, InitStorage, PayoutTypeOK
<1>5. ReturnTypeOK
  BY DEF Init, InitStorage, ReturnTypeOK
<1>6. LedgerTypeOK
  BY GenesisAssumption, Zenon DEF Init, InitStorage, LedgerTypeOK
<1>7. VoteTypeOK
  BY DEF Init, InitStorage, VoteTypeOK
<1> QED
  BY <1>1, <1>2, <1>3, <1>4, <1>5, <1>6, <1>7 DEF TypeOK

\* The operations of GroupMembership.
LEMMA JoinType ==
  ASSUME TypeOK, NEW m \in Members, join_group(m)
  PROVE  TypeOK'
<1>1. GroupTypeOK /\ MemberTypeOK
  BY DEF TypeOK
<1>2. GroupTypeOK'
  BY <1>1, GroupFields DEF GroupTypeOK, GroupRecords, join_group
<1>3. group.memberCount \in Positions
  BY <1>1, GroupFields, SizesAssumption DEF join_group, Positions
<1>4. MemberTypeOK'
  BY <1>1, <1>3 DEF MemberTypeOK, join_group
<1> QED
  BY <1>2, <1>4, Kept DEF TypeOK, join_group, cycleVars

\* remove_member keeps every entry well typed.
LEMMA RemoveType ==
  ASSUME TypeOK, NEW m \in Members, remove_member(m)
  PROVE  TypeOK'
<1>1. GroupTypeOK /\ MemberTypeOK
  BY DEF TypeOK
<1>2. GroupTypeOK'
  BY <1>1, GroupFields DEF GroupTypeOK, GroupRecords, remove_member
<1>3. MemberTypeOK'
  BY <1>1, Zenon DEF MemberTypeOK, remove_member
<1> QED
  BY <1>2, <1>3, Kept DEF TypeOK, remove_member, cycleVars

\* A non-empty set of positions has a greatest element.
LEMMA MaxOfPositions ==
  ASSUME NEW S \in SUBSET Positions, S # {}
  PROVE  Max(S) \in S
<1> DEFINE T == {MaxSize - x : x \in S}
<1>1. MaxSize \in Nat /\ S \subseteq 0..MaxSize
  BY SizesAssumption DEF Positions
<1>2. T \subseteq Nat /\ T # {}
  <2>1. \A x \in S : MaxSize - x \in Nat
    BY <1>1
  <2> QED
    BY <2>1
<1>3. PICK t \in T : \A u \in T : ~(u < t)
  <2> DEFINE LT == OpToRel(<, Nat)
  <2>1. \A u, t \in Nat : <<u, t>> \in LT <=> u < t
    BY DEF OpToRel
  <2>2. IsWellFoundedOn(LT, Nat)
    BY NatLessThanWellFounded, Zenon
  <2> HIDE DEF LT
  <2>3. \E t \in T : \A u \in T : ~(<<u, t>> \in LT)
    BY <1>2, <2>2, WFMin, Zenon
  <2> QED
    BY <1>2, <2>1, <2>3, Zenon
<1>5. PICK x \in S : t = MaxSize - x
  OBVIOUS
<1>6. \A y \in S : x >= y
  BY <1>1, <1>3, <1>5
<1> QED
  BY <1>6 DEF Max

\* Writing positions that exist keeps every entry well typed.
LEMMA WritePositionsType ==
  ASSUME TypeOK, NEW positions \in [ListedKeys -> Positions],
         WritePositions(positions), sequenceStored' \in BOOLEAN
  PROVE  TypeOK'
<1> DEFINE keysOf(m) == {k \in ListedKeys : memberMap[k] = m}
           keysAt(p) == {k \in ListedKeys : positions[k] = p}
           given == {positions[k] : k \in ListedKeys}
<1>1. MemberTypeOK /\ ListedKeys \subseteq Positions
  BY DEF TypeOK, ListedKeys
<1>2. \A m \in ListedMembers : positions[Max(keysOf(m))] \in Positions
  <2> SUFFICES ASSUME NEW m \in ListedMembers
               PROVE  positions[Max(keysOf(m))] \in Positions
    OBVIOUS
  <2>1. keysOf(m) # {} /\ keysOf(m) \in SUBSET Positions
    BY <1>1 DEF ListedMembers
  <2>2. Max(keysOf(m)) \in keysOf(m)
    BY <2>1, MaxOfPositions
  <2> QED
    BY <2>2
<1>3. \A p \in given : memberMap[Max(keysAt(p))] \in Members
  <2> SUFFICES ASSUME NEW p \in given
               PROVE  memberMap[Max(keysAt(p))] \in Members
    OBVIOUS
  <2>1. keysAt(p) # {} /\ keysAt(p) \in SUBSET Positions
    BY <1>1
  <2>2. Max(keysAt(p)) \in keysAt(p)
    BY <2>1, MaxOfPositions
  <2> QED
    BY <1>1, <2>2 DEF ListedKeys, MemberTypeOK
<1>4. profile' \in [Members -> Positions \cup {NoPosition}]
  BY <1>1, <1>2 DEF MemberTypeOK, WritePositions
<1>5. eligibility' \in [Members -> Positions \cup {NoPosition}]
  BY <1>1, <1>2 DEF MemberTypeOK, WritePositions
<1>6. positionIndex' \in [Positions -> Members \cup {NoMember}]
  BY <1>1, <1>3, Zenon DEF MemberTypeOK, WritePositions
<1>7. MemberTypeOK'
  BY <1>1, <1>4, <1>5, <1>6 DEF MemberTypeOK, WritePositions
<1> QED
  BY <1>7, Kept DEF TypeOK, WritePositions, cycleVars

\* The three modes of assign_payout_positions write positions that exist.
LEMMA AssignType ==
  ASSUME TypeOK,
         assign_sequential \/ assign_randomized \/ assign_manual
           \/ randomize_payout_order
  PROVE  TypeOK'
<1>1. ListedKeys \subseteq Positions /\ IsFiniteSet(Positions)
      /\ MaxSize \in Nat /\ Cardinality(Positions) = MaxSize + 1
  BY SizesAssumption, FS_Interval DEF ListedKeys, Positions
<1>2. IsFiniteSet(ListedKeys) /\ Cardinality(ListedKeys) \in Nat
      /\ Cardinality(ListedKeys) <= MaxSize + 1
  BY <1>1, FS_Subset, FS_CardinalityType
<1>3. CASE assign_sequential
  <2> DEFINE ranks == [k \in ListedKeys |-> Cardinality({j \in ListedKeys : j < k})]
  <2>1. ASSUME NEW k \in ListedKeys
        PROVE  Cardinality({j \in ListedKeys : j < k}) \in Positions
    <3> DEFINE below == {j \in ListedKeys : j < k}
    <3>1. below \subseteq ListedKeys \ {k}
      BY <1>1 DEF Positions
    <3>2. IsFiniteSet(ListedKeys \ {k})
          /\ Cardinality(ListedKeys \ {k}) = Cardinality(ListedKeys) - 1
      BY <1>2, FS_RemoveElement
    <3>3. IsFiniteSet(below) /\ Cardinality(below) <= Cardinality(ListedKeys) - 1
      BY <3>1, <3>2, FS_Subset
    <3>4. Cardinality(below) \in Nat
      BY <3>3, FS_CardinalityType
    <3> QED
      BY <1>1, <1>2, <3>3, <3>4 DEF Positions
  <2>2. ranks \in [ListedKeys -> Positions]
    BY <2>1
  <2>3. sequenceStored' \in BOOLEAN
    BY <1>3 DEF assign_sequential, TypeOK, MemberTypeOK
  <2> QED
    BY <1>3, <2>2, <2>3, WritePositionsType, Zenon DEF assign_sequential
<1>4. CASE assign_randomized
  <2>1. \A order \in ShuffledOrders : order \in [ListedKeys -> Positions]
    BY <1>1, <1>2 DEF ShuffledOrders, Positions
  <2> QED
    BY <1>4, <2>1, WritePositionsType DEF assign_randomized
<1>5. CASE assign_manual
  <2>1. sequenceStored' \in BOOLEAN
    BY <1>5 DEF assign_manual, TypeOK, MemberTypeOK
  <2> QED
    BY <1>5, <2>1, WritePositionsType DEF assign_manual
<1>6. CASE randomize_payout_order
  <2>1. MemberTypeOK'
    BY <1>6 DEF TypeOK, MemberTypeOK, randomize_payout_order
  <2> QED
    BY <1>6, <2>1, Kept DEF TypeOK, randomize_payout_order, cycleVars
<1> QED
  BY <1>3, <1>4, <1>5, <1>6

\* The invitation list keeps every entry well typed.
LEMMA InvitationType ==
  ASSUME TypeOK, NEW m \in Members, invite_member(m) \/ revoke_invitation(m)
  PROVE  TypeOK'
<1>1. MemberTypeOK'
  BY DEF TypeOK, MemberTypeOK, invite_member, revoke_invitation
<1> QED
  BY <1>1, Kept DEF TypeOK, invite_member, revoke_invitation, cycleVars

\* What the group record and the entry become under the operations that only
\* change these two.
LEMMA GroupOnlyType ==
  ASSUME TypeOK,
         \/ \E enabled \in BOOLEAN : set_invitation_only(enabled)
         \/ \E a \in Amounts, d \in Durations, n \in Sizes : update_group(a, d, n)
         \/ activate_group
         \/ pause_group \/ resume_group \/ cancel_group
         \/ \E allowed \in BOOLEAN : set_dynamic_contributions(allowed)
  PROVE  TypeOK'
<1>1. GroupTypeOK /\ group \in GroupRecords /\ statusKey \in Statuses /\ now \in Nat
  BY DEF TypeOK, GroupTypeOK, LedgerTypeOK
<1>2. CASE \E enabled \in BOOLEAN : set_invitation_only(enabled)
  <2>1. GroupTypeOK'
    BY <1>1, <1>2, SMTT(30) DEF GroupTypeOK, GroupRecords, set_invitation_only
  <2> QED
    BY <2>1, <1>2, Kept DEF TypeOK, set_invitation_only, cycleVars
<1>3. CASE \E a \in Amounts, d \in Durations, n \in Sizes : update_group(a, d, n)
  <2>1. GroupTypeOK'
    BY <1>1, <1>3, ZenonT(40) DEF GroupTypeOK, GroupRecords, update_group
  <2> QED
    BY <2>1, <1>3, Kept, ZenonT(40) DEF TypeOK, update_group, cycleVars
<1>4. CASE activate_group
  <2>1. GroupTypeOK'
    BY <1>1, <1>4, Zenon DEF GroupTypeOK, GroupRecords, activate_group, Statuses
  <2> QED
    BY <2>1, <1>4, Kept DEF TypeOK, activate_group, cycleVars
<1>5. CASE pause_group \/ resume_group
  <2>1. GroupTypeOK'
    BY <1>1, <1>5, ZenonT(40)
       DEF GroupTypeOK, GroupRecords, pause_group, resume_group, Statuses
  <2> QED
    BY <2>1, <1>5, Kept DEF TypeOK, pause_group, resume_group, cycleVars
<1>6. CASE cancel_group
  <2>1. GroupTypeOK'
    BY <1>1, <1>6 DEF GroupTypeOK, cancel_group, Statuses
  <2> QED
    BY <2>1, <1>6, Kept DEF TypeOK, cancel_group, cycleVars
<1>7. CASE \E allowed \in BOOLEAN : set_dynamic_contributions(allowed)
  <2>1. GroupTypeOK'
    BY <1>1, <1>7 DEF GroupTypeOK, GroupRecords, set_dynamic_contributions
  <2> QED
    BY <2>1, <1>7, Kept DEF TypeOK, set_dynamic_contributions, cycleVars
<1> QED
  BY <1>2, <1>3, <1>4, <1>5, <1>6, <1>7

\* How many members or cycles one invocation records contributions for.
LEMMA Counts ==
  /\ \A S \in SUBSET Members : Cardinality(S) \in Nat
  /\ \A S \in SUBSET Cycles : Cardinality(S) \in Nat
<1>1. IsFiniteSet(Cycles)
  BY SizesAssumption, FS_Interval DEF Cycles
<1> QED
  BY <1>1, MembersAssumption, FS_Subset, FS_CardinalityType

\* record_contribution_unchecked keeps records and counters well typed.
LEMMA RecordType ==
  ASSUME TypeOK, NEW members \in SUBSET Members, NEW cycles \in SUBSET Cycles,
         RecordContributions(members, cycles)
  PROVE  ContributionTypeOK'
<1> DEFINE added == group.amount * Cardinality(members)
<1>1. group.amount \in Amounts /\ group.amount \in Nat
  BY GroupFields DEF TypeOK
<1>2. Cardinality(members) \in Nat /\ Cardinality(cycles) \in Nat
  BY Counts
<1>3. added \in Nat /\ added * Cardinality(cycles) \in Nat
  BY <1>1, <1>2, NatProduct
<1>4. ContributionTypeOK
  BY DEF TypeOK
<1> HIDE DEF added
<1>5. contribution' \in [Cycles -> [Members -> Amounts \cup {0}]]
  BY <1>1, <1>4 DEF ContributionTypeOK, RecordContributions
<1>6. cycleTotal' \in [Cycles -> Nat]
  <2>1. cycleTotal' = [c \in Cycles |-> IF c \in cycles THEN cycleTotal[c] + added
                                                        ELSE cycleTotal[c]]
    BY DEF RecordContributions, added
  <2> QED
    BY <1>3, <1>4, <2>1 DEF ContributionTypeOK
<1>7. cycleCount' \in [Cycles -> Nat]
  BY <1>2, <1>4 DEF ContributionTypeOK, RecordContributions
<1>8. groupBalance' \in Int
  <2>1. groupBalance' = groupBalance + added * Cardinality(cycles)
    BY DEF RecordContributions, added
  <2> QED
    BY <1>3, <1>4, <2>1 DEF ContributionTypeOK
<1> QED
  BY <1>5, <1>6, <1>7, <1>8 DEF ContributionTypeOK

\* Tokens that come in keep the balance an integer.
LEMMA ReceiveType ==
  ASSUME TypeOK, NEW members \in SUBSET Members, NEW cycles \in SUBSET Cycles,
         ReceiveTokens(members, cycles)
  PROVE  held' \in Int
<1> DEFINE received == group.amount * Cardinality(members) * Cardinality(cycles)
<1>1. group.amount \in Nat /\ Cardinality(members) \in Nat /\ Cardinality(cycles) \in Nat
  BY GroupFields, Counts DEF TypeOK
<1>2. received \in Nat
  BY <1>1, NatProduct
<1>3. held' = held + received /\ held \in Int
  BY DEF ReceiveTokens, TypeOK, ReturnTypeOK
<1> HIDE DEF received
<1> QED
  BY <1>2, <1>3

\* An operation that only records contributions and takes their tokens in keeps
\* every entry well typed.
LEMMA RecordedType ==
  ASSUME TypeOK, NEW members \in SUBSET Members, NEW cycles \in SUBSET Cycles,
         RecordContributions(members, cycles), held' \in Int,
         UNCHANGED <<groupVars, memberVars, payoutVars, refunded, autoContribute,
                     ledgerVars, voteVars>>
  PROVE  TypeOK'
<1>1. ContributionTypeOK'
  BY RecordType
<1>2. ReturnTypeOK
  BY DEF TypeOK
<1>3. ReturnTypeOK'
  BY <1>2 DEF ReturnTypeOK
<1> QED
  BY <1>1, <1>3, Kept, Zenon DEF TypeOK

\* The ways of contributing keep every entry well typed.
LEMMA ContributeType ==
  ASSUME TypeOK,
         \/ \E m \in Members : contribute(m) \/ contribute_with_proof(m)
         \/ \E m \in Members, cs \in SUBSET Cycles : contribute_batch(m, cs)
         \/ \E able \in SUBSET Members : execute_auto_contributions(able)
  PROVE  TypeOK'
<1>1. {group.currentCycle} \in SUBSET Cycles /\ held \in Int
  BY GroupFields DEF TypeOK, ReturnTypeOK
<1>2. ASSUME NEW members \in SUBSET Members, NEW cycles \in SUBSET Cycles,
             RecordContributions(members, cycles),
             ReceiveTokens(members, cycles) \/ UNCHANGED held,
             UNCHANGED <<groupVars, memberVars, payoutVars, refunded,
                         autoContribute, ledgerVars, voteVars>>
      PROVE  TypeOK'
  <2>1. held' \in Int
    BY <1>1, <1>2, ReceiveType
  <2> QED
    BY <1>2, <2>1, RecordedType, Zenon
<1>3. ASSUME NEW m \in Members, contribute(m)
      PROVE  TypeOK'
  <2>1. {m} \in SUBSET Members
    OBVIOUS
  <2> QED
    BY <1>1, <1>2, <1>3, <2>1, Zenon DEF contribute
<1>4. ASSUME NEW m \in Members, contribute_with_proof(m)
      PROVE  TypeOK'
  <2>1. {m} \in SUBSET Members
    OBVIOUS
  <2> QED
    BY <1>1, <1>2, <1>4, <2>1, Zenon DEF contribute_with_proof
<1>5. ASSUME NEW m \in Members, NEW cs \in SUBSET Cycles, contribute_batch(m, cs)
      PROVE  TypeOK'
  <2>1. {m} \in SUBSET Members
    OBVIOUS
  <2> QED
    BY <1>2, <1>5, <2>1, Zenon DEF contribute_batch
<1>6. ASSUME NEW able \in SUBSET Members, execute_auto_contributions(able)
      PROVE  TypeOK'
  BY <1>1, <1>2, <1>6, Zenon DEF execute_auto_contributions
<1> QED
  BY <1>3, <1>4, <1>5, <1>6

\* The flag of automatic contributions keeps every entry well typed.
LEMMA AutoType ==
  ASSUME TypeOK, NEW m \in Members,
         enable_auto_contribute(m) \/ disable_auto_contribute(m)
  PROVE  TypeOK'
<1>1. ReturnTypeOK'
  BY DEF TypeOK, ReturnTypeOK, enable_auto_contribute, disable_auto_contribute
<1> QED
  BY <1>1, Kept DEF TypeOK, enable_auto_contribute, disable_auto_contribute

\* The cycle of a group that is not complete can advance.
LEMMA AdvanceType ==
  ASSUME GroupTypeOK, ~is_complete(group)
  PROVE  /\ advance_cycle(group) \in GroupRecords
         /\ advance_cycle(group).currentCycle = group.currentCycle + 1
         /\ group.currentCycle < MaxSize
<1>1. /\ group \in GroupRecords /\ group.currentCycle \in 0..MaxSize
      /\ group.maxMembers \in 0..MaxSize /\ MaxSize \in Nat
      /\ group.currentCycle < group.maxMembers
  BY GroupFields, SizesAssumption DEF GroupTypeOK, is_complete, Cycles, Sizes
<1>2. group.currentCycle + 1 \in Cycles
  BY <1>1 DEF Cycles
<1> DEFINE next == [group EXCEPT !.currentCycle = @ + 1]
<1>3. next \in GroupRecords /\ next.currentCycle = group.currentCycle + 1
  BY <1>1, <1>2 DEF GroupRecords
<1>4. advance_cycle(group) = IF is_complete(next)
        THEN [next EXCEPT !.status = "Completed", !.isActive = FALSE]
        ELSE next
  BY DEF advance_cycle
<1> HIDE DEF next
<1>5. [next EXCEPT !.status = "Completed", !.isActive = FALSE] \in GroupRecords
  BY <1>3, Zenon DEF GroupRecords, Statuses
<1>6. [next EXCEPT !.status = "Completed", !.isActive = FALSE].currentCycle
        = next.currentCycle
  BY <1>3 DEF GroupRecords
<1> QED
  BY <1>1, <1>3, <1>4, <1>5, <1>6

\* record_payout and execute_transfer keep every entry well typed.
LEMMA PayRecipientType ==
  ASSUME TypeOK, RecipientFound, PayRecipient
  PROVE  PayoutTypeOK' /\ held' \in Int
<1>1. /\ group.currentCycle \in Cycles /\ group.amount \in Nat
      /\ group.memberCount \in Nat
  BY GroupFields DEF TypeOK
<1>2. TotalPool \in Nat
  BY <1>1, NatProduct DEF TotalPool
<1>3. positionIndex[group.currentCycle] \in Members
  BY <1>1 DEF TypeOK, MemberTypeOK, RecipientFound, Cycles, Positions
<1>4. PayoutTypeOK /\ held \in Int
  BY DEF TypeOK, ReturnTypeOK
<1> QED
  BY <1>1, <1>2, <1>3, <1>4 DEF PayoutTypeOK, PayRecipient

\* execute_payout keeps every entry well typed.
LEMMA PayoutType ==
  ASSUME TypeOK, execute_payout
  PROVE  TypeOK'
<1>1. GroupTypeOK'
  BY AdvanceType DEF TypeOK, GroupTypeOK, execute_payout
<1>2. PayoutTypeOK' /\ held' \in Int
  BY PayRecipientType DEF execute_payout, PayoutSucceeds
<1>3. ReturnTypeOK'
  BY <1>2 DEF TypeOK, ReturnTypeOK, execute_payout
<1>4. LedgerTypeOK'
  BY SMTT(30) DEF TypeOK, LedgerTypeOK, execute_payout
<1> QED
  BY <1>1, <1>2, <1>3, <1>4, Kept DEF TypeOK, execute_payout

\* tick keeps every entry well typed.
LEMMA TickType ==
  ASSUME TypeOK, tick
  PROVE  TypeOK'
<1>1. GroupTypeOK'
  BY AdvanceType DEF TypeOK, GroupTypeOK, tick
<1>2. PayoutTypeOK' /\ held' \in Int
  <2>1. CASE PayoutSucceeds /\ PayRecipient
    BY <2>1, PayRecipientType DEF PayoutSucceeds
  <2>2. CASE UNCHANGED <<payoutVars, held>>
    BY <2>2, Kept, SMTT(30) DEF TypeOK, ReturnTypeOK
  <2> QED
    BY <2>1, <2>2 DEF tick
<1>3. ReturnTypeOK'
  BY <1>2 DEF TypeOK, ReturnTypeOK, tick
<1>4. LedgerTypeOK'
  BY ZenonT(40) DEF TypeOK, LedgerTypeOK, tick
<1> QED
  BY <1>1, <1>2, <1>3, <1>4, Kept, SMTT(30) DEF TypeOK, tick

\* request_refund keeps every entry well typed.
LEMMA RefundType ==
  ASSUME TypeOK, NEW m \in Members, NEW c \in Cycles, request_refund(m, c)
  PROVE  TypeOK'
<1>1. contribution[c][m] \in Nat
  <2>1. contribution[c][m] \in Amounts \cup {0}
    BY DEF TypeOK, ContributionTypeOK
  <2> QED
    BY <2>1, AmountsPositive
<1>2. ReturnTypeOK'
  <2>1. /\ refunded' = [refunded EXCEPT ![c] = @ \cup {m}]
        /\ held' = held - contribution[c][m]
        /\ UNCHANGED autoContribute
    BY Zenon DEF request_refund
  <2>2. ReturnTypeOK
    BY DEF TypeOK
  <2> QED
    BY <1>1, <2>1, <2>2 DEF ReturnTypeOK
<1> QED
  BY <1>2, Kept DEF TypeOK, request_refund

\* emergency_withdraw keeps every entry well typed.
LEMMA WithdrawType ==
  ASSUME TypeOK, NEW m \in Members, emergency_withdraw(m)
  PROVE  TypeOK'
<1>1. PICK amount \in Funds :
        groupBalance' = groupBalance - amount /\ held' = held - amount
  BY DEF emergency_withdraw
<1>2. amount \in Nat
  BY AmountsAssumption DEF Funds
<1>3. ContributionTypeOK'
  <2>1. UNCHANGED <<contribution, cycleTotal, cycleCount>>
    BY Zenon DEF emergency_withdraw
  <2>2. ContributionTypeOK
    BY DEF TypeOK
  <2> QED
    BY <1>1, <1>2, <2>1, <2>2 DEF ContributionTypeOK
<1>4. ReturnTypeOK'
  <2>1. UNCHANGED <<refunded, autoContribute>>
    BY Zenon DEF emergency_withdraw
  <2>2. ReturnTypeOK
    BY DEF TypeOK
  <2> QED
    BY <1>1, <1>2, <2>1, <2>2 DEF ReturnTypeOK
<1>5. MemberTypeOK'
  BY ZenonT(40) DEF TypeOK, MemberTypeOK, emergency_withdraw
<1> QED
  BY <1>3, <1>4, <1>5, Kept, ZenonT(40) DEF TypeOK, emergency_withdraw

\* Time and the expiry of the guard keep every entry well typed.
LEMMA EnvironmentType ==
  ASSUME TypeOK, Environment
  PROVE  TypeOK'
<1>1. LedgerTypeOK'
  <2>1. LedgerTypeOK
    BY DEF TypeOK
  <2>2. CASE LedgerCloses
    BY <2>1, <2>2 DEF LedgerTypeOK, LedgerCloses
  <2>3. CASE GuardExpires
    BY <2>1, <2>3, Zenon DEF LedgerTypeOK, GuardExpires
  <2> QED
    BY <2>2, <2>3 DEF Environment
<1> QED
  BY <1>1, Kept DEF TypeOK, Environment, LedgerCloses, GuardExpires, cycleVars

\* Disputes keep every entry well typed.
LEMMA DisputeType ==
  ASSUME TypeOK, resolve_dispute \/ \E m \in Members : raise_dispute(m)
  PROVE  TypeOK'
<1>1. GroupTypeOK
  BY DEF TypeOK
<1>2. CASE resolve_dispute
  <2>1. GroupTypeOK'
    BY <1>1, <1>2, Zenon DEF GroupTypeOK, GroupRecords, resolve_dispute, Statuses
  <2>2. VoteTypeOK'
    BY <1>2
       DEF TypeOK, VoteTypeOK, resolve_dispute, dissolveVars, changeVars
  <2> QED
    BY <1>2, <2>1, <2>2, Kept DEF TypeOK, resolve_dispute, cycleVars
<1>3. ASSUME NEW m \in Members, raise_dispute(m)
      PROVE  TypeOK'
  <2>1. GroupTypeOK'
    BY <1>1, <1>3, ZenonT(40)
       DEF GroupTypeOK, GroupRecords, raise_dispute, Statuses, groupVars
  <2>2. VoteTypeOK'
    BY <1>3 DEF TypeOK, VoteTypeOK, raise_dispute, dissolveVars, changeVars
  <2> QED
    BY <1>3, <2>1, <2>2, Kept DEF TypeOK, raise_dispute, cycleVars
<1> QED
  BY <1>2, <1>3

\* Votes on dissolution keep every entry well typed.
LEMMA DissolveType ==
  ASSUME TypeOK, NEW m \in Members, vote_dissolve(m)
  PROVE  TypeOK'
<1>1. VoteTypeOK'
  BY DEF TypeOK, VoteTypeOK, vote_dissolve, disputeVars, changeVars
<1>2. GroupTypeOK' /\ ReturnTypeOK'
  <2>1. GroupTypeOK /\ ReturnTypeOK /\ group.currentCycle \in Cycles
    BY GroupFields DEF TypeOK
  <2>2. CASE execute_dissolution
    <3>1. GroupTypeOK'
      BY <2>1, <2>2, ZenonT(40) DEF GroupTypeOK, GroupRecords, execute_dissolution, Statuses
    <3>2. PICK total \in Funds : held' = held - total
      BY <2>2, Zenon DEF execute_dissolution
    <3>3. held' \in Int
      BY <2>1, <3>2, AmountsAssumption DEF Funds, ReturnTypeOK
    <3>4. DueRefund \subseteq Members
      BY DEF DueRefund, ListedMembers, ListedKeys, TypeOK, MemberTypeOK
    <3>5. refunded' \in [Cycles -> SUBSET Members]
      BY <2>1, <2>2, <3>4 DEF execute_dissolution, ReturnTypeOK
    <3>6. autoContribute' \subseteq Members
      BY <2>1, SMTT(30) DEF vote_dissolve, ReturnTypeOK
    <3> QED
      BY <3>1, <3>3, <3>5, <3>6 DEF ReturnTypeOK
  <2>3. CASE UNCHANGED <<groupVars, refunded, held>>
    BY <2>1, <2>3, Kept DEF vote_dissolve
  <2> QED
    BY <2>2, <2>3 DEF vote_dissolve
<1> QED
  BY <1>1, <1>2, Kept DEF TypeOK, vote_dissolve

\* Votes on the contribution amount keep every entry well typed.
LEMMA ChangeType ==
  ASSUME TypeOK,
         \/ \E a \in Amounts : propose_contribution_change(a)
         \/ \E m \in Members : vote_contribution_change(m)
  PROVE  TypeOK'
<1>1. GroupTypeOK /\ VoteTypeOK
  BY DEF TypeOK
<1>2. ASSUME NEW a \in Amounts, propose_contribution_change(a)
      PROVE  TypeOK'
  <2>1. VoteTypeOK'
    BY <1>1, <1>2
       DEF VoteTypeOK, propose_contribution_change, disputeVars, dissolveVars
  <2> QED
    BY <1>2, <2>1, Kept, SMTT(30) DEF TypeOK, propose_contribution_change, cycleVars
<1>3. ASSUME NEW m \in Members, vote_contribution_change(m)
      PROVE  TypeOK'
  <2>1. GroupTypeOK'
    <3>1. pendingAmount \in Amounts /\ group \in GroupRecords
      BY <1>1, <1>3 DEF VoteTypeOK, GroupTypeOK, vote_contribution_change
    <3>2. [group EXCEPT !.amount = pendingAmount] \in GroupRecords
      BY <3>1 DEF GroupRecords
    <3> QED
      BY <1>1, <1>3, <3>1, <3>2 DEF GroupTypeOK, vote_contribution_change
  <2>2. VoteTypeOK'
    BY <1>1, <1>3
       DEF VoteTypeOK, vote_contribution_change, disputeVars, dissolveVars
  <2> QED
    BY <1>3, <2>1, <2>2, Kept DEF TypeOK, vote_contribution_change, cycleVars
<1> QED
  BY <1>2, <1>3

\* Every operation keeps every entry well typed.
LEMMA NextType == TypeOK /\ [Next]_vars => TypeOK'
<1> SUFFICES ASSUME TypeOK, [Next]_vars PROVE TypeOK'
  OBVIOUS
<1>1. CASE Environment
  BY <1>1, EnvironmentType
<1>2. CASE Enrolment
  BY <1>2, JoinType, InvitationType, AssignType, GroupOnlyType DEF Enrolment
<1>3. CASE Reordering
  BY <1>3, AssignType, RemoveType DEF Reordering
<1>4. CASE Rotation
  BY <1>4, ContributeType, AutoType, PayoutType, TickType DEF Rotation
<1>5. CASE Returns
  BY <1>5, RefundType, WithdrawType DEF Returns
<1>6. CASE StatusChanges
  BY <1>6, GroupOnlyType, DisputeType DEF StatusChanges
<1>7. CASE AmountChanges
  BY <1>7, GroupOnlyType, ChangeType DEF AmountChanges
<1>8. CASE Dissolution
  BY <1>8, DissolveType DEF Dissolution
<1>9. CASE Unfunded
  BY <1>9, ContributeType DEF Unfunded
<1>10. CASE UNCHANGED vars
  BY <1>10, Kept DEF TypeOK, vars, cycleVars
<1> QED
  BY <1>1, <1>2, <1>3, <1>4, <1>5, <1>6, <1>7, <1>8, <1>9, <1>10, SMTT(30) DEF Next

\* Every reachable state of a group, of any size and under any interleaving
\* of the contract's operations, is well typed.
THEOREM TypeCorrect == Spec => []TypeOK
<1>1. Init => TypeOK
  BY InitType
<1>2. TypeOK /\ [Next]_vars => TypeOK'
  BY NextType
<1> QED
  BY <1>1, <1>2, PTL DEF Spec
=============================================================================
