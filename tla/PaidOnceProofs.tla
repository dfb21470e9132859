--------------------------- MODULE PaidOnceProofs ---------------------------
(***************************************************************************)
(* Nobody is paid in two cycles, in a group whose positions come from      *)
(* joining or from assign_payout_positions in its sequential or randomized *)
(* mode, and from which nobody is removed (OrderedSpec).                   *)
(*                                                                         *)
(* The argument: the keys of the member map are 0..member_count-1, and the *)
(* index from position to member lists the same members in some order.  A  *)
(* member who withdraws before the start and joins again is listed twice,  *)
(* but then fewer than member_count members can contribute and no payout   *)
(* ever goes out.  So once there is a payout the index is injective, and   *)
(* since the group is no longer pending it does not change any more.       *)
(***************************************************************************)
EXTENDS LifecycleProofs

Slots == 0..(group.memberCount - 1)

Contributors(c) == {m \in Members : contribution[c][m] # 0}

\* The map and the index list the same members, at the positions in use.
Listing ==
  /\ group.memberCount <= MaxSize
  /\ ListedKeys = Slots
  /\ \A p \in Positions : positionIndex[p] # NoMember => p \in Slots
  /\ {positionIndex[p] : p \in Slots} = ListedMembers
  /\ \A m \in Members : is_active_member(m) => m \in ListedMembers

\* The counter of a cycle counts its contributors, all of whom are listed.
Counting ==
  \A c \in Cycles :
    /\ cycleCount[c] = Cardinality(Contributors(c))
    /\ Contributors(c) \subseteq ListedMembers

\* After the first payout the order is fixed, and lists nobody twice.
Settled ==
  \A c \in Cycles : payoutRecipient[c] # NoMember =>
    /\ group.status # "Pending" /\ statusKey # "Pending"
    /\ c \in Slots
    /\ payoutRecipient[c] = positionIndex[c]
    /\ Cardinality(ListedMembers) = group.memberCount

PaidOnceInv == PendingInv /\ Listing /\ Counting /\ Settled

-----------------------------------------------------------------------------
(* The listing.                                                            *)

\* There are n positions from 0 to n - 1.
LEMMA IntervalFromZero ==
  \A n \in Nat : IsFiniteSet(0..(n - 1)) /\ Cardinality(0..(n - 1)) = n
<1> SUFFICES ASSUME NEW n \in Nat
             PROVE  IsFiniteSet(0..(n - 1)) /\ Cardinality(0..(n - 1)) = n
  OBVIOUS
<1>1. n - 1 \in Int /\ 0 \in Int
  OBVIOUS
<1>2. /\ IsFiniteSet(0..(n - 1))
      /\ Cardinality(0..(n - 1)) = IF 0 > n - 1 THEN 0 ELSE (n - 1) - 0 + 1
  BY <1>1, FS_Interval
<1> QED
  BY <1>2

\* The positions in use are finitely many, member_count of them.
LEMMA SlotFacts ==
  ASSUME TypeOK, Listing
  PROVE  /\ group.memberCount \in Nat
         /\ Slots \subseteq Positions
         /\ IsFiniteSet(Slots) /\ Cardinality(Slots) = group.memberCount
         /\ ListedMembers \subseteq Members
         /\ IsFiniteSet(ListedMembers)
         /\ Cardinality(ListedMembers) <= group.memberCount
<1>1. group.memberCount \in Nat
  BY GroupFields DEF TypeOK
<1>2. Slots \subseteq Positions
  BY <1>1, SizesAssumption DEF Listing, Slots, Positions
<1>3. IsFiniteSet(Slots) /\ Cardinality(Slots) = group.memberCount
  BY <1>1, IntervalFromZero DEF Slots
<1>4. ListedMembers \subseteq Members
  BY DEF ListedMembers, ListedKeys, TypeOK, MemberTypeOK
<1> DEFINE f == [k \in Slots |-> memberMap[k]]
<1>5. f \in Surjection(Slots, ListedMembers)
  BY DEF Listing, ListedMembers, Surjection
<1>6. IsFiniteSet(ListedMembers) /\ Cardinality(ListedMembers) <= Cardinality(Slots)
  BY <1>3, <1>5, FS_Surjection
<1> QED
  BY <1>1, <1>2, <1>3, <1>4, <1>6

\* Giving the listed members the positions in use, each once, keeps the
\* listing.
LEMMA Relisting ==
  ASSUME TypeOK, Listing, NEW positions \in [ListedKeys -> Slots],
         \A j, k \in ListedKeys : positions[j] = positions[k] => j = k,
         \A p \in Slots : \E k \in ListedKeys : positions[k] = p,
         WritePositions(positions)
  PROVE  Listing'
<1> DEFINE keysAt(p) == {k \in ListedKeys : positions[k] = p}
<1>1. /\ Slots \subseteq Positions /\ ListedKeys = Slots
      /\ UNCHANGED <<group, memberMap>>
  BY SlotFacts DEF Listing, WritePositions, groupVars
<1>2. /\ Slots' = Slots /\ ListedKeys' = ListedKeys
      /\ ListedMembers' = ListedMembers
  BY <1>1 DEF Slots, ListedKeys, ListedMembers
<1>3. ASSUME NEW k \in ListedKeys
      PROVE  positionIndex'[positions[k]] = memberMap[k]
  <2>1. keysAt(positions[k]) = {k}
    OBVIOUS
  <2>2. Max({k}) = k
    <3>1. {k} \in SUBSET Positions /\ {k} # {}
      BY <1>1
    <3>2. Max({k}) \in {k}
      BY <3>1, MaxOfPositions
    <3> QED
      BY <3>2
  <2>3. positions[k] \in Positions /\ positions[k] \in {positions[j] : j \in ListedKeys}
    BY <1>1
  <2>4. positionIndex'[positions[k]] = memberMap[Max(keysAt(positions[k]))]
    BY <2>3 DEF WritePositions
  <2> QED
    BY <2>1, <2>2, <2>4
<1>4. {positionIndex'[p] : p \in Slots} = ListedMembers
  <2>1. ASSUME NEW p \in Slots PROVE positionIndex'[p] \in ListedMembers
    <3>1. PICK k \in ListedKeys : positions[k] = p
      OBVIOUS
    <3> QED
      BY <1>3, <3>1 DEF ListedMembers
  <2>2. ASSUME NEW m \in ListedMembers
        PROVE  \E p \in Slots : positionIndex'[p] = m
    <3>1. PICK k \in ListedKeys : memberMap[k] = m
      BY DEF ListedMembers
    <3> QED
      BY <1>3, <3>1
  <2> QED
    BY <2>1, <2>2
<1>5. \A p \in Positions : positionIndex'[p] # NoMember => p \in Slots
  <2> SUFFICES ASSUME NEW p \in Positions, p \notin Slots
               PROVE  positionIndex'[p] = NoMember
    OBVIOUS
  <2>1. p \notin {positions[k] : k \in ListedKeys}
    OBVIOUS
  <2>2. positionIndex'[p] = positionIndex[p]
    BY <2>1 DEF WritePositions
  <2> QED
    BY <2>2 DEF Listing
<1>6. \A m \in Members : is_active_member(m)' => m \in ListedMembers
  BY DEF WritePositions, is_active_member, Listing
<1> QED
  BY <1>1, <1>2, <1>4, <1>5, <1>6 DEF Listing

\* A sequential assignment lists everybody once, in the order of the keys.
LEMMA ListingSequential ==
  ASSUME TypeOK, Listing, assign_sequential
  PROVE  Listing'
<1> DEFINE ranks == [k \in ListedKeys |-> Cardinality({j \in ListedKeys : j < k})]
<1>1. ListedKeys = Slots /\ group.memberCount \in Nat
  BY SlotFacts DEF Listing
<1>2. ASSUME NEW k \in ListedKeys
      PROVE  Cardinality({j \in ListedKeys : j < k}) = k
  <2>1. k \in Nat /\ {j \in ListedKeys : j < k} = 0..(k - 1)
    BY <1>1 DEF Slots
  <2> QED
    BY <2>1, IntervalFromZero, Zenon
<1>3. ranks = [k \in ListedKeys |-> k]
  BY <1>2
<1> HIDE DEF ranks
<1>4. /\ ranks \in [ListedKeys -> Slots]
      /\ \A j, k \in ListedKeys : ranks[j] = ranks[k] => j = k
      /\ \A p \in Slots : \E k \in ListedKeys : ranks[k] = p
  BY <1>1, <1>3
<1>5. WritePositions(ranks)
  BY DEF assign_sequential, ranks
<1> QED
  BY <1>4, <1>5, Relisting

\* A shuffled assignment lists the same members in another order.
LEMMA ListingRandomized ==
  ASSUME TypeOK, Listing, assign_randomized
  PROVE  Listing'
<1>1. PICK order \in ShuffledOrders : WritePositions(order)
  BY DEF assign_randomized
<1>2. ListedKeys = Slots /\ IsFiniteSet(Slots)
      /\ Cardinality(ListedKeys) = group.memberCount
  BY SlotFacts DEF Listing
<1>3. /\ order \in [ListedKeys -> Slots]
      /\ \A j, k \in ListedKeys : order[j] = order[k] => j = k
  BY <1>2 DEF ShuffledOrders, Slots
<1>4. order \in Injection(Slots, Slots)
  BY <1>2, <1>3 DEF Injection, IsInjective
<1>5. order \in Surjection(Slots, Slots)
  BY <1>2, <1>4, FS_Injection
<1>6. \A p \in Slots : \E k \in ListedKeys : order[k] = p
  BY <1>2, <1>5 DEF Surjection
<1> QED
  BY <1>1, <1>3, <1>6, Relisting

\* join_group gives the next free position and lists the member there.
LEMMA ListingJoin ==
  ASSUME TypeOK, Listing, NEW m \in Members, join_group(m)
  PROVE  Listing' /\ ListedMembers' = ListedMembers \cup {m}
<1> DEFINE n == group.memberCount
<1>1. /\ n \in Nat /\ group \in GroupRecords /\ n < group.maxMembers
      /\ group.maxMembers \in Nat /\ group.maxMembers <= MaxSize /\ MaxSize \in Nat
  BY GroupFields, SizesAssumption DEF TypeOK, join_group
<1>2. n \in Positions /\ n \notin Slots /\ n + 1 <= MaxSize
  BY <1>1 DEF Positions, Slots
<1>3. group'.memberCount = n + 1
  BY <1>1 DEF join_group, GroupRecords
<1>4. Slots' = Slots \cup {n}
  BY <1>1, <1>3 DEF Slots
<1>5. /\ memberMap \in [Positions -> Members \cup {NoMember}]
      /\ positionIndex \in [Positions -> Members \cup {NoMember}]
      /\ profile \in [Members -> Positions \cup {NoPosition}]
      /\ m # NoMember /\ Slots \subseteq Positions
  BY MembersAssumption, SlotFacts DEF TypeOK, MemberTypeOK
<1>6. /\ memberMap' = [memberMap EXCEPT ![n] = m]
      /\ positionIndex' = [positionIndex EXCEPT ![n] = m]
      /\ profile' = [profile EXCEPT ![m] = n]
  BY DEF join_group
<1>7. ListedKeys = Slots
  BY DEF Listing
<1> HIDE DEF n
<1>8. ListedKeys' = ListedKeys \cup {n}
  BY <1>2, <1>5, <1>6 DEF ListedKeys
<1>9. ListedMembers' = ListedMembers \cup {m}
  <2>1. ListedMembers' = {memberMap'[k] : k \in ListedKeys \cup {n}}
    BY <1>8 DEF ListedMembers
  <2>2. \A k \in ListedKeys : memberMap'[k] = memberMap[k]
    BY <1>2, <1>5, <1>6, <1>7
  <2>3. memberMap'[n] = m
    BY <1>2, <1>5, <1>6
  <2> QED
    BY <2>1, <2>2, <2>3 DEF ListedMembers
<1>10. {positionIndex'[p] : p \in Slots'} = ListedMembers'
  <2>1. \A p \in Slots : positionIndex'[p] = positionIndex[p]
    BY <1>2, <1>5, <1>6
  <2>2. positionIndex'[n] = m
    BY <1>2, <1>5, <1>6
  <2>3. {positionIndex[p] : p \in Slots} = ListedMembers
    BY DEF Listing
  <2> QED
    BY <1>4, <1>9, <2>1, <2>2, <2>3
<1>11. \A p \in Positions : positionIndex'[p] # NoMember => p \in Slots'
  BY <1>4, <1>5, <1>6 DEF Listing
<1>12. \A x \in Members : is_active_member(x)' => x \in ListedMembers'
  BY <1>5, <1>6, <1>9 DEF Listing, is_active_member
<1> QED
  BY <1>2, <1>3, <1>4, <1>7, <1>8, <1>9, <1>10, <1>11, <1>12, ZenonT(40) DEF Listing

\* Operations that leave the map and the index alone keep the listing.
LEMMA ListingKept ==
  ASSUME TypeOK, Listing, UNCHANGED <<memberMap, positionIndex>>,
         group'.memberCount = group.memberCount,
         \A m \in Members : is_active_member(m)' => is_active_member(m)
  PROVE  Listing'
<1>1. /\ Slots' = Slots /\ ListedKeys' = ListedKeys /\ ListedMembers' = ListedMembers
  BY DEF Slots, ListedKeys, ListedMembers
<1> QED
  BY <1>1 DEF Listing

\* The operations that touch neither the map, the index nor the count, and
\* make nobody a member.
Others ==
  \/ Environment
  \/ \E m \in Members : invite_member(m) \/ revoke_invitation(m)
  \/ randomize_payout_order \/ activate_group
  \/ \E enabled \in BOOLEAN : set_invitation_only(enabled)
  \/ \E a \in Amounts, d \in Durations, n \in Sizes : update_group(a, d, n)
  \/ Rotation \/ Returns \/ StatusChanges \/ AmountChanges \/ Dissolution \/ Unfunded

\* The operations that change the listing, and all the others.
LEMMA OrderedCases ==
  ASSUME OrderedNext
  PROVE  \/ Others \/ assign_sequential \/ assign_randomized
         \/ \E m \in Members : join_group(m)
BY DEF OrderedNext, Others, Enrolment

\* The others leave the listing alone and never make a group pending again.
LEMMA OthersKeepOrder ==
  ASSUME TypeOK, Others
  PROVE  /\ UNCHANGED <<memberMap, positionIndex>>
         /\ group'.memberCount = group.memberCount
         /\ \A m \in Members : is_active_member(m)' => is_active_member(m)
         /\ group.status # "Pending" => group'.status # "Pending"
         /\ statusKey # "Pending" => statusKey' # "Pending"
<1> USE DEF groupVars, memberVars, is_active_member
<1>1. group \in GroupRecords /\ profile \in [Members -> Positions \cup {NoPosition}]
  BY GroupFields, ZenonT(40) DEF TypeOK, MemberTypeOK
<1>2. CASE \/ \E m \in Members : invite_member(m) \/ revoke_invitation(m)
           \/ randomize_payout_order \/ activate_group
           \/ \E enabled \in BOOLEAN : set_invitation_only(enabled)
           \/ \E a \in Amounts, d \in Durations, n \in Sizes : update_group(a, d, n)
  BY <1>1, <1>2, Zenon
     DEF GroupRecords, invite_member, revoke_invitation, randomize_payout_order,
         activate_group, set_invitation_only, update_group
<1>3. CASE Environment
  BY <1>3 DEF Environment, LedgerCloses, GuardExpires
<1>4. CASE Rotation \/ Unfunded
  <2>1. ASSUME group' = advance_cycle(group)
        PROVE  /\ group'.memberCount = group.memberCount
               /\ group.status # "Pending" => group'.status # "Pending"
    BY <1>1, <2>1, ZenonT(40) DEF advance_cycle, GroupRecords
  <2>2. UNCHANGED <<memberVars, statusKey>>
    BY <1>4, Zenon
       DEF Rotation, Unfunded, contribute, contribute_batch, contribute_with_proof,
           enable_auto_contribute, disable_auto_contribute,
           execute_auto_contributions, execute_payout, tick
  <2>3. UNCHANGED group \/ group' = advance_cycle(group)
    BY <1>4, Zenon
       DEF Rotation, Unfunded, contribute, contribute_batch, contribute_with_proof,
           enable_auto_contribute, disable_auto_contribute,
           execute_auto_contributions, execute_payout, tick
  <2> QED
    BY <2>1, <2>2, <2>3
<1>5. CASE Returns
  BY <1>1, <1>5 DEF Returns, request_refund, emergency_withdraw
<1>6. CASE StatusChanges
  BY <1>1, <1>6, Zenon
     DEF GroupRecords, StatusChanges, pause_group, resume_group, cancel_group,
         raise_dispute, resolve_dispute
<1>7. CASE AmountChanges
  BY <1>1, <1>7
     DEF GroupRecords, AmountChanges, set_dynamic_contributions,
         propose_contribution_change, vote_contribution_change
<1>8. CASE Dissolution
  BY <1>1, <1>8, Zenon DEF GroupRecords, Dissolution, vote_dissolve, execute_dissolution
<1> QED
  BY <1>2, <1>3, <1>4, <1>5, <1>6, <1>7, <1>8, SMTT(30) DEF Others

\* Every operation without removals or manual orders keeps the listing.
LEMMA ListingStep ==
  ASSUME TypeOK, Listing, OrderedNext
  PROVE  Listing' /\ ListedMembers \subseteq ListedMembers'
<1>1. CASE Others
  <2>1. ListedMembers' = ListedMembers
    BY <1>1, OthersKeepOrder DEF ListedMembers, ListedKeys
  <2> QED
    BY <1>1, <2>1, OthersKeepOrder, ListingKept
<1>2. CASE assign_sequential \/ assign_randomized
  <2>1. UNCHANGED memberMap
    BY <1>2, Zenon DEF assign_sequential, assign_randomized, WritePositions
  <2>2. ListedMembers' = ListedMembers
    BY <2>1 DEF ListedMembers, ListedKeys
  <2> QED
    BY <1>2, <2>2, ListingSequential, ListingRandomized
<1>3. CASE \E m \in Members : join_group(m)
  BY <1>3, ListingJoin
<1> QED
  BY <1>1, <1>2, <1>3, OrderedCases

-----------------------------------------------------------------------------
(* The counting.                                                           *)

\* Recording contributions counts each new contributor once.
LEMMA CountingRecord ==
  ASSUME TypeOK, Listing, Counting,
         NEW members \in SUBSET ListedMembers, NEW cycles \in SUBSET Cycles,
         \A c \in cycles, m \in members : contribution[c][m] = 0,
         RecordContributions(members, cycles), UNCHANGED memberMap
  PROVE  Counting'
<1>1. ListedMembers' = ListedMembers /\ ListedMembers \subseteq Members
  BY SlotFacts DEF ListedMembers, ListedKeys
<1>2. group.amount # 0
  BY GroupFields DEF TypeOK
<1> SUFFICES ASSUME NEW c \in Cycles
             PROVE  /\ cycleCount'[c] = Cardinality(Contributors(c)')
                    /\ Contributors(c)' \subseteq ListedMembers
  BY <1>1 DEF Counting
<1>3. /\ cycleCount[c] = Cardinality(Contributors(c))
      /\ Contributors(c) \subseteq ListedMembers
  BY DEF Counting
<1>4. CASE c \in cycles
  <2>1. Contributors(c)' = Contributors(c) \cup members
    BY <1>1, <1>2, <1>4 DEF RecordContributions, Contributors
  <2>2. Contributors(c) \cap members = {}
    BY <1>4 DEF Contributors
  <2>3. IsFiniteSet(Contributors(c)) /\ IsFiniteSet(members)
    BY <1>1, FiniteMembers DEF Contributors
  <2>4. Cardinality(Contributors(c) \cup members) =
          Cardinality(Contributors(c)) + Cardinality(members)
            - Cardinality(Contributors(c) \cap members)
    BY <2>3, FS_Union
  <2>5. /\ Cardinality(Contributors(c) \cap members) = 0
        /\ Cardinality(Contributors(c)) \in Nat /\ Cardinality(members) \in Nat
    BY <2>2, <2>3, FS_EmptySet, FS_CardinalityType, Zenon
  <2>6. cycleCount'[c] = cycleCount[c] + Cardinality(members)
    BY <1>4 DEF RecordContributions
  <2> QED
    BY <1>3, <2>1, <2>4, <2>5, <2>6, SMTT(30)
<1>5. CASE c \notin cycles
  <2>1. Contributors(c)' = Contributors(c) /\ cycleCount'[c] = cycleCount[c]
    BY <1>5 DEF RecordContributions, Contributors
  <2> QED
    BY <1>3, <2>1
<1> QED
  BY <1>4, <1>5, SMTT(30)

\* Every operation keeps the counters equal to the contributors.
LEMMA CountingStep ==
  ASSUME TypeOK, Listing, Counting, OrderedNext
  PROVE  Counting'
<1> USE DEF cycleVars, contributionVars
<1>1. group.currentCycle \in Cycles
  BY GroupFields DEF TypeOK
<1>2. ASSUME UNCHANGED <<contribution, cycleCount>>
      PROVE  Counting'
  <2>1. \A c \in Cycles : Contributors(c)' = Contributors(c)
    BY <1>2, SMTT(30) DEF Contributors
  <2> QED
    BY <1>2, <2>1, ListingStep DEF Counting
<1>3. CASE Environment \/ Enrolment
  BY <1>2, <1>3, ZenonT(40)
     DEF Environment, LedgerCloses, GuardExpires, Enrolment, join_group,
         invite_member, revoke_invitation, assign_sequential, assign_randomized,
         WritePositions, randomize_payout_order, set_invitation_only, update_group,
         activate_group
<1>4. CASE Returns \/ StatusChanges
  BY <1>2, <1>4
     DEF Returns, request_refund, emergency_withdraw, StatusChanges, pause_group,
         resume_group, cancel_group, raise_dispute, resolve_dispute
<1>5. CASE AmountChanges \/ Dissolution
  BY <1>2, <1>5
     DEF AmountChanges, set_dynamic_contributions, propose_contribution_change,
         vote_contribution_change, Dissolution, vote_dissolve
<1>6. CASE Rotation \/ Unfunded
  <2>1. ASSUME NEW m \in Members, contribute(m) \/ contribute_with_proof(m)
        PROVE  Counting'
    <3>1. m \in ListedMembers
      BY <2>1, ZenonT(40) DEF Listing, contribute, contribute_with_proof
    <3> QED
      BY <1>1, <2>1, <3>1, CountingRecord, ZenonT(40)
         DEF contribute, contribute_with_proof, memberVars
  <2>2. ASSUME NEW m \in Members, NEW cs \in SUBSET Cycles, contribute_batch(m, cs)
        PROVE  Counting'
    <3>1. m \in ListedMembers
      BY <2>2 DEF Listing, contribute_batch
    <3> QED
      BY <2>2, <3>1, CountingRecord, ZenonT(40) DEF contribute_batch, memberVars
  <2>3. ASSUME NEW able \in SUBSET Members, execute_auto_contributions(able)
        PROVE  Counting'
    <3>1. able \subseteq ListedMembers
      BY <2>3, Zenon DEF execute_auto_contributions
    <3> QED
      BY <1>1, <2>3, <3>1, CountingRecord DEF execute_auto_contributions, memberVars
  <2>4. CASE \/ execute_payout \/ tick
             \/ \E m \in Members : enable_auto_contribute(m) \/ disable_auto_contribute(m)
    BY <1>2, <2>4
       DEF execute_payout, tick, enable_auto_contribute, disable_auto_contribute
  <2> QED
    BY <1>6, <2>1, <2>2, <2>3, <2>4, ZenonT(40) DEF Rotation, Unfunded
<1> QED
  BY <1>3, <1>4, <1>5, <1>6 DEF OrderedNext

-----------------------------------------------------------------------------
(* The payouts.                                                            *)

\* A payout goes out only when as many members have contributed as are
\* counted, so that all the listed members are different.
LEMMA SettledByPayout ==
  ASSUME PaidOnceInv, PayoutSucceeds
  PROVE  /\ statusKey # "Pending"
         /\ group.currentCycle \in Slots
         /\ Cardinality(ListedMembers) = group.memberCount
<1> DEFINE c == group.currentCycle
<1>1. TypeOK /\ PendingInv /\ Listing /\ Counting
  BY DEF PaidOnceInv, PendingInv
<1>2. /\ c \in Cycles /\ c \in Nat /\ group.memberCount \in Nat
      /\ group.memberCount > 0 /\ group.status = "Active"
      /\ cycleCount[c] >= group.memberCount /\ c < group.memberCount
  BY <1>1, GroupFields
     DEF TypeOK, PayoutSucceeds, PayoutAllowed, PoolReady, RecipientFound
<1>3. statusKey # "Pending"
  BY <1>1, <1>2 DEF PendingInv, PendingMeansUntouched, ClosedMeansEmpty
<1>4. c \in Slots
  BY <1>2 DEF Slots
<1> HIDE DEF c
<1>5. /\ IsFiniteSet(ListedMembers)
      /\ Cardinality(ListedMembers) <= group.memberCount
  BY <1>1, SlotFacts
<1>6. /\ Cardinality(Contributors(c)) = cycleCount[c]
      /\ Contributors(c) \in SUBSET ListedMembers
  BY <1>1, <1>2 DEF Counting
<1>7. Cardinality(Contributors(c)) <= Cardinality(ListedMembers)
  BY <1>5, <1>6, FS_Subset
<1>8. Cardinality(ListedMembers) \in Nat /\ cycleCount[c] \in Nat
  BY <1>1, <1>2, <1>5, FS_CardinalityType DEF TypeOK, ContributionTypeOK
<1>9. Cardinality(ListedMembers) = group.memberCount
  BY <1>2, <1>5, <1>6, <1>7, <1>8
<1> QED
  BY <1>3, <1>4, <1>9 DEF c

\* A payout needs as many contributors as members, so that the order it
\* follows lists nobody twice, and later operations leave it alone.
LEMMA SettledStep ==
  ASSUME PaidOnceInv, OrderedNext
  PROVE  Settled'
<1>1. TypeOK /\ Settled
  BY DEF PaidOnceInv, PendingInv
<1> SUFFICES ASSUME NEW c \in Cycles, payoutRecipient'[c] # NoMember
             PROVE  /\ group'.status # "Pending" /\ statusKey' # "Pending"
                    /\ c \in Slots'
                    /\ payoutRecipient'[c] = positionIndex'[c]
                    /\ Cardinality(ListedMembers') = group'.memberCount
  BY DEF Settled
<1>2. CASE payoutRecipient'[c] = payoutRecipient[c]
  <2>1. /\ group.status # "Pending" /\ statusKey # "Pending"
        /\ c \in Slots /\ payoutRecipient[c] = positionIndex[c]
        /\ Cardinality(ListedMembers) = group.memberCount
    BY <1>1, <1>2 DEF Settled
  <2>2. Others
    BY <2>1, OrderedCases, ZenonT(40)
       DEF assign_sequential, assign_randomized, WritePositions, join_group
  <2>3. /\ UNCHANGED <<memberMap, positionIndex>>
        /\ group'.memberCount = group.memberCount
        /\ group'.status # "Pending" /\ statusKey' # "Pending"
    BY <1>1, <2>1, <2>2, OthersKeepOrder
  <2>4. Slots' = Slots /\ ListedMembers' = ListedMembers
    BY <2>3 DEF Slots, ListedMembers, ListedKeys
  <2> QED
    BY <1>2, <2>1, <2>3, <2>4, SMTT(30)
<1>3. CASE payoutRecipient'[c] # payoutRecipient[c]
  <2>1. PayoutSucceeds /\ PayRecipient /\ (execute_payout \/ tick)
    <3> USE DEF cycleVars, payoutVars
    <3>1. ~(Environment \/ Enrolment)
      BY <1>3, Zenon
         DEF Environment, LedgerCloses, GuardExpires, Enrolment, join_group,
             invite_member, revoke_invitation, assign_sequential, assign_randomized,
             WritePositions, randomize_payout_order, set_invitation_only,
             update_group, activate_group
    <3>2. ~(Returns \/ StatusChanges)
      BY <1>3
         DEF Returns, request_refund, emergency_withdraw, StatusChanges, pause_group,
             resume_group, cancel_group, raise_dispute, resolve_dispute
    <3>3. ~(AmountChanges \/ Dissolution \/ Unfunded)
      BY <1>3, Zenon
         DEF AmountChanges, set_dynamic_contributions, propose_contribution_change,
             vote_contribution_change, Dissolution, vote_dissolve, Unfunded,
             contribute_with_proof
    <3>4. execute_payout \/ tick
      BY <1>3, <3>1, <3>2, <3>3, ZenonT(40)
         DEF OrderedNext, Rotation, contribute, contribute_batch,
             enable_auto_contribute, disable_auto_contribute,
             execute_auto_contributions
    <3> QED
      BY <1>3, <3>4, ZenonT(40) DEF execute_payout, tick
  <2>2. c = group.currentCycle /\ payoutRecipient'[c] = positionIndex[c]
    <3>1. payoutRecipient \in [Cycles -> Members \cup {NoMember}]
      BY <1>1, ZenonT(40) DEF TypeOK, PayoutTypeOK
    <3> QED
      BY <1>3, <2>1, <3>1 DEF PayRecipient
  <2>3. Others /\ group.status = "Active"
    BY <2>1, ZenonT(40) DEF Others, Rotation, PayoutSucceeds, PayoutAllowed
  <2>4. /\ UNCHANGED <<memberMap, positionIndex>>
        /\ group'.memberCount = group.memberCount
        /\ group'.status # "Pending"
        /\ statusKey # "Pending" => statusKey' # "Pending"
    BY <1>1, <2>3, OthersKeepOrder, SMTT(30)
  <2>5. Slots' = Slots /\ ListedMembers' = ListedMembers
    BY <2>4 DEF Slots, ListedMembers, ListedKeys
  <2> QED
    BY <2>1, <2>2, <2>4, <2>5, SettledByPayout, ZenonT(40)
<1> QED
  BY <1>2, <1>3

\* Nobody is listed and nobody is paid when the group is first stored.
LEMMA PaidOnceInit == Init => PaidOnceInv
<1> SUFFICES ASSUME Init PROVE PaidOnceInv
  OBVIOUS
<1>1. PendingInv
  BY PendingInit
<1>2. group.memberCount = 0 /\ Slots = {}
  <2>1. group.memberCount = 0
    BY DEF Init, InitGroup
  <2> QED
    BY <2>1, SMTT(30) DEF Slots
<1>3. ListedKeys = {} /\ ListedMembers = {}
  BY DEF Init, InitStorage, ListedKeys, ListedMembers
<1>4. Listing
  BY <1>2, <1>3, SizesAssumption DEF Init, InitStorage, Listing, is_active_member
<1>5. Counting
  <2>1. \A c \in Cycles : Contributors(c) = {} /\ cycleCount[c] = 0
    BY DEF Init, InitStorage, Contributors
  <2> QED
    BY <2>1, FS_EmptySet DEF Counting
<1>6. Settled
  BY DEF Init, InitStorage, Settled
<1> QED
  BY <1>1, <1>4, <1>5, <1>6 DEF PaidOnceInv

\* The inductive invariant is kept by every operation of OrderedNext.
LEMMA PaidOnceStep == PaidOnceInv /\ [OrderedNext]_vars => PaidOnceInv'
<1> SUFFICES ASSUME PaidOnceInv, [OrderedNext]_vars PROVE PaidOnceInv'
  OBVIOUS
<1>1. CASE OrderedNext
  <2>1. Next
    BY <1>1 DEF OrderedNext, Next
  <2>2. PendingInv'
    BY <2>1, PendingStep DEF PaidOnceInv
  <2> QED
    BY <1>1, <2>2, ListingStep, CountingStep, SettledStep DEF PaidOnceInv, PendingInv
<1>2. CASE UNCHANGED vars
  <2>1. PendingInv'
    BY <1>2, PendingStep DEF PaidOnceInv
  <2>2. UNCHANGED <<group, statusKey, profile, memberMap, positionIndex, contribution,
                    cycleCount, payoutRecipient>>
    BY <1>2
       DEF vars, groupVars, memberVars, cycleVars, contributionVars, payoutVars
  <2>3. Slots' = Slots /\ ListedKeys' = ListedKeys /\ ListedMembers' = ListedMembers
    BY <2>2, ZenonT(40) DEF Slots, ListedKeys, ListedMembers
  <2>4. Listing' /\ Settled'
    BY <2>2, <2>3, ZenonT(40) DEF PaidOnceInv, Listing, Settled, is_active_member
  <2>5. Counting'
    BY <2>2, <2>3, Zenon DEF PaidOnceInv, Counting, Contributors
  <2> QED
    BY <2>1, <2>4, <2>5 DEF PaidOnceInv
<1> QED
  BY <1>1, <1>2

\* Nobody is paid in two cycles of a group whose order was assigned by joining,
\* sequentially or by the shuffle, also when members withdraw and join again,
\* when the amount changes, and when contributions are recorded by proof.
THEOREM EachPaidOnce == OrderedSpec => []NobodyPaidTwice
<1>1. PaidOnceInv => NobodyPaidTwice
  <2> SUFFICES ASSUME PaidOnceInv, NEW c \in Cycles, NEW d \in Cycles,
                      payoutRecipient[c] # NoMember,
                      payoutRecipient[c] = payoutRecipient[d]
               PROVE  c = d
    BY DEF NobodyPaidTwice
  <2>1. TypeOK /\ Listing /\ Settled
    BY SMTT(30) DEF PaidOnceInv, PendingInv
  <2>2. /\ c \in Slots /\ d \in Slots /\ positionIndex[c] = positionIndex[d]
        /\ Cardinality(ListedMembers) = Cardinality(Slots) /\ IsFiniteSet(Slots)
    BY <2>1, SlotFacts DEF Settled
  <2> DEFINE f == [p \in Slots |-> positionIndex[p]]
  <2>3. f \in Surjection(Slots, ListedMembers)
    BY <2>1, ZenonT(40) DEF Listing, Surjection
  <2>4. f \in Injection(Slots, ListedMembers)
    BY <2>2, <2>3, FS_SurjSameCardinalityImpliesInj, ZenonT(40)
  <2>5. f[c] = f[d]
    BY <2>2
  <2> QED
    BY <2>2, <2>4, <2>5, ZenonT(40) DEF Injection, IsInjective
<1> QED
  BY <1>1, PaidOnceInit, PaidOnceStep, PTL DEF OrderedSpec

-----------------------------------------------------------------------------
(* The dispute votes.                                                      *)

\* Whoever has a dispute vote is listed, and is found when votes are cleared.
VotersListed == disputeVotes \subseteq ListedMembers

\* raise_dispute counts each vote it records and resolve_dispute forgets all.
LEMMA DisputeStep ==
  ASSUME PaidOnceInv, VotersListed, DisputeTally, OrderedNext
  PROVE  VotersListed' /\ DisputeTally'
<1> USE DEF voteVars
<1>1. TypeOK /\ Listing
  BY DEF PaidOnceInv, PendingInv
<1>2. ListedMembers \subseteq ListedMembers'
  BY <1>1, ListingStep
<1>3. ASSUME UNCHANGED disputeVars
      PROVE  VotersListed' /\ DisputeTally'
  BY <1>2, <1>3 DEF VotersListed, DisputeTally, disputeVars
<1>4. ASSUME NEW m \in Members, raise_dispute(m)
      PROVE  VotersListed' /\ DisputeTally'
  <2>1. m \in ListedMembers /\ m \notin disputeVotes
    BY <1>1, <1>4 DEF Listing, raise_dispute
  <2>2. IsFiniteSet(disputeVotes)
    BY <1>1, FiniteMembers DEF TypeOK, VoteTypeOK
  <2>3. Cardinality(disputeVotes \cup {m}) = Cardinality(disputeVotes) + 1
    BY <2>1, <2>2, FS_AddElement, ZenonT(40)
  <2> QED
    BY <1>2, <1>4, <2>1, <2>3 DEF raise_dispute, VotersListed, DisputeTally
<1>5. ASSUME resolve_dispute
      PROVE  VotersListed' /\ DisputeTally'
  <2>1. disputeVotes' = {} /\ disputeCount' = 0
    BY <1>5 DEF resolve_dispute, VotersListed
  <2> QED
    BY <2>1, FS_EmptySet DEF VotersListed, DisputeTally
<1>6. CASE Environment \/ Enrolment
  BY <1>3, <1>6, ZenonT(40)
     DEF Environment, LedgerCloses, GuardExpires, Enrolment, join_group,
         invite_member, revoke_invitation, assign_sequential, assign_randomized,
         WritePositions, randomize_payout_order, set_invitation_only, update_group,
         activate_group
<1>7. CASE Rotation \/ Unfunded
  BY <1>3, <1>7, ZenonT(40)
     DEF Rotation, Unfunded, contribute, contribute_batch, contribute_with_proof,
         enable_auto_contribute, disable_auto_contribute,
         execute_auto_contributions, execute_payout, tick
<1>8. CASE Returns
  BY <1>3, <1>8, Zenon DEF Returns, request_refund, emergency_withdraw
<1>9. CASE StatusChanges
  BY <1>3, <1>4, <1>5, <1>9 DEF StatusChanges, pause_group, resume_group, cancel_group
<1>10. CASE AmountChanges \/ Dissolution
  BY <1>3, <1>10
     DEF AmountChanges, set_dynamic_contributions, propose_contribution_change,
         vote_contribution_change, Dissolution, vote_dissolve
<1> QED
  BY <1>6, <1>7, <1>8, <1>9, <1>10 DEF OrderedNext

\* The counter that pauses a group on a majority of disputes counts the votes
\* on record, over any number of disputes and resolutions.
THEOREM DisputesTallied == OrderedSpec => []DisputeTally
<1>1. Init => VotersListed /\ DisputeTally
  BY FS_EmptySet DEF Init, InitStorage, VotersListed, DisputeTally
<1>2. PaidOnceInv /\ VotersListed /\ DisputeTally /\ [OrderedNext]_vars
        => VotersListed' /\ DisputeTally'
  <2>1. VotersListed /\ DisputeTally /\ UNCHANGED vars
          => VotersListed' /\ DisputeTally'
    BY DEF vars, voteVars, disputeVars, memberVars, VotersListed, DisputeTally,
           ListedMembers, ListedKeys
  <2> QED
    BY <2>1, DisputeStep, SMTT(30)
<1> QED
  BY <1>1, <1>2, PaidOnceInit, PaidOnceStep, PTL DEF OrderedSpec
=============================================================================
