-------------------------- MODULE GroupMembership ---------------------------
(***************************************************************************)
(* Who is in the group and in which order they are paid: join_group,       *)
(* remove_member, the three modes of assign_payout_positions, the          *)
(* invitation list, update_group and activate_group of contract.rs.        *)
(*                                                                         *)
(* A position is kept in four places: the member's profile, the            *)
(* eligibility entry, the group_members map (keyed by position at the time *)
(* of joining) and the reverse index from position to member.              *)
(***************************************************************************)
EXTENDS GroupStorage

-----------------------------------------------------------------------------

join_group(m) ==
  LET position == group.memberCount IN
  /\ group.status = "Pending"
  /\ ~is_active_member(m)
  /\ group.memberCount < group.maxMembers
  /\ group.invitationOnly => m \in invitations
  /\ profile' = [profile EXCEPT ![m] = position]
  /\ memberMap' = [memberMap EXCEPT ![position] = m]
  /\ mapStored' = TRUE
  /\ eligibility' = [eligibility EXCEPT ![m] = position]
  /\ positionIndex' = [positionIndex EXCEPT ![position] = m]
  /\ group' = [group EXCEPT !.memberCount = @ + 1]
  /\ UNCHANGED <<statusKey, sequenceStored, invitations, cycleVars,
                 ledgerVars, voteVars>>

\* Mutant: the profile is left behind.
remove_member_keeping_profile(m) ==
  /\ statusKey = "Pending"
  /\ m # Creator
  /\ is_active_member(m)
  /\ group.memberCount > 0
  /\ eligibility' = [eligibility EXCEPT ![m] = NoPosition]
  /\ positionIndex' = [positionIndex EXCEPT ![profile[m]] = NoMember]
  /\ memberMap' = [memberMap EXCEPT ![profile[m]] = NoMember]
  /\ mapStored' = TRUE
  /\ group' = [group EXCEPT !.memberCount = @ - 1]
  /\ UNCHANGED <<statusKey, profile, sequenceStored, invitations, cycleVars,
                 ledgerVars, voteVars>>

remove_member(m) ==
  /\ statusKey = "Pending"
  /\ m # Creator
  /\ is_active_member(m)
  /\ group.memberCount > 0
  /\ profile' = [profile EXCEPT ![m] = NoPosition]
  /\ eligibility' = [eligibility EXCEPT ![m] = NoPosition]
  /\ positionIndex' = [positionIndex EXCEPT ![profile[m]] = NoMember]
  /\ memberMap' = [memberMap EXCEPT ![profile[m]] = NoMember]
  /\ mapStored' = TRUE
  /\ group' = [group EXCEPT !.memberCount = @ - 1]
  /\ UNCHANGED <<statusKey, sequenceStored, invitations, cycleVars,
                 ledgerVars, voteVars>>

-----------------------------------------------------------------------------
(* assign_payout_positions: positions[k] is the position given to the      *)
(* member under key k of the map.  Entries of the index that no member is  *)
(* given, and the keys of the map itself, stay as they are.  The loop runs *)
(* in key order, so of two writes to one entry the last key's stays.       *)

WritePositions(positions) ==
  LET ofMember(m) == positions[Max({k \in ListedKeys : memberMap[k] = m})]
      atPosition(p) == memberMap[Max({k \in ListedKeys : positions[k] = p})]
      given == {positions[k] : k \in ListedKeys}
  IN
  /\ statusKey = "Pending"
  /\ mapStored
  /\ \A m \in ListedMembers : is_active_member(m)
  /\ profile' = [m \in Members |->
                   IF m \in ListedMembers THEN ofMember(m) ELSE profile[m]]
  /\ eligibility' = [m \in Members |->
                   IF m \in ListedMembers THEN ofMember(m) ELSE eligibility[m]]
  /\ positionIndex' = [p \in Positions |->
                   IF p \in given THEN atPosition(p) ELSE positionIndex[p]]
  /\ UNCHANGED <<groupVars, memberMap, mapStored, invitations, cycleVars, ledgerVars,
                 voteVars>>

assign_sequential ==
  /\ WritePositions(
       [k \in ListedKeys |-> Cardinality({j \in ListedKeys : j < k})])
  /\ UNCHANGED sequenceStored

\* Mutant: the shuffle copies positions instead of swapping them.
ShuffledOrders_copying ==
  [ListedKeys -> 0..(Cardinality(ListedKeys) - 1)]

\* The orders a shuffle of 0..n-1 may produce.  The shuffle reaches only some
\* of them, so the model allows every behaviour of the code and some more.
ShuffledOrders ==
  {f \in [ListedKeys -> 0..(Cardinality(ListedKeys) - 1)] :
     \A j, k \in ListedKeys : f[j] = f[k] => j = k}

\* randomize_payout_order refuses a second shuffle of the same group.
assign_randomized ==
  /\ ~sequenceStored
  /\ \E order \in ShuffledOrders : WritePositions(order)
  /\ sequenceStored' = TRUE

\* A manual order is only checked for its length.
assign_manual ==
  /\ \E order \in [ListedKeys -> Positions] : WritePositions(order)
  /\ UNCHANGED sequenceStored

\* The public entry point stores the sequence without assigning positions.
randomize_payout_order ==
  /\ mapStored
  /\ ~sequenceStored
  /\ sequenceStored' = TRUE
  /\ UNCHANGED <<groupVars, profile, eligibility, memberMap, mapStored,
                 positionIndex, invitations, cycleVars, ledgerVars, voteVars>>

-----------------------------------------------------------------------------

set_invitation_only(enabled) ==
  /\ statusKey = "Pending"
  /\ group' = [group EXCEPT !.invitationOnly = enabled]
  /\ UNCHANGED <<statusKey, memberVars, cycleVars, ledgerVars, voteVars>>

invite_member(m) ==
  /\ statusKey = "Pending"
  /\ ~is_active_member(m)
  /\ invitations' = invitations \cup {m}
  /\ UNCHANGED <<groupVars, profile, eligibility, memberMap, mapStored,
                 positionIndex, sequenceStored, cycleVars, ledgerVars, voteVars>>

revoke_invitation(m) ==
  /\ statusKey = "Pending"
  /\ m \in invitations
  /\ invitations' = invitations \ {m}
  /\ UNCHANGED <<groupVars, profile, eligibility, memberMap, mapStored,
                 positionIndex, sequenceStored, cycleVars, ledgerVars, voteVars>>

\* The new size is checked against the contract config, not member_count.
update_group(amount, duration, size) ==
  /\ statusKey = "Pending"
  /\ group' = [group EXCEPT !.amount = amount, !.duration = duration,
                            !.maxMembers = size]
  /\ UNCHANGED <<statusKey, memberVars, cycleVars, ledgerVars, voteVars>>

\* activate_group looks at started and member_count, never at the status.
activate_group ==
  /\ ~group.started
  /\ group.memberCount >= MinMembers
  /\ group' = [group EXCEPT !.started = TRUE, !.startedAt = now,
                            !.status = "Active", !.isActive = TRUE]
  /\ statusKey' = "Active"
  /\ UNCHANGED <<memberVars, cycleVars, ledgerVars, voteVars>>
=============================================================================
