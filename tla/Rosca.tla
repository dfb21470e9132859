------------------------------- MODULE Rosca --------------------------------
(***************************************************************************)
(* What a rotating savings association promises, without saying how: money *)
(* is collected in a pot per round, rounds close one after the other, and  *)
(* a round either hands its whole pot to one recipient as it closes or     *)
(* closes unpaid.  SavingsGroup is shown to implement this specification.  *)
(***************************************************************************)
EXTENDS Integers

CONSTANTS
  People,     \* who may be paid
  Nobody,     \* the recipient of a round that has not been paid
  LastRound,  \* the rotation ends when this round is reached, a natural number
  Money       \* the amounts a pot may hold, natural numbers with 0

VARIABLES
  round,      \* the round that is open
  pot,        \* what each round has collected
  recipient,  \* who was paid each round's pot
  paid        \* how much they were paid

roscaVars == <<round, pot, recipient, paid>>

Rounds == 0..LastRound

RoscaInit ==
  /\ round = 0
  /\ pot = [r \in Rounds |-> 0]
  /\ recipient = [r \in Rounds |-> Nobody]
  /\ paid = [r \in Rounds |-> 0]

\* Money is added to the open round or, in advance, to later ones.
Collect ==
  /\ pot' \in [Rounds -> Money]
  /\ \A r \in Rounds : pot'[r] >= pot[r]
  /\ \A r \in Rounds : r < round => pot'[r] = pot[r]
  /\ UNCHANGED <<round, recipient, paid>>

\* The open round closes and its pot goes to one person.
Pay ==
  /\ round < LastRound
  /\ pot[round] > 0
  /\ recipient[round] = Nobody
  /\ \E p \in People : recipient' = [recipient EXCEPT ![round] = p]
  /\ paid' = [paid EXCEPT ![round] = pot[round]]
  /\ round' = round + 1
  /\ UNCHANGED pot

\* The open round closes unpaid.
Skip ==
  /\ round < LastRound
  /\ round' = round + 1
  /\ UNCHANGED <<pot, recipient, paid>>

RoscaNext == Collect \/ Pay \/ Skip

RoscaSpec == RoscaInit /\ [][RoscaNext]_roscaVars

-----------------------------------------------------------------------------

\* A paid round is a closed round, and its recipient got all of its pot:
\* since the pot of a closed round never changes, nobody can be owed more.
PaidInFull ==
  \A r \in Rounds :
    recipient[r] # Nobody => /\ r < round
                             /\ paid[r] = pot[r]
                             /\ paid[r] > 0

\* What has been paid for a round is final.
PaidIsFinal ==
  [][\A r \in Rounds : recipient[r] # Nobody =>
       recipient'[r] = recipient[r] /\ paid'[r] = paid[r]
         /\ pot'[r] = pot[r]]_roscaVars
=============================================================================
