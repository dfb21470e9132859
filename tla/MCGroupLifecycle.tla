-------------------------- MODULE MCGroupLifecycle --------------------------
(***************************************************************************)
(* Two questions about who is in a group and what becomes of it, as one    *)
(* instance for TLC: how members come and go while nothing is paid, and    *)
(* how removals, updates and status changes race with payments.            *)
(***************************************************************************)
EXTENDS MCSavingsGroup

VARIABLE question  \* "enrolment", or the one member besides the creator

OnlyWith(m) == \A x \in Members \ {Creator, m} : profile'[x] = NoPosition

MCLifecycle ==
  /\ Init /\ question \in {"enrolment"} \union (Members \ {Creator})
  /\ [][/\ UNCHANGED question
        /\ IF question = "enrolment" THEN EnrolmentMoves
           ELSE LifecycleMoves /\ OnlyWith(question)]_<<vars, question>>
=============================================================================
