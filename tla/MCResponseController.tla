------------------------ MODULE MCResponseController ------------------------
(***************************************************************************)
(* A hold that runs without approval, and a lift in two versions under one *)
(* action id, each of which takes two approvers.                           *)
(***************************************************************************)
EXTENDS ResponseController, TLC

Hold    == [id |-> "act_hold", version |-> 1, type |-> "hold_promotion",
            required |-> 1, created |-> 0, expires |-> 1]
Lift(v) == [id |-> "act_lift", version |-> v, type |-> "lift_promotion_hold",
            required |-> 2, created |-> 0, expires |-> 1]

Proposals == {Hold, Lift(1), Lift(2)}
Both      == DOMAIN Catalog

Symmetry == Permutations(Approver)
=============================================================================
