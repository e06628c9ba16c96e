---------------------------- MODULE MCWorkItems ----------------------------
(* TLC instances of WorkItems.                                             *)
EXTENDS WorkItems, TLC

(* What the clients in the repository create: detected items of the        *)
(* industry monitor, detected items of the relationship review, and the    *)
(* cockpit's drafts (draftToCreatePayload of frontend/src/app).            *)
Created ==
    {[status |-> "detected", approval |-> "not_required"],
     [status |-> "detected", approval |-> "pending"],
     [status |-> "awaiting_approval", approval |-> "pending"]}

Symmetry == Permutations(Thread) \cup Permutations(Item)
=============================================================================
