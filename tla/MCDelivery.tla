----------------------------- MODULE MCDelivery -----------------------------
(* TLC instances of WebhookDelivery.                                       *)
EXTENDS WebhookDelivery, TLC

CONSTANTS sink, pipe     \* a connection without and one with a destination

(* Workers, deliveries and keys are interchangeable: no definition of the  *)
(* specification singles one out.                                          *)
Symmetry ==
    Permutations(Worker) \cup Permutations(Delivery) \cup Permutations(Key)
=============================================================================
