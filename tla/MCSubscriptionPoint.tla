------------------------- MODULE MCSubscriptionPoint -------------------------
(* Instances of SubscriptionPoint for TLC.  Payloads are interchangeable;  *)
(* the run without liveness properties and without refinement uses it.     *)
EXTENDS SubscriptionPoint, TLC

Symmetry == Permutations(Payloads)
=============================================================================
