--------------------------- MODULE MCServiceCalls ---------------------------
(* Instances of ServiceCalls for TLC.  Calls are interchangeable; the runs *)
(* without liveness properties use that.                                   *)
EXTENDS ServiceCalls, TLC

CallSymmetry == Permutations(Calls)
=============================================================================
