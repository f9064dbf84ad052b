---------------------------- MODULE MCHttpShipper ----------------------------
(* Instances of HttpShipper for TLC.                                       *)
EXTENDS HttpShipper, TLC

(* Events are interchangeable; used by the runs without liveness only.     *)
EventSymmetry == Permutations(Events)
=============================================================================
