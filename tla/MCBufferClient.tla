---------------------------- MODULE MCBufferClient ----------------------------
(* Instances of BufferClient for TLC.                                      *)
EXTENDS BufferClient, TLC

EventSymmetry == Permutations(Events)
=============================================================================
