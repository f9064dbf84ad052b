------------------------------- MODULE EcsEvents -------------------------------
(***************************************************************************)
(* The ECS documents the agent emits.  The output path never looks inside  *)
(* one: it tells them apart by event.id, which emit() makes unique.        *)
(***************************************************************************)
CONSTANT Events
=============================================================================
