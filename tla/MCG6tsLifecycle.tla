-------------------------- MODULE MCG6tsLifecycle --------------------------
(* G6tsLifecycle for TLC; each .cfg fixes one profile of module parameters. *)
EXTENDS G6tsService
=============================================================================
