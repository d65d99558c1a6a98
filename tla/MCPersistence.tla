---------------------------- MODULE MCPersistence ----------------------------
(***************************************************************************)
(* A small instance of Persistence for TLC: four states, one too large to  *)
(* be written, one that cannot be loaded again.                            *)
(***************************************************************************)
EXTENDS Persistence

CONSTANTS empty, one, large, strict

States == {empty, one, large, strict}
TooLarge == {large}
TooStrict == {strict}
=============================================================================
