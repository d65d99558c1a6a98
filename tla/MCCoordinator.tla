----------------------------- MODULE MCCoordinator -----------------------------
(***************************************************************************)
(* Small instances of Coordinator for TLC.                                 *)
(***************************************************************************)
EXTENDS CoordinatorClaims

\* Two boots of one worker, and a second worker.
OneWorkerTwoBoots == {<<"w1", 1>>, <<"w1", 2>>}
TwoWorkers == {<<"w1", 1>>, <<"w2", 1>>}
OneIncarnation == {<<"w1", 1>>}
=============================================================================
