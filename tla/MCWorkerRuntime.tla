---------------------------- MODULE MCWorkerRuntime ----------------------------
(***************************************************************************)
(* An instance of WorkerRuntime for TLC.                                   *)
(*                                                                         *)
(* Two plans: with one trial to run, the faults and the processes started  *)
(* beside others are as many as their bounds; with two, which a process    *)
(* claims in one batch, one process runs at a time and may fail.           *)
(***************************************************************************)
EXTENDS WorkerRuntime

CONSTANTS w1, w2

MCInit ==
  /\ Init
  /\ faults = 0 /\ trials[1] = Ready
  /\ spare = IF Unfinished = {1} THEN 0 ELSE MaxSpare

MCSpec == MCInit /\ [][Next]_vars /\ Fairness
=============================================================================
