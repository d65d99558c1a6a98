------------------------------- MODULE MCServer -------------------------------
(***************************************************************************)
(* Small instances of Server for TLC.                                      *)
(***************************************************************************)
EXTENDS Server

CONSTANTS t1, t2, c1, c2

TwoThreads == {t1, t2}
TwoClients == {c1, c2}
=============================================================================
