-------------------------------- MODULE MCWire --------------------------------
(***************************************************************************)
(* An instance of Wire for TLC.                                            *)
(***************************************************************************)
EXTENDS Wire

RepeatedTypes == {"HEARTBEAT", "PUBLISH_OBSERVATION", "CLAIM_TRIAL", "SHUTDOWN"}
=============================================================================
