------------------------------ MODULE MCTransport -----------------------------
(* A transport whose peer may stop in the middle of a message for longer than *)
(* a receive waits.                                                           *)
EXTENDS Transport

MCSpec == TInit /\ [][TNext]_tvars
===============================================================================
