----------------------------- MODULE MCToolCalls -----------------------------
(* Two concurrent calls to one target. *)
EXTENDS ToolCalls, TLC

CONSTANTS r1, r2

MCRequests == {r1, r2}
=============================================================================
