------------------------------ MODULE MCRelay ------------------------------
(* Instances of Relay for TLC.                                              *)
EXTENDS Relay, TLC

CONSTANTS a1, a2, s1, s2

MCPair == {a1, a2}
MCOneSession == {s1}
MCTwoSessions == {s1, s2}

MCTight == {[max_messages |-> 1, max_bytes |-> NoLimit, max_rate |-> FALSE]}

\* Two messages of two bytes are too much for the first, and one for the
\* second, which is rate limited.
MCMixed ==
  {[max_messages |-> 2, max_bytes |-> 3, max_rate |-> FALSE],
   [max_messages |-> NoLimit, max_bytes |-> 1, max_rate |-> TRUE]}
=============================================================================
