------------------------ MODULE MCWebSocketConnections ------------------------
(* Instances of WebSocketConnections for TLC: one agent that reconnects, and *)
(* a second one that shares the lock.                                        *)
EXTENDS WebSocketConnections, TLC

CONSTANTS a, b, h1, h2, h3, m1, m2

MCOneAgent == {a}
MCAgents == {a, b}
MCHandlers == {h1, h2, h3}
MCTwoHandlers == {h1, h2}
MCMessages == {m1, m2}
MCOneMessage == {m1}
MCOfShared == (h1 :> a) @@ (h2 :> a) @@ (h3 :> b)
MCOfOne == (h1 :> a) @@ (h2 :> a)
MCTo == (m1 :> a) @@ (m2 :> a)
MCToOne == (m1 :> a)
=============================================================================
