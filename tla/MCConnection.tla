----------------------------- MODULE MCConnection -----------------------------
(* An instance of Connection for TLC: every pair of configurations to follow *)
(* the negotiation in peace, and one configuration at both ends to follow    *)
(* timeouts, closes, resets and data.                                        *)
EXTENDS Connection

MCHybrid == [version |-> 1, suites |-> <<"Hybrid-Transition">>, hybrid |-> TRUE]

\* Suites in every order of preference.
MCOrders ==
  {q \in UNION {[1..n -> Suites] : n \in 1..3} :
     \A i, j \in DOMAIN q : i # j => q[i] # q[j]}

MCConfigs == [version : {1, 2}, suites : MCOrders, hybrid : BOOLEAN]

MCInit == Init /\ (~calm => config = [e \in Ends |-> MCHybrid])

MCSpec == MCInit /\ [][Next]_vars /\ Fairness
=============================================================================
