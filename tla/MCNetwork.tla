------------------------------ MODULE MCNetwork ------------------------------
(* How agents come to know, trust and reach each other: the authority they    *)
(* register with and the tokens it issues and withdraws, discovery of one     *)
(* another, identities and certificates, a transport's streams, and the       *)
(* client that keeps its connection to the relay. A behaviour runs one of     *)
(* these parts, each over its own state. Agents come and go without tokens    *)
(* when joining; later they have all registered before.                       *)
EXTENDS AuthorityServer, Discovery, Identity, Transport, Client

VARIABLE part

AllJoined ==
    /\ joining = [a \in Agents |-> "done"]
    /\ name = [a \in Agents |-> "n"]
    /\ tools = [a \in Agents |-> Tools]
    /\ registered = Agents

MCInit ==
    /\ Fresh
    /\ \/ part = "tokens" /\ AllJoined
       \/ part \in {"joining", "discovery", "documents", "bindings", "certificates", "streams", "loop", "relay"} /\ NoAgents
    /\ DInit /\ IInit /\ CertInit /\ TInit /\ ClInit
MCNext ==
    /\ UNCHANGED part
    /\ \/ part = "joining" /\ (Joining \/ Withdrawing \/ Restart) /\ UNCHANGED <<dvars, ivars, certvars, tvars, clvars>>
       \/ part = "tokens" /\ (Withdrawing \/ Using \/ Restart) /\ UNCHANGED <<dvars, ivars, certvars, tvars, clvars>>
       \/ part = "discovery" /\ DNext /\ UNCHANGED <<vars, ivars, certvars, tvars, clvars>>
       \/ part = "documents" /\ DocumentNext /\ UNCHANGED <<vars, dvars, certvars, tvars, clvars>>
       \/ part = "bindings" /\ BindingNext /\ UNCHANGED <<vars, dvars, certvars, tvars, clvars>>
       \/ part = "certificates" /\ CertNext /\ UNCHANGED <<vars, dvars, ivars, tvars, clvars>>
       \/ part = "streams" /\ TNext /\ UNCHANGED <<vars, dvars, ivars, certvars, clvars>>
       \/ part = "loop" /\ LoopNext /\ UNCHANGED <<vars, dvars, ivars, certvars, tvars>>
       \/ part = "relay" /\ RelayNext /\ fails' <= 1 /\ UNCHANGED <<vars, dvars, ivars, certvars, tvars>>

MCSpec == MCInit /\ [][MCNext]_<<vars, dvars, ivars, certvars, tvars, clvars, part>>

------------------------------------------------------------------------------
MCIpOf == [a \in Agents |-> "host"]
MCAsks == {<< "a", "b", "tool" >>}
MCOpens == {<< "a", "b" >>}

MCOffers ==
    {[did |-> "me", where |-> "h1", caps |-> {"gpu"}, verbs |-> {"r"}, trust |-> 9, ttl |-> 1],
     [did |-> "peer", where |-> "h2", caps |-> {"gpu"}, verbs |-> {"r"}, trust |-> 4, ttl |-> 2]}

MCRootBindings ==
    {[agent |-> 1, permissions |-> {"*"}, expiry |-> 2, depth |-> 2],
     [agent |-> 1, permissions |-> {"issue", "rotate"}, expiry |-> 1, depth |-> 1]}

AsksFor(ca, classes, depth, spending, days) ==
    [ca |-> ca, classes |-> classes, depth |-> depth, spending |-> spending, days |-> days]
MCRequested == {AsksFor(TRUE, {"a", "b"}, 1, 1, 2), AsksFor(TRUE, {}, NoLimit, NoLimit, 2),
                AsksFor(TRUE, {"a"}, NoLimit, 2, 1), AsksFor(FALSE, {"a"}, 0, 2, 1)}

Symmetry == Permutations(Handlers) \cup Permutations(Callers)
==============================================================================
