---------------------------- MODULE AuthorityServer ----------------------------
(* Registration, tokens and conversations of scripts/qasp_server.py.          *)
(*                                                                            *)
(* Async endpoints share one event loop: a handler runs alone between two     *)
(* awaits. Plain def endpoints (register, token status, closing of a          *)
(* conversation) run on a thread pool, between any two steps of the loop and  *)
(* of each other. Agents, tokens, the revocation list and the status cache    *)
(* live in memory, as does the key tokens are signed with; conversations,     *)
(* messages and charges are in a database and survive a restart.              *)
(*                                                                            *)
(* Trust gates, verbs and rate limits may refuse any call here; a refused     *)
(* call changes nothing. Rows of messages, charges and token events are written    *)
(* and read by no other handler: they are left out. Expiry: see Tokens.       *)
EXTENDS Integers, Sequences, FiniteSets, SequencesExt, FiniteSetsExt

CONSTANTS Agents,        \* DIDs; each is created by one registration
          Names, Addresses, IpOf, \* names to take, clients' addresses, [Agents -> address]
          Tools, Messaging, \* tools to declare; the virtual tool _messages
          Asks, Opens,   \* <<caller, target, tool>> of token requests, <<caller, target>> of conversations
          Watched,       \* token ids whose status is asked for
          Handlers,      \* requests in progress on the loop at one time
          MaxTokens, MaxConversations, MaxRestarts

ASSUME TokenBound == MaxTokens \in Nat

VARIABLES
    joining,    \* [Agents -> {"new", "checked", "done"}]: their registration
    name, tools, \* fields of the AgentRecords
    registered, \* agents_by_did and agents_by_api_key
    key,        \* number of the authority's key pair, a new one at every start
    tokens,     \* every token issued; the place is its id
    crl,        \* ids on the revocation list, all with urgency CRITICAL
    cache,      \* [ids -> status]: the responder's cache
    answering,  \* the status request that holds the responder's lock
    job,        \* [Handlers -> the handler and where it is suspended]
    convs,      \* the conversations table
    revoked,    \* history: ids that were ever on the list
    covered     \* history: ids that had been issued when a withdrawal that has
                \*   ended began, and that it concerned

vars == <<joining, name, tools, registered, key, tokens, crl, cache, answering,
          job, convs, revoked, covered>>
identity == <<joining, name, registered>>

Ids == DOMAIN tokens
Idle == [kind |-> "idle"]
NoAnswer == [kind |-> "none"]
Nobody == "nobody"
ToolUri(a, t) == << a, t >>
MessagesUri(a, c) == << a, Messaging, c >>
Grants(t, uri) == IsPrefix(tokens[t].uri, uri)   \* uri_matches: no wildcards here

NoAgents ==
    /\ joining = [a \in Agents |-> "new"]
    /\ name = [a \in Agents |-> Nobody]
    /\ tools = [a \in Agents |-> {}]
    /\ registered = {}

Fresh ==
    /\ key = 1
    /\ tokens = << >>
    /\ crl = {}
    /\ cache = [t \in 1 .. MaxTokens |-> "none"]
    /\ answering = NoAnswer
    /\ job = [h \in Handlers |-> Idle]
    /\ convs = << >>
    /\ revoked = {}
    /\ covered = {}

Init == NoAgents /\ Fresh

\* No handler is between a revocation and the invalidation that follows it,
\* which are not separated by an await: the loop may run another one.
LoopFree == \A h \in Handlers : job[h].kind # "idle" => job[h].at # "invalidate"
Start(h) == job[h] = Idle /\ LoopFree
At(h, kind, place) == job[h].kind = kind /\ job[h].at = place
Ends(h) == job' = [job EXCEPT ![h] = Idle]

-------------------------------------------------------------------------------
(* Registration                                                               *)

\* check_name_ip_conflict
NameTaken(n, ip, except) ==
    ip # "" /\ \E a \in registered \ {except} : name[a] = n /\ IpOf[a] = ip

Joins(a, n, ts) ==
    /\ joining' = [joining EXCEPT ![a] = "done"]
    /\ name' = [name EXCEPT ![a] = n]
    /\ tools' = [tools EXCEPT ![a] = ts]
    /\ registered' = registered \cup {a}
    /\ UNCHANGED <<key, tokens, crl, cache, answering, job, convs, revoked, covered>>

\* POST /register: a thread checks the name, makes the keys, and inserts the
\* agent; another thread may insert meanwhile.
RegisterCheck(a, n) ==
    /\ joining[a] = "new"
    /\ ~ NameTaken(n, IpOf[a], a)
    /\ joining' = [joining EXCEPT ![a] = "checked"]
    /\ name' = [name EXCEPT ![a] = n]
    /\ UNCHANGED <<tools, registered, key, tokens, crl, cache, answering, job, convs, revoked, covered>>
RegisterInsert(a, ts) == joining[a] = "checked" /\ Joins(a, name[a], ts)

\* /ws/register calls the same method on the loop.
WsRegister(a, n, ts) ==
    /\ joining[a] = "new"
    /\ LoopFree
    /\ ~ NameTaken(n, IpOf[a], a)
    /\ Joins(a, n, ts)

\* PUT /agents/update without tools. The check takes the address of the
\* request, the table keeps the one of the registration.
Rename(a, n, ip) ==
    /\ LoopFree
    /\ a \in registered
    /\ ~ NameTaken(n, ip, a)
    /\ name' = [name EXCEPT ![a] = n]
    /\ UNCHANGED <<joining, tools, registered, key, tokens, crl, cache, answering, job, convs, revoked, covered>>

-------------------------------------------------------------------------------
(* Withdrawal: of an agent (unregister, backdoor delete), of tools (update),  *)
(* of one token (revoke). Each revokes the tokens of a snapshot one by one    *)
(* and tells the holders, which suspends it.                                  *)

TokensOfSubject(a) == {t \in Ids : tokens[t].key = key /\ tokens[t].subject = a}
TokensForAgent(a) ==
    {t \in Ids : tokens[t].key = key /\ a \in {tokens[t].subject, tokens[t].audience}}
TokensForTools(a, ts) ==
    {t \in Ids : tokens[t].key = key /\ tokens[t].uri \in {ToolUri(a, u) : u \in ts}}

\* History: what the removal of a concerns.
Concerns(a) == {t \in Ids : tokens[t].key = key /\ (tokens[t].subject = a \/ tokens[t].audience = a)}

\* _deprovision_agent, up to the end of its connection and relay sessions.
Unregister(h, a) ==
    /\ Start(h)
    /\ a \in registered
    /\ job' = [job EXCEPT ![h] = [kind |-> "remove", at |-> "closing", agent |-> a, left |-> {},
                                  scope |-> Concerns(a)]]
    /\ UNCHANGED <<identity, tools, key, tokens, crl, cache, answering, convs, revoked, covered>>
Snapshot(h) ==
    /\ LoopFree
    /\ At(h, "remove", "closing")
    /\ job' = [job EXCEPT ![h].at = "loop", ![h].left = TokensForAgent(job[h].agent)]
    /\ UNCHANGED <<identity, tools, key, tokens, crl, cache, answering, convs, revoked, covered>>

\* PUT /agents/update with tools.
UpdateTools(h, a, ts) ==
    /\ Start(h)
    /\ a \in registered
    /\ LET bound == TokensForTools(a, tools[a] \ ts)
       IN  job' = [job EXCEPT ![h] = [kind |-> "tools", at |-> "loop", agent |-> a, left |-> bound,
                                      scope |-> bound, new |-> ts]]
    /\ UNCHANGED <<identity, tools, key, tokens, crl, cache, answering, convs, revoked, covered>>

\* POST /tokens/revoke: any agent, any token that is not revoked yet.
Revoke(h, a, t) ==
    /\ Start(h)
    /\ a \in registered
    /\ t \notin crl
    /\ job' = [job EXCEPT ![h] = [kind |-> "token", at |-> "loop", left |-> {t}, scope |-> {t}]]
    /\ UNCHANGED <<identity, tools, key, tokens, crl, cache, answering, convs, revoked, covered>>

\* One round of a loop: in the order of the table, tokens that are revoked
\* already are passed over.
Current(h) == Min(job[h].left)
RevokeNext(h) ==
    /\ LoopFree
    /\ job[h].kind \in {"remove", "tools", "token"}
    /\ job[h].at = "loop"
    /\ job[h].left # {}
    /\ IF Current(h) \in crl
       THEN /\ job' = [job EXCEPT ![h].left = @ \ {Current(h)}]
            /\ UNCHANGED <<crl, revoked>>
       ELSE /\ crl' = crl \cup {Current(h)}
            /\ revoked' = revoked \cup {Current(h)}
            /\ job' = [job EXCEPT ![h].at = "invalidate"]
    /\ UNCHANGED <<identity, tools, key, tokens, cache, answering, convs, covered>>
\* OCSPResponder.invalidate takes the responder's lock.
InvalidateReady(h) == job[h].kind # "idle" /\ job[h].at = "invalidate" /\ answering = NoAnswer
Invalidate(h) ==
    /\ InvalidateReady(h)
    /\ cache' = [cache EXCEPT ![Current(h)] = "none"]
    /\ job' = [job EXCEPT ![h].at = "notify"]
    /\ UNCHANGED <<identity, tools, key, tokens, crl, answering, convs, revoked, covered>>
\* _notify_revocation returns.
Notified(h) ==
    /\ LoopFree
    /\ job[h].kind # "idle"
    /\ job[h].at = "notify"
    /\ job' = [job EXCEPT ![h].at = "loop", ![h].left = @ \ {Current(h)}]
    /\ UNCHANGED <<identity, tools, key, tokens, crl, cache, answering, convs, revoked, covered>>

Withdrawn(h) == LoopFree /\ job[h].kind # "idle" /\ job[h].at = "loop" /\ job[h].left = {} /\ Ends(h)
FinishRemoval(h) ==
    /\ job[h].kind = "remove"
    /\ Withdrawn(h)
    /\ registered' = registered \ {job[h].agent}
    /\ covered' = covered \cup job[h].scope
    /\ UNCHANGED <<joining, name, tools, key, tokens, crl, cache, answering, convs, revoked>>
FinishTools(h) ==
    /\ job[h].kind = "tools"
    /\ Withdrawn(h)
    /\ tools' = [tools EXCEPT ![job[h].agent] = job[h].new]
    /\ covered' = covered \cup job[h].scope
    /\ UNCHANGED <<identity, key, tokens, crl, cache, answering, convs, revoked>>
FinishRevoke(h) ==
    /\ job[h].kind = "token"
    /\ Withdrawn(h)
    /\ covered' = covered \cup job[h].scope
    /\ UNCHANGED <<identity, tools, key, tokens, crl, cache, answering, convs, revoked>>

-------------------------------------------------------------------------------
(* Issuing and using tokens                                                   *)

\* _check_revocation_gate: the caller holds no revoked token for the target.
GateOpen(caller, target) ==
    \A t \in Ids : tokens[t].key = key /\ tokens[t].subject = caller /\ tokens[t].audience = target
                       => t \notin crl

Issue(caller, target, uri) ==
    tokens' = Append(tokens, [subject |-> caller, audience |-> target, uri |-> uri, key |-> key])

RequestToken(caller, target, tool) ==
    /\ LoopFree
    /\ {caller, target} \subseteq registered
    /\ tool \in tools[target] \cup {Messaging}
    /\ GateOpen(caller, target)
    /\ Len(tokens) < MaxTokens
    /\ Issue(caller, target, ToolUri(target, tool))
    /\ UNCHANGED <<identity, tools, key, crl, cache, answering, job, convs, revoked, covered>>

OpenConversation(caller, target) ==
    /\ LoopFree
    /\ {caller, target} \subseteq registered
    /\ GateOpen(caller, target)
    /\ Len(tokens) < MaxTokens /\ Len(convs) < MaxConversations
    /\ convs' = Append(convs, [initiator |-> caller, participant |-> target, status |-> "ACTIVE"])
    /\ Issue(caller, target, MessagesUri(target, Len(convs) + 1))
    /\ UNCHANGED <<identity, tools, key, crl, cache, answering, job, revoked, covered>>

\* verify_token with the current key and the list.
Verifies(t) == tokens[t].key = key /\ t \notin crl

\* call_tool and send_message up to the relay, with the caller's and the
\* target's lookup and the checks of the token.
CallTool(h, caller, target, tool, t) ==
    /\ Start(h)
    /\ {caller, target} \subseteq registered
    /\ tool \in tools[target] \cup {Messaging}
    /\ Verifies(t)
    /\ Grants(t, ToolUri(target, tool))
    /\ job' = [job EXCEPT ![h] = [kind |-> "call", at |-> "relay"]]
    /\ UNCHANGED <<identity, tools, key, tokens, crl, cache, answering, convs, revoked, covered>>

OtherParty(c, a) == IF convs[c].initiator = a THEN convs[c].participant ELSE convs[c].initiator
SendMessage(h, caller, c, t) ==
    /\ Start(h)
    /\ caller \in registered
    /\ convs[c].status = "ACTIVE"
    /\ caller \in {convs[c].initiator, convs[c].participant}
    /\ OtherParty(c, caller) \in registered
    /\ Verifies(t)
    /\ Grants(t, MessagesUri(OtherParty(c, caller), c))
    /\ job' = [job EXCEPT ![h] = [kind |-> "message", at |-> "relay"]]
    /\ UNCHANGED <<identity, tools, key, tokens, crl, cache, answering, convs, revoked, covered>>

\* After the relay or the delivery, whatever its result and whoever is still
\* there, a message and a charge are written.
RelayReturns(h) ==
    /\ LoopFree
    /\ job[h].kind \in {"call", "message"}
    /\ Ends(h)
    /\ UNCHANGED <<identity, tools, key, tokens, crl, cache, answering, convs, revoked, covered>>

\* A thread; the status is read and written under the store's lock, each.
CloseConversation(a, c) ==
    /\ a \in registered \cap {convs[c].initiator, convs[c].participant}
    /\ convs[c].status # "CLOSED"
    /\ convs' = [convs EXCEPT ![c].status = "CLOSED"]
    /\ UNCHANGED <<identity, tools, key, tokens, crl, cache, answering, job, revoked, covered>>

-------------------------------------------------------------------------------
(* GET /tokens/status, on a thread: handle_request holds the responder's lock *)
(* while it reads the list and until it has stored the answer.                *)

Status(t) == IF t \in crl THEN "revoked" ELSE "good"
TokenStatus(t) ==
    /\ answering = NoAnswer
    /\ tokens[t].key = key
    /\ cache[t] = "none"
    /\ answering' = [kind |-> "answer", token |-> t, status |-> Status(t)]
    /\ UNCHANGED <<identity, tools, key, tokens, crl, cache, job, convs, revoked, covered>>
StoreAnswer ==
    /\ answering # NoAnswer
    /\ cache' = [cache EXCEPT ![answering.token] = answering.status]
    /\ answering' = NoAnswer
    /\ UNCHANGED <<identity, tools, key, tokens, crl, job, convs, revoked, covered>>

-------------------------------------------------------------------------------
(* The server stops at any point and starts again: AuthorityState.__init__.   *)
KeptKey == key
NewKey == key + 1
Restart ==
    /\ key <= MaxRestarts
    /\ key' = NewKey
    /\ registered' = {}
    /\ joining' = [a \in Agents |-> IF joining[a] = "checked" THEN "new" ELSE joining[a]]
    /\ crl' = {}
    /\ cache' = [t \in 1 .. MaxTokens |-> "none"]
    /\ answering' = NoAnswer
    /\ job' = [h \in Handlers |-> Idle]
    /\ UNCHANGED <<name, tools, tokens, convs, revoked, covered>>

Joining ==
    \/ \E a \in Agents, n \in Names : RegisterCheck(a, n)
    \/ \E a \in Agents, ts \in SUBSET Tools : RegisterInsert(a, ts)
    \/ \E a \in Agents, n \in Names, ts \in SUBSET Tools : WsRegister(a, n, ts)
    \/ \E a \in Agents, n \in Names, ip \in Addresses : Rename(a, n, ip)

Withdrawing ==
    \/ \E h \in Handlers, a \in Agents : Unregister(h, a)
    \/ \E h \in Handlers : Snapshot(h)
    \/ \E h \in Handlers, a \in Agents, ts \in SUBSET Tools : UpdateTools(h, a, ts)
    \/ \E h \in Handlers, a \in Agents, t \in Ids : Revoke(h, a, t)
    \/ \E h \in Handlers : RevokeNext(h)
    \/ \E h \in Handlers : Invalidate(h)
    \/ \E h \in Handlers : Notified(h)
    \/ \E h \in Handlers : FinishRemoval(h)
    \/ \E h \in Handlers : FinishTools(h)
    \/ \E h \in Handlers : FinishRevoke(h)

Using ==
    \/ \E p \in Asks : RequestToken(p[1], p[2], p[3])
    \/ \E p \in Opens : OpenConversation(p[1], p[2])
    \/ \E h \in Handlers, p \in Asks, t \in Ids : CallTool(h, p[1], p[2], p[3], t)
    \/ \E h \in Handlers, a \in Agents, c \in DOMAIN convs, t \in Ids : SendMessage(h, a, c, t)
    \/ \E h \in Handlers : RelayReturns(h)
    \/ \E a \in Agents, c \in DOMAIN convs : CloseConversation(a, c)
    \/ \E t \in Ids \cap Watched : TokenStatus(t)
    \/ StoreAnswer

Next == Joining \/ Withdrawing \/ Using \/ Restart

Spec == Init /\ [][Next]_vars

-------------------------------------------------------------------------------
\* A token that was ever revoked is never accepted again, restarts included:
\* they lose the list and the key that the token's signature verifies with.
RevokedStaysRevoked == \A t \in revoked : ~ Verifies(t)

\* The status cache says "good" for a revoked token only until the handler that
\* revoked it, which has not yielded since, gets the responder's lock; an
\* answer computed before the revocation is never stored after it.
StatusFollowsRevocation ==
    \A t \in crl \cap {s \in Ids : tokens[s].key = key} :
        \/ cache[t] = "good"
        \/ answering # NoAnswer /\ answering.token = t /\ answering.status = "good"
        => \E h \in Handlers : job[h].kind # "idle" /\ job[h].at = "invalidate" /\ Current(h) = t

\* When an agent or a tool is gone, no token that concerned it when the
\* request arrived is accepted, whatever was revoked, issued or withdrawn by
\* other handlers while this one was suspended, and after a restart.
CoveredAreRefused == \A t \in covered : ~ Verifies(t)

\* A withdrawal reaches every token it concerns, and the status others are told.
WithdrawalRevokes == StatusFollowsRevocation /\ CoveredAreRefused
===============================================================================
