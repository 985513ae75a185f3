# TLA+ models of QASP

QASP is a protocol library for agents (`src/src/qasp`) with an authority server that connects
them (`src/scripts/qasp_server.py`) and a client (`src/scripts/qasp_client.py`). This directory
holds TLA+ modules that model its stateful parts, TLC configurations that check them on small
instances, and proofs that TLAPS checks for every value of the constants. Paths in tables are
relative to `src/src/qasp/` unless they begin with `scripts/`.

    tlc -config MCRelay_session.cfg MCRelay.tla     # model-check a run
    tlapm RelayProofs.tla                           # check a module's proofs

`PROJECT.json` lists the runs, the lines each definition models, the mutant that shows each
property can fail, the findings and the hazards.

1. [The system](#1-the-system)
2. [Modules](#2-modules)
3. [Runs](#3-runs)
4. [Proofs](#4-proofs)
5. [What is not modelled](#5-what-is-not-modelled)
6. [What the models showed](#6-what-the-models-showed)
7. [Plan](#7-plan)

## 1. The system

| Component | State | Operations | Interacts with |
|---|---|---|---|
| **Relay** (`protocol/relay/manager.py`, `session.py`, `receipts.py`) | `_sessions`, `_pending_notify`, `_sessions_by_agent`, `_delivery_tasks`; per session: state, budgets, `pending_debits`, receipt chain, sequence | request / accept / refuse / close frames, data frames with a piggy-backed ack, delivery timer, teardown, `close_all_for_agent` | websocket listen loops call it and it sends through the connection manager |
| **Session MACs** (`protocol/relay/scm.py`) | current and previous epoch key, time of rotation | derive, validate, rotate | the epoch loop of the server, the relay's accept |
| **Websocket connections, messages** (`scripts/qasp_server.py`) | `ConnectionManager._connections` under an asyncio lock; messages and their `delivered` flag | connect (supersedes), disconnect, flush of the inbox, `POST /messages/send`, poll, acknowledge | relay, tool calls, database |
| **Tool calls** (`scripts/qasp_server.py`) | `_pending` futures | `send_and_wait`, `resolve_pending`, callback, echo | connection manager |
| **Agents, tokens, conversations** (`scripts/qasp_server.py`) | `AuthorityState`: agents by DID and by key, issued tokens, revocation list, status responder; conversations in SQLite | register, update, tools, remove, token requests and status, revoke, conversations, restart | relay, revocation, database |
| **Client** (`scripts/qasp_client.py`) | listener loop and backoff, `_pending_relay_frames`, `_relay_sessions`, `_relay_next_seq` | connect, reconnect, stop, open / send / close a relay session | the server's websocket |
| **Connection, handshake** (`protocol/connection.py`, `handshake.py`, `states.py`, `crypto/suites.py`) | state, handshake object, session key, sequence counters, retries, buffers | initiate, receive, send, close, timeout, reset | its peer, through a byte stream |
| **Streams** (`protocol/stream.py`), **TCP** (`transport/tcp.py`) | stream table; receive buffer | open, send, half-close, process; connect, send, receive with a timeout, close | connection |
| **Registry, discovery** (`transport/registry.py`, `discover.py`) | registry entries, advertisements, known endpoints, mDNS queue | register, announce, advertise, fetch, discover, evict | connection |
| **Payment channels, prices** (`protocol/settlement.py`) | per end: balances, `_sequence`, `_states`, state, challenge deadline; offers | open, state update, countersign, apply, close, challenge, verdict; offer, accept | metering, disputes |
| **Metering, resources** (`protocol/metering.py`, `accounting.py`, `budget.py`) | managed resources of both ends, meter, receipts | request, grant, use, report, ack, suspend, resume, release | settlement, reconciliation |
| **Reconciliation, disputes, auditor** (`protocol/reconciliation.py`, `dispute.py`, `auditor/`) | reconciliation sessions, dispute records, evidence, verdicts | propose, answer, resolve, expire; open, submit, compare, decide | metering, settlement |
| **Capability tokens** (`protocol/capability.py`, `arm.py`, `token_aggregation.py`) | the tokens holders keep | issue, attenuate, sub-invoke, split, aggregate, verify a token and a chain | revocation, rate limiter |
| **Revocation, OCSP** (`protocol/revocation.py`, `ocsp.py`) | entries, parent/child index, responder's cache, stapled answers | register, revoke with cascade, query, staple, clean up | tokens, server |
| **Rate limiter** (`protocol/rate_limiter.py`) | buckets by token | consume, get_or_create, cleanup | tokens |
| **Threshold signing** (`crypto/threshold.py`, `shamir.py`, `identity/group.py`, `protocol/threshold_delegation.py`) | key generation and signing sessions | three rounds each, retry | tokens |
| **Cross-domain delegation** (`protocol/cross_domain.py`, `aggregation.py`) | endorsements, acceptances, revocations | delegate, endorse, accept, verify, revoke | tokens |
| **Bridges** (`bridges/mcp_bridge.py`, `a2a_bridge.py`) | identity, tool mappings; tasks and their tokens | connect, list, call, issue; send task, cancel | tokens, external MCP and A2A peers |
| **Trust** (`trust/registry.py`, `certification.py`, `scoring.py`, `behavioral.py`) | entries and credentials in two backends, events | register, update, credential, flag, remove; score; record an event | server |
| **Identity** (`identity/did.py`, `resolver.py`, `rotation.py`, `binding.py`), **certificates** (`crypto/certificates.py`) | documents, DHT entries, resolver cache, rotation proofs, binding chains, certificates | create, rotate, publish, resolve, deactivate, bind, attenuate, issue, verify | connection, server |
| **Cryptography, codec, privacy** | none that outlives a call | pure functions | everything |

What is hard to get right and to test here:

* *Suspension on an event loop.* Relay and server run on one asyncio loop. Code between two
  awaits is atomic, but a data handler is suspended in `ws.send_bytes` after it charged a
  message and before it arms the delivery timer; `close_all_for_agent` and the removal of an
  agent await in a loop over a snapshot; `connect` awaits the close of an older socket while it
  holds the lock.
* *Threads beside the loop.* Plain `def` endpoints and status queries run in a thread pool,
  between any two steps of the loop; resolvers share a cache between threads.
* *Settlement of a debit.* An ack, a timer, a failed send and a teardown may each try to settle
  the same message.
* *Late answers.* The answer of a tool call races its timeout and the fallback that repeats the
  call; a relay grant races the timeout of the call that asked for it.
* *Two ends.* Handshakes, channels, resources and streams have a copy at either end, and
  messages of the two cross; frames of an earlier session are still on the wire after a reset.
* *Several clocks and ages.* Epochs follow the wall clock, rotations the start of the server;
  tokens, list entries, cached answers, staples, advertisements and credentials each age on
  their own.
* *Long legal sequences.* Chains of attenuations, splits, bindings and certificates are built in
  steps by different parties and verified at the end.

`PROJECT.json` lists every such hazard at its line with the property that watches it, or the
reason why none does.

## 2. Modules

An action is a section of a handler between two awaits, or a whole method where the code holds a
lock or does not await. Calls that the code refuses without a change are guards. Signatures,
MACs, hashes and keys are represented by what they are computed from, so that verifying one is
comparing it.

### Relay (RelayProofs, Sums, DeliveryEscrow, MCRelay)

`inflight` holds the data handlers suspended in a send; every other handler has one section that
changes state, followed by sends whose only effect is that a connection is lost
(`ConnectionLost`).

| TLA+ | code |
|---|---|
| `sess[sid]` | the `RelaySession` object: state, parties, budgets, sequence |
| `debit[sid][s]` | `pending_debits[s]`, kept after it left the dictionary as `confirmed` or `refunded` |
| `chain[sid]` | `receipt_chain`; a receipt's hash is the sequence number of its message |
| `sessions`, `pending_notify`, `sessions_by_agent`, `delivery_tasks` | the tables of `RelayManager` |
| `online`, `connected`, `removal`, `closing` | listen loops, `ConnectionManager._connections`, the stages of `_deprovision_agent`, the snapshots of `close_all_for_agent` |
| `HandleRequest`, `HandleAccept`, ... | the handlers of `RelayManager` |
| data frame actions, `SendOk`, `SendFails` | `handle_data` before and after its send, with `confirm_debit` / `rollback_debit` |
| `DeliveryTimeout` | `_on_delivery_timeout` |
| `CloseNext` | one round of `close_all_for_agent` |

`DeliveryEscrow` is the promise of the metering with no timer, ack or connection in it: a
message is charged by a hold on the budget, and a hold is spent or returned, once.
`Relay!ImplementsEscrow` is the refinement: the budget is `msg_remaining`, the holds are the
debits. Session MACs and token buckets are not data here: an SCM may be refused and a rate
limited session may refuse any frame.

### RelayScm (CapabilityProofs)

`EpochKeyRing`, `validate_scm` and the epoch loop for one direction of one session, with a clock
in seconds. An HMAC verifies when key and epoch are those it was computed with. The loop may
wake late by `MaxLateness`, and the server may start at any second of an epoch.

### WebSocketConnections (WebSocketConnectionsProofs, MCWebSocketConnections)

`connections` is `ConnectionManager._connections`, `lock` its asyncio lock, `pc` the point where
each endpoint handler is suspended, `mail` where each message is: with the handler of the POST
(`pushing`, `callback`), in the `inbox` of the store, or `delivered`. `received` is a history
variable: messages some socket or callback took. `Connect`/`Supersede`/`Superseded` are
`connect`; `Flush` and `FlushRaises` the loop over the inbox; `Push`, `PushOk`, `PushFails` and
the callback actions the three tiers of `POST /messages/send`.

### ToolCalls (ToolCallsProofs, MCToolCalls)

One call goes through `send_and_wait` (`SendOk`/`SendFails`, then `Answered`/`Timeout`), the
callback and the echo. The target answers zero times, once or repeatedly, and its answers arrive
in any order (`RunTool`, `LoseFrame`, `ResolvePending`).

### AuthorityServer (NetworkProofs)

The state of `AuthorityState` that the endpoints share. `job[h]` is a suspended handler of the
removal of an agent, of a tool or of a token: which tokens it has `left` to revoke and at which
await it stands. `answering` is the thread that computes a token's status under the responder's
lock. `key` is the number of the key pair the authority signs tokens with: `Restart` makes a new
one, loses agents, tokens, list and cache, and keeps the conversations of the database. Two
history variables, `revoked` and `covered`, hold what was ever revoked and what finished
withdrawals concerned.

### Client (NetworkProofs)

`QASPWebSocketListener`: the loop of `run()` (`loop`, `delay`), the coroutines of the
application that wait for a relay frame (`caller`), the frames the listener keeps for them, and
the numbering of data frames. The relay on the other side is reduced to the order of what it
sends.

### Connection (ConnectionProofs, MCConnection)

Two `QASPConnection` objects with the frames between them. `wire[e]` stands for the sender's
buffer, the stream and the receiver's buffer. A key is the pair of nonces it is derived from; a
frame verifies when the keys agree. `HandleX` is the branch of a handler that succeeds,
`RefuseX` the one that fails with an alert. `AUTHENTICATED` and `CLOSING` are passed within one
call. `calm` is chosen at the start: in a calm behaviour nobody reports a timeout, closes or
resets, which is the assumption under which a handshake must be decided.

### Transport (NetworkProofs, MCTransport)

Two ends, each with a `TCPTransport` and the `StreamManager` on it. A message is a length prefix
and as many units as it has frames; TCP cuts them into chunks of any size. `expects` is where
`receive()` is suspended, so that a timeout can fall between prefix and payload; `MayStall` says
whether a peer may stop inside a message for longer than a `receive` waits.

### Discovery (NetworkProofs)

The registry, one peer's discovery server and one agent's client; `ads`, `known` and `queue` are
the client's dictionaries, `page` the well-known page on its way. `found` is the last answer of
`discover`.

### Identity, Certificates (NetworkProofs)

`documents`, `backend` and `resolverCache` are the three tiers of the resolver; a resolution is
two steps, since another thread may run between the lookup in a store and the put in the cache.
`proofs` are rotation proofs, `chain` a chain of owner bindings. `certs` holds every certificate
made, with the CA certificate it was issued under.

### PaymentChannel, Pricing (CommerceProofs, SharedLedger)

The `PaymentChannel` objects of agent and server. `wire[e]` holds what `e` sent and its peer has
not processed, in order. Methods are called by an application, so each is enabled whenever the
code accepts the call. `CreateStateUpdate`, `CountersignStateUpdate`, `ApplyStateUpdate` are the
three calls of a payment, `RefuseStateUpdate` the exception of the second. `Challenge` is called
on the end that closes, with any update its peer holds or proposed (`Evidence`), as the tests
do. A verdict's update goes to its caller only. The hash of an update is its number. `patient`
is chosen at the start: in a patient behaviour an end awaits the answer to its proposal before
the next. `Pricing` is the negotiation before: offers and acceptances that cross.

`SharedLedger` is what the two objects promise ends that await their answers, with no proposals,
answers, sequence numbers or closes in it: one book of updates and how much of it each end
knows. `ImplementsLedger` maps the longer list of `_states` to the book, the length of each end's
list to what it knows, and the balances of the open ends to their purses. A countersignature is
an entry, the application of the answer is learning it, and everything else is a stutter that may
open or close a purse. A verdict's update goes to one end only, so the promise (`kept`) ends with
the first award.

### Metering, Audit (CommerceProofs)

`resource[e]` is the `ManagedResource` at either end, `line[e]` the messages of `e` on their
way, `chain` the server's receipts, `session[e]` a reconciliation. Reports may be delayed or
repeated. `Audit` takes a dispute from its opening through evidence to verdict, adjustment and
fault, over every pair of short receipt chains.

### Arm, Capability, Tokens (CapabilityProofs)

`Arm` and `Capability` are the pure part: resource names, constraints, schedules, attenuation,
verification. Limits that are `None` in the code are a number above all others. `Tokens` is
their use: holders attenuate, narrow to a tool, split and combine while time passes and
schedules tighten. A token's hash is its place in the order of issue.

### Revocation, RateLimiter (CapabilityProofs)

`entries`, `known` and `children` are the fields of the list; `Cascade(t)` is the set
`_cascade_revoke` adds, the least set that contains the children of `t` and is closed under the
children of what was not revoked before. `cache` and `staple` are answers kept by responder and
client. The rate limiter counts in parts of a use, so that refills are whole numbers;
`MaxBucketAge` is the age `cleanup_expired` is given.

### Threshold, CrossDomain, Bridges (CapabilityProofs)

`Threshold` has every member's state of the three rounds of key generation and of signing, over
a field of `Q` elements in place of the lattice: sharing, Lagrange interpolation and the
response are computed, rejection sampling is a choice. `CrossDomain` keeps every token,
endorsement and acceptance ever signed, and verifies any selection of them. `Bridges` has the
coroutines in `MCPBridge.connect` with its awaits, the tokens issued under each identity, and
the tasks of the A2A bridge.

### Trust (CommerceProofs)

Every operation of the registry is run against both backends (`memory`, `database`, the latter
through its serialisation), the score in whole fractions, and the behavioural verifier over the
last `WindowSize` events.

### Composites

`MCCapabilities`, `MCCommerce` and `MCNetwork` put components with disjoint state side by side:
`part` names the one that moves in a behaviour, so the states of the run are the sum of the
parts and not their product. They are bundles, chosen by subject, and not interactions; where
two components interact, one module has both (`Transport`: TCP and streams; `AuthorityServer`:
agents, tokens, revocation and its responder; `Metering`: resources and reconciliation; `Relay`:
sessions, receipts and connections).

## 3. Runs

| Run | Instance | What it shows | States |
|---|---|---|---|
| `relay_session` | 2 agents, 1 session, 2 messages of 1 or 2 bytes, 2 overlapping handlers per agent, two kinds of budget | Budgets are conserved in messages and bytes, every debit has an owner that will settle it, none is settled twice, receipts chain in whatever order handlers end, every debit is settled or its session ends, and the metering implements the escrow | 512 k |
| `relay_setup` | 2 agents, 2 sessions for a capacity of 1, one agent may be removed, no data | The tables of the relay agree, waiting requests count against capacity, a leaving agent's sessions are torn down | 99 k |
| `delivery` | 3 websocket handlers of two agents, one message | A message recorded as delivered was written somewhere; connects and posts complete in spite of the lock | 46 k |
| `tool_calls` | 2 concurrent calls | `_pending` is exact, an answer belongs to its call and ran once, futures are resolved once, each call returns; no deadlock | 4 k |
| `connection` | every pair of configurations in calm behaviours; the hybrid configuration through timeouts, 1 reset per end, 2 messages per session | Both ends agree on the session without a downgrade, data is in order, handshakes end and are decided | 127 k |
| `capabilities` | parts `tokens`, `revocation`, `rate`, `macs`, `group`, `domains`, `mcp`, `a2a` | What the delegation functions build verifies and allows less than what it was built from; a revocation takes effect in bounded time and for good; uses per window and the life of a session MAC are bounded; any quorum signs and verifies under one key; parts of different cross-domain negotiations do not add up; bridges let no token of a replaced identity in again | 1.3 M |
| `commerce` | parts `metering`, `dispute`, `price`, `channel`, `trust`, `conduct` | Both copies of a channel are a split of the deposits and, between ends that await their answers, implement one book; the books of the two ends of a metered resource do not contradict each other; verdict and fault of a dispute agree; a schedule charges what was accepted; both backends of the trust registry agree and the score follows the evidence | 2.6 M |
| `network` | parts `joining`, `tokens`, `discovery`, `documents`, `bindings`, `certificates`, `streams`, `loop`, `relay` | A revoked token stays refused and a withdrawal reaches every token it concerns, over handlers, threads and restarts; discovery returns what is signed, current and best; what a resolver accepts is or lately was the document; chains of bindings and certificates narrow; streams are in order over two layers of framing; the client numbers frames upwards and stops | 2.3 M |

All passing runs but `tool_calls` say `CHECK_DEADLOCK FALSE` because the system may rest there
(sessions used up, clock at its bound, all handlers done, connections closed).

Four runs show a statement of the repository that the code does not keep. `PROJECT.json` quotes
each:

| Run | Behaviour |
|---|---|
| `relay_gone` | An agent is removed, its loop has ended, and a session with it is accepted after the snapshot of its teardown; no one closes it |
| `takeover` | The `finally` of a superseded handler unregisters its successor |
| `payment_stale` | A proposer's sequence number is ahead of the states it holds, so after its unilateral close the countersigned update with that number is refused as not newer |
| `receive_timeout` | A `receive` that times out between the prefix of a message and its payload leaves the next one inside the message |

Some properties are a conjunction of named parts, each with its own comment in its module:

| Property | Parts |
|---|---|
| `DebitsAreOwned` | `PendingDebitHasOwner`, `SendingIsCharged` |
| `SessionAgreed`, `HandshakeEnds` | `TypeOK`, `KeysAgreed`, `NoDowngrade`; `NoEndlessHandshake`, `HandshakeDecided` |
| `MailIsKept`, `DeliveryCompletes` | `TypeOK`, `NoMessageLost`; `ConnectCompletes`, `PostCompletes` |
| `CallsAreExact` | `TypeOK`, `PendingIsExact`, `AnswerRanOnce` |
| `WithdrawalRevokes` | `StatusFollowsRevocation`, `CoveredAreRefused` |
| `RevocationHolds` | `[]GoodBounded`, `StaysRefused` |
| `AuthorityShrinks` | `NarrowsDownChains`, `CombiningRestricts` |
| `BridgesKeepAuthority` | `OldTokensStayOut`, `SubtasksNarrow` |
| `BooksAgree` | `ReceiptsCoverUsage`, `ReportsTrail`, `ResolvedAlike` |
| `StandingIsEarned` | `BackendsAgree`, `ScoreFollowsEvidence`, `ConductIsWindowed` |
| `DiscoveryIsCurrent` | `QueryIsBest`, `ListedOnce`, `FoundIsCurrent` |
| `IdentityHolds` | `ResolvedIsRecent`, `ChainNarrows`, `CertificatesHold` |
| `ClientKeepsOrder` | `NumbersGoUp`, `StopHolds`, `PauseDoubles` |

### Bounds

* Relay: `MaxSeq` (2 messages), `MaxHandlers` (2 suspended handlers per agent): two messages are
  the fewest whose receipts can be out of order and of which one can carry the ack of the other;
  a second handler of one agent exists because a superseded loop may still be in a handler.
  `MCMixed` has a budget two messages exhaust in bytes but not in messages, and one that is
  unlimited in messages, rate limited, and of one byte. Two sessions for a capacity of one: the
  second request meets a first that waits, is active, closing or gone. The proofs need none of
  these bounds.
* Session MACs: 24 s are four rotations of 5 s in every phase, each late by up to 1 s.
* Delivery: three handlers of two agents are a supersession, a drop and a reconnect of one, and
  another that contends for the lock. `FlushLimit` 1 is the limit of 50.
* Connection: `MaxResets` 1 leaves frames of one earlier session on the wire; `MaxData` 2 lets a
  message be first, next and repeated; `max_retries` 1 lets a timeout both retry and fail. All
  pairs of versions, suite orders and hybrid flags are tried in calm behaviours.
* Tokens: 4 tokens build a chain of four, two chains of two, or a split in a chain; two limits,
  three times, a schedule of two steps that tightens below the grant.
* Revocation: a chain of three tokens is the shortest with a cascade of two levels; grace 1,
  validity 2 and age 2 over 3 s let an entry become effective, a cached answer run out and an
  entry be forgotten.
* Rate limiter: 8 uses in 8 ticks of a bucket of one or two uses per two ticks meet an empty, a
  full and a dropped bucket.
* Threshold: 2 of 3 members over a field of 5, one secret and two masks, two attempts per
  signature, two signatures: the smallest prime field with three distinct points besides 0, and
  every set of signers.
* Cross-domain: chains of up to 3 tokens, 2 endorsements and 1 acceptance, so that an acceptance
  can meet the endorsement it is not of.
* Bridges: two coroutines in `connect`, two identities, two tokens, two calls; 4 tasks are a
  chain of four or two chains.
* Channel: two messages in flight per direction and three updates let two proposals cross,
  follow each other unanswered, and meet a close or a verdict; a deposit of 1 is used up by one
  payment, and an award of 2 exceeds what the server has. The proofs need none of these.
  `ImplementsLedger` is about patient ends, which send one proposal at a time, so three updates are two
  that cross and one after them. What impatient ends can do to each other's ledger (section 6)
  takes four updates and three messages in a direction.
* Metering: two reports, two units of usage at most at once, two messages on each line, a
  claimed usage that agrees within the tolerance and one that does not. Disputes: every pair of
  chains of up to three totals from 0 to 2, gaps and drops included.
* Prices: three offers of two prices are an offer that is repeated and one that is undone.
  Trust: seven interactions cross the confidence and cold-start thresholds, which are scaled
  down with them; four requests for credentials are sound or not, lasting or not.
* Server: two suspended handlers (which are symmetric), two agents, two tokens, one
  conversation, one restart: a withdrawal meets an issue, a revocation, another withdrawal and a
  status request.
* Discovery: two agents' offers, a clock of 2, one mDNS item waiting. Identity: two versions of
  a document, two resolvers, one DHT entry, a cache of one hour over two. Certificates: three
  certificates of three subjects in four forms. Streams: one stream, three frames, messages of
  up to two. Client: two callers, two sessions, two failures in a row in the part of the loop,
  one in the part of the relay frames.

### Fairness

* Relay: a suspended send completes or raises (the websocket server drops peers that miss
  pings), a sleeping timer fires, `close_all_for_agent` goes on. These are steps of the event
  loop. Nothing is assumed of agents.
* WebSocketConnections: the same, and strong fairness where a section waits for the lock,
  because an `asyncio.Lock` wakes its waiters in the order they came.
* ToolCalls: sends end, `wait_for` has a timeout, the callback's HTTP client has one. The target
  need not answer.
* Connection: the stream delivers what was sent, and an application that waits in a handshake
  reports its timeouts. `HandshakeDecided` uses delivery only.
* Everything else: none. Applications, clocks, threads and peers may stop at any time, and what
  those modules state is safety.

## 4. Proofs

| Module | Theorems |
|---|---|
| `RelayProofs` | `TypeCorrect`: `Spec => []TypeOK`; `TablesCorrect`: `Spec => []TablesAgree`; `CapacityKept`: `Spec => []CapacityRespected`; `DebitSettledOnce`: `Spec => SettledOnce`; `BudgetConserved`: `Spec => []MessageBudgetConserved`; `BytesConserved`: `Spec => []ByteBudgetConserved`; `DebitOwned`: `Spec => []DebitsAreOwned`; `ChainVerifies`: `Spec => []ReceiptChainVerifies`; `RelayImplementsEscrow`: `Spec => ImplementsEscrow` |
| `ConnectionProofs` | `SessionsAgree`: `Spec => []SessionAgreed`; `DataOrdered`: `Spec => []DataInOrder` |
| `WebSocketConnectionsProofs` | `MailKept`: `Spec => []MailIsKept` |
| `ToolCallsProofs` | `CallsExact`: `Spec => []CallsAreExact`; `FutureResolvedOnce`: `Spec => ResolvedOnce` |
| `NetworkProofs` | `RevokedForGood`: `Spec => []RevokedStaysRevoked`; `WithdrawalComplete`: `Spec => []WithdrawalRevokes`; `IdentityAlwaysHolds`: `ISpec => []IdentityHolds`; `ClientAlwaysKeepsOrder`: `ClSpec => []ClientKeepsOrder`; `StreamsStayInOrder`: `TSpec => []StreamsInOrder`, for `~ MayStall`; `DiscoveryAlwaysCurrent`: `DSpec => []DiscoveryIsCurrent` |
| `CapabilityProofs` | `DelegationAlwaysVerifies`: `Spec => []DelegationVerifies`; `AuthorityAlwaysShrinks`: `Spec => []AuthorityShrinks` (both of `Tokens`); `WindowAlwaysBounded`: `LSpec => []WindowBounded`; `ScmIsRecent`: `ScmSpec => []AcceptedScmIsRecent`; `RevocationIsForGood`: `RSpec => RevocationHolds`; `BothOwnersAlwaysAgree`: `CSpec => []BothOwnersAgree`; `BridgesAlwaysKeepAuthority`: `BSpec => []BridgesKeepAuthority`; `ThresholdAlwaysSigns`: `ThSpec => []ThresholdSigns` |
| `CommerceProofs` | `TypeCorrect`: `Spec => []TypeOK`; `ConservesDeposit`: `Spec => []DepositConserved`; `ChannelImplementsLedger`: `Spec => ImplementsLedger`; `LedgerAgreed`: `Spec => []EndsAgree`, which is stated there and checked by no run of its own; `AcceptedPrice`: `PSpec => []ScheduleAsAccepted`; `BooksAlwaysAgree`: `MSpec => []BooksAgree`; `FaultFollowed`: `ASpec => []FaultMatchesVerdict`; `StandingAlwaysEarned`: `TrSpec => []StandingIsEarned` |

`Sums` holds the lemmas that several of these rest on: what a sum and a product over a finite set
are, whatever order the fold takes the elements in, that sums are linear and two of them can be
exchanged, that a set of numbers has a least and a bounded one a largest member, and how a
recursion goes along a list.

They hold for every value of the constants the modules' assumptions allow: any agents, sessions,
messages, handlers, tokens, tasks, certificates, calls, deposits, epochs and lifetimes. Each has
one step per action of `Next`; what an operation does to one piece of state is a lemma.

Most assumptions only type a constant; that of `Tokens` also says that the thresholds of a
schedule ascend, which `TemporalSchedule.__post_init__` enforces. Those that exclude a
configuration the code would accept are `LifetimeAssumption` of `Revocation` (below),
`RateAssumption` (buckets are not cleaned up before their period is over, as with the defaults of
7200 and 3600 s; a token whose period is longer than the age given to `cleanup_expired` gets a
full bucket more often), `ClientAssumption` (the first pause of the listener is no longer than its
longest, as with the defaults of 2 and 60 s),
`ThresholdAssumption` (fewer members than the field has elements, 8380417 in the code, which
does not check it),
`IdentityAssumption` (the owner gives its first binding a depth that is not negative) and
`TrustAssumption` (a credential's id, a uuid4, is its own, and a newcomer's cap of the score is the
lowest, as in `_trust_cap_for_interactions`).
`StreamsStayInOrder` has a hypothesis of its own, `~ MayStall`: a receive that times out inside a
message forgets its length, and the run `receive_timeout` shows what is then taken for a prefix.
The theorem is about networks in which no message stops halfway for longer than a receive waits;
a receive may time out between messages, and either end may close at any point.

The prover has no induction over data: a theorem about every length of a list or every size of a
set would need the induction theorems of the library, whose parameters are operators. Two
things take its place. Invariants are about neighbours or about all pairs, so that the induction
is that of the behaviour. And where a definition is recursive (a sum over a set, the chain of a
token, powers of two), a lemma takes the least argument at which it would be wrong
(`MinimalSubset`, `LeastExists`) and refutes it. `Climb` and `TableGoesOn` are this
argument for a table along a list: what the first place has and every place hands on, all have,
and such a table exists.

**Relay.** `TypeOK` has no budget below zero, which is not inductive: whether `consume` checks a
budget depends on the granted limit, and what it subtracts from on the remaining one. `TypeInv`
adds `LimitsAgree`: the remaining budget is unlimited exactly when the granted one is.
`DebitInv` adds that sequence numbers not drawn yet have no debit and that sessions not used yet
are fresh; with it, no step draws a number again and a settled debit stays. `BudgetConserved`
counts the set of charged messages: charging adds one and takes one unit, a rollback undoes
both, a confirmation neither. `BytesConserved` is the same with the sum of their lengths, which
changes by the length of the one message (`SumTakesOut`, `SumsAgree`). Who settles a debit needs to know where each message stands.
`Account(t, s)` says so: a message being sent is charged and has neither timer nor receipt; a
pending one of a live session is being sent or has its timer; a number that was not drawn has
nothing. With `OneHandler` (no message is sent by two handlers) and the chain itself this is
`OwnInv`, from which `DebitOwned`, `ChainVerifies` and the refinement follow. In the refinement
every action either leaves all holds and the budget alone (`Unmoved`), or moves one message or
one session as a step of the escrow does (`Moved`, `EscrowMoves`); a teardown leaves its debits,
so that it is a stutter.

**Connection.** What an end holds depends on frames its peer sent in an earlier state, so the
invariant is about the wires. `AllTell`: a hello on its way carries a nonce that was drawn, an
answer is one the server gave, an authentication one the client completed, and data is under the
key of a completed session. `Stages` ties keys and counters to states; since a reset leaves the
drawn nonces behind it, the client's is larger than that of every session it completed while it
waits for an answer, which is why an old answer does not fit. `Flow(e)` is for the order: every
message of the session that `e` is in, or awaits, has the one before it ahead of itself on the
wire unless that was received, and the peer's next message will. It must speak of the session a
server awaits, because a client sends data before the server has its authentication. So the
first data frame is the next one (`NextInLine`), although the receive counter only refuses older
ones. That the selected suite is common is the least index of a set (`Agreement`).

**Session MACs.** `AcceptedScmIsRecent` is about one held MAC; `Aged` ties the moment of its
derivation to its key: with the current key it was made since the last rotation, with the
previous one at most an epoch and the lateness before it. `Clocks` says that keys have no gaps
and that no sleep overruns by more than the lateness.

**Delivery.** `MailIsKept` is inductive as it stands.

**Tool calls.** That an answer ran once needs an account of runs: a call owes one to the frame
that left for its target and one to the callback (`Accounted`), and every answer on its way
tells of a run.

**Server.** Inductive with the promise of each suspended withdrawal (`Promise`): the tokens it
concerns are on the list or among those it has left, in whatever order others issue and revoke.
`HistoryDead` says that whatever was revoked is on the list or signed by a key that is gone,
which is why a restart, which loses the list, revives nothing. `StatusFollowsRevocation` holds
over a responder's thread that computed its answer before the revocation.

**Revocation.** Every answer that a cache or a client keeps is `Honest`: if it says good and the
token is listed, it ends before the entry's time plus the validity. `StaysRefused` depends on
the assumption that the age given to `cleanup_expired` is no less than a token's lifetime
(`LifetimeAssumption`), which the code leaves to its caller.

**Payment channel.** What an end settles depends on updates that were proposed earlier, so
`Sound` adds that every message on its way and every update an end holds is worth the two
deposits. That the first balances are depends on the order of opening: `Opening` says which
messages can be on their way while an end is `OPENING`. The price of a schedule is that of an
accept, and accepts are offers that were made (`Negotiated`).

`LedgerAgreed` is about ends that await their answers, and while proposals of both may cross.
`Ledger` says what can be on the two wires: a proposal or its answer per end, never both
(`OneOutstanding`); numbers that the end which proposed has not passed (`Numbered`), so that of
two proposals that cross one is refused; a proposal that nothing was signed after names the
last update of its end (`Linked`); and an end that signed is exactly that update ahead
(`OneAhead`), which is why two answers are never on their way at once. `Even` and `Paying` give
the property when the wires are empty.

`ChannelImplementsLedger` follows from the same invariant. `Linked` also says that an open
proposal follows the last update of its end by one payment (`Follows`), so what the peer
countersigns is an entry the abstract book allows, and `CountersignLedger` and `ApplyLedger` say
where the two lists stand at these two steps. `OneLonger` makes one list the other or one update
more, hence the longer is the book; `PursesFull` reads the balances of an open end off the last
update it knows. `BookStep` has one case per kind of step; a step after an award stays outside of
the promise, because no end ever takes an update back.

**Metering.** `BooksInv` orders the messages of a resource: a request is alone on the lines, a
grant is first, reports lie between what the agent has seen and what the server recorded and go
up along the line, acks do not pass the agent. A reconciliation has one request or one answer on
its way, and the answer tells what the server decided. The fold over the receipts is a sum, which
a new receipt enlarges by its units (`ReceiptsCoverUsage`). `Steady` summarises what a suspension or
a release, which may cross anything, leaves alone.

**Disputes.** One action decides, and the theorem is about its two passes over the evidence: a
verdict that follows the sum of the differences against a fault that follows their signs. All
positive differences have a positive sum (`SumPositive`), so who overcharged throughout does not
win by the sum.

**Tokens.** `TokensInv` says of every token but a root that it is a link that verifies behind its
parent (`Linked`). It is kept because `attenuate_token` checks, on the token it makes, what
`verify_delegation_chain` will check (`NewTokenLinks`), and because later tokens leave earlier
ones as they are. That a link allows no more at any age needs more than that: the code compares
two schedules at their own thresholds only. Between two thresholds of either nothing changes, so
at any age the last threshold of either before it decides (`SameBetween`, `LinkSpendsLess`); this
is where thresholds must ascend. `Below` collects what a link keeps of its parent and is
transitive, so a token is below each before it in its chain (`BelowAncestors`, by the first token
that is not). `NarrowsDownChains` is about spending: data scopes and tools, which may be widened
(section 6), are left out of it. For tokens that are combined, the fold over two constraints is
their meet (`MeetOfTwo`).

**Rate limiter.** `RateInv` has one account per window: what was used in it so far and what the
bucket would hold if it were refilled now are together at most what the window was given. That is
the bucket it began with and what refills since its start, and a second full bucket once one was
made in it. A bucket made in a window outlives it, so there is no third, and at the end the
refills are worth one more (`GivenIsBounded`).

**Cross-domain.** `ChainOf` is a recursive function over the table of tokens; `ChainsArePaths`
shows that it is, for a table in which parents come first (`Forest`, kept by every step), the
path from the root. Verification compares each token with the next, so what it says of the last
token and each before it is an induction along the chain, done by the largest index that fails.

**Bridges.** `Generations`: identities only go up and the calls that got through are ordered by
them, because a call needs a token of the current one. `Descent` is a statement about a task and
its parent: the token came from the parent's or is fresh. What `SubtasksNarrow` says of a whole
chain, back to the last fresh token, follows with the path lemmas of the cross-domain part; its
length is that of the depth, which goes down by one.

**Identity.** `Lately` dates what a cache or a suspended resolution holds: it was in a store when
it was put, or at the hour it was read, and what has left a store since is in the history with
its hour. `Passed` is about all pairs of a chain of bindings: agent, depth, expiry and permissions
move with the distance. `AllIssued` says of each certificate that it is within its issuer, and
the two directions of `CertificatesHold` compare the checks of verification with it, along a
chain of any length.

**Client.** `Paced` ties the pause to the number of failures. `SessionsKnown` is the order of
the relay's side: a session that was granted no longer waits, one that ended does not come back, and
only those can be in a grant on its way or in a call. With it `Numbered` holds: a number is set
once, when the first grant of a session is taken, and whatever was sent to a live session is
below the next.

**Streams.** The two directions are independent, and `Direction` describes one of them as a
line: the results, the buffer, the wire and the pending frames follow one another up to what was
sent. `Carries(q, s, a, b)` says that the piece `q` of the line has the frames `a + 1` to `b` of
stream `s`, in order and no other; pieces join and can be cut anywhere, so it does not matter how
the network cuts them. `Framed` is for the boundaries: behind each prefix there are as many
frames as it says, across buffer and wire, and a receive that waits for a payload has it in
front. A frame with the end flag is the last that its sender sends (`EndsRight`), so an end that
holds a stream for closed has everything. Processing a message is a recursive function over its
units; the prover sees it one frame at a time, by the least index at which the table would be
wrong. That the number of a frame is the count of those before it is a bijection of the two.

**Threshold signatures.** `ThresholdSigns` needs Shamir's scheme over any prime field. `Same(a, b)`
says that two integers are the same element, `InverseExists` that what is not zero has an inverse
(the least positive multiple of it has to be 1, or it would leave a smaller remainder of the prime).
The rest is about `AtZero(S, v)`, the value at zero that the indices `S` give to the points `v`. It is
linear; points that vanish at an index `j` leave `j` out (`AtZeroDrops`); hence the coefficients add
up to one (`AtZeroOnes`, on a smallest set for which they would not). `Horner` then follows
`share_scalar` up its coefficients: after `k` of them, any `k` members' values interpolate to the
one added last, because the part that was multiplied by the member's number is lost. So any
threshold of shares gives the constant back (`Shamir`), and added up over all dealers, where
the two sums are exchanged, the secret of the group's key (`SharesOpenKey`). Of the state,
`DkgOK` says that who is through the rounds used the polynomials all have committed to, and
`Answered` that who responded did so when all masks were drawn; then what the signers add up to
verifies (`AnswersVerify`).

**Standing.** That the backends agree is an invariant of what each stores: the database gives an
entry back because the loop over the stored ids finds every credential, whatever order they are
in (`Backed`, `Standings`); no id is another agent's, since ids are drawn fresh, so removing an
agent takes its own credentials and no others. The score is compared term by term: the level, the
credit for experience and the cap do not change when a failure takes the place of a success, and
the share of successes goes down. `Conduct` says which events are marked as violations, and the
window is the same piece of the list for both counts.

**Discovery.** A query answers in some order by trust that the code's sort puts there, and such
an order exists for every finite registry: the least trusted of a smallest set without one could
go last (`RankingExists`). What is left out comes behind what is answered. `KnownInv` says that an
endpoint the client announced has an advertisement, so that `discover`, which first forgets the
endpoints of the expired ones, lists no announcement that is over. Each of the lists (what is
kept, what the queue adds, what the registry adds) names an agent once when its parts do.

Only model-checked:

* liveness (`PendingSettles`, `DisconnectTearsDown`, `DeliveryCompletes`, `CallCompletes`,
  `HandshakeEnds`), since ENABLED and fairness are out of the prover's reach;
* what streams do when a message may stall, which run `network` leaves out, too.

## 5. What is not modelled

* Cryptographic algorithms (`crypto/dilithium.py`, `kem.py`, `aead.py`, `kdf.py`, `merkle.py`,
  `bulletproofs.py`, ...) and zero-knowledge or selective disclosure: pure functions over bytes
  and big numbers.
* Byte layouts: CBOR, DER, frames. A frame parses and verifies or is dropped; the relay drops
  what does not parse before any change of state.
* QUIC below `aioquic`; `perform_handshake` and the listeners of TCP, which hand over to the
  connection and to asyncio.
* The SQLite store of the server, except that conversations survive a restart: it is read back
  only there. `GET /discover`, the trust endpoints and the front ends only read, or call what is
  modelled. Receipts are persisted by a thread pool in no particular order, and no code reads
  that order back.
* `trust/reputation.py` (exponential decay and a beta distribution over floats, without a state
  machine) and `detect_collusion`, which the server does not call. SPIFFE names and bundles. The
  token use log, a counter. Record types (`events.py`, `exceptions.py`).
* Token buckets of the relay's sessions: a rate limited session may refuse any frame.

## 6. What the models showed

Besides the four runs above, modelling met the following. No run is spent on them; those that a
property comes near are in the models as the code has them.

*Relay and server.* A session that is torn down while `handle_data` is suspended in its send
gets a delivery timer afterwards, which the comment in `teardown` means to exclude; its rollback
is harmless. The previous epoch key counts only together with the wall clock's previous epoch,
so a rotation in the middle of an epoch ends the current SCM at once, where the Technical
Reference (line 1614) has a grace window. Receipts may be appended after the session closed. A
tool call that timed out on a connected target is echoed with a note that the target is offline;
a result of JSON `null` is taken for no answer. A reconnecting agent gets 50 messages of its
inbox (`docs/testing.md`, row 10.2, has them all). `POST /register` checks a name and inserts
later, and a concurrent request can do the same in between (the docstring at
`qasp_server.py:674` says names are unique). A token issued between the snapshot of a removal
and its end stays active; a message is stored in a conversation closed meanwhile; a restart
orphans conversations; `_notify_revocation` compares a parent's hash with a token's id; a
message and its charge are committed apart. After one to four successes the server's score is
below 0.5, where `docs/testing.md:100` has it increase; the score of an unknown agent is 0.5
where row 7.7 has a 404.

*Client.* Two `open_relay_session` calls may swap grants, and a grant that comes late is taken
by the next. A waiting call drains and drops frames that others wait for. Sessions survive a
reconnect in `_relay_sessions`. `stop()` during a connect closes nothing. An orderly end
reconnects without pause. A message that comes by inbox and websocket is logged twice.

*Connection, transport, discovery.* `close` from `IDLE` and `handle_timeout` from `CLOSED` are
outside `VALID_TRANSITIONS`. A post-quantum server without a classical suite answers a classical
client with alert 71, where the specification (line 520) has `UPGRADE_REQUIRED`. The suite is
chosen by the server's order, not by strength. A close_notify leaves the peer ESTABLISHED.
QUIC's `receive` without data waits for an event no one sets. The registry accepts an older
entry over a newer one, and a removed agent's entry again. An mDNS endpoint passes every trust
threshold, hides the registry's, and expires only with an advertisement of its agent. The
advertisement is not refreshed.

*Settlement, metering, disputes, trust.* A verdict moves a channel from DISPUTED to OPEN, where
the specification has CLOSING and CLOSED; an update countersigned before it undoes its award at
that end; countersigning looks at no channel state. `apply_state_update` takes the sequence
number back to that of the update it is given, so an end with several proposals on their way
accepts and gives numbers a second time: the agent proposes 1, 2, 3, applies 1, and countersigns
the server's update with number 2; the server has refused the agent's 2 and takes its 3. Both
are OPEN with nothing on the way, and with different balances. `SameUpdates` without its
`patient`, with 4 updates and 3 messages in a direction, shows it. A server's
receipts have `total_cost` 0 and the agent's chain is never filled. A suspension that crosses the release puts a RELEASED
resource back to SUSPENDED, and nothing resumes one. A reconciliation that timed out cannot be
retried. In a mixed discrepancy the auditor blames the respondent also when it wins; the award
is not limited by what was claimed. A credential that is not valid yet counts for the level of
its agent, and one is added without its proof being checked. Losing the cold-start boost at the
15th interaction lowers a score on a success. Registering again resets trust. `PROCESSING` and
`IDLE` are reached by no event.

*Tokens.* Tightening two disjoint scopes gives the empty scope, which means unrestricted;
`is_tighter_than` ignores the period of a rate (its comment at `capability.py:329` includes it);
a temporal schedule starts again with each child; a chain is verified without its resources and
without revocation; an aggregate allows the product of verbs and resources; a split sums per
call only; a limit that decays to 0 raises; the limiter made first stays when the limit changes.
A child revoked with grace keeps it when its parent is revoked at once; a cascade stops at a
child revoked before (`revocation.py:280`); the responder says REVOKED during a grace in which
the list says not yet. Cross-domain verification compares no token with the chain's leaf and
asks no list; an aggregate's verification checks only the last signature.

*Identity and certificates.* Certificates are compared only where both state a limit, so one
issued without classes or limit drops them for what it issues. `[root, root]` verifies as a
chain. `register` of a stale copy of a document rolls its key back; a resolver's cache does not
see changes of the registry; a binding chain's signatures after the root are not checked, as its
comment says.

*Threshold, bridges.* Shares are not verified in round 3, where the comment at
`threshold.py:293` has it, nor are the lists checked for completeness; 32 failed attempts end in
an `AttributeError`. Concurrent or failed `connect` calls replace a bridge's identity and void
its tokens; cancelling a task revokes neither its token nor its subtasks; a subtask of a task
without a token gets a fresh one of full depth.

## 7. Plan

Modelled and checked: everything of section 2. Next, in this order:

1. Composition of `Client` with `Relay` in place of its reduced server.
2. The server's SQLite store with a crash between its commits.
