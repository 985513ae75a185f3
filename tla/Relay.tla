------------------------------- MODULE Relay -------------------------------
(***************************************************************************)
(* The relay of the authority server: RelayManager and RelaySession        *)
(* (src/src/qasp/protocol/relay), driven by the websocket listen loops of  *)
(* scripts/qasp_server.py.                                                 *)
(*                                                                         *)
(* Everything runs on one asyncio event loop: code between two awaits is   *)
(* atomic, and handlers interleave where one is suspended.  An action is   *)
(* such an atomic section.  The only suspension after which a handler      *)
(* still changes relay state is the forwarding of a data frame, so         *)
(* inflight holds the suspended data handlers; every other handler is one  *)
(* section followed by sends whose only effect, the loss of a connection,  *)
(* is the action ConnectionLost.                                           *)
(***************************************************************************)
EXTENDS Integers, FiniteSets, Sequences, FiniteSetsExt

CONSTANTS
  Agents,                   \* DIDs of the registered agents
  SessionIds,               \* the uuid4 values a run can draw
  Params,                   \* session parameters an agent may ask for
  PayloadLens,              \* payload lengths of data frames
  MAX_CONCURRENT_SESSIONS,  \* capacity of the relay
  MaxSeq,                   \* bound: sequence numbers per session
  MaxHandlers,              \* bound: listen loops of one agent at a time
  Removable,                \* agents that may be unregistered
  NoLimit,                  \* None as a budget
  NoAck,                    \* None as receipt_ack
  NoAgent

SeqNos == 1..MaxSeq

ASSUME ParamsAssumption ==
  /\ NoLimit \notin Int
  /\ Params \subseteq [max_messages : Nat \cup {NoLimit},
                       max_bytes    : Nat \cup {NoLimit},
                       max_rate     : BOOLEAN]

ASSUME BoundsAssumption ==
  /\ IsFiniteSet(SessionIds)
  /\ MAX_CONCURRENT_SESSIONS \in Nat
  /\ MaxSeq \in Nat
  /\ MaxHandlers \in Nat
  /\ PayloadLens \subseteq Nat
  /\ NoAck \notin Nat
  /\ NoAgent \notin Agents
  /\ Removable \subseteq Agents

VARIABLES
  online,              \* agents whose listen loop runs
  connected,           \* ConnectionManager._connections
  removal,             \* how far _deprovision_agent has come with an agent
  sess,                \* the RelaySession objects
  debit,               \* pending_debits, and how each debit was settled
  chain,               \* the receipt chain of each session
  pending_notify,
  sessions,
  sessions_by_agent,
  delivery_tasks,
  inflight,            \* data handlers suspended in ws.send_bytes
  closing              \* ids a close_all_for_agent has still to tear down

vars == <<online, connected, removal, sess, debit, chain, pending_notify,
          sessions, sessions_by_agent, delivery_tasks, inflight, closing>>

NoDebit == [st |-> "none", to |-> NoAgent, len |-> 0]

NewSession(a, b, p) ==
  [state |-> "NOTIFYING", initiator |-> a, target |-> b, params |-> p,
   msg_remaining |-> p.max_messages, bytes_remaining |-> p.max_bytes,
   next_seq |-> 1, expired |-> FALSE]

Unused ==
  [state |-> "IDLE", initiator |-> NoAgent, target |-> NoAgent,
   params |-> [max_messages |-> NoLimit, max_bytes |-> NoLimit,
               max_rate |-> FALSE],
   msg_remaining |-> NoLimit, bytes_remaining |-> NoLimit,
   next_seq |-> 1, expired |-> FALSE]

Init ==
  /\ online = {}
  /\ connected = {}
  /\ removal = [a \in Agents |-> "none"]
  /\ sess = [sid \in SessionIds |-> Unused]
  /\ debit = [sid \in SessionIds |-> [s \in SeqNos |-> NoDebit]]
  /\ chain = [sid \in SessionIds |-> <<>>]
  /\ pending_notify = {}
  /\ sessions = {}
  /\ sessions_by_agent = [a \in Agents |-> {}]
  /\ delivery_tasks = {}
  /\ inflight = {}
  /\ closing = [a \in Agents |-> {}]

-----------------------------------------------------------------------------
(* Connections.  A superseded listen loop may still be in a handler while  *)
(* its successor runs, hence MaxHandlers.                                  *)

Listening(a) ==
  /\ a \in online
  /\ Cardinality({f \in inflight : f.sender = a}) < MaxHandlers

Connect(a) ==
  /\ removal[a] # "removed"
  /\ a \notin connected
  /\ online' = online \cup {a}
  /\ connected' = connected \cup {a}
  /\ UNCHANGED <<removal, sess, debit, chain, pending_notify, sessions,
                 sessions_by_agent, delivery_tasks, inflight, closing>>

\* A send to the agent raised: send_bytes drops the connection.  Its listen
\* loop notices later.
ConnectionLost(a) ==
  /\ a \in connected
  /\ connected' = connected \ {a}
  /\ UNCHANGED <<online, removal, sess, debit, chain, pending_notify, sessions,
                 sessions_by_agent, delivery_tasks, inflight, closing>>

\* The finally block of a listen loop: disconnect, then close_all_for_agent
\* takes its snapshot of the agent's sessions.  When the loop is one that a
\* reconnection superseded, its successor goes on listening.
LoopEnds(a) ==
  /\ Listening(a)
  /\ online' \in {online, online \ {a}}
  /\ connected' = connected \ {a}
  /\ closing' = [closing EXCEPT ![a] = @ \cup sessions_by_agent[a]]
  /\ UNCHANGED <<removal, sess, debit, chain, pending_notify, sessions,
                 sessions_by_agent, delivery_tasks, inflight>>

\* _deprovision_agent pops the agent's websocket and suspends in closing it;
\* the listen loop of that websocket ends later.
Deprovision(a) ==
  /\ a \in Removable
  /\ removal[a] = "none"
  /\ removal' = [removal EXCEPT ![a] = "socket closing"]
  /\ connected' = connected \ {a}
  /\ UNCHANGED <<online, sess, debit, chain, pending_notify, sessions,
                 sessions_by_agent, delivery_tasks, inflight, closing>>

DeprovisionSessions(a) ==
  /\ removal[a] = "socket closing"
  /\ removal' = [removal EXCEPT ![a] = "sessions closing"]
  /\ closing' = [closing EXCEPT ![a] = @ \cup sessions_by_agent[a]]
  /\ UNCHANGED <<online, connected, sess, debit, chain, pending_notify,
                 sessions, sessions_by_agent, delivery_tasks, inflight>>

\* Until here the agent's api key still let it reconnect.
Unregister(a) ==
  /\ removal[a] = "sessions closing"
  /\ closing[a] = {}
  /\ removal' = [removal EXCEPT ![a] = "removed"]
  /\ UNCHANGED <<online, connected, sess, debit, chain, pending_notify,
                 sessions, sessions_by_agent, delivery_tasks, inflight,
                 closing>>

-----------------------------------------------------------------------------
(* Session set-up.                                                         *)

Parties(sid) == {sess[sid].initiator, sess[sid].target}

Peer(sid, a) ==
  IF a = sess[sid].initiator THEN sess[sid].target ELSE sess[sid].initiator

\* Mutant: only accepted sessions are counted.
LoadOfAccepted == Cardinality(sessions)

\* What the capacity check counts.
Load == Cardinality(sessions) + Cardinality(pending_notify)

\* The three refusals (capacity, target offline, token not verified) send a
\* deny and change nothing.
HandleRequest(a, b, sid, p) ==
  /\ Listening(a)
  /\ Load < MAX_CONCURRENT_SESSIONS
  /\ b \in connected
  /\ sess[sid].state = "IDLE"
  /\ sess' = [sess EXCEPT ![sid] = NewSession(a, b, p)]
  /\ pending_notify' = pending_notify \cup {sid}
  /\ UNCHANGED <<online, connected, removal, debit, chain, sessions,
                 sessions_by_agent, delivery_tasks, inflight, closing>>

AcceptSession(b, sid) ==
  /\ Listening(b)
  /\ sid \in pending_notify
  /\ b = sess[sid].target
  /\ pending_notify' = pending_notify \ {sid}
  /\ sess' = [sess EXCEPT ![sid].state = "ACTIVE"]
  /\ sessions' = sessions \cup {sid}
  /\ sessions_by_agent' =
       [a \in Agents |-> IF a \in Parties(sid)
                           THEN sessions_by_agent[a] \cup {sid}
                           ELSE sessions_by_agent[a]]
  /\ UNCHANGED <<online, connected, removal, debit, chain, delivery_tasks,
                 inflight, closing>>

\* An accept frame that says no, or that another agent sent: the entry was
\* popped before either is looked at.
RefuseSession(b, sid) ==
  /\ Listening(b)
  /\ sid \in pending_notify
  /\ pending_notify' = pending_notify \ {sid}
  /\ UNCHANGED <<online, connected, removal, sess, debit, chain, sessions,
                 sessions_by_agent, delivery_tasks, inflight, closing>>

-----------------------------------------------------------------------------
(* Teardown: a no-op when the session is already gone.                     *)

TasksOf(sid) == {sid} \X SeqNos

\* Mutant: only the initiator's index entry is dropped.
TeardownInitiatorOnly(sid) ==
  IF sid \in sessions
    THEN /\ sessions' = sessions \ {sid}
         /\ sessions_by_agent' =
              [sessions_by_agent EXCEPT ![sess[sid].initiator] = @ \ {sid}]
         /\ sess' = [sess EXCEPT ![sid].state = "CLOSING"]
         /\ delivery_tasks' = delivery_tasks \ TasksOf(sid)
    ELSE UNCHANGED <<sessions, sessions_by_agent, sess, delivery_tasks>>

Teardown(sid) ==
  IF sid \in sessions
    THEN /\ sessions' = sessions \ {sid}
         /\ sessions_by_agent' =
              [a \in Agents |-> sessions_by_agent[a] \ {sid}]
         /\ sess' = [sess EXCEPT ![sid].state = "CLOSING"]
         /\ delivery_tasks' = delivery_tasks \ TasksOf(sid)
    ELSE UNCHANGED <<sessions, sessions_by_agent, sess, delivery_tasks>>

\* The id is all that counts: the code does not ask who sent the frame.
HandleClose(a, sid) ==
  /\ Listening(a)
  /\ sid \in sessions
  /\ Teardown(sid)
  /\ UNCHANGED <<online, connected, removal, debit, chain, pending_notify,
                 inflight, closing>>

\* Mutant: only the sessions the agent asked for are torn down.
CloseNextInitiated(a, sid) ==
  /\ sid \in closing[a]
  /\ closing' = [closing EXCEPT ![a] = @ \ {sid}]
  /\ IF sess[sid].initiator = a
       THEN Teardown(sid)
       ELSE UNCHANGED <<sessions, sessions_by_agent, sess, delivery_tasks>>
  /\ UNCHANGED <<online, connected, removal, debit, chain, pending_notify,
                 inflight>>

\* One round of the loop in close_all_for_agent; the sends of a teardown
\* suspend it before the next.
CloseNext(a, sid) ==
  /\ sid \in closing[a]
  /\ closing' = [closing EXCEPT ![a] = @ \ {sid}]
  /\ Teardown(sid)
  /\ UNCHANGED <<online, connected, removal, debit, chain, pending_notify,
                 inflight>>

\* The wall clock passes expires_at.  Only _handle_data looks at it.
ClockPassesExpiry(sid) ==
  /\ sess[sid].state # "IDLE"
  /\ ~sess[sid].expired
  /\ sess' = [sess EXCEPT ![sid].expired = TRUE]
  /\ UNCHANGED <<online, connected, removal, debit, chain, pending_notify,
                 sessions, sessions_by_agent, delivery_tasks, inflight,
                 closing>>

-----------------------------------------------------------------------------
(* Data frames.  receipt_ack is served first, whatever follows.  Only a    *)
(* party of the session holds an SCM that verifies (module RelayScm).      *)

\* Mutant: an ack cancels the timer and leaves the debit.
ConfirmedTimerOnly(sid, ack) == debit

Confirmed(sid, ack) ==
  IF ack # NoAck /\ debit[sid][ack].st = "pending"
    THEN [debit EXCEPT ![sid][ack].st = "confirmed"]
    ELSE debit

Receives(a, sid, ack) ==
  /\ Listening(a)
  /\ sid \in sessions
  /\ ack \in SeqNos \cup {NoAck}

Debited(budget, n) == IF budget = NoLimit THEN NoLimit ELSE budget - n
Credited(budget, n) == IF budget = NoLimit THEN NoLimit ELSE budget + n

\* Mutant: the byte budget is not looked at.
AffordableMessages(sid, len) ==
  sess[sid].msg_remaining # NoLimit => sess[sid].msg_remaining > 0

Affordable(sid, len) ==
  /\ sess[sid].msg_remaining # NoLimit => sess[sid].msg_remaining > 0
  /\ sess[sid].bytes_remaining # NoLimit => sess[sid].bytes_remaining >= len

\* The MAC does not verify: only the ack counts.
DropData(a, sid, ack) ==
  /\ Receives(a, sid, ack)
  /\ debit' = Confirmed(sid, ack)
  /\ delivery_tasks' = delivery_tasks \ {<<sid, ack>>}
  /\ UNCHANGED <<online, connected, removal, sess, chain, pending_notify,
                 sessions, sessions_by_agent, inflight, closing>>

\* Expired, budget exhausted, or a rate limit said no (a token bucket may
\* refuse any frame): the session is torn down.
RejectData(a, sid, ack, len) ==
  /\ Receives(a, sid, ack)
  /\ a \in Parties(sid)
  /\ \/ sess[sid].expired
     \/ ~Affordable(sid, len)
     \/ sess[sid].params.max_rate
  /\ debit' = Confirmed(sid, ack)
  /\ Teardown(sid)
  /\ UNCHANGED <<online, connected, removal, chain, pending_notify, inflight,
                 closing>>

Consume(sid, len) ==
  [sess EXCEPT ![sid].next_seq = @ + 1,
               ![sid].msg_remaining = Debited(@, 1),
               ![sid].bytes_remaining = Debited(@, len)]

\* consume reserves the debit and the handler suspends in send_bytes.
ForwardData(a, sid, ack, len) ==
  LET s == sess[sid].next_seq
      to == Peer(sid, a)
  IN  /\ Receives(a, sid, ack)
      /\ a \in Parties(sid)
      /\ ~sess[sid].expired
      /\ Affordable(sid, len)
      /\ s \in SeqNos
      /\ to \in connected
      /\ sess' = Consume(sid, len)
      /\ debit' = [Confirmed(sid, ack) EXCEPT
                     ![sid][s] = [st |-> "pending", to |-> to, len |-> len]]
      /\ delivery_tasks' = delivery_tasks \ {<<sid, ack>>}
      /\ inflight' = inflight \cup {[sid |-> sid, seq |-> s, sender |-> a]}
      /\ UNCHANGED <<online, connected, removal, chain, pending_notify,
                     sessions, sessions_by_agent, closing>>

\* send_bytes finds no connection and returns False at once: the debit is
\* rolled back, the sequence number is spent.
BounceData(a, sid, ack, len) ==
  LET s == sess[sid].next_seq
      to == Peer(sid, a)
  IN  /\ Receives(a, sid, ack)
      /\ a \in Parties(sid)
      /\ ~sess[sid].expired
      /\ Affordable(sid, len)
      /\ s \in SeqNos
      /\ to \notin connected
      /\ sess' = [sess EXCEPT ![sid].next_seq = @ + 1]
      /\ debit' = [Confirmed(sid, ack) EXCEPT
                     ![sid][s] = [st |-> "refunded", to |-> to, len |-> len]]
      /\ delivery_tasks' = delivery_tasks \ {<<sid, ack>>}
      /\ UNCHANGED <<online, connected, removal, chain, pending_notify,
                     sessions, sessions_by_agent, inflight, closing>>

-----------------------------------------------------------------------------
(* The second half of a data handler, and the delivery timer.              *)

\* The hash of the last receipt, which its sequence number identifies.
Tip(sid) == IF chain[sid] = <<>> THEN 0 ELSE chain[sid][Len(chain[sid])].seq

CumulativeMsgs(sid) ==
  IF sess[sid].params.max_messages = NoLimit
    THEN 0 ELSE sess[sid].params.max_messages - sess[sid].msg_remaining

\* Mutant: the predecessor is taken from the sequence number.
ReceiptBySeq(sid, s) ==
  [seq |-> s, cumulative_msgs |-> CumulativeMsgs(sid), prev |-> s - 1]

Receipt(sid, s) ==
  [seq |-> s, cumulative_msgs |-> CumulativeMsgs(sid), prev |-> Tip(sid)]

\* The session is not looked up again: the timer and the receipt are made
\* for it even if it was torn down during the send.
SendOk(f) ==
  /\ f \in inflight
  /\ inflight' = inflight \ {f}
  /\ delivery_tasks' = delivery_tasks \cup {<<f.sid, f.seq>>}
  /\ chain' = [chain EXCEPT ![f.sid] = Append(@, Receipt(f.sid, f.seq))]
  /\ UNCHANGED <<online, connected, removal, sess, debit, pending_notify,
                 sessions, sessions_by_agent, closing>>

\* Mutants: the debit is read and not popped; only messages are given back;
\* a debit that is no longer pending is given back too.
RollbackKeepsDebit(sid, s) ==
  IF debit[sid][s].st = "pending"
    THEN /\ UNCHANGED debit
         /\ sess' = [sess EXCEPT
                       ![sid].msg_remaining = Credited(@, 1),
                       ![sid].bytes_remaining =
                          Credited(@, debit[sid][s].len)]
    ELSE UNCHANGED <<debit, sess>>

RollbackMessageOnly(sid, s) ==
  IF debit[sid][s].st = "pending"
    THEN /\ debit' = [debit EXCEPT ![sid][s].st = "refunded"]
         /\ sess' = [sess EXCEPT ![sid].msg_remaining = Credited(@, 1)]
    ELSE UNCHANGED <<debit, sess>>

RollbackUnchecked(sid, s) ==
  /\ debit' = [debit EXCEPT ![sid][s].st = "refunded"]
  /\ sess' = [sess EXCEPT
                ![sid].msg_remaining = Credited(@, 1),
                ![sid].bytes_remaining = Credited(@, debit[sid][s].len)]

RollbackPending(sid, s) ==
  IF debit[sid][s].st = "pending"
    THEN /\ debit' = [debit EXCEPT ![sid][s].st = "refunded"]
         /\ sess' = [sess EXCEPT
                       ![sid].msg_remaining = Credited(@, 1),
                       ![sid].bytes_remaining =
                          Credited(@, debit[sid][s].len)]
    ELSE UNCHANGED <<debit, sess>>

SendFails(f) ==
  /\ f \in inflight
  /\ inflight' = inflight \ {f}
  /\ connected' = connected \ {debit[f.sid][f.seq].to}
  /\ RollbackPending(f.sid, f.seq)
  /\ UNCHANGED <<online, removal, chain, pending_notify, sessions,
                 sessions_by_agent, delivery_tasks, closing>>

DeliveryTimeout(sid, s) ==
  /\ <<sid, s>> \in delivery_tasks
  /\ delivery_tasks' = delivery_tasks \ {<<sid, s>>}
  /\ IF sid \in sessions THEN RollbackPending(sid, s)
                         ELSE UNCHANGED <<debit, sess>>
  /\ UNCHANGED <<online, connected, removal, chain, pending_notify, sessions,
                 sessions_by_agent, inflight, closing>>

-----------------------------------------------------------------------------
Network(a) ==
  \/ Connect(a) \/ ConnectionLost(a) \/ LoopEnds(a)
  \/ Deprovision(a) \/ DeprovisionSessions(a) \/ Unregister(a)

SetUp(a, sid) ==
  \/ \E b \in Agents, p \in Params : HandleRequest(a, b, sid, p)
  \/ AcceptSession(a, sid)
  \/ RefuseSession(a, sid)
  \/ HandleClose(a, sid)
  \/ CloseNext(a, sid)

Data(a, sid) ==
  \E ack \in SeqNos \cup {NoAck} :
    \/ DropData(a, sid, ack)
    \/ \E len \in PayloadLens :
         \/ RejectData(a, sid, ack, len)
         \/ ForwardData(a, sid, ack, len)
         \/ BounceData(a, sid, ack, len)

Next ==
  \/ \E a \in Agents : Network(a)
  \/ \E a \in Agents, sid \in SessionIds : SetUp(a, sid) \/ Data(a, sid)
  \/ \E sid \in SessionIds : ClockPassesExpiry(sid)
  \/ \E f \in inflight : SendOk(f) \/ SendFails(f)
  \/ \E sid \in SessionIds, s \in SeqNos : DeliveryTimeout(sid, s)

Spec == Init /\ [][Next]_vars

\* The event loop runs what is ready: a suspended send completes or raises
\* (the websocket server drops a peer that does not answer pings), a sleeping
\* timer fires, a close_all_for_agent takes its next round.
Fairness ==
  /\ \A sid \in SessionIds, s \in SeqNos, a \in Agents :
       WF_vars(\E f \in inflight : /\ f = [sid |-> sid, seq |-> s, sender |-> a]
                                   /\ SendOk(f) \/ SendFails(f))
  /\ \A sid \in SessionIds, s \in SeqNos : WF_vars(DeliveryTimeout(sid, s))
  /\ \A a \in Agents, sid \in SessionIds : WF_vars(CloseNext(a, sid))

FairSpec == Spec /\ Fairness

-----------------------------------------------------------------------------
(* Invariants.                                                             *)

DebitStates == {"none", "pending", "confirmed", "refunded"}

Session ==
  [state           : {"IDLE", "NOTIFYING", "ACTIVE", "CLOSING"},
   initiator       : Agents \cup {NoAgent},
   target          : Agents \cup {NoAgent},
   params          : [max_messages : Nat \cup {NoLimit},
                      max_bytes    : Nat \cup {NoLimit},
                      max_rate     : BOOLEAN],
   msg_remaining   : Nat \cup {NoLimit},
   bytes_remaining : Nat \cup {NoLimit},
   next_seq        : 1..(MaxSeq + 1),
   expired         : BOOLEAN]

Debit == [st : DebitStates, to : Agents \cup {NoAgent}, len : Nat]

ReceiptType == [seq : SeqNos, cumulative_msgs : Int, prev : SeqNos \cup {0}]

Handler == [sid : SessionIds, seq : SeqNos, sender : Agents]

RemovalStages == {"none", "socket closing", "sessions closing", "removed"}

\* The types of the relay's tables; in particular no budget is overdrawn.
TypeOK ==
  /\ online \subseteq Agents
  /\ connected \subseteq Agents
  /\ removal \in [Agents -> RemovalStages]
  /\ sess \in [SessionIds -> Session]
  /\ debit \in [SessionIds -> [SeqNos -> Debit]]
  /\ chain \in [SessionIds -> Seq(ReceiptType)]
  /\ pending_notify \subseteq SessionIds
  /\ sessions \subseteq SessionIds
  /\ sessions_by_agent \in [Agents -> SUBSET SessionIds]
  /\ delivery_tasks \subseteq SessionIds \X SeqNos
  /\ inflight \subseteq Handler
  /\ closing \in [Agents -> SUBSET SessionIds]

\* The three tables agree: _sessions holds exactly the ACTIVE sessions (so
\* consume never raises "cannot consume from state", which would end the
\* listen loop), the index by agent is exact, and a session waiting for its
\* target is in no other table.
TablesAgree ==
  /\ \A sid \in SessionIds : sid \in sessions <=> sess[sid].state = "ACTIVE"
  /\ \A sid \in pending_notify : sess[sid].state = "NOTIFYING"
  /\ \A a \in Agents :
       sessions_by_agent[a] = {sid \in sessions : a \in Parties(sid)}

\* The capacity check counts the sessions that wait for their target, so
\* accepting them never takes the relay over MAX_CONCURRENT_SESSIONS.
CapacityRespected ==
  Cardinality(sessions \cup pending_notify) <= MAX_CONCURRENT_SESSIONS

Charged(sid) == {s \in SeqNos : debit[sid][s].st \in {"pending", "confirmed"}}

\* No message budget is created or lost, whatever acks, timeouts, failed
\* sends and teardowns do: what remains plus what is held or was paid for
\* is what the session was granted.
MessageBudgetConserved ==
  \A sid \in SessionIds :
    sess[sid].params.max_messages # NoLimit =>
      sess[sid].msg_remaining + Cardinality(Charged(sid))
        = sess[sid].params.max_messages

\* The same for bytes: a rollback restores the length that was reserved.
ByteBudgetConserved ==
  \A sid \in SessionIds :
    sess[sid].params.max_bytes # NoLimit =>
      sess[sid].bytes_remaining
        + MapThenSumSet(LAMBDA s : debit[sid][s].len, Charged(sid))
        = sess[sid].params.max_bytes

\* A debit of a live session is never stranded: while it is pending, its
\* handler is still sending or its delivery timer runs.
PendingDebitHasOwner ==
  \A sid \in sessions, s \in SeqNos :
    debit[sid][s].st = "pending" =>
      \/ <<sid, s>> \in delivery_tasks
      \/ \E f \in inflight : f.sid = sid /\ f.seq = s

\* However the handlers of the two directions interleave, the receipts of a
\* session form a chain (each names its predecessor's hash), and no message
\* has two receipts.
ReceiptChainVerifies ==
  \A sid \in SessionIds :
    \A i \in 1..Len(chain[sid]) :
      /\ chain[sid][i].prev = IF i = 1 THEN 0 ELSE chain[sid][i - 1].seq
      /\ \A j \in 1..(i - 1) : chain[sid][j].seq # chain[sid][i].seq

\* A message is charged from before its send completes until after its
\* receipt is written: an ack that overtakes the end of the send confirms
\* the debit, and no timeout can refund it before.
SendingIsCharged ==
  \A f \in inflight :
    /\ f.seq \in Charged(f.sid)
    /\ <<f.sid, f.seq>> \notin delivery_tasks
    /\ \A i \in 1..Len(chain[f.sid]) : chain[f.sid][i].seq # f.seq

\* A debit always has somebody who will settle it, and nobody does so while
\* its message is still being sent.
DebitsAreOwned == PendingDebitHasOwner /\ SendingIsCharged

-----------------------------------------------------------------------------
(* Action and liveness properties.                                         *)

\* A debit is settled once: neither a late timer nor a repeated or late ack
\* changes a debit that was confirmed or refunded.
SettledOnce ==
  [][\A sid \in SessionIds, s \in SeqNos :
       debit[sid][s].st \in {"confirmed", "refunded"} =>
         debit'[sid][s] = debit[sid][s]]_vars

\* Every debit is eventually settled, or its session ends.
PendingSettles ==
  \A sid \in SessionIds, s \in SeqNos :
    (debit[sid][s].st = "pending") ~>
      (debit[sid][s].st # "pending" \/ sid \notin sessions)

\* A session that was open when its agent's loop ended is torn down.
DisconnectTearsDown ==
  \A a \in Agents, sid \in SessionIds :
    (sid \in closing[a]) ~> (sid \notin sessions)

-----------------------------------------------------------------------------
(* Refinement.                                                             *)

EscrowPhase(st) ==
  CASE st = "IDLE" -> "new" [] st = "NOTIFYING" -> "asked"
    [] st = "ACTIVE" -> "open" [] st = "CLOSING" -> "closed"

Escrow == INSTANCE DeliveryEscrow WITH
  Sessions <- SessionIds,
  Holds <- SeqNos,
  Budgets <- {p.max_messages : p \in Params},
  phase <- [sid \in SessionIds |-> EscrowPhase(sess[sid].state)],
  available <- [sid \in SessionIds |-> sess[sid].msg_remaining],
  hold <- [sid \in SessionIds |-> [s \in SeqNos |-> debit[sid][s].st]]

\* The metering of every session implements the escrow: each message is
\* charged before it is sent and its charge is confirmed or rolled back once,
\* the rollback of a send that outlives its session included.
ImplementsEscrow == Escrow!Spec

-----------------------------------------------------------------------------
(* What comments say of teardown.                                          *)

\* qasp_server.py, _deprovision_agent: force-close the websocket, "then
\* teardown relay sessions".  A removed agent whose loop has ended and whose
\* teardowns are done is in no session.
GoneAgentHasNoSession ==
  \A a \in Agents :
    /\ removal[a] = "removed"
    /\ a \notin online
    /\ closing[a] = {}
    => sessions_by_agent[a] = {}
=============================================================================
