------------------------ MODULE WebSocketConnections ------------------------
(***************************************************************************)
(* ConnectionManager of scripts/qasp_server.py, the websocket handlers     *)
(* that register with it, and the delivery of messages through it: push    *)
(* over the websocket, then the agent's callback, then the inbox, which    *)
(* the next websocket of the agent flushes.                                *)
(*                                                                         *)
(* A handler is one run of websocket_endpoint or of                        *)
(* websocket_register_endpoint after its registration.  An action is what  *)
(* runs on the event loop between two awaits that suspend.  asyncio.Lock   *)
(* is held over an await in one place only, the closing of a superseded    *)
(* websocket; elsewhere it is taken and released within a section, which   *)
(* waits while it is held.                                                 *)
(***************************************************************************)
EXTENDS Naturals, FiniteSets

CONSTANTS
  Agents,
  Handlers,
  Messages,
  Of,          \* the agent a handler serves
  To,          \* the recipient of a message
  FlushLimit,  \* limit of query_inbox in _ws_welcome_and_flush
  None

ASSUME ConnectionsAssumption ==
  /\ Of \in [Handlers -> Agents]
  /\ To \in [Messages -> Agents]
  /\ FlushLimit \in Nat
  /\ None \notin Handlers
  /\ IsFiniteSet(Messages)

VARIABLES
  connections,  \* _connections
  lock,         \* the handler that holds _lock over an await, or None
  pc,           \* where each handler is suspended
  open,         \* websockets that are not closed
  queue,        \* messages a handler has still to flush
  mail,         \* where each message is
  via,          \* the websocket a message is pushed to
  received      \* messages written to an open websocket or taken by a callback

vars == <<connections, lock, pc, open, queue, mail, via, received>>

Init ==
  /\ connections = [a \in Agents |-> None]
  /\ lock = None
  /\ pc = [h \in Handlers |-> "new"]
  /\ open = {}
  /\ queue = [h \in Handlers |-> {}]
  /\ mail = [m \in Messages |-> "unsent"]
  /\ via = [m \in Messages |-> None]
  /\ received = {}

-----------------------------------------------------------------------------
(* A handler registers its websocket.                                      *)

\* websocket.accept(), then connect() waits for the lock.
Accept(h) ==
  /\ pc[h] = "new"
  /\ pc' = [pc EXCEPT ![h] = "connecting"]
  /\ open' = open \cup {h}
  /\ UNCHANGED <<connections, lock, queue, mail, via, received>>

Register(h) ==
  /\ connections' = [connections EXCEPT ![Of[h]] = h]
  /\ pc' = [pc EXCEPT ![h] = "welcoming"]

Connect(h) ==
  /\ pc[h] = "connecting"
  /\ lock = None
  /\ connections[Of[h]] = None
  /\ Register(h)
  /\ UNCHANGED <<lock, open, queue, mail, via, received>>

\* The lock is kept while the old websocket is closed.
Supersede(h) ==
  /\ pc[h] = "connecting"
  /\ lock = None
  /\ connections[Of[h]] # None
  /\ lock' = h
  /\ open' = open \ {connections[Of[h]]}
  /\ pc' = [pc EXCEPT ![h] = "superseding"]
  /\ UNCHANGED <<connections, queue, mail, via, received>>

\* Mutant: an exception of the close skips the release.
SupersededLockKept(h) ==
  /\ pc[h] = "superseding"
  /\ Register(h)
  /\ UNCHANGED <<lock, open, queue, mail, via, received>>

Superseded(h) ==
  /\ pc[h] = "superseding"
  /\ lock' = None
  /\ Register(h)
  /\ UNCHANGED <<open, queue, mail, via, received>>

-----------------------------------------------------------------------------
(* Welcome and flush.  A send to a closed websocket raises out of the      *)
(* handler before the listen loop's finally block exists.                  *)

Inbox(a) == {m \in Messages : mail[m] = "inbox" /\ To[m] = a}

\* The oldest messages first: any of them, as the model keeps no time stamps.
Welcome(h) ==
  /\ pc[h] = "welcoming"
  /\ h \in open
  /\ \E q \in SUBSET Inbox(Of[h]) :
       /\ Cardinality(q) <= FlushLimit
       /\ q # Inbox(Of[h]) => Cardinality(q) = FlushLimit
       /\ queue' = [queue EXCEPT ![h] = q]
  /\ pc' = [pc EXCEPT ![h] = "flushing"]
  /\ UNCHANGED <<connections, lock, open, mail, via, received>>

\* Mutant: marked as delivered, then sent.
FlushMarksFirst(h, m) ==
  /\ pc[h] = "flushing"
  /\ m \in queue[h]
  /\ queue' = [queue EXCEPT ![h] = @ \ {m}]
  /\ received' = IF h \in open THEN received \cup {m} ELSE received
  /\ mail' = [mail EXCEPT ![m] = "delivered"]
  /\ UNCHANGED <<connections, lock, pc, open, via>>

Flush(h, m) ==
  /\ pc[h] = "flushing"
  /\ m \in queue[h]
  /\ h \in open
  /\ queue' = [queue EXCEPT ![h] = @ \ {m}]
  /\ received' = received \cup {m}
  /\ mail' = [mail EXCEPT ![m] = "delivered"]
  /\ UNCHANGED <<connections, lock, pc, open, via>>

FlushRaises(h) ==
  /\ \/ pc[h] = "welcoming"
     \/ pc[h] = "flushing" /\ queue[h] # {}
  /\ h \notin open
  /\ pc' = [pc EXCEPT ![h] = "done"]
  /\ UNCHANGED <<connections, lock, open, queue, mail, via, received>>

Listen(h) ==
  /\ pc[h] = "flushing"
  /\ queue[h] = {}
  /\ pc' = [pc EXCEPT ![h] = "listening"]
  /\ UNCHANGED <<connections, lock, open, queue, mail, via, received>>

-----------------------------------------------------------------------------
(* The end of a handler.                                                   *)

\* The client leaves, or the network does.
Drop(h) ==
  /\ h \in open
  /\ pc[h] # "done"
  /\ open' = open \ {h}
  /\ UNCHANGED <<connections, lock, pc, queue, mail, via, received>>

\* receive() reports the disconnect, or a frame raises.  The finally block
\* starts, and waits for the lock.
LeaveLoop(h) ==
  /\ pc[h] = "listening"
  /\ pc' = [pc EXCEPT ![h] = "ending"]
  /\ open' = open \ {h}
  /\ UNCHANGED <<connections, lock, queue, mail, via, received>>

\* disconnect pops the agent's entry, whichever websocket it holds.
End(h) ==
  /\ pc[h] = "ending"
  /\ lock = None
  /\ connections' = [connections EXCEPT ![Of[h]] = None]
  /\ pc' = [pc EXCEPT ![h] = "done"]
  /\ UNCHANGED <<lock, open, queue, mail, via, received>>

\* close_connection, when the agent is removed: the handler notices later.
CloseConnection(a) ==
  /\ lock = None
  /\ connections[a] # None
  /\ connections' = [connections EXCEPT ![a] = None]
  /\ open' = open \ {connections[a]}
  /\ UNCHANGED <<lock, pc, queue, mail, via, received>>

-----------------------------------------------------------------------------
(* POST /messages/send.  The message enters the store after its delivery   *)
(* was tried.                                                              *)

\* is_connected is false: on to the callback, or to the inbox at once when
\* the recipient has no callback.
SendOffline(m) ==
  /\ mail[m] = "unsent"
  /\ connections[To[m]] = None
  /\ \E next \in {"callback", "inbox"} : mail' = [mail EXCEPT ![m] = next]
  /\ UNCHANGED <<connections, lock, pc, open, queue, via, received>>

Push(m) ==
  /\ mail[m] = "unsent"
  /\ connections[To[m]] # None
  /\ mail' = [mail EXCEPT ![m] = "pushing"]
  /\ via' = [via EXCEPT ![m] = connections[To[m]]]
  /\ UNCHANGED <<connections, lock, pc, open, queue, received>>

PushOk(m) ==
  /\ mail[m] = "pushing"
  /\ via[m] \in open
  /\ mail' = [mail EXCEPT ![m] = "delivered"]
  /\ received' = received \cup {m}
  /\ UNCHANGED <<connections, lock, pc, open, queue, via>>

\* send_json catches the exception and disconnects the agent.
PushFails(m) ==
  /\ mail[m] = "pushing"
  /\ via[m] \notin open
  /\ lock = None
  /\ connections' = [connections EXCEPT ![To[m]] = None]
  /\ \E next \in {"callback", "inbox"} : mail' = [mail EXCEPT ![m] = next]
  /\ UNCHANGED <<lock, pc, open, queue, via, received>>

CallbackOk(m) ==
  /\ mail[m] = "callback"
  /\ mail' = [mail EXCEPT ![m] = "delivered"]
  /\ received' = received \cup {m}
  /\ UNCHANGED <<connections, lock, pc, open, queue, via>>

\* The callback may have taken the message and the answer been lost.
CallbackFails(m) ==
  /\ mail[m] = "callback"
  /\ mail' = [mail EXCEPT ![m] = "inbox"]
  /\ received' \in {received, received \cup {m}}
  /\ UNCHANGED <<connections, lock, pc, open, queue, via>>

\* GET /messages/inbox, and what the agent acknowledges: by a frame of its
\* listen loop or by POST /messages/acknowledge.
Poll(m) ==
  /\ mail[m] = "inbox"
  /\ received' = received \cup {m}
  /\ UNCHANGED <<connections, lock, pc, open, queue, mail, via>>

Acknowledge(m) ==
  /\ m \in received
  /\ mail[m] \in {"inbox", "delivered"}
  /\ mail' = [mail EXCEPT ![m] = "delivered"]
  /\ UNCHANGED <<connections, lock, pc, open, queue, via, received>>

-----------------------------------------------------------------------------
Handle(h) ==
  \/ Accept(h) \/ Connect(h) \/ Supersede(h) \/ Superseded(h)
  \/ Welcome(h) \/ FlushRaises(h) \/ Listen(h)
  \/ \E m \in Messages : Flush(h, m)
  \/ Drop(h) \/ LeaveLoop(h) \/ End(h)

Post(m) ==
  \/ SendOffline(m) \/ Push(m) \/ PushOk(m) \/ PushFails(m)
  \/ CallbackOk(m) \/ CallbackFails(m) \/ Poll(m) \/ Acknowledge(m)

Next ==
  \/ \E h \in Handlers : Handle(h)
  \/ \E a \in Agents : CloseConnection(a)
  \/ \E m \in Messages : Post(m)

Spec == Init /\ [][Next]_vars

\* The event loop runs what is ready; waiters of an asyncio.Lock are woken
\* in the order they came, hence SF where a section waits for it; a close, a
\* push and a callback (30 s) end one way or the other.
Fairness ==
  /\ \A h \in Handlers :
       /\ SF_vars(Connect(h) \/ Supersede(h))
       /\ WF_vars(Superseded(h))
       /\ SF_vars(End(h))
  /\ \A m \in Messages :
       /\ WF_vars(PushOk(m))
       /\ SF_vars(PushFails(m))
       /\ WF_vars(CallbackOk(m) \/ CallbackFails(m))

FairSpec == Spec /\ Fairness

-----------------------------------------------------------------------------
Places == {"unsent", "pushing", "callback", "inbox", "delivered"}

Points == {"new", "connecting", "superseding", "welcoming", "flushing",
           "listening", "ending", "done"}

\* The types; and an agent's entry is one of its own websockets.
TypeOK ==
  /\ connections \in [Agents -> Handlers \cup {None}]
  /\ \A a \in Agents : connections[a] # None => Of[connections[a]] = a
  /\ lock \in Handlers \cup {None}
  /\ pc \in [Handlers -> Points]
  /\ open \subseteq Handlers
  /\ queue \in [Handlers -> SUBSET Messages]
  /\ mail \in [Messages -> Places]
  /\ via \in [Messages -> Handlers \cup {None}]
  /\ received \subseteq Messages

\* No message is recorded as delivered without having been written somewhere,
\* whatever websocket closes under a push or a flush: it stays in the inbox.
NoMessageLost ==
  \A m \in Messages : mail[m] = "delivered" => m \in received

\* The tables of websockets and messages are sound and no message is lost.
MailIsKept == TypeOK /\ NoMessageLost

\* Every handler that asks to connect gets to: no cycle of handlers, pushes
\* and the lock leaves one waiting.
ConnectCompletes ==
  \A h \in Handlers :
    (pc[h] = "connecting") ~> (pc[h] \notin {"connecting", "superseding"})

\* Every message that is posted comes to rest: in the store as delivered or
\* in the inbox.
PostCompletes ==
  \A m \in Messages :
    (mail[m] \in {"pushing", "callback"}) ~> (mail[m] \in {"inbox", "delivered"})

\* Neither the connection nor the message is stuck behind the other.
DeliveryCompletes == ConnectCompletes /\ PostCompletes

-----------------------------------------------------------------------------
(* What the documentation says.                                            *)

\* docs/qasp-skill.md: after 4001 Superseded the "new connection takes over".
\* The end of the old handler leaves the new connection registered.
NewConnectionTakesOver ==
  [][\A h, g \in Handlers :
       /\ g # h
       /\ connections[Of[h]] = g
       /\ pc[h] = "ending" /\ pc'[h] = "done"
       => connections'[Of[h]] = g]_vars
=============================================================================
