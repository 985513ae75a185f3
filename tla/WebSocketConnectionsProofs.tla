--------------------- MODULE WebSocketConnectionsProofs ---------------------
(***************************************************************************)
(* No message is lost between push, callback and inbox, for any number of  *)
(* agents, websockets and messages.                                        *)
(***************************************************************************)
EXTENDS WebSocketConnections, TLAPS

\* Each step of a websocket handler keeps the tables.
LEMMA HandleStep ==
  ASSUME MailIsKept, NEW h \in Handlers, Handle(h)
  PROVE  MailIsKept'
<1>. USE ConnectionsAssumption DEF MailIsKept
<1>1. CASE Accept(h) \/ Listen(h) \/ Drop(h) \/ LeaveLoop(h) \/ FlushRaises(h)
  BY <1>1 DEF TypeOK, NoMessageLost, Accept, Listen, Drop, LeaveLoop, FlushRaises, Points
<1>2. CASE Connect(h)
  BY <1>2 DEF TypeOK, NoMessageLost, Connect, Register, Points
<1>3. CASE Supersede(h)
  BY <1>3 DEF TypeOK, NoMessageLost, Supersede, Points
<1>4. CASE Superseded(h)
  BY <1>4 DEF TypeOK, NoMessageLost, Superseded, Register, Points
<1>5. CASE Welcome(h)
  <2>1. Inbox(Of[h]) \subseteq Messages
    BY DEF Inbox
  <2>2. queue' \in [Handlers -> SUBSET Messages]
    BY <1>5, <2>1 DEF Welcome, TypeOK
  <2>. QED  BY <1>5, <2>2 DEF TypeOK, NoMessageLost, Welcome, Points
<1>6. ASSUME NEW m \in Messages, Flush(h, m)
      PROVE  MailIsKept'
  BY <1>6 DEF TypeOK, NoMessageLost, Flush, Places
<1>7. CASE End(h)
  BY <1>7 DEF TypeOK, NoMessageLost, End, Points
<1>. QED  BY <1>1, <1>2, <1>3, <1>4, <1>5, <1>6, <1>7 DEF Handle

\* So does each step of the delivery of a message.
LEMMA PostStep ==
  ASSUME MailIsKept, NEW m \in Messages, Post(m)
  PROVE  MailIsKept'
<1>. USE ConnectionsAssumption DEF MailIsKept
<1>1. CASE SendOffline(m) \/ Push(m)
  BY <1>1 DEF TypeOK, NoMessageLost, SendOffline, Push, Places
<1>2. CASE PushOk(m) \/ PushFails(m)
  BY <1>2 DEF TypeOK, NoMessageLost, PushOk, PushFails, Places
<1>3. CASE CallbackOk(m) \/ CallbackFails(m)
  BY <1>3 DEF TypeOK, NoMessageLost, CallbackOk, CallbackFails, Places
<1>4. CASE Poll(m) \/ Acknowledge(m)
  BY <1>4 DEF TypeOK, NoMessageLost, Poll, Acknowledge, Places
<1>. QED  BY <1>1, <1>2, <1>3, <1>4 DEF Post

\* A message that is recorded as delivered was written to an open websocket
\* or taken by its recipient; until then it is on its way or in the inbox.
THEOREM MailKept == Spec => []MailIsKept
<1>1. Init => MailIsKept
  BY ConnectionsAssumption DEF Init, MailIsKept, TypeOK, NoMessageLost, Points, Places
<1>2. ASSUME MailIsKept, [Next]_vars
      PROVE  MailIsKept'
  <2>1. ASSUME NEW a \in Agents, CloseConnection(a)
        PROVE  MailIsKept'
    BY <1>2, <2>1, ConnectionsAssumption
       DEF MailIsKept, TypeOK, NoMessageLost, CloseConnection
  <2>2. CASE UNCHANGED vars
    BY <1>2, <2>2 DEF MailIsKept, TypeOK, NoMessageLost, vars
  <2>. QED  BY <1>2, <2>1, <2>2, HandleStep, PostStep DEF Next
<1>. QED  BY <1>1, <1>2, PTL DEF Spec
=============================================================================
