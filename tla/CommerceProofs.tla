---------------------------- MODULE CommerceProofs ----------------------------
(***************************************************************************)
(* Theorems about the commerce between two parties: the payment channel,   *)
(* for every deposit, cost, award, receipt and bound (PaymentChannel); the *)
(* negotiation of the price it charges, for any prices and any number of   *)
(* offers (Pricing); the books of a metered resource, for any price and    *)
(* usage (Metering); the verdict of a dispute, for any chains of receipts  *)
(* and any claim (Audit); and the standing that is left of it, for any     *)
(* agents, credentials, interactions and events (Trust).                   *)
(***************************************************************************)
EXTENDS PaymentChannel, Pricing, Metering, Audit, Trust, Sums, SequenceTheorems, TLAPS


-----------------------------------------------------------------------------
(* The inductive invariant: what a message on its way, and an update that  *)
(* is held, is worth, and how far the channel is opened.                   *)

SoundMessage(m) ==
  /\ m.type = "open" => m.amount = AgentDeposit
  /\ m.type = "opened" => m.amount = ServerDeposit
  /\ m.type \in {"proposal", "signed"} => Total(m.update.balance) = Deposit
  /\ m.type = "close" => Total(m.final) = Deposit

SoundWire(q) == \A i \in 1..Len(q) : SoundMessage(q[i])

SoundStates(s) == \A i \in 1..Len(s) : Total(s[i].balance) = Deposit

Free(q, type) == \A i \in 1..Len(q) : q[i].type # type

\* The server opens the channel with the only message there is, and the agent
\* with the server's first.
Opening ==
  /\ state[Server] = "OPENING" =>
       /\ state[Agent] = "OPENING"
       /\ wire[Server] = <<>>
       /\ Len(wire[Agent]) =< 1
       /\ ~opened => wire[Agent] = <<>>
       /\ wire[Agent] # <<>> => Head(wire[Agent]).type = "open"
  /\ state[Server] # "OPENING" => opened /\ Free(wire[Agent], "open")
  /\ state[Agent] = "OPENING" /\ state[Server] # "OPENING" =>
       /\ wire[Agent] = <<>>
       /\ wire[Server] # <<>>
       /\ Head(wire[Server]).type = "opened"
       /\ Free(Tail(wire[Server]), "opened")
  /\ state[Agent] # "OPENING" => Free(wire[Server], "opened")
  /\ Free(wire[Agent], "opened")
  /\ Free(wire[Server], "open")
  /\ state[Agent] = "OPENING" /\ opened => balance[Agent].agent = AgentDeposit
  /\ \A e \in Ends : in_window[e] => state[e] # "OPENING"

Sound ==
  /\ \A e \in Ends : SoundWire(wire[e])
  /\ \A e \in Ends : SoundStates(states[e])
  /\ \A e \in Ends : state[e] # "OPENING" => Total(balance[e]) = Deposit

IInv == TypeOK /\ Opening /\ Sound

-----------------------------------------------------------------------------
(* Messages and wires.                                                     *)

\* The head of a wire is a message, and its type tells what it carries.
LEMMA HeadTypes ==
  ASSUME NEW q \in Seq(Message), q # <<>>
  PROVE  /\ Head(q) \in Message
         /\ Head(q).type \in {"open", "opened"} => Head(q).amount \in Nat
         /\ Head(q).type \in {"proposal", "signed"} =>
              Head(q).update \in Update
<1>1. Head(q) \in Message
  OBVIOUS
<1>2. ASSUME NEW m \in Message
      PROVE  /\ m.type \in {"open", "opened"} => m.amount \in Nat
             /\ m.type \in {"proposal", "signed"} => m.update \in Update
  <2>1. CASE m \in [type : {"open", "opened"}, amount : Nat]
    BY <2>1
  <2>2. CASE m \in [type : {"proposal", "signed"}, update : Update]
    BY <2>2
  <2>3. CASE m \in [type : {"close"}, final : Balances]
    BY <2>3
  <2>. QED  BY <2>1, <2>2, <2>3 DEF Message
<1>. QED  BY <1>1, <1>2

\* What is true of every message of a wire is true when one is taken off.
LEMMA TailWire ==
  ASSUME NEW q \in Seq(Message), q # <<>>
  PROVE  /\ Tail(q) \in Seq(Message)
         /\ SoundWire(q) => SoundMessage(Head(q)) /\ SoundWire(Tail(q))
         /\ \A t : Free(q, t) => Head(q).type # t /\ Free(Tail(q), t)
<1>1. /\ Tail(q) \in Seq(Message)
      /\ Len(q) > 0 /\ Len(q) \in Nat
      /\ Len(Tail(q)) = Len(q) - 1
      /\ Head(q) = q[1]
      /\ \A i \in 1..Len(Tail(q)) : i + 1 \in 1..Len(q) /\ Tail(q)[i] = q[i + 1]
  OBVIOUS
<1>. QED  BY <1>1 DEF SoundWire, Free

\* ... and when one of which it is true is appended.
LEMMA AppendWire ==
  ASSUME NEW q \in Seq(Message), NEW m \in Message
  PROVE  /\ Append(q, m) \in Seq(Message)
         /\ SoundWire(q) /\ SoundMessage(m) => SoundWire(Append(q, m))
         /\ \A t : Free(q, t) /\ m.type # t => Free(Append(q, m), t)
         /\ Append(q, m) # <<>>
         /\ q # <<>> => /\ Head(Append(q, m)) = Head(q)
                        /\ Tail(Append(q, m)) = Append(Tail(q), m)
<1>1. /\ Append(q, m) \in Seq(Message)
      /\ Len(q) \in Nat /\ Len(Append(q, m)) = Len(q) + 1
      /\ \A i \in 1..Len(q) : Append(q, m)[i] = q[i]
      /\ Append(q, m)[Len(q) + 1] = m
  OBVIOUS
<1>2. Append(q, m) # <<>>
  BY <1>1
<1>3. ASSUME q # <<>>
      PROVE  /\ Head(Append(q, m)) = Head(q)
             /\ Tail(Append(q, m)) = Append(Tail(q), m)
  BY <1>3, HeadTailAppend
<1>4. \A i \in 1..Len(Append(q, m)) : i \in 1..Len(q) \/ i = Len(q) + 1
  BY <1>1
<1>. QED  BY <1>1, <1>2, <1>3, <1>4 DEF SoundWire, Free

\* An update is appended to those an end holds.
LEMMA AppendStates ==
  ASSUME NEW s \in Seq(Update), NEW u \in Update
  PROVE  /\ Append(s, u) \in Seq(Update)
         /\ SoundStates(s) /\ Total(u.balance) = Deposit =>
              SoundStates(Append(s, u))
BY DEF SoundStates

\* An award moves what the server has, and no more, to the agent.
LEMMA AwardedBalance ==
  ASSUME NEW b \in Balances, NEW award \in Nat
  PROVE  /\ Awarded(b, award) \in Balances
         /\ Total(Awarded(b, award)) = Total(b)
BY DEF Awarded, Balances, Total

\* A payment both can afford moves what it costs.
LEMMA PaidBalance ==
  ASSUME TypeOK, NEW e \in Ends, NEW cost \in Nat,
         Paid(e, cost).agent >= 0, Paid(e, cost).server >= 0
  PROVE  /\ Paid(e, cost) \in Balances
         /\ Total(Paid(e, cost)) = Total(balance[e])
<1>1. balance[e] \in Balances
  BY DEF TypeOK
<1>. QED  BY <1>1 DEF Paid, Balances, Total

\* A wire of at most one message.
LEMMA OneMessage ==
  ASSUME NEW q \in Seq(Message), q # <<>>, Len(q) =< 1
  PROVE  Len(q) = 1 /\ Tail(q) = <<>>
<1>1. Len(q) = 1
  <2>1. Len(q) \in Nat /\ Len(q) # 0
    OBVIOUS
  <2>. QED  BY <2>1
<1>2. Tail(q) \in Seq(Message) /\ Len(Tail(q)) = 0
  BY <1>1
<1>. QED  BY <1>1, <1>2, EmptySeq

\* The updates an end can be challenged with are worth the deposits.
LEMMA EvidenceSound ==
  ASSUME IInv, NEW e \in Ends, NEW u \in Evidence(e)
  PROVE  u \in Update /\ Total(u.balance) = Deposit
<1>. DEFINE p == Peer(e)
<1>1. p \in Ends
  BY DEF Peer, Ends
<1>2. wire[p] \in Seq(Message) /\ states[p] \in Seq(Update)
  BY <1>1 DEF IInv, TypeOK
<1>. HIDE DEF p
<1>3. CASE \E i \in 1..Len(states[p]) : u = states[p][i]
  BY <1>1, <1>2, <1>3 DEF IInv, Sound, SoundStates
<1>4. CASE \E i \in 1..Len(wire[p]) :
             wire[p][i].type = "proposal" /\ u = wire[p][i].update
  <2>1. PICK i \in 1..Len(wire[p]) :
          wire[p][i].type = "proposal" /\ u = wire[p][i].update
    BY <1>4
  <2>2. wire[p][i] \in Message /\ SoundMessage(wire[p][i])
    BY <1>1, <1>2 DEF IInv, Sound, SoundWire
  <2>3. wire[p][i] \in [type : {"proposal", "signed"}, update : Update]
    BY <2>1, <2>2 DEF Message
  <2>. QED  BY <2>1, <2>2, <2>3 DEF SoundMessage
<1>. QED  BY <1>3, <1>4 DEF Evidence, p

-----------------------------------------------------------------------------
(* What a step may do to a wire once the channel opens.                    *)

OpeningTypes == {"open", "opened"}

\* The wire of e is left alone, or loses or gains a message that does not
\* open the channel.
Later(e) ==
  \/ wire'[e] = wire[e]
  \/ /\ wire[e] # <<>>
     /\ Head(wire[e]).type \notin OpeningTypes
     /\ wire'[e] = Tail(wire[e])
  \/ /\ state[e] # "OPENING"
     /\ \E m \in Message :
          m.type \notin OpeningTypes /\ wire'[e] = Append(wire[e], m)

\* An end receives nothing but the message that opens the channel before it
\* has opened it.
LEMMA OpenedFirst ==
  ASSUME IInv, NEW e \in Ends, NEW t, t \notin OpeningTypes, Receives(e, t)
  PROVE  state[e] # "OPENING"
BY DEF IInv, Opening, Receives, Peer, Ends, Agent, Server, OpeningTypes

\* A sound message is sent.
LEMMA SentStep ==
  ASSUME IInv, NEW e \in Ends, NEW m \in Message, SoundMessage(m),
         wire' = Sent(e, m)
  PROVE  /\ wire' \in [Ends -> Seq(Message)]
         /\ \A f \in Ends : SoundWire(wire'[f])
         /\ m.type \notin OpeningTypes /\ state[e] # "OPENING" =>
              \A f \in Ends : Later(f)
<1>1. wire \in [Ends -> Seq(Message)]
  BY DEF IInv, TypeOK
<1>2. /\ wire'[e] = Append(wire[e], m)
      /\ \A f \in Ends : f # e => wire'[f] = wire[f]
      /\ wire' = [wire EXCEPT ![e] = Append(wire[e], m)]
  BY <1>1 DEF Sent
<1>3. Append(wire[e], m) \in Seq(Message) /\ SoundWire(Append(wire[e], m))
  BY <1>1, AppendWire DEF IInv, Sound
<1>. QED  BY <1>1, <1>2, <1>3 DEF IInv, Sound, Later

\* The message at the head of the peer's wire is processed.
LEMMA DroppedStep ==
  ASSUME IInv, NEW e \in Ends, wire[Peer(e)] # <<>>, wire' = Dropped(e)
  PROVE  /\ wire' \in [Ends -> Seq(Message)]
         /\ \A f \in Ends : SoundWire(wire'[f])
         /\ Received(e).type \notin OpeningTypes => \A f \in Ends : Later(f)
<1>. DEFINE p == Peer(e)
<1>1. p \in Ends /\ wire \in [Ends -> Seq(Message)]
  BY DEF IInv, TypeOK, Peer, Ends
<1>2. /\ wire'[p] = Tail(wire[p])
      /\ \A f \in Ends : f # p => wire'[f] = wire[f]
      /\ wire' = [wire EXCEPT ![p] = Tail(wire[p])]
  BY <1>1 DEF Dropped
<1>3. Tail(wire[p]) \in Seq(Message) /\ SoundWire(Tail(wire[p]))
  BY <1>1, TailWire DEF IInv, Sound
<1>. HIDE DEF p
<1>4. wire[p] # <<>> /\ Received(e) = Head(wire[p])
  BY DEF p, Received
<1>. QED  BY <1>1, <1>2, <1>3, <1>4 DEF IInv, Sound, Later

\* ... and answered.
LEMMA AnsweredStep ==
  ASSUME IInv, NEW e \in Ends, wire[Peer(e)] # <<>>,
         NEW m \in Message, SoundMessage(m), wire' = Answered(e, m)
  PROVE  /\ wire' \in [Ends -> Seq(Message)]
         /\ \A f \in Ends : SoundWire(wire'[f])
         /\ /\ Received(e).type \notin OpeningTypes
            /\ m.type \notin OpeningTypes
            /\ state[e] # "OPENING"
            => \A f \in Ends : Later(f)
<1>. DEFINE p == Peer(e)
<1>1. p \in Ends /\ p # e /\ Ends = {e, p} /\ wire \in [Ends -> Seq(Message)]
  BY DEF IInv, TypeOK, Peer, Ends, Agent, Server
<1>2. /\ wire'[p] = Tail(wire[p])
      /\ wire'[e] = Append(wire[e], m)
      /\ wire' = [wire EXCEPT ![p] = Tail(wire[p]), ![e] = Append(wire[e], m)]
  BY <1>1 DEF Answered, Dropped
<1>3. Tail(wire[p]) \in Seq(Message) /\ SoundWire(Tail(wire[p]))
  BY <1>1, TailWire DEF IInv, Sound
<1>4. Append(wire[e], m) \in Seq(Message) /\ SoundWire(Append(wire[e], m))
  BY <1>1, AppendWire DEF IInv, Sound
<1>. HIDE DEF p
<1>5. wire[p] # <<>> /\ Received(e) = Head(wire[p])
  BY DEF p, Received
<1>. QED  BY <1>1, <1>2, <1>3, <1>4, <1>5 DEF Later

\* The steps that do not open the channel keep what is known of its opening.
LEMMA OpeningKept ==
  ASSUME IInv, opened' = opened,
         \A f \in Ends : state'[f] = "OPENING" <=> state[f] = "OPENING",
         state[Agent] = "OPENING" =>
           balance'[Agent].agent = balance[Agent].agent,
         \A f \in Ends :
           in_window'[f] => in_window[f] \/ state[f] # "OPENING",
         \A f \in Ends : Later(f)
  PROVE  Opening'
<1>1. Agent \in Ends /\ Server \in Ends /\ wire \in [Ends -> Seq(Message)]
  BY DEF Ends, IInv, TypeOK
<1>2. Opening
  BY DEF IInv
<1>3. ASSUME NEW f \in Ends, NEW t \in OpeningTypes, Free(wire[f], t)
      PROVE  Free(wire'[f], t)
  <2>1. wire[f] \in Seq(Message)
    BY <1>1
  <2>2. CASE wire[f] # <<>> /\ wire'[f] = Tail(wire[f])
    BY <1>3, <2>1, <2>2, TailWire
  <2>3. CASE \E m \in Message :
               m.type \notin OpeningTypes /\ wire'[f] = Append(wire[f], m)
    <3>1. PICK m \in Message :
            m.type \notin OpeningTypes /\ wire'[f] = Append(wire[f], m)
      BY <2>3
    <3>2. m.type # t
      BY <3>1
    <3>. QED  BY <1>3, <2>1, <3>1, <3>2, AppendWire
  <2>. QED  BY <1>3, <2>2, <2>3 DEF Later
<1>4. state[Server] = "OPENING" =>
        wire'[Server] = wire[Server] /\ wire'[Agent] = wire[Agent]
  BY <1>1, <1>2 DEF Opening, Later, OpeningTypes
<1>5. ASSUME state[Agent] = "OPENING", state[Server] # "OPENING"
      PROVE  /\ wire'[Agent] = <<>>
             /\ wire'[Server] # <<>>
             /\ Head(wire'[Server]).type = "opened"
             /\ Free(Tail(wire'[Server]), "opened")
  <2>. DEFINE q == wire[Server]
  <2>1. /\ q \in Seq(Message) /\ q # <<>> /\ Tail(q) \in Seq(Message)
        /\ Head(q).type = "opened" /\ Free(Tail(q), "opened")
    BY <1>1, <1>2, <1>5 DEF Opening
  <2>2. wire'[Agent] = <<>>
    BY <1>1, <1>2, <1>5 DEF Opening, Later
  <2>3. CASE wire'[Server] = q
    BY <2>1, <2>2, <2>3
  <2>4. CASE \E m \in Message :
               m.type \notin OpeningTypes /\ wire'[Server] = Append(q, m)
    <3>1. PICK m \in Message :
            m.type \notin OpeningTypes /\ wire'[Server] = Append(q, m)
      BY <2>4
    <3>2. /\ Append(q, m) # <<>>
          /\ Head(Append(q, m)) = Head(q)
          /\ Tail(Append(q, m)) = Append(Tail(q), m)
      BY <2>1, AppendWire
    <3>3. Free(Append(Tail(q), m), "opened")
      BY <2>1, <3>1, AppendWire DEF OpeningTypes
    <3>. QED  BY <2>1, <2>2, <3>1, <3>2, <3>3
  <2>. QED  BY <1>1, <2>1, <2>3, <2>4 DEF Later, OpeningTypes
<1>6. state'[Server] = "OPENING" =>
        /\ state'[Agent] = "OPENING"
        /\ wire'[Server] = <<>>
        /\ Len(wire'[Agent]) =< 1
        /\ ~opened' => wire'[Agent] = <<>>
        /\ wire'[Agent] # <<>> => Head(wire'[Agent]).type = "open"
  BY <1>1, <1>2, <1>4 DEF Opening
<1>7. state'[Server] # "OPENING" => opened' /\ Free(wire'[Agent], "open")
  BY <1>1, <1>2, <1>3 DEF Opening, OpeningTypes
<1>8. /\ state'[Agent] # "OPENING" => Free(wire'[Server], "opened")
      /\ Free(wire'[Agent], "opened")
      /\ Free(wire'[Server], "open")
  BY <1>1, <1>2, <1>3 DEF Opening, OpeningTypes
<1>9. \A e \in Ends : in_window'[e] => state'[e] # "OPENING"
  BY <1>2 DEF Opening
<1>10. state'[Agent] = "OPENING" /\ opened' =>
         balance'[Agent].agent = AgentDeposit
  BY <1>1, <1>2 DEF Opening
<1>. QED  BY <1>1, <1>5, <1>6, <1>7, <1>8, <1>9, <1>10 DEF Opening

\* An end adopts an update that is worth the deposits.
LEMMA AdoptStep ==
  ASSUME IInv, NEW e \in Ends, NEW u \in Update,
         Total(u.balance) = Deposit, Adopt(e, u)
  PROVE  /\ sequence' \in [Ends -> Nat]
         /\ balance' \in [Ends -> Balances]
         /\ states' \in [Ends -> Seq(Update)]
         /\ \A f \in Ends : SoundStates(states'[f])
         /\ balance'[e] = u.balance
      /\ \A f \in Ends : f # e => balance'[f] = balance[f]
<1>1. /\ sequence \in [Ends -> Nat]
      /\ balance \in [Ends -> Balances]
      /\ states \in [Ends -> Seq(Update)]
      /\ \A f \in Ends : SoundStates(states[f])
  BY DEF IInv, TypeOK, Sound
<1>2. u.seq \in Nat /\ u.balance \in Balances
  BY DEF Update
<1>3. Append(states[e], u) \in Seq(Update) /\ SoundStates(Append(states[e], u))
  BY <1>1, AppendStates
<1>. QED  BY <1>1, <1>2, <1>3 DEF Adopt

-----------------------------------------------------------------------------
(* Every step keeps the invariant.                                         *)

\* No channel is open and nothing is in flight at first.
LEMMA Initially == Init => IInv
<1>. SUFFICES ASSUME Init PROVE IInv
  OBVIOUS
<1>1. TypeOK
  <2>1. <<>> \in Seq(Message) /\ <<>> \in Seq(Update)
    OBVIOUS
  <2>2. NoBalance \in Balances /\ "OPENING" \in ChannelStates
    BY DEF NoBalance, Balances, ChannelStates
  <2>. QED  BY <2>1, <2>2 DEF Init, TypeOK
<1>2. Opening
  BY DEF Init, Opening, Ends, Agent, Server, Free
<1>3. Sound
  BY DEF Init, Sound, Ends, SoundWire, SoundStates
<1>. QED  BY <1>1, <1>2, <1>3 DEF IInv

\* The agent says its deposit.
LEMMA OpenStep ==
  ASSUME IInv, CreateChannelOpen
  PROVE  IInv'
<1>. DEFINE m == [type |-> "open", amount |-> AgentDeposit]
<1>. USE DEF IInv
<1>1. /\ Agent \in Ends /\ Server \in Ends /\ Agent # Server
      /\ m \in Message /\ m.type = "open" /\ SoundMessage(m)
  BY ChannelAssumption DEF Ends, Agent, Server, Message, SoundMessage
<1>2. /\ wire' = Sent(Agent, m)
      /\ wire' \in [Ends -> Seq(Message)]
      /\ \A f \in Ends : SoundWire(wire'[f])
  BY <1>1, SentStep DEF CreateChannelOpen
<1>3. /\ state[Agent] = "OPENING" /\ state[Server] = "OPENING"
      /\ wire[Agent] = <<>> /\ wire[Server] = <<>>
  BY DEF Opening, CreateChannelOpen
<1>4. wire'[Agent] = <<m>> /\ wire'[Server] = <<>>
  BY <1>1, <1>2, <1>3 DEF Sent, TypeOK
<1>5. /\ balance' \in [Ends -> Balances]
      /\ balance'[Agent].agent = AgentDeposit
  <2>1. balance[Agent] \in Balances
    BY <1>1 DEF TypeOK
  <2>2. [balance[Agent] EXCEPT !.agent = AgentDeposit] \in Balances
    BY <2>1, ChannelAssumption DEF Balances
  <2>. QED  BY <1>1, <2>1, <2>2 DEF CreateChannelOpen, TypeOK, Balances
<1>. HIDE DEF m
<1>6. TypeOK'
  BY <1>2, <1>5 DEF TypeOK, CreateChannelOpen
<1>7. Opening'
  <2>1. /\ Free(<<m>>, "opened") /\ Free(<<>>, "open")
        /\ Len(<<m>>) = 1 /\ Head(<<m>>).type = "open"
    BY <1>1 DEF Free
  <2>2. /\ state' = state /\ opened' /\ in_window' = in_window
        /\ \A e \in Ends : ~in_window[e]
    BY <1>3 DEF CreateChannelOpen, Opening, Ends
  <2>. QED  BY <1>3, <1>4, <1>5, <2>1, <2>2 DEF Opening
<1>8. Sound'
  BY <1>2, <1>3 DEF Sound, CreateChannelOpen, Ends
<1>. QED  BY <1>6, <1>7, <1>8

\* The server hears it and opens its record with the whole deposit.
LEMMA ServerOpenStep ==
  ASSUME IInv, ProcessChannelOpen
  PROVE  IInv'
<1>. DEFINE m == [type |-> "opened", amount |-> ServerDeposit]
<1>. USE DEF IInv
<1>1. /\ Agent \in Ends /\ Server \in Ends /\ Agent # Server
      /\ Peer(Server) = Agent
      /\ m \in Message /\ m.type = "opened" /\ SoundMessage(m)
  BY ChannelAssumption DEF Ends, Agent, Server, Peer, Message, SoundMessage
<1>2. /\ wire[Agent] \in Seq(Message) /\ wire[Agent] # <<>>
      /\ Received(Server) = Head(wire[Agent])
      /\ Received(Server).type = "open"
  BY <1>1 DEF TypeOK, ProcessChannelOpen, Receives, Received
<1>3. /\ wire' = Answered(Server, m)
      /\ wire' \in [Ends -> Seq(Message)]
      /\ \A f \in Ends : SoundWire(wire'[f])
  BY <1>1, <1>2, AnsweredStep DEF ProcessChannelOpen
<1>4. state[Server] = "OPENING"
  BY <1>2, TailWire DEF Opening
<1>5. /\ state[Agent] = "OPENING" /\ opened
      /\ wire[Server] = <<>> /\ Len(wire[Agent]) = 1
      /\ Tail(wire[Agent]) = <<>>
  BY <1>2, <1>4, OneMessage DEF Opening
<1>6. Received(Server).amount = AgentDeposit
  <2>1. SoundWire(wire[Agent])
    BY <1>1 DEF Sound
  <2>2. SoundMessage(Received(Server))
    BY <1>2, <2>1, TailWire
  <2>. QED  BY <1>2, <2>2 DEF SoundMessage
<1>. HIDE DEF m
<1>8. wire'[Agent] = <<>> /\ wire'[Server] = <<m>>
  <2>1. wire' = [wire EXCEPT ![Agent] = Tail(wire[Agent]),
                             ![Server] = Append(wire[Server], m)]
    BY <1>1, <1>3 DEF Answered, Dropped, TypeOK
  <2>2. Append(wire[Server], m) = <<m>>
    BY <1>5
  <2>. QED  BY <1>1, <1>5, <2>1, <2>2 DEF TypeOK
<1>9. /\ balance' \in [Ends -> Balances]
      /\ Total(balance'[Server]) = Deposit
      /\ balance'[Agent] = balance[Agent]
  BY <1>1, <1>6, ChannelAssumption
     DEF ProcessChannelOpen, TypeOK, Balances, Total, Deposit
<1>10. /\ state' \in [Ends -> ChannelStates]
       /\ state'[Agent] = "OPENING" /\ state'[Server] = "OPEN"
  BY <1>1, <1>5 DEF ProcessChannelOpen, TypeOK, ChannelStates
<1>11. TypeOK'
  BY <1>3, <1>9, <1>10 DEF TypeOK, ProcessChannelOpen
<1>12. Opening'
  <2>1. /\ Free(<<>>, "open") /\ Free(<<>>, "opened")
        /\ Free(<<m>>, "open") /\ Free(Tail(<<m>>), "opened")
        /\ <<m>> # <<>> /\ Head(<<m>>).type = "opened"
    BY <1>1 DEF Free
  <2>2. opened' /\ in_window' = in_window /\ \A e \in Ends : ~in_window[e]
    BY <1>4, <1>5 DEF ProcessChannelOpen, Opening, Ends
  <2>. QED  BY <1>5, <1>8, <1>9, <1>10, <2>1, <2>2 DEF Opening
<1>13. Sound'
  BY <1>1, <1>3, <1>9, <1>10 DEF Sound, ProcessChannelOpen, Ends
<1>. QED  BY <1>11, <1>12, <1>13

\* The agent opens its record with the same balances.
LEMMA AgentOpenStep ==
  ASSUME IInv, AcceptChannel
  PROVE  IInv'
<1>. USE DEF IInv
<1>1. /\ Agent \in Ends /\ Server \in Ends /\ Agent # Server
      /\ Peer(Agent) = Server
  BY DEF Ends, Agent, Server, Peer
<1>2. /\ wire[Server] \in Seq(Message) /\ wire[Server] # <<>>
      /\ Received(Agent) = Head(wire[Server])
      /\ Received(Agent).type = "opened"
  BY <1>1 DEF TypeOK, AcceptChannel, Receives, Received
<1>3. /\ wire' = Dropped(Agent)
      /\ wire' \in [Ends -> Seq(Message)]
      /\ \A f \in Ends : SoundWire(wire'[f])
  BY <1>1, <1>2, DroppedStep DEF AcceptChannel
<1>4. state[Agent] = "OPENING"
  BY <1>2, TailWire DEF Opening
<1>5. /\ state[Server] # "OPENING" /\ opened
      /\ wire[Agent] = <<>> /\ Free(Tail(wire[Server]), "opened")
      /\ balance[Agent].agent = AgentDeposit
  BY <1>2, <1>4 DEF Opening
<1>6. Received(Agent).amount = ServerDeposit
  BY <1>1, <1>2, TailWire DEF Sound, SoundMessage
<1>7. wire'[Server] = Tail(wire[Server]) /\ wire'[Agent] = <<>>
  BY <1>1, <1>3, <1>5 DEF Dropped, TypeOK
<1>8. Free(wire'[Server], "open")
  BY <1>2, <1>7, TailWire DEF Opening
<1>9. /\ balance' \in [Ends -> Balances]
      /\ Total(balance'[Agent]) = Deposit
      /\ balance'[Server] = balance[Server]
  <2>1. balance[Agent] \in Balances
    BY <1>1 DEF TypeOK
  <2>2. balance' = [balance EXCEPT ![Agent] =
                      [balance[Agent] EXCEPT !.server = ServerDeposit]]
    BY <1>6 DEF AcceptChannel
  <2>3. [balance[Agent] EXCEPT !.server = ServerDeposit]
          = [agent |-> AgentDeposit, server |-> ServerDeposit]
    BY <1>5, <2>1 DEF Balances
  <2>. QED  BY <1>1, <2>2, <2>3, ChannelAssumption
            DEF TypeOK, Balances, Total, Deposit
<1>10. /\ state' \in [Ends -> ChannelStates]
       /\ state'[Agent] = "OPEN" /\ state'[Server] = state[Server]
  BY <1>1 DEF AcceptChannel, TypeOK, ChannelStates
<1>11. TypeOK'
  BY <1>3, <1>9, <1>10 DEF TypeOK, AcceptChannel
<1>12. Opening'
  BY <1>1, <1>5, <1>7, <1>8, <1>10 DEF Opening, Free, AcceptChannel, Ends
<1>13. Sound'
  BY <1>1, <1>3, <1>5, <1>9, <1>10 DEF Sound, AcceptChannel, Ends
<1>. QED  BY <1>11, <1>12, <1>13

\* A proposal moves an amount the payer has, and waits for the other signature.
LEMMA ProposeStep ==
  ASSUME IInv, NEW e \in Ends, NEW cost \in Costs,
         NEW prev \in 0..MaxUpdates \cup {Receipts},
         CreateStateUpdate(e, cost, prev)
  PROVE  IInv'
<1>. DEFINE u == [id |-> created + 1, seq |-> sequence[e] + 1,
                  balance |-> Paid(e, cost), prev |-> prev, award |-> FALSE]
            m == [type |-> "proposal", update |-> u]
<1>. USE DEF IInv
<1>1. Paid(e, cost) \in Balances /\ Total(Paid(e, cost)) = Deposit
  <2>1. cost \in Nat /\ Total(balance[e]) = Deposit
    BY ChannelAssumption DEF Sound, CreateStateUpdate
  <2>. QED  BY <2>1, PaidBalance DEF CreateStateUpdate
<1>2. created + 1 \in Nat /\ sequence[e] + 1 \in Nat
  BY DEF TypeOK
<1>3. u \in Update /\ u.balance = Paid(e, cost)
  BY <1>1, <1>2, ChannelAssumption DEF Update
<1>. HIDE DEF u
<1>4. m \in Message /\ m.type = "proposal" /\ SoundMessage(m)
  BY <1>1, <1>3 DEF Message, SoundMessage
<1>5. wire' = Sent(e, m) /\ state[e] # "OPENING"
  BY DEF CreateStateUpdate, u
<1>. HIDE DEF m
<1>6. /\ wire' \in [Ends -> Seq(Message)]
      /\ \A f \in Ends : SoundWire(wire'[f])
      /\ \A f \in Ends : Later(f)
  BY <1>4, <1>5, SentStep DEF OpeningTypes
<1>7. TypeOK'
  BY <1>2, <1>6 DEF TypeOK, CreateStateUpdate
<1>8. Opening'
  BY <1>6, OpeningKept DEF CreateStateUpdate
<1>9. Sound'
  BY <1>6 DEF Sound, CreateStateUpdate
<1>. QED  BY <1>7, <1>8, <1>9

\* The update a proposal or its answer carries is worth the deposits.
LEMMA ReceivedUpdate ==
  ASSUME IInv, NEW e \in Ends, NEW t \in {"proposal", "signed"}, Receives(e, t)
  PROVE  /\ wire[Peer(e)] # <<>>
         /\ Received(e).type = t
         /\ Received(e).update \in Update
         /\ Total(Received(e).update.balance) = Deposit
         /\ state[e] # "OPENING"
<1>. DEFINE q == wire[Peer(e)]
<1>1. Peer(e) \in Ends
  BY DEF Peer, Ends
<1>2. /\ q \in Seq(Message) /\ SoundWire(q) /\ q # <<>>
      /\ Received(e) = Head(q) /\ Received(e).type = t
  BY <1>1 DEF IInv, TypeOK, Sound, Receives, Received
<1>. HIDE DEF q
<1>3. Received(e).update \in Update /\ SoundMessage(Received(e))
  BY <1>2, HeadTypes, TailWire
<1>4. Total(Received(e).update.balance) = Deposit
  BY <1>2, <1>3 DEF SoundMessage
<1>5. state[e] # "OPENING"
  BY OpenedFirst DEF OpeningTypes
<1>. QED  BY <1>2, <1>3, <1>4, <1>5 DEF q

\* An end that countersigns adopts a sound update.
LEMMA CountersignStep ==
  ASSUME IInv, NEW e \in Ends, CountersignStateUpdate(e)
  PROVE  IInv'
<1>. DEFINE u == Received(e).update
            m == [type |-> "signed", update |-> u]
<1>. USE DEF IInv
<1>1. /\ wire[Peer(e)] # <<>> /\ Received(e).type = "proposal"
      /\ u \in Update /\ Total(u.balance) = Deposit
      /\ state[e] # "OPENING"
  BY ReceivedUpdate DEF CountersignStateUpdate
<1>. HIDE DEF u
<1>2. m \in Message /\ m.type = "signed" /\ SoundMessage(m)
  BY <1>1 DEF Message, SoundMessage
<1>3. wire' = Answered(e, m) /\ Adopt(e, u)
  BY DEF CountersignStateUpdate, u
<1>. HIDE DEF m
<1>4. /\ wire' \in [Ends -> Seq(Message)]
      /\ \A f \in Ends : SoundWire(wire'[f])
      /\ \A f \in Ends : Later(f)
  BY <1>1, <1>2, <1>3, AnsweredStep DEF OpeningTypes
<1>5. /\ sequence' \in [Ends -> Nat]
      /\ balance' \in [Ends -> Balances]
      /\ states' \in [Ends -> Seq(Update)]
      /\ \A f \in Ends : SoundStates(states'[f])
      /\ balance'[e] = u.balance
      /\ \A f \in Ends : f # e => balance'[f] = balance[f]
  BY <1>1, <1>3, AdoptStep
<1>6. state' = state /\ opened' = opened /\ in_window' = in_window
  BY DEF CountersignStateUpdate
<1>7. TypeOK'
  BY <1>4, <1>5, <1>6 DEF TypeOK, CountersignStateUpdate
<1>8. Opening'
  BY <1>1, <1>4, <1>5, <1>6, OpeningKept DEF Ends
<1>9. Sound'
  <2>1. ASSUME NEW f \in Ends, state'[f] # "OPENING"
        PROVE  Total(balance'[f]) = Deposit
    <3>1. CASE f = e
      BY <1>1, <1>5, <1>6, <3>1
    <3>2. CASE f # e
      BY <1>1, <1>5, <1>6, <2>1, <3>2 DEF Sound
    <3>. QED  BY <3>1, <3>2
  <2>. QED  BY <1>4, <1>5, <2>1 DEF Sound
<1>. QED  BY <1>7, <1>8, <1>9

\* A proposal refused leaves every record alone.
LEMMA RefuseStep ==
  ASSUME IInv, NEW e \in Ends, RefuseStateUpdate(e)
  PROVE  IInv'
<1>. USE DEF IInv
<1>1. /\ wire' \in [Ends -> Seq(Message)]
      /\ \A f \in Ends : SoundWire(wire'[f])
      /\ \A f \in Ends : Later(f)
  BY ReceivedUpdate, DroppedStep DEF RefuseStateUpdate, OpeningTypes
<1>2. TypeOK'
  BY <1>1 DEF TypeOK, RefuseStateUpdate
<1>3. Opening'
  BY <1>1, OpeningKept DEF RefuseStateUpdate
<1>4. Sound'
  BY <1>1 DEF Sound, RefuseStateUpdate
<1>. QED  BY <1>2, <1>3, <1>4

\* The proposer adopts the update it finds countersigned.
LEMMA ApplyStep ==
  ASSUME IInv, NEW e \in Ends, ApplyStateUpdate(e)
  PROVE  IInv'
<1>. DEFINE u == Received(e).update
<1>. USE DEF IInv
<1>1. /\ wire[Peer(e)] # <<>> /\ Received(e).type = "signed"
      /\ u \in Update /\ Total(u.balance) = Deposit
      /\ state[e] # "OPENING"
  BY ReceivedUpdate DEF ApplyStateUpdate
<1>2. wire' = Dropped(e) /\ Adopt(e, u)
  BY DEF ApplyStateUpdate
<1>. HIDE DEF u
<1>3. /\ wire' \in [Ends -> Seq(Message)]
      /\ \A f \in Ends : SoundWire(wire'[f])
      /\ \A f \in Ends : Later(f)
  BY <1>1, <1>2, DroppedStep DEF OpeningTypes
<1>4. /\ sequence' \in [Ends -> Nat]
      /\ balance' \in [Ends -> Balances]
      /\ states' \in [Ends -> Seq(Update)]
      /\ \A f \in Ends : SoundStates(states'[f])
      /\ balance'[e] = u.balance
      /\ \A f \in Ends : f # e => balance'[f] = balance[f]
  BY <1>1, <1>2, AdoptStep
<1>5. state' = state /\ opened' = opened /\ in_window' = in_window
  BY DEF ApplyStateUpdate
<1>6. TypeOK'
  BY <1>3, <1>4, <1>5 DEF TypeOK, ApplyStateUpdate
<1>7. Opening'
  BY <1>1, <1>3, <1>4, <1>5, OpeningKept DEF Ends
<1>8. Sound'
  <2>1. ASSUME NEW f \in Ends, state'[f] # "OPENING"
        PROVE  Total(balance'[f]) = Deposit
    <3>1. CASE f = e
      BY <1>1, <1>4, <1>5, <3>1
    <3>2. CASE f # e
      BY <1>1, <1>4, <1>5, <2>1, <3>2 DEF Sound
    <3>. QED  BY <3>1, <3>2
  <2>. QED  BY <1>3, <1>4, <2>1 DEF Sound
<1>. QED  BY <1>6, <1>7, <1>8

\* A close carries the balances its end holds.
LEMMA CloseStep ==
  ASSUME IInv, NEW e \in Ends, CreateChannelClose(e)
  PROVE  IInv'
<1>. DEFINE m == [type |-> "close", final |-> balance[e]]
<1>. USE DEF IInv
<1>1. /\ balance[e] \in Balances /\ Total(balance[e]) = Deposit
      /\ state[e] # "OPENING"
  BY DEF TypeOK, Sound, CreateChannelClose
<1>2. m \in Message /\ m.type = "close" /\ SoundMessage(m)
  BY <1>1 DEF Message, SoundMessage
<1>3. wire' = Sent(e, m)
  BY DEF CreateChannelClose
<1>. HIDE DEF m
<1>4. /\ wire' \in [Ends -> Seq(Message)]
      /\ \A f \in Ends : SoundWire(wire'[f])
      /\ \A f \in Ends : Later(f)
  BY <1>1, <1>2, <1>3, SentStep DEF OpeningTypes
<1>5. TypeOK'
  BY <1>4 DEF TypeOK, CreateChannelClose
<1>6. Opening'
  BY <1>4, OpeningKept DEF CreateChannelClose
<1>7. Sound'
  BY <1>4 DEF Sound, CreateChannelClose
<1>. QED  BY <1>5, <1>6, <1>7

\* A close countersigned leaves the balances of the end alone.
LEMMA CountersignCloseStep ==
  ASSUME IInv, NEW e \in Ends, CountersignClose(e)
  PROVE  IInv'
<1>. USE DEF IInv
<1>1. /\ wire[Peer(e)] # <<>> /\ Received(e).type = "close"
      /\ state[e] # "OPENING"
  BY OpenedFirst DEF CountersignClose, Receives, Received, OpeningTypes
<1>2. /\ wire' \in [Ends -> Seq(Message)]
      /\ \A f \in Ends : SoundWire(wire'[f])
      /\ \A f \in Ends : Later(f)
  BY <1>1, DroppedStep DEF CountersignClose, OpeningTypes
<1>3. /\ state' \in [Ends -> ChannelStates]
      /\ \A f \in Ends : state'[f] = "OPENING" <=> state[f] = "OPENING"
  BY <1>1 DEF CountersignClose, TypeOK, ChannelStates
<1>4. TypeOK'
  BY <1>2, <1>3 DEF TypeOK, CountersignClose
<1>5. Opening'
  BY <1>2, <1>3, OpeningKept DEF CountersignClose
<1>6. Sound'
  BY <1>2, <1>3 DEF Sound, CountersignClose
<1>. QED  BY <1>4, <1>5, <1>6

\* An end that opened closes by itself, or settles, and nothing is sent.
LEMMA UnilateralStep ==
  ASSUME IInv, NEW e \in Ends,
         CreateUnilateralClose(e) \/ WindowEnds(e) \/ FinalizeClose(e)
  PROVE  IInv'
<1>. USE DEF IInv
<1>1. /\ state' \in [Ends -> ChannelStates]
      /\ \A f \in Ends : state'[f] = "OPENING" <=> state[f] = "OPENING"
  BY DEF CreateUnilateralClose, WindowEnds, FinalizeClose, TypeOK,
         ChannelStates
<1>2. /\ in_window' \in [Ends -> BOOLEAN]
      /\ \A f \in Ends : in_window'[f] => in_window[f] \/ state[f] # "OPENING"
  BY DEF CreateUnilateralClose, WindowEnds, FinalizeClose, TypeOK
<1>3. UNCHANGED <<patient, opened, balance, sequence, states, wire, created>>
  BY DEF CreateUnilateralClose, WindowEnds, FinalizeClose
<1>4. TypeOK'
  BY <1>1, <1>2, <1>3 DEF TypeOK
<1>5. Opening'
  BY <1>1, <1>2, <1>3, OpeningKept DEF Later
<1>6. Sound'
  BY <1>1, <1>3 DEF Sound
<1>. QED  BY <1>4, <1>5, <1>6

\* A challenge adopts an update that was sound when it was made.
LEMMA ChallengeStep ==
  ASSUME IInv, NEW e \in Ends, NEW u \in Evidence(e), Challenge(e, u)
  PROVE  IInv'
<1>. USE DEF IInv
<1>1. /\ u \in Update /\ Total(u.balance) = Deposit
      /\ u.seq \in Nat /\ u.balance \in Balances
      /\ state[e] # "OPENING"
  BY EvidenceSound DEF Update, Opening, Challenge
<1>2. /\ state' \in [Ends -> ChannelStates]
      /\ \A f \in Ends : state'[f] = "OPENING" <=> state[f] = "OPENING"
  BY <1>1 DEF Challenge, TypeOK, ChannelStates
<1>3. /\ sequence' \in [Ends -> Nat]
      /\ balance' \in [Ends -> Balances]
      /\ balance'[e] = u.balance
      /\ \A f \in Ends : f # e => balance'[f] = balance[f]
  BY <1>1 DEF Challenge, TypeOK
<1>4. UNCHANGED <<patient, opened, states, in_window, wire, created>>
  BY DEF Challenge
<1>5. TypeOK'
  BY <1>2, <1>3, <1>4 DEF TypeOK
<1>6. Opening'
  BY <1>1, <1>2, <1>3, <1>4, OpeningKept DEF Later, Ends
<1>7. Sound'
  <2>1. ASSUME NEW f \in Ends, state'[f] # "OPENING"
        PROVE  Total(balance'[f]) = Deposit
    <3>1. CASE f = e
      BY <1>1, <1>3, <3>1
    <3>2. CASE f # e
      BY <1>2, <1>3, <2>1, <3>2 DEF Sound
    <3>. QED  BY <3>1, <3>2
  <2>. QED  BY <1>4, <2>1 DEF Sound
<1>. QED  BY <1>5, <1>6, <1>7

\* A verdict adopts balances that share the same deposit.
LEMMA VerdictStep ==
  ASSUME IInv, NEW e \in Ends, NEW award \in Awards, ApplyVerdict(e, award)
  PROVE  IInv'
<1>. DEFINE b == Awarded(balance[e], award)
            u == [id |-> created + 1, seq |-> sequence[e] + 1, balance |-> b,
                  prev |-> LastHash(e), award |-> TRUE]
<1>. USE DEF IInv
<1>1. b \in Balances /\ Total(b) = Deposit /\ state[e] # "OPENING"
  <2>1. /\ award \in Nat /\ state[e] # "OPENING"
        /\ balance[e] \in Balances /\ Total(balance[e]) = Deposit
    BY ChannelAssumption DEF ApplyVerdict, TypeOK, Sound
  <2>. QED  BY <2>1, AwardedBalance
<1>2. created + 1 \in Nat /\ sequence[e] + 1 \in Nat
  BY DEF TypeOK
<1>3. LastHash(e) \in Nat
  <2>1. states[e] \in Seq(Update)
    BY DEF TypeOK
  <2>2. ASSUME states[e] # <<>>
        PROVE  states[e][Len(states[e])] \in Update
    BY <2>1, <2>2
  <2>. QED  BY <2>2 DEF LastHash, Update
<1>. HIDE DEF b
<1>4. u \in Update /\ u.balance = b
  BY <1>1, <1>2, <1>3 DEF Update
<1>5. Adopt(e, u) /\ UNCHANGED <<patient, opened, in_window, wire>>
  BY DEF ApplyVerdict, b
<1>. HIDE DEF u
<1>6. /\ sequence' \in [Ends -> Nat]
      /\ balance' \in [Ends -> Balances]
      /\ states' \in [Ends -> Seq(Update)]
      /\ \A f \in Ends : SoundStates(states'[f])
      /\ balance'[e] = u.balance
      /\ \A f \in Ends : f # e => balance'[f] = balance[f]
  BY <1>1, <1>4, <1>5, AdoptStep
<1>7. /\ state' \in [Ends -> ChannelStates]
      /\ \A f \in Ends : state'[f] = "OPENING" <=> state[f] = "OPENING"
      /\ created' \in Nat
  BY <1>1, <1>2 DEF ApplyVerdict, TypeOK, ChannelStates
<1>8. TypeOK'
  BY <1>5, <1>6, <1>7 DEF TypeOK
<1>9. Opening'
  BY <1>1, <1>5, <1>6, <1>7, OpeningKept DEF Later, Ends
<1>10. Sound'
  <2>1. ASSUME NEW f \in Ends, state'[f] # "OPENING"
        PROVE  Total(balance'[f]) = Deposit
    <3>1. CASE f = e
      BY <1>1, <1>4, <1>6, <3>1
    <3>2. CASE f # e
      BY <1>6, <1>7, <2>1, <3>2 DEF Sound
    <3>. QED  BY <3>1, <3>2
  <2>. QED  BY <1>5, <1>6, <2>1 DEF Sound
<1>. QED  BY <1>8, <1>9, <1>10

\* Every step of the channel keeps the invariant.
LEMMA Inductive == IInv /\ [Next]_vars => IInv'
<1>. SUFFICES ASSUME IInv, [Next]_vars PROVE IInv'
  OBVIOUS
<1>1. CASE CreateChannelOpen
  BY <1>1, OpenStep
<1>2. CASE ProcessChannelOpen
  BY <1>2, ServerOpenStep
<1>3. CASE AcceptChannel
  BY <1>3, AgentOpenStep
<1>4. ASSUME NEW e \in Ends,
             \/ \E cost \in Costs, prev \in 0..MaxUpdates \cup {Receipts} :
                  CreateStateUpdate(e, cost, prev)
             \/ CountersignStateUpdate(e)
             \/ RefuseStateUpdate(e)
             \/ ApplyStateUpdate(e)
      PROVE  IInv'
  BY <1>4, ProposeStep, CountersignStep, RefuseStep, ApplyStep
<1>5. ASSUME NEW e \in Ends,
             \/ CreateChannelClose(e)
             \/ CountersignClose(e)
             \/ CreateUnilateralClose(e) \/ WindowEnds(e) \/ FinalizeClose(e)
             \/ \E u \in Evidence(e) : Challenge(e, u)
             \/ \E award \in Awards : ApplyVerdict(e, award)
      PROVE  IInv'
  BY <1>5, CloseStep, CountersignCloseStep, UnilateralStep, ChallengeStep,
     VerdictStep
<1>6. CASE UNCHANGED vars
  <2>1. TypeOK'
    BY <1>6 DEF IInv, TypeOK, vars
  <2>2. Opening'
    BY <1>6, OpeningKept DEF vars, Later
  <2>3. Sound'
    BY <1>6 DEF IInv, Sound, vars
  <2>. QED  BY <2>1, <2>2, <2>3 DEF IInv
<1>. QED  BY <1>1, <1>2, <1>3, <1>4, <1>5, <1>6 DEF Next

-----------------------------------------------------------------------------
(* The theorems.                                                           *)

\* What both ends hold, have in flight and have settled keeps the invariant of
\* the channel (payment_channel.py) whatever they call.
THEOREM Invariance == Spec => []IInv
BY Initially, Inductive, PTL DEF Spec

\* Whatever both ends call and in whatever order the messages of the two
\* cross, no balance of PaymentChannel becomes negative: the guard of
\* create_state_update and the limit of an award are enough.
THEOREM TypeCorrect == Spec => []TypeOK
<1>1. IInv => TypeOK
  BY DEF IInv
<1>. QED  BY <1>1, Invariance, PTL

\* finalize_close and countersign_close of PaymentChannel never settle more,
\* nor less, than the two ends deposited.
THEOREM ConservesDeposit == Spec => []DepositConserved
<1>1. IInv => DepositConserved
  <2>. SUFFICES ASSUME IInv, NEW e \in Ends
                PROVE  /\ state[e] # "OPENING" => Total(balance[e]) = Deposit
                       /\ \A i \in 1..Len(wire[e]) :
                            wire[e][i].type = "close" =>
                              Total(wire[e][i].final) = Deposit
    BY DEF DepositConserved
  <2>. QED  BY DEF IInv, Sound, SoundWire, SoundMessage
<1>. QED  BY <1>1, Invariance, PTL

-----------------------------------------------------------------------------
(* The ledger of two ends that await the answers to their proposals.       *)

At(q, type) == {i \in 1..Len(q) : q[i].type = type}
Proposals(e) == At(wire[e], "proposal")
Answers(e) == At(wire[e], "signed")
Number(e, i) == wire[e][i].update.seq

\* A proposal of e is on its way, or its answer, or neither.
OneOutstanding(e) ==
  /\ \A i, j \in Proposals(e) : i = j
  /\ \A i, j \in Answers(e) : i = j
  /\ Proposals(e) = {} \/ Answers(Peer(e)) = {}

\* The end that proposed has not fallen behind its proposal, and what e signed
\* later than it proposed has the higher number: the proposal will be refused.
Numbered(e) ==
  /\ \A i \in Proposals(e) : Number(e, i) =< sequence[e]
  /\ \A j \in Answers(e) : Number(e, j) =< sequence[Peer(e)]
  /\ \A i \in Proposals(e), j \in Answers(e) :
       i < j => Number(e, i) < Number(e, j)

Held(s) ==
  IF s = <<>> THEN [agent |-> AgentDeposit, server |-> ServerDeposit]
  ELSE s[Len(s)].balance

\* An update that names the last one of s and pays out of its balances.
Follows(e, s, u) ==
  /\ u.prev \in {IF s = <<>> THEN 0 ELSE s[Len(s)].id, Receipts}
  /\ \E cost \in Costs : Shared!Pays(e, cost, Held(s), u.balance)

\* A proposal that nothing e signed follows, follows the last update of e.
Linked(e) ==
  \A i \in Proposals(e) :
    (\A j \in Answers(e) : j < i) => Follows(e, states[e], wire[e][i].update)

\* An end that signed is one update ahead until the answer arrives.
OneAhead(e) ==
  \A j \in Answers(e) :
    /\ Answers(Peer(e)) = {}
    /\ states[e] = Append(states[Peer(e)], wire[e][j].update)

Even == (\A e \in Ends : Answers(e) = {}) => states[Agent] = states[Server]

\* An open channel has the balances of the last update.
Paying(e) ==
  /\ state[e] = "OPEN" => balance[e] = Held(states[e])
  /\ state[e] = "OPENING" => states[e] = <<>>

Chained(s) ==
  \A i \in 1..Len(s) : s[i].prev \in {Receipts, IF i = 1 THEN 0 ELSE s[i - 1].id}

Wired == \A e \in Ends :
           OneOutstanding(e) /\ Numbered(e) /\ Linked(e) /\ OneAhead(e)
Retained == \A e \in Ends : Paying(e) /\ Chained(states[e])

Ledger == patient /\ AwardFree => Even /\ Wired /\ Retained

-----------------------------------------------------------------------------
\* There are two ends, and each is the other of the other.
LEMMA TwoEnds ==
  ASSUME NEW e \in Ends
  PROVE  /\ Peer(e) \in Ends /\ Peer(e) # e /\ Peer(Peer(e)) = e
         /\ Ends = {e, Peer(e)}
         /\ {Agent, Server} = {e, Peer(e)}
BY DEF Ends, Peer, Agent, Server

\* The positions of the messages of a type when the first is taken off ...
LEMMA TailAt ==
  ASSUME NEW q \in Seq(Message), q # <<>>
  PROVE  /\ \A t : \A i \in At(Tail(q), t) :
                i + 1 \in At(q, t) /\ Tail(q)[i] = q[i + 1]
         /\ \A t : \A j \in At(q, t) : j = 1 \/ j - 1 \in At(Tail(q), t)
         /\ 1 \in At(q, Head(q).type) /\ q[1] = Head(q)
         /\ \A t : At(Tail(q), t) \subseteq Nat /\ At(q, t) \subseteq Nat
         /\ \A t : \A i \in At(Tail(q), t) : i >= 1
<1>1. /\ Tail(q) \in Seq(Message)
      /\ Len(q) > 0 /\ Len(q) \in Nat
      /\ Len(Tail(q)) = Len(q) - 1
      /\ Head(q) = q[1]
      /\ \A i \in 1..Len(Tail(q)) : i + 1 \in 1..Len(q) /\ Tail(q)[i] = q[i + 1]
      /\ \A j \in 1..Len(q) : j = 1 \/ j - 1 \in 1..Len(Tail(q))
  OBVIOUS
<1>2. \A j \in 1..Len(q) : j # 1 => Tail(q)[j - 1] = q[j]
  BY <1>1
<1>. HIDE DEF At
<1>. QED  BY <1>1, <1>2 DEF At

\* ... and when one is appended.
LEMMA AppendAt ==
  ASSUME NEW q \in Seq(Message), NEW m \in Message, NEW t
  PROVE  /\ t # m.type => At(Append(q, m), t) = At(q, t)
         /\ t = m.type => At(Append(q, m), t) = At(q, t) \cup {Len(q) + 1}
         /\ \A i \in At(q, t) :
              i \in Nat /\ i < Len(q) + 1 /\ Append(q, m)[i] = q[i]
         /\ Append(q, m)[Len(q) + 1] = m
         /\ Len(q) + 1 \in Nat
<1>1. /\ Append(q, m) \in Seq(Message)
      /\ Len(q) \in Nat /\ Len(Append(q, m)) = Len(q) + 1
      /\ \A i \in 1..Len(q) : Append(q, m)[i] = q[i]
      /\ Append(q, m)[Len(q) + 1] = m
  OBVIOUS
<1>2. \A i : i \in 1..Len(Append(q, m)) <=> i \in 1..Len(q) \/ i = Len(q) + 1
  BY <1>1
<1>3. Len(q) + 1 \notin 1..Len(q)
  BY <1>1
<1>. QED  BY <1>1, <1>2, <1>3 DEF At

\* Steps that bring no proposal and no answer, and take no answer off.
LedgerTypes == {"proposal", "signed"}
Quieter(e) ==
  \/ wire'[e] = wire[e]
  \/ /\ wire[e] # <<>> /\ Head(wire[e]).type # "signed"
     /\ wire'[e] = Tail(wire[e])
  \/ \E m \in Message : m.type \notin LedgerTypes /\ wire'[e] = Append(wire[e], m)

\* Less said and the same held: what was quiet stays quiet.
LEMMA QuieterShift ==
  ASSUME NEW e \in Ends, wire[e] \in Seq(Message), Quieter(e)
  PROVE  \E d \in {0, 1} :
           /\ \A i \in Proposals(e)' :
                i + d \in Proposals(e) /\ i \in Nat /\ wire'[e][i] = wire[e][i + d]
           /\ \A i \in Answers(e)' :
                i + d \in Answers(e) /\ i \in Nat /\ wire'[e][i] = wire[e][i + d]
           /\ \A j \in Answers(e) : j - d \in Answers(e)' /\ j \in Nat
<1>. DEFINE q == wire[e]
            r == wire'[e]
            Shift(d) == /\ \A i \in At(r, "proposal") :
                             i + d \in At(q, "proposal") /\ i \in Nat /\ r[i] = q[i + d]
                        /\ \A i \in At(r, "signed") :
                             i + d \in At(q, "signed") /\ i \in Nat /\ r[i] = q[i + d]
                        /\ \A j \in At(q, "signed") :
                             j - d \in At(r, "signed") /\ j \in Nat
<1>1. q \in Seq(Message)
  OBVIOUS
<1>2. SUFFICES Shift(0) \/ Shift(1)
  BY DEF Proposals, Answers
<1>3. /\ \A i \in Nat : i + 0 = i /\ i - 0 = i
      /\ \A t : At(q, t) \subseteq Nat
  BY DEF At
<1>4. \/ r = q
      \/ q # <<>> /\ Head(q).type # "signed" /\ r = Tail(q)
      \/ \E m \in Message : m.type \notin LedgerTypes /\ r = Append(q, m)
  BY DEF Quieter
<1>. HIDE DEF q, r
<1>5. CASE r = q
  BY <1>3, <1>5
<1>6. CASE q # <<>> /\ Head(q).type # "signed" /\ r = Tail(q)
  <2>1. 1 \notin At(q, "signed")
    BY <1>6 DEF At
  <2>2. /\ \A t : \A i \in At(r, t) :
             i + 1 \in At(q, t) /\ r[i] = q[i + 1] /\ i \in Nat
        /\ \A t : \A j \in At(q, t) : j = 1 \/ j - 1 \in At(r, t)
    BY <1>1, <1>6, TailAt
  <2>. QED  BY <1>3, <2>1, <2>2
<1>7. CASE \E m \in Message : m.type \notin LedgerTypes /\ r = Append(q, m)
  <2>1. PICK m \in Message : m.type \notin LedgerTypes /\ r = Append(q, m)
    BY <1>7
  <2>2. "proposal" # m.type /\ "signed" # m.type
    BY <2>1 DEF LedgerTypes
  <2>3. At(r, "proposal") = At(q, "proposal") /\ At(r, "signed") = At(q, "signed")
    BY <1>1, <2>1, <2>2, AppendAt
  <2>4. \A t : \A i \in At(q, t) : r[i] = q[i]
    BY <1>1, <2>1 DEF At
  <2>5. Shift(0)
    BY <1>3, <2>3, <2>4
  <2>. QED  BY <2>5
<1>. QED  BY <1>4, <1>5, <1>6, <1>7

\* Such steps keep what is known of the wires, if no number goes down.
LEMMA QuieterStep ==
  ASSUME IInv, Even, Wired, \A f \in Ends : Quieter(f), states' = states,
         \A f \in Ends : sequence'[f] \in Nat /\ sequence'[f] >= sequence[f]
  PROVE  Even' /\ Wired'
<1>0. /\ wire \in [Ends -> Seq(Message)] /\ sequence \in [Ends -> Nat]
  BY DEF IInv, TypeOK
<1>1. ASSUME NEW f \in Ends
      PROVE  \E d \in {0, 1} :
           /\ \A i \in Proposals(f)' :
                i + d \in Proposals(f) /\ i \in Nat /\ wire'[f][i] = wire[f][i + d]
           /\ \A i \in Answers(f)' :
                i + d \in Answers(f) /\ i \in Nat /\ wire'[f][i] = wire[f][i + d]
           /\ \A j \in Answers(f) : j - d \in Answers(f)' /\ j \in Nat
  BY <1>0, QuieterShift
<1>2. \A f \in Ends : Answers(f) = {} <=> Answers(f)' = {}
  BY <1>1
<1>3. \A f \in Ends : Proposals(f) = {} => Proposals(f)' = {}
  BY <1>1
<1>4. Even'
  BY <1>2 DEF Even
<1>5. ASSUME NEW e \in Ends
      PROVE  (OneOutstanding(e) /\ Numbered(e) /\ Linked(e) /\ OneAhead(e))'
  <2>. DEFINE p == Peer(e)
  <2>1. p \in Ends
    BY TwoEnds
  <2>2. OneOutstanding(e) /\ Numbered(e) /\ Linked(e) /\ OneAhead(e)
    BY DEF Wired
  <2>3. PICK d \in {0, 1} :
           /\ \A i \in Proposals(e)' :
                i + d \in Proposals(e) /\ i \in Nat /\ wire'[e][i] = wire[e][i + d]
           /\ \A i \in Answers(e)' :
                i + d \in Answers(e) /\ i \in Nat /\ wire'[e][i] = wire[e][i + d]
           /\ \A j \in Answers(e) : j - d \in Answers(e)' /\ j \in Nat
    BY <1>1
  <2>4. OneOutstanding(e)'
    <3>1. \A i, j \in Proposals(e)' : i = j
      BY <2>2, <2>3 DEF OneOutstanding
    <3>2. \A i, j \in Answers(e)' : i = j
      BY <2>2, <2>3 DEF OneOutstanding
    <3>3. Proposals(e)' = {} \/ Answers(p)' = {}
      BY <1>2, <1>3, <2>1, <2>2 DEF OneOutstanding
    <3>. QED  BY <3>1, <3>2, <3>3 DEF OneOutstanding
  <2>5. \A i \in Proposals(e)' \cup Answers(e)' : Number(e, i)' = Number(e, i + d)
    BY <2>3 DEF Number
  <2>6. Numbered(e)'
    <3>1. \A i \in Proposals(e) \cup Answers(e) : Number(e, i) \in Nat
      <4>1. ASSUME NEW i \in Proposals(e) \cup Answers(e)
            PROVE  Number(e, i) \in Nat
        <5>1. wire[e][i] \in Message /\ wire[e][i].type \in {"proposal", "signed"}
          BY <1>0 DEF Proposals, Answers, At
        <5>2. wire[e][i] \in [type : {"proposal", "signed"}, update : Update]
          BY <5>1 DEF Message
        <5>. QED  BY <5>2 DEF Number, Update
      <4>. QED  BY <4>1
    <3>2. \A i \in Proposals(e)' : Number(e, i)' =< sequence'[e]
      BY <1>0, <2>2, <2>3, <2>5, <3>1 DEF Numbered
    <3>3. \A j \in Answers(e)' : Number(e, j)' =< sequence'[p]
      BY <1>0, <2>1, <2>2, <2>3, <2>5, <3>1 DEF Numbered
    <3>4. \A i \in Proposals(e)', j \in Answers(e)' : i < j => Number(e, i)' < Number(e, j)'
      BY <2>2, <2>3, <2>5 DEF Numbered
    <3>. QED  BY <3>2, <3>3, <3>4 DEF Numbered
  <2>7. Linked(e)'
    <3>. SUFFICES ASSUME NEW i \in Proposals(e)',
                         \A j \in Answers(e)' : j < i
                  PROVE  Follows(e, states'[e], wire'[e][i].update)
      BY DEF Linked, Follows
    <3>1. \A j \in Answers(e) : j < i + d
      BY <2>3
    <3>. QED  BY <2>2, <2>3, <3>1 DEF Linked
  <2>8. OneAhead(e)'
    BY <1>2, <2>1, <2>2, <2>3 DEF OneAhead
  <2>. QED  BY <2>4, <2>6, <2>7, <2>8
<1>. QED  BY <1>4, <1>5 DEF Wired

\* The message an end takes off its peer's wire, and the wires after it.
LEMMA ReceivedAt ==
  ASSUME IInv, NEW e \in Ends, NEW t \in LedgerTypes, Receives(e, t)
  PROVE  /\ 1 \in At(wire[Peer(e)], t)
         /\ wire[Peer(e)][1] = Received(e)
         /\ \A s : 1 \in At(wire[Peer(e)], s) => s = t
<1>1. wire[Peer(e)] \in Seq(Message) /\ wire[Peer(e)] # <<>>
  BY TwoEnds DEF IInv, TypeOK, Receives
<1>2. Received(e) = Head(wire[Peer(e)]) /\ Received(e).type = t
  BY DEF Receives, Received
<1>. QED  BY <1>1, <1>2, TailAt DEF At

\* What one end pays the other gets.
LEMMA PaidMoves ==
  ASSUME TypeOK, NEW e \in Ends, NEW cost,
         Paid(e, cost).agent >= 0, Paid(e, cost).server >= 0
  PROVE  Shared!Pays(e, cost, balance[e], Paid(e, cost))
<1>1. CASE e = Agent
  BY <1>1 DEF Paid, Shared!Pays, Ends, Agent, Server
<1>2. CASE e = Server
  BY <1>2 DEF Paid, Shared!Pays, Ends, Agent, Server
<1>. QED  BY <1>1, <1>2 DEF Ends

\* A proposal puts one message on the wire of an end that awaits no answer.
LEMMA ProposeLedger ==
  ASSUME IInv, patient, Even, Wired, Retained,
         NEW e \in Ends, NEW cost \in Costs, NEW prev, CreateStateUpdate(e, cost, prev)
  PROVE  Even' /\ Wired'
<1>. DEFINE p == Peer(e)
            u == [id |-> created + 1, seq |-> sequence[e] + 1,
                  balance |-> Paid(e, cost), prev |-> prev, award |-> FALSE]
            m == [type |-> "proposal", update |-> u]
            n == Len(wire[e]) + 1
<1>1. /\ p \in Ends /\ p # e /\ Ends = {e, p} /\ Peer(p) = e
      /\ wire \in [Ends -> Seq(Message)] /\ sequence \in [Ends -> Nat]
  BY TwoEnds DEF IInv, TypeOK
<1>2. Proposals(e) = {} /\ Answers(p) = {}
  BY DEF CreateStateUpdate, Quiet, Proposals, Answers, At
<1>3. /\ wire'[e] = Append(wire[e], m) /\ wire'[p] = wire[p]
      /\ sequence'[e] = sequence[e] + 1 /\ sequence'[p] = sequence[p]
      /\ states' = states
      /\ prev \in {LastHash(e), Receipts}
  BY <1>1 DEF CreateStateUpdate, Sent
<1>4. /\ m.type = "proposal" /\ m.update = u /\ u.seq = sequence[e] + 1 /\ u.prev = prev
      /\ u.balance = Paid(e, cost)
  OBVIOUS
<1>. HIDE DEF p, u, m
<1>5. n \in Nat /\ wire'[e][n] = m
  BY <1>1, <1>3
<1>6. Proposals(e)' = {n} /\ Answers(e)' = Answers(e)
  <2>1. \A i : i \in 1..Len(wire'[e]) <=> i \in 1..Len(wire[e]) \/ i = n
    BY <1>1, <1>3
  <2>2. \A i \in 1..Len(wire[e]) : wire'[e][i] = wire[e][i]
    BY <1>1, <1>3
  <2>3. Proposals(e)' = {n}
    BY <1>2, <1>4, <1>5, <2>1, <2>2 DEF Proposals, At
  <2>4. Answers(e)' = Answers(e)
    BY <1>4, <1>5, <2>1, <2>2 DEF Answers, At
  <2>. QED  BY <2>3, <2>4
<1>7. Proposals(p)' = Proposals(p) /\ Answers(p)' = {}
  BY <1>2, <1>3 DEF Proposals, Answers
<1>8. \A j \in Answers(e) : j \in Nat /\ j < n /\ wire'[e][j] = wire[e][j]
  BY <1>1, <1>3 DEF Answers, At
<1>9. Even'
  BY <1>1, <1>3, <1>6, <1>7, <1>2 DEF Even
<1>10. /\ OneOutstanding(e) /\ Numbered(e) /\ Linked(e) /\ OneAhead(e)
       /\ OneOutstanding(p) /\ Numbered(p) /\ Linked(p) /\ OneAhead(p)
  BY <1>1 DEF Wired
<1>11. OneOutstanding(e)' /\ OneOutstanding(p)'
  BY <1>1, <1>2, <1>6, <1>7, <1>10 DEF OneOutstanding, p
<1>12. Numbered(e)' /\ Numbered(p)'
  <2>1. \A i \in Proposals(e)' : Number(e, i)' =< sequence'[e]
    BY <1>1, <1>3, <1>4, <1>5, <1>6 DEF Number
  <2>2. \A j \in Answers(e)' : Number(e, j)' =< sequence'[p]
    BY <1>3, <1>6, <1>8, <1>10 DEF Number, Numbered, p
  <2>3. \A i \in Proposals(e)', j \in Answers(e)' : ~ (i < j)
    BY <1>5, <1>6, <1>8
  <2>4. \A i \in Proposals(p)' : Number(p, i)' =< sequence'[p]
    BY <1>3, <1>7, <1>10 DEF Number, Numbered
  <2>. QED  BY <1>7, <2>1, <2>2, <2>3, <2>4 DEF Numbered, p
<1>13. Linked(e)' /\ Linked(p)'
  <2>1. Follows(e, states[e], u)
    <3>1. Paid(e, cost).agent >= 0 /\ Paid(e, cost).server >= 0 /\ state[e] = "OPEN"
      BY DEF CreateStateUpdate
    <3>2. balance[e] = Held(states[e])
      BY <3>1 DEF Retained, Paying
    <3>3. Shared!Pays(e, cost, balance[e], Paid(e, cost))
      BY <3>1, PaidMoves DEF IInv
    <3>. QED  BY <1>3, <1>4, <3>2, <3>3 DEF Follows, LastHash
  <2>2. Linked(e)'
    BY <1>3, <1>4, <1>5, <1>6, <2>1 DEF Linked
  <2>3. Linked(p)'
    BY <1>2, <1>3, <1>7, <1>10 DEF Linked
  <2>. QED  BY <2>2, <2>3
<1>14. OneAhead(e)' /\ OneAhead(p)'
  <2>1. ASSUME NEW j \in Answers(e)'
        PROVE  Answers(p)' = {} /\ states'[e] = Append(states'[p], wire'[e][j].update)
    <3>1. j \in Answers(e) /\ wire'[e][j] = wire[e][j]
      BY <1>6, <1>8
    <3>. QED  BY <1>3, <1>7, <1>10, <3>1 DEF OneAhead, p
  <2>2. OneAhead(e)'
    BY <2>1 DEF OneAhead, p
  <2>3. OneAhead(p)'
    BY <1>7 DEF OneAhead
  <2>. QED  BY <2>2, <2>3
<1>. QED  BY <1>1, <1>9, <1>11, <1>12, <1>13, <1>14 DEF Wired

\* An update appended to a chain whose last hash it names.
LEMMA ChainedAppend ==
  ASSUME NEW s \in Seq(Update), NEW u \in Update, Chained(s),
         u.prev \in {Receipts, IF s = <<>> THEN 0 ELSE s[Len(s)].id}
  PROVE  Chained(Append(s, u)) /\ Held(Append(s, u)) = u.balance
<1>1. /\ Append(s, u) \in Seq(Update) /\ Append(s, u) # <<>>
      /\ Len(s) \in Nat /\ Len(Append(s, u)) = Len(s) + 1
      /\ \A i \in 1..Len(s) : Append(s, u)[i] = s[i]
      /\ Append(s, u)[Len(s) + 1] = u
  OBVIOUS
<1>2. Len(s) = 0 <=> s = <<>>
  OBVIOUS
<1>3. ASSUME NEW i \in 1..(Len(s) + 1)
      PROVE  Append(s, u)[i].prev \in
               {Receipts, IF i = 1 THEN 0 ELSE Append(s, u)[i - 1].id}
  <2>1. CASE i = Len(s) + 1
    <3>1. CASE s = <<>>
      BY <1>1, <1>2, <2>1, <3>1
    <3>2. CASE s # <<>>
      <4>1. i # 1 /\ i - 1 = Len(s) /\ i - 1 \in 1..Len(s)
        BY <1>1, <1>2, <2>1, <3>2
      <4>. QED  BY <1>1, <2>1, <3>2, <4>1
    <3>. QED  BY <3>1, <3>2
  <2>2. CASE i \in 1..Len(s)
    <3>1. i = 1 \/ i - 1 \in 1..Len(s)
      BY <1>1, <2>2
    <3>. QED  BY <1>1, <2>2, <3>1 DEF Chained
  <2>. QED  BY <1>1, <2>1, <2>2
<1>. QED  BY <1>1, <1>3 DEF Chained, Held

\* An end that signs holds what its peer holds, and is one update ahead then.
LEMMA CountersignLedger ==
  ASSUME IInv, Even, Wired, Retained, NEW e \in Ends, CountersignStateUpdate(e)
  PROVE  /\ (Even /\ Wired /\ Retained)'
         /\ states[e] = states[Peer(e)]
         /\ Follows(Peer(e), states[e], Received(e).update)
<1>. DEFINE p == Peer(e)
            u == Received(e).update
            m == [type |-> "signed", update |-> u]
            n == Len(wire[e]) + 1
<1>1. /\ p \in Ends /\ p # e /\ Ends = {e, p} /\ Peer(p) = e /\ Peer(e) = p
      /\ wire \in [Ends -> Seq(Message)] /\ sequence \in [Ends -> Nat]
      /\ states \in [Ends -> Seq(Update)] /\ balance \in [Ends -> Balances]
      /\ {Agent, Server} = {e, p}
  BY TwoEnds DEF IInv, TypeOK
<1>2. /\ wire[p] # <<>> /\ u \in Update /\ u.seq \in Nat
      /\ state[e] # "OPENING" /\ u.seq = sequence[e] + 1
      /\ Received(e).type = "proposal"
  BY ReceivedUpdate DEF CountersignStateUpdate, Update
<1>3. /\ wire'[e] = Append(wire[e], m) /\ wire'[p] = Tail(wire[p])
      /\ sequence'[e] = u.seq /\ sequence'[p] = sequence[p]
      /\ states'[e] = Append(states[e], u) /\ states'[p] = states[p]
      /\ balance'[e] = u.balance /\ balance'[p] = balance[p]
      /\ state' = state
  BY <1>1 DEF CountersignStateUpdate, Adopt, Answered, Dropped
<1>4. 1 \in Proposals(p) /\ Number(p, 1) = u.seq /\ wire[p][1].update = u /\ 1 \notin Answers(p)
  BY <1>1, ReceivedAt DEF CountersignStateUpdate, LedgerTypes, Proposals, Answers, Number
<1>. HIDE DEF p, u
<1>5. /\ OneOutstanding(e) /\ Numbered(e) /\ Linked(e) /\ OneAhead(e)
      /\ OneOutstanding(p) /\ Numbered(p) /\ Linked(p) /\ OneAhead(p)
  BY <1>1 DEF Wired
<1>6. Answers(e) = {}
  BY <1>1, <1>4, <1>5 DEF OneOutstanding
<1>7. Answers(p) = {}
  <2>. SUFFICES ASSUME NEW j \in Answers(p) PROVE FALSE
    OBVIOUS
  <2>1. wire[p][j] \in Message /\ wire[p][j].type = "signed" /\ j \in Nat /\ j >= 1
    BY <1>1 DEF Answers, At
  <2>2. wire[p][j] \in [type : {"proposal", "signed"}, update : Update]
    BY <2>1 DEF Message
  <2>3. Number(p, j) \in Nat
    BY <2>2 DEF Number, Update
  <2>4. 1 < j
    BY <1>4, <2>1
  <2>5. Number(p, 1) < Number(p, j) /\ Number(p, j) =< sequence[e]
    BY <1>1, <1>4, <1>5, <2>4 DEF Numbered
  <2>. QED  BY <1>1, <1>2, <1>4, <2>3, <2>5
<1>8. states[e] = states[p]
  BY <1>1, <1>6, <1>7 DEF Even
<1>9. Follows(p, states[e], u) /\ u.prev \in {LastHash(e), Receipts}
  <2>1. Follows(p, states[e], u)
    BY <1>4, <1>5, <1>7, <1>8 DEF Linked
  <2>. QED  BY <2>1 DEF Follows, LastHash
<1>10. Proposals(p)' = {} /\ Answers(p)' = {}
  <2>1. \A t : \A i \in At(Tail(wire[p]), t) : i + 1 \in At(wire[p], t) /\ i >= 1 /\ i \in Nat
    BY <1>1, <1>2, TailAt
  <2>2. \A i \in Proposals(p)' : i + 1 \in Proposals(p) /\ i >= 1 /\ i \in Nat
    BY <1>3, <2>1 DEF Proposals
  <2>3. \A i \in Answers(p)' : i + 1 \in Answers(p)
    BY <1>3, <2>1 DEF Answers
  <2>4. \A i \in Proposals(p) : i = 1
    BY <1>4, <1>5 DEF OneOutstanding
  <2>. QED  BY <1>7, <2>2, <2>3, <2>4
<1>11. n \in Nat /\ wire'[e][n] = m /\ m.type = "signed" /\ m.update = u
  BY <1>1, <1>3
<1>12. Answers(e)' = {n} /\ Proposals(e)' = Proposals(e)
  <2>1. \A i : i \in 1..Len(wire'[e]) <=> i \in 1..Len(wire[e]) \/ i = n
    BY <1>1, <1>3
  <2>2. \A i \in 1..Len(wire[e]) : wire'[e][i] = wire[e][i]
    BY <1>1, <1>3
  <2>3. Answers(e)' = {n}
    BY <1>6, <1>11, <2>1, <2>2 DEF Answers, At
  <2>4. Proposals(e)' = Proposals(e)
    BY <1>11, <2>1, <2>2 DEF Proposals, At
  <2>. QED  BY <2>3, <2>4
<1>13. \A i \in Proposals(e) :
         /\ i \in Nat /\ i < n /\ wire'[e][i] = wire[e][i]
         /\ Number(e, i) \in Nat /\ Number(e, i) =< sequence[e]
         /\ Number(e, i)' = Number(e, i)
  <2>. SUFFICES ASSUME NEW i \in Proposals(e)
                PROVE  /\ i \in Nat /\ i < n /\ wire'[e][i] = wire[e][i]
                       /\ Number(e, i) \in Nat /\ Number(e, i) =< sequence[e]
                       /\ Number(e, i)' = Number(e, i)
    OBVIOUS
  <2>1. i \in Nat /\ i < n /\ wire'[e][i] = wire[e][i]
    BY <1>1, <1>3 DEF Proposals, At
  <2>2. wire[e][i] \in Message /\ wire[e][i].type = "proposal"
    BY <1>1 DEF Proposals, At
  <2>3. wire[e][i] \in [type : {"proposal", "signed"}, update : Update]
    BY <2>2 DEF Message
  <2>. QED  BY <1>5, <2>1, <2>3 DEF Number, Numbered, Update
<1>. HIDE DEF n, m
<1>14. Even'
  BY <1>1, <1>12 DEF Even
<1>15. OneOutstanding(e)' /\ OneOutstanding(p)'
  BY <1>1, <1>5, <1>10, <1>12 DEF OneOutstanding
<1>16. Numbered(e)' /\ Numbered(p)'
  <2>2. u.seq =< sequence[p]
    BY <1>4, <1>5 DEF Numbered
  <2>3. \A i \in Proposals(e)' : Number(e, i)' =< sequence'[e] /\ Number(e, i)' < u.seq
    BY <1>1, <1>2, <1>3, <1>12, <1>13
  <2>4. \A j \in Answers(e)' : Number(e, j)' = u.seq
    BY <1>11, <1>12 DEF Number
  <2>5. Numbered(e)'
    <3>1. \A j \in Answers(e)' : Number(e, j)' =< sequence'[Peer(e)]
      BY <1>1, <1>3, <2>2, <2>4
    <3>2. \A i \in Proposals(e)', j \in Answers(e)' : Number(e, i)' < Number(e, j)'
      BY <2>3, <2>4
    <3>. QED  BY <2>3, <3>1, <3>2 DEF Numbered
  <2>6. Numbered(p)'
    BY <1>10 DEF Numbered
  <2>. QED  BY <2>5, <2>6
<1>17. Linked(e)' /\ Linked(p)'
  BY <1>10, <1>11, <1>12, <1>13 DEF Linked
<1>18. OneAhead(e)' /\ OneAhead(p)'
  <2>1. OneAhead(e)'
    <3>1. \A j \in Answers(e)' : wire'[e][j].update = u
      BY <1>11, <1>12
    <3>2. states'[e] = Append(states'[Peer(e)], u) /\ Answers(Peer(e))' = {}
      BY <1>1, <1>3, <1>8, <1>10
    <3>. QED  BY <3>1, <3>2 DEF OneAhead
  <2>2. OneAhead(p)'
    BY <1>10 DEF OneAhead
  <2>. QED  BY <2>1, <2>2
<1>19. Retained'
  <2>1. Paying(e) /\ Chained(states[e]) /\ Paying(p) /\ Chained(states[p])
    BY <1>1 DEF Retained
  <2>2. Chained(states'[e]) /\ Held(states'[e]) = u.balance
    BY <1>1, <1>2, <1>3, <1>9, <2>1, ChainedAppend DEF LastHash
  <2>3. Paying(e)'
    BY <1>2, <1>3, <2>2 DEF Paying
  <2>4. Paying(p)' /\ Chained(states[p])'
    BY <1>3, <2>1 DEF Paying
  <2>. QED  BY <1>1, <2>2, <2>3, <2>4 DEF Retained
<1>20. Wired'
  BY <1>1, <1>15, <1>16, <1>17, <1>18 DEF Wired
<1>. QED  BY <1>8, <1>9, <1>14, <1>19, <1>20 DEF p, u

\* The answer brings its receiver what the peer has held since it signed.
LEMMA ApplyLedger ==
  ASSUME IInv, Even, Wired, Retained, NEW e \in Ends, ApplyStateUpdate(e)
  PROVE  /\ (Even /\ Wired /\ Retained)'
         /\ states[Peer(e)] = Append(states[e], Received(e).update)
<1>. DEFINE p == Peer(e)
            u == Received(e).update
<1>1. /\ p \in Ends /\ p # e /\ Ends = {e, p} /\ Peer(p) = e /\ Peer(e) = p
      /\ wire \in [Ends -> Seq(Message)] /\ sequence \in [Ends -> Nat]
      /\ states \in [Ends -> Seq(Update)] /\ balance \in [Ends -> Balances]
      /\ {Agent, Server} = {e, p}
  BY TwoEnds DEF IInv, TypeOK
<1>2. /\ wire[p] # <<>> /\ u \in Update /\ state[e] # "OPENING"
  BY ReceivedUpdate DEF ApplyStateUpdate
<1>3. /\ wire'[e] = wire[e] /\ wire'[p] = Tail(wire[p])
      /\ sequence'[e] = u.seq /\ sequence'[p] = sequence[p]
      /\ states'[e] = Append(states[e], u) /\ states'[p] = states[p]
      /\ balance'[e] = u.balance /\ balance'[p] = balance[p]
      /\ state' = state
  BY <1>1 DEF ApplyStateUpdate, Adopt, Dropped
<1>4. 1 \in Answers(p) /\ wire[p][1].update = u /\ 1 \notin Proposals(p)
  BY <1>1, ReceivedAt DEF ApplyStateUpdate, LedgerTypes, Proposals, Answers
<1>. HIDE DEF p, u
<1>5. /\ OneOutstanding(e) /\ OneOutstanding(p) /\ OneAhead(p)
      /\ Numbered(p) /\ Linked(p)
  BY <1>1 DEF Wired
<1>6. /\ Answers(e) = {} /\ Proposals(e) = {}
      /\ states[p] = Append(states[e], u)
  BY <1>1, <1>4, <1>5 DEF OneAhead, OneOutstanding
<1>7. Answers(e)' = {} /\ Proposals(e)' = {}
  BY <1>3, <1>6 DEF Answers, Proposals
<1>8. \A t : \A i \in At(Tail(wire[p]), t) :
        /\ i + 1 \in At(wire[p], t) /\ i >= 1 /\ i \in Nat
        /\ Tail(wire[p])[i] = wire[p][i + 1]
  BY <1>1, <1>2, TailAt
<1>9. Answers(p)' = {}
  <2>1. \A i \in Answers(p)' : i + 1 \in Answers(p) /\ i >= 1 /\ i \in Nat
    BY <1>3, <1>8 DEF Answers
  <2>2. \A i \in Answers(p) : i = 1
    BY <1>4, <1>5 DEF OneOutstanding
  <2>. QED  BY <2>1, <2>2
<1>10. \A i \in Proposals(p)' :
         /\ i + 1 \in Proposals(p) /\ i >= 1 /\ i \in Nat
         /\ wire'[p][i] = wire[p][i + 1]
  BY <1>3, <1>8 DEF Proposals
<1>11. states'[e] = states'[p]
  BY <1>3, <1>6
<1>12. Even'
  BY <1>1, <1>11 DEF Even
<1>13. OneOutstanding(e)' /\ OneOutstanding(p)'
  <2>1. \A i, j \in Proposals(p)' : i = j
    BY <1>5, <1>10 DEF OneOutstanding
  <2>. QED  BY <1>1, <1>7, <1>9, <2>1 DEF OneOutstanding
<1>14. Numbered(e)' /\ Numbered(p)'
  <2>1. \A i \in Proposals(p)' : Number(p, i)' =< sequence'[p]
    BY <1>3, <1>5, <1>10 DEF Numbered, Number
  <2>. QED  BY <1>7, <1>9, <2>1 DEF Numbered
<1>15. Linked(e)' /\ Linked(p)'
  <2>1. ASSUME NEW i \in Proposals(p)'
        PROVE  Follows(p, states'[p], wire'[p][i].update)
    <3>1. \A j \in Answers(p) : j = 1
      BY <1>4, <1>5 DEF OneOutstanding
    <3>2. \A j \in Answers(p) : j < i + 1
      BY <1>10, <3>1
    <3>3. Follows(p, states[p], wire[p][i + 1].update)
      BY <1>5, <1>10, <3>2 DEF Linked
    <3>. QED  BY <1>3, <1>10, <3>3
  <2>. QED  BY <1>7, <2>1 DEF Linked
<1>16. OneAhead(e)' /\ OneAhead(p)'
  BY <1>7, <1>9 DEF OneAhead
<1>17. Retained'
  <2>1. Paying(p) /\ Chained(states[p])
    BY <1>1 DEF Retained
  <2>2. Held(states'[e]) = u.balance
    <3>1. ASSUME NEW s \in Seq(Update), NEW v \in Update
          PROVE  Held(Append(s, v)) = v.balance
      <4>1. /\ Append(s, v) \in Seq(Update)
            /\ Len(Append(s, v)) = Len(s) + 1 /\ Len(s) \in Nat
            /\ Append(s, v)[Len(s) + 1] = v
        OBVIOUS
      <4>2. Append(s, v) # <<>>
        BY <4>1
      <4>. QED  BY <4>1, <4>2 DEF Held
    <3>. QED  BY <1>1, <1>2, <1>3, <3>1
  <2>3. Paying(e)'
    BY <1>2, <1>3, <2>2 DEF Paying
  <2>4. Chained(states'[e])
    BY <1>3, <1>11, <2>1
  <2>5. Paying(p)' /\ Chained(states'[p])
    BY <1>3, <2>1 DEF Paying
  <2>. QED  BY <1>1, <2>3, <2>4, <2>5 DEF Retained
<1>18. Wired'
  BY <1>1, <1>13, <1>14, <1>15, <1>16 DEF Wired
<1>. QED  BY <1>6, <1>12, <1>17, <1>18 DEF p, u

\* The steps that do not pay keep the balances of the open ends.
LEMMA KeptStep ==
  ASSUME Retained, states' = states,
         \A f \in Ends :
           /\ state'[f] = "OPENING" => state[f] = "OPENING"
           /\ state'[f] = "OPEN" => \/ state[f] = "OPEN" /\ balance'[f] = balance[f]
                                   \/ balance'[f] = Held(states[f])
  PROVE  Retained'
BY DEF Retained, Paying, Chained

\* The steps of the opening and the closing, a refusal and a challenge.
LEMMA OtherLedger ==
  ASSUME IInv, Even, Wired, Retained, NEW e \in Ends,
         \/ CreateChannelOpen \/ ProcessChannelOpen \/ AcceptChannel
         \/ RefuseStateUpdate(e)
         \/ CreateChannelClose(e) \/ CountersignClose(e)
         \/ CreateUnilateralClose(e) \/ WindowEnds(e) \/ FinalizeClose(e)
         \/ \E u \in Evidence(e) : Challenge(e, u)
  PROVE  (Even /\ Wired /\ Retained)'
<1>. DEFINE Raised == \A f \in Ends : sequence'[f] \in Nat /\ sequence'[f] >= sequence[f]
<1>0. /\ Agent \in Ends /\ Server \in Ends /\ Agent # Server
      /\ Peer(Agent) = Server /\ Peer(Server) = Agent
      /\ wire \in [Ends -> Seq(Message)] /\ sequence \in [Ends -> Nat]
      /\ balance \in [Ends -> Balances] /\ state \in [Ends -> ChannelStates]
      /\ \A f \in Ends : f = Agent \/ f = Server
  BY DEF Ends, Agent, Server, Peer, IInv, TypeOK
<1>1. ASSUME sequence' = sequence
      PROVE  Raised
  BY <1>0, <1>1
<1>2. CASE CreateChannelOpen
  <2>. DEFINE m == [type |-> "open", amount |-> AgentDeposit]
  <2>1. m \in Message /\ m.type \notin LedgerTypes
    BY ChannelAssumption DEF Message, LedgerTypes
  <2>2. /\ wire'[Agent] = Append(wire[Agent], m) /\ wire'[Server] = wire[Server]
        /\ states' = states /\ sequence' = sequence /\ state' = state
        /\ state[Agent] = "OPENING" /\ balance'[Server] = balance[Server]
    BY <1>0, <1>2 DEF CreateChannelOpen, Sent
  <2>. HIDE DEF m
  <2>3. \A f \in Ends : Quieter(f)
    BY <1>0, <2>1, <2>2 DEF Quieter
  <2>4. Retained'
    BY <1>0, <2>2, KeptStep
  <2>. QED  BY <1>1, <2>2, <2>3, <2>4, QuieterStep
<1>3. CASE ProcessChannelOpen
  <2>. DEFINE m == [type |-> "opened", amount |-> ServerDeposit]
  <2>1. m \in Message /\ m.type \notin LedgerTypes
    BY ChannelAssumption DEF Message, LedgerTypes
  <2>2. /\ wire[Agent] # <<>> /\ Head(wire[Agent]).type = "open"
        /\ Received(Server) = Head(wire[Agent])
    BY <1>0, <1>3 DEF ProcessChannelOpen, Receives, Received
  <2>3. Received(Server).amount = AgentDeposit
    BY <1>0, <2>2, TailWire DEF IInv, Sound, SoundMessage
  <2>4. state[Server] = "OPENING"
    BY <1>0, <2>2, TailWire DEF IInv, Opening
  <2>5. /\ wire'[Agent] = Tail(wire[Agent]) /\ wire'[Server] = Append(wire[Server], m)
        /\ states' = states /\ sequence' = sequence
        /\ state'[Agent] = state[Agent] /\ state'[Server] = "OPEN"
        /\ balance'[Agent] = balance[Agent]
        /\ balance'[Server] = [agent |-> AgentDeposit, server |-> ServerDeposit]
    BY <1>0, <1>3, <2>3 DEF ProcessChannelOpen, Answered, Dropped
  <2>. HIDE DEF m
  <2>6. \A f \in Ends : Quieter(f)
    BY <1>0, <2>1, <2>2, <2>5 DEF Quieter
  <2>7. balance'[Server] = Held(states[Server])
    BY <1>0, <2>4, <2>5 DEF Retained, Paying, Held
  <2>8. Retained'
    BY <1>0, <2>5, <2>7, KeptStep
  <2>. QED  BY <1>1, <2>5, <2>6, <2>8, QuieterStep
<1>4. CASE AcceptChannel
  <2>2. /\ wire[Server] # <<>> /\ Head(wire[Server]).type = "opened"
        /\ Received(Agent) = Head(wire[Server])
    BY <1>0, <1>4 DEF AcceptChannel, Receives, Received
  <2>3. Received(Agent).amount = ServerDeposit
    BY <1>0, <2>2, TailWire DEF IInv, Sound, SoundMessage
  <2>4. state[Agent] = "OPENING" /\ balance[Agent].agent = AgentDeposit
    BY <1>0, <2>2, TailWire DEF IInv, Opening
  <2>5. /\ wire'[Server] = Tail(wire[Server]) /\ wire'[Agent] = wire[Agent]
        /\ states' = states /\ sequence' = sequence
        /\ state'[Server] = state[Server]
        /\ balance'[Server] = balance[Server]
        /\ balance'[Agent] = [balance[Agent] EXCEPT !.server = ServerDeposit]
    BY <1>0, <1>4, <2>3 DEF AcceptChannel, Dropped
  <2>6. \A f \in Ends : Quieter(f)
    BY <1>0, <2>2, <2>5 DEF Quieter
  <2>7. balance'[Agent] = Held(states[Agent])
    <3>1. balance'[Agent] = [agent |-> AgentDeposit, server |-> ServerDeposit]
      BY <1>0, <2>4, <2>5 DEF Balances
    <3>. QED  BY <1>0, <2>4, <3>1 DEF Retained, Paying, Held
  <2>8. state'[Agent] = "OPEN"
    BY <1>0, <1>4 DEF AcceptChannel
  <2>9. Retained'
    BY <1>0, <2>5, <2>7, <2>8, KeptStep
  <2>. QED  BY <1>1, <2>5, <2>6, <2>9, QuieterStep
<1>5. CASE RefuseStateUpdate(e) \/ CountersignClose(e)
  <2>1. /\ wire[Peer(e)] # <<>> /\ Head(wire[Peer(e)]).type # "signed"
    BY <1>5 DEF RefuseStateUpdate, CountersignClose, Receives
  <2>2. /\ wire' = [wire EXCEPT ![Peer(e)] = Tail(wire[Peer(e)])]
        /\ states' = states /\ sequence' = sequence /\ balance' = balance
        /\ \A f \in Ends : state'[f] \in {state[f], "CLOSED"}
    BY <1>0, <1>5 DEF RefuseStateUpdate, CountersignClose, Dropped
  <2>3. Peer(e) \in Ends
    BY DEF Peer, Ends
  <2>4. \A f \in Ends : Quieter(f)
    BY <1>0, <2>1, <2>2, <2>3 DEF Quieter
  <2>5. Retained'
    BY <2>2, KeptStep
  <2>. QED  BY <1>1, <2>2, <2>4, <2>5, QuieterStep
<1>6. CASE CreateChannelClose(e)
  <2>. DEFINE m == [type |-> "close", final |-> balance[e]]
  <2>1. m \in Message /\ m.type \notin LedgerTypes
    BY <1>0 DEF Message, LedgerTypes
  <2>2. /\ wire' = [wire EXCEPT ![e] = Append(wire[e], m)]
        /\ states' = states /\ sequence' = sequence /\ balance' = balance
        /\ state' = state
    BY <1>6 DEF CreateChannelClose, Sent
  <2>. HIDE DEF m
  <2>3. \A f \in Ends : Quieter(f)
    BY <1>0, <2>1, <2>2 DEF Quieter
  <2>4. Retained'
    BY <2>2, KeptStep
  <2>. QED  BY <1>1, <2>2, <2>3, <2>4, QuieterStep
<1>7. CASE CreateUnilateralClose(e) \/ WindowEnds(e) \/ FinalizeClose(e)
  <2>1. /\ wire' = wire /\ states' = states /\ sequence' = sequence
        /\ balance' = balance
        /\ \A f \in Ends : state'[f] \in {state[f], "CLOSED", "CLOSING"}
    BY <1>0, <1>7 DEF CreateUnilateralClose, WindowEnds, FinalizeClose
  <2>2. \A f \in Ends : Quieter(f)
    BY <2>1 DEF Quieter
  <2>3. Retained'
    BY <2>1, KeptStep
  <2>. QED  BY <1>1, <2>1, <2>2, <2>3, QuieterStep
<1>8. ASSUME NEW u \in Evidence(e), Challenge(e, u)
      PROVE  (Even /\ Wired /\ Retained)'
  <2>1. u.seq \in Nat
    BY EvidenceSound DEF Update
  <2>2. /\ wire' = wire /\ states' = states
        /\ sequence'[e] = u.seq /\ u.seq > sequence[e]
        /\ \A f \in Ends : f # e => /\ sequence'[f] = sequence[f]
                                    /\ balance'[f] = balance[f]
                                    /\ state'[f] = state[f]
        /\ state'[e] = "DISPUTED"
    BY <1>0, <1>8 DEF Challenge
  <2>3. Raised
    BY <1>0, <2>1, <2>2
  <2>4. \A f \in Ends : Quieter(f)
    BY <2>2 DEF Quieter
  <2>5. Retained'
    BY <2>2, KeptStep
  <2>. QED  BY <2>2, <2>3, <2>4, <2>5, QuieterStep
<1>. QED  BY <1>2, <1>3, <1>4, <1>5, <1>6, <1>7, <1>8

\* An end holds no award now if it holds none after an update was appended.
LEMMA AwardFreeBefore ==
  ASSUME IInv, [Next]_vars
  PROVE  /\ AwardFree' => AwardFree
         /\ \A e \in Ends, award \in Awards : ApplyVerdict(e, award) => ~ AwardFree'
         /\ AwardFree' => \/ states' = states
                          \/ \E e \in Ends : CountersignStateUpdate(e) \/ ApplyStateUpdate(e)
         /\ patient' = patient
<1>1. states \in [Ends -> Seq(Update)]
  BY DEF IInv, TypeOK
<1>2. ASSUME NEW e \in Ends, NEW u, states' = [states EXCEPT ![e] = Append(@, u)]
      PROVE  /\ AwardFree' => AwardFree
             /\ u.award => ~ AwardFree'
  <2>. DEFINE s == states[e]
  <2>1. /\ \A f \in Ends : f # e => states'[f] = states[f]
        /\ states'[e] = Append(s, u) /\ s \in Seq(Update)
    BY <1>1, <1>2
  <2>. HIDE DEF s
  <2>2. /\ Len(Append(s, u)) = Len(s) + 1 /\ Len(s) \in Nat
        /\ \A i \in 1..Len(s) : Append(s, u)[i] = s[i]
        /\ Append(s, u)[Len(s) + 1] = u
    BY <2>1
  <2>3. ASSUME AwardFree', NEW f \in Ends, NEW i \in 1..Len(states[f])
        PROVE  ~ states[f][i].award
    <3>1. CASE f = e
      BY <2>1, <2>2, <2>3, <3>1 DEF AwardFree, s
    <3>2. CASE f # e
      BY <2>1, <2>3, <3>2 DEF AwardFree
    <3>. QED  BY <3>1, <3>2
  <2>4. u.award => ~ AwardFree'
    BY <2>1, <2>2 DEF AwardFree
  <2>. QED  BY <2>3, <2>4 DEF AwardFree
<1>3. ASSUME states' = states
      PROVE  AwardFree' => AwardFree
  BY <1>3 DEF AwardFree
<1>4. ASSUME NEW e \in Ends, NEW award \in Awards, ApplyVerdict(e, award)
      PROVE  ~ AwardFree'
  <2>. DEFINE u == [id |-> created + 1, seq |-> sequence[e] + 1,
                    balance |-> Awarded(balance[e], award),
                    prev |-> LastHash(e), award |-> TRUE]
  <2>1. states' = [states EXCEPT ![e] = Append(@, u)] /\ u.award
    BY <1>4 DEF ApplyVerdict, Adopt
  <2>. HIDE DEF u
  <2>. QED  BY <1>2, <2>1
<1>5. patient' = patient
  BY DEF Next, vars, CreateChannelOpen, ProcessChannelOpen, AcceptChannel,
         CreateStateUpdate, CountersignStateUpdate, RefuseStateUpdate,
         ApplyStateUpdate, CreateChannelClose, CountersignClose,
         CreateUnilateralClose, WindowEnds, FinalizeClose, Challenge,
         ApplyVerdict
<1>6. \/ states' = states
      \/ \E e \in Ends : CountersignStateUpdate(e) \/ ApplyStateUpdate(e)
      \/ \E e \in Ends, award \in Awards : ApplyVerdict(e, award)
  BY DEF Next, vars, CreateChannelOpen, ProcessChannelOpen, AcceptChannel,
         CreateStateUpdate, RefuseStateUpdate, CreateChannelClose,
         CountersignClose, CreateUnilateralClose, WindowEnds, FinalizeClose,
         Challenge
<1>7. ASSUME NEW e \in Ends, CountersignStateUpdate(e) \/ ApplyStateUpdate(e)
      PROVE  AwardFree' => AwardFree
  <2>1. states' = [states EXCEPT ![e] = Append(@, Received(e).update)]
    BY <1>7 DEF CountersignStateUpdate, ApplyStateUpdate, Adopt
  <2>. QED  BY <1>2, <2>1
<1>. QED  BY <1>3, <1>4, <1>5, <1>6, <1>7

\* Nothing is held or said at first.
LEMMA LedgerInitially == Init => Ledger
<1>. SUFFICES ASSUME Init PROVE Ledger
  OBVIOUS
<1>1. \A e \in Ends : /\ wire[e] = <<>> /\ states[e] = <<>>
                      /\ state[e] = "OPENING"
  BY DEF Init
<1>2. \A e \in Ends : Proposals(e) = {} /\ Answers(e) = {}
  BY <1>1 DEF Proposals, Answers, At
<1>3. Wired
  BY <1>2 DEF Wired, OneOutstanding, Numbered, Linked, OneAhead
<1>4. Even
  BY <1>1 DEF Even, Ends
<1>5. Retained
  BY <1>1 DEF Retained, Paying, Chained
<1>. QED  BY <1>3, <1>4, <1>5 DEF Ledger

\* Every step of the channel keeps the two ledgers in line.
LEMMA LedgerInductive == IInv /\ Ledger /\ [Next]_vars => Ledger'
<1>. SUFFICES ASSUME IInv, Ledger, [Next]_vars, patient', AwardFree'
              PROVE  (Even /\ Wired /\ Retained)'
  BY DEF Ledger
<1>1. patient /\ Even /\ Wired /\ Retained
  BY AwardFreeBefore DEF Ledger
<1>2. ASSUME NEW e \in Ends, NEW cost \in Costs,
             NEW prev \in 0..MaxUpdates \cup {Receipts},
             CreateStateUpdate(e, cost, prev)
      PROVE  (Even /\ Wired /\ Retained)'
  <2>1. Even' /\ Wired'
    BY <1>1, <1>2, ProposeLedger
  <2>2. states' = states /\ state' = state /\ balance' = balance
    BY <1>2 DEF CreateStateUpdate
  <2>3. Retained'
    BY <1>1, <2>2, KeptStep
  <2>. QED  BY <2>1, <2>3
<1>3. ASSUME NEW e \in Ends,
             \/ CountersignStateUpdate(e)
             \/ ApplyStateUpdate(e)
      PROVE  (Even /\ Wired /\ Retained)'
  BY <1>1, <1>3, CountersignLedger, ApplyLedger
<1>4. ASSUME NEW e \in Ends,
             \/ RefuseStateUpdate(e)
             \/ CreateChannelClose(e) \/ CountersignClose(e)
             \/ CreateUnilateralClose(e) \/ WindowEnds(e) \/ FinalizeClose(e)
             \/ \E u \in Evidence(e) : Challenge(e, u)
      PROVE  (Even /\ Wired /\ Retained)'
  BY <1>1, <1>4, OtherLedger
<1>5. ASSUME CreateChannelOpen \/ ProcessChannelOpen \/ AcceptChannel
      PROVE  (Even /\ Wired /\ Retained)'
  BY <1>1, <1>5, OtherLedger DEF Ends
<1>6. ASSUME NEW e \in Ends, NEW award \in Awards, ApplyVerdict(e, award)
      PROVE  FALSE
  BY <1>6, AwardFreeBefore
<1>7. CASE UNCHANGED vars
  <2>1. /\ states' = states /\ state' = state /\ balance' = balance
        /\ wire' = wire /\ sequence' = sequence
    BY <1>7 DEF vars
  <2>2. /\ \A f \in Ends : Quieter(f)
        /\ \A f \in Ends : sequence'[f] \in Nat /\ sequence'[f] >= sequence[f]
    BY <2>1 DEF Quieter, IInv, TypeOK
  <2>3. Retained'
    BY <1>1, <2>1, KeptStep
  <2>. QED  BY <1>1, <2>1, <2>2, <2>3, QuieterStep
<1>. QED  BY <1>2, <1>3, <1>4, <1>5, <1>6, <1>7 DEF Next

\* Ends that await the answers to their proposals hold the same updates and,
\* if open, the same balances once nothing is on its way: of proposals that
\* cross, both ends adopt the same ones.
SameUpdates ==
  patient /\ wire[Agent] = <<>> /\ wire[Server] = <<>> /\ AwardFree =>
    /\ states[Agent] = states[Server]
    /\ state[Agent] = "OPEN" /\ state[Server] = "OPEN" =>
         balance[Agent] = balance[Server]

\* Ends that await the answers to their proposals get a hash chain until a
\* verdict intervenes: every update they hold names the one before it, or the
\* receipts it pays for.
StatesChain ==
  patient /\ AwardFree =>
    \A e \in Ends : \A i \in 1..Len(states[e]) :
      states[e][i].prev \in
        {Receipts, IF i = 1 THEN 0 ELSE states[e][i - 1].id}

\* Two ends that await the answers to their proposals keep one ledger, which is
\* a hash chain.
EndsAgree == SameUpdates /\ StatesChain

\* Two objects of PaymentChannel whose owners wait for the countersignature of
\* a proposal before they make the next hold the same updates and, if open, the
\* same balances whenever nothing is on its way, and what they hold is a hash
\* chain: whichever proposals cross, both refuse the same ones, whatever closes
\* and challenges intervene.
THEOREM LedgerAgreed == Spec => []EndsAgree
<1>1. IInv /\ Ledger => EndsAgree
  <2>. SUFFICES ASSUME IInv, Ledger PROVE EndsAgree
    OBVIOUS
  <2>0. Agent \in Ends /\ Server \in Ends /\ \A e \in Ends : e = Agent \/ e = Server
    BY DEF Ends
  <2>1. SameUpdates
    <3>. SUFFICES ASSUME patient, wire[Agent] = <<>>, wire[Server] = <<>>, AwardFree
                  PROVE  /\ states[Agent] = states[Server]
                         /\ state[Agent] = "OPEN" /\ state[Server] = "OPEN" =>
                              balance[Agent] = balance[Server]
      BY DEF SameUpdates
    <3>1. \A e \in Ends : Answers(e) = {}
      BY <2>0 DEF Answers, At
    <3>. QED  BY <2>0, <3>1 DEF Ledger, Even, Retained, Paying
  <2>2. StatesChain
    BY DEF Ledger, Retained, Chained, StatesChain
  <2>. QED  BY <2>1, <2>2 DEF EndsAgree
<1>2. Spec => []Ledger
  BY LedgerInitially, LedgerInductive, Invariance, PTL DEF Spec
<1>. QED  BY <1>1, <1>2, Invariance, PTL

-----------------------------------------------------------------------------
(* The channel implements one book.                                        *)

\* The book the ends keep while the promise stands, and what is known of it.
Book == IF Promised THEN states[Longer] ELSE <<>>
Read == [e \in Ends |-> IF Promised THEN Len(states[e]) ELSE 0]
Purse == [e \in {f \in Ends : Promised /\ state[f] = "OPEN"} |-> balance[e]]
Idle == Promised /\ wire[Agent] = <<>> /\ wire[Server] = <<>>
bookvars == <<Promised, Book, Read, Purse, Idle>>

\* One of the ends holds what the other holds, or one update more.
LEMMA OneLonger ==
  ASSUME IInv, Even, Wired, NEW e \in Ends
  PROVE  \/ states[Longer] = states[e]
         \/ \E u \in Update : states[Longer] = Append(states[e], u)
<1>. DEFINE p == Peer(e)
<1>1. /\ p \in Ends /\ p # e /\ Ends = {e, p} /\ Peer(p) = e /\ {Agent, Server} = {e, p}
      /\ states \in [Ends -> Seq(Update)] /\ wire \in [Ends -> Seq(Message)]
  BY TwoEnds DEF IInv, TypeOK
<1>. HIDE DEF p
<1>2. Longer = e \/ Longer = p
  BY <1>1 DEF Longer
<1>3. \A f \in Ends : states[f] \in Seq(Update) /\ Len(states[f]) \in Nat
  BY <1>1
<1>4. Len(states[Longer]) >= Len(states[e])
  <2>1. e = Agent \/ e = Server
    BY <1>1
  <2>2. Agent \in Ends /\ Server \in Ends
    BY <1>1
  <2>. QED  BY <1>3, <2>1, <2>2 DEF Longer
<1>5. ASSUME NEW f \in Ends, NEW j \in Answers(f)
      PROVE  /\ wire[f][j].update \in Update
             /\ states[f] = Append(states[Peer(f)], wire[f][j].update)
  <2>1. wire[f][j] \in Message /\ wire[f][j].type = "signed"
    BY <1>1, <1>5 DEF Answers, At
  <2>2. wire[f][j] \in [type : {"proposal", "signed"}, update : Update]
    BY <2>1 DEF Message
  <2>. QED  BY <1>5, <2>2 DEF Wired, OneAhead
<1>6. CASE Longer = e
  BY <1>6
<1>7. CASE Longer = p
  <2>1. CASE Answers(p) # {}
    BY <1>1, <1>5, <1>7, <2>1
  <2>2. CASE Answers(e) # {}
    <3>0. PICK j \in Answers(e) : TRUE
      BY <2>2
    <3>1. PICK u \in Update : states[e] = Append(states[p], u)
      BY <1>1, <1>5, <3>0 DEF p
    <3>2. Len(states[e]) = Len(states[p]) + 1
      BY <1>1, <1>3, <3>1
    <3>. QED  BY <1>1, <1>3, <1>4, <1>7, <3>2
  <2>3. CASE Answers(e) = {} /\ Answers(p) = {}
    BY <1>1, <1>7, <2>3 DEF Even
  <2>. QED  BY <2>1, <2>2, <2>3
<1>. QED  BY <1>2, <1>6, <1>7

\* What an end knows of the book is what it holds.
LEMMA KnownHeld ==
  ASSUME NEW s \in Seq(Update), NEW t \in Seq(Update),
         t = s \/ \E u \in Update : t = Append(s, u)
  PROVE  /\ Len(s) \in Nat
         /\ Held(s) = IF Len(s) = 0 THEN [agent |-> AgentDeposit, server |-> ServerDeposit]
                      ELSE t[Len(s)].balance
<1>1. Len(s) \in Nat /\ (Len(s) = 0 <=> s = <<>>)
  OBVIOUS
<1>2. ASSUME s # <<>> PROVE t[Len(s)] = s[Len(s)]
  <2>1. Len(s) \in 1 .. Len(s)
    BY <1>1, <1>2
  <2>2. ASSUME NEW u \in Update PROVE Append(s, u)[Len(s)] = s[Len(s)]
    BY <2>1
  <2>3. CASE t = s
    BY <2>3
  <2>4. ASSUME NEW u \in Update, t = Append(s, u) PROVE t[Len(s)] = s[Len(s)]
    BY <2>2, <2>4
  <2>. QED  BY <2>3, <2>4
<1>. QED  BY <1>1, <1>2 DEF Held

\* An open end pays out of the balances of the last update it knows, and both
\* know the whole book when nothing is on its way.
LEMMA PursesFull == IInv /\ Ledger => Shared!PursesMatch /\ Shared!Told
<1>. SUFFICES ASSUME IInv, Ledger PROVE Shared!PursesMatch /\ Shared!Told
  OBVIOUS
<1>1. states \in [Ends -> Seq(Update)] /\ Longer \in Ends
  BY DEF IInv, TypeOK, Longer, Ends
<1>2. ASSUME NEW e \in Ends, Promised, state[e] = "OPEN"
      PROVE  balance[e] = IF Len(states[e]) = 0 THEN [agent |-> AgentDeposit, server |-> ServerDeposit]
                          ELSE states[Longer][Len(states[e])].balance
  <2>1. Even /\ Wired /\ Retained
    BY <1>2 DEF Ledger, Promised
  <2>2. states[Longer] = states[e] \/ \E u \in Update : states[Longer] = Append(states[e], u)
    BY <2>1, OneLonger
  <2>3. states[e] \in Seq(Update) /\ states[Longer] \in Seq(Update)
    BY <1>1
  <2>4. balance[e] = Held(states[e])
    BY <1>2, <2>1 DEF Retained, Paying
  <2>. QED  BY <2>2, <2>3, <2>4, KnownHeld
<1>3. Shared!PursesMatch
  <2>. SUFFICES ASSUME NEW e \in {f \in Ends : Promised /\ state[f] = "OPEN"}
                PROVE  balance[e] = IF Len(states[e]) = 0 THEN [agent |-> AgentDeposit, server |-> ServerDeposit]
                                    ELSE states[Longer][Len(states[e])].balance
    BY DEF Shared!PursesMatch, Shared!Balance
  <2>. QED  BY <1>2
<1>4. ASSUME Promised, wire[Agent] = <<>>, wire[Server] = <<>>, NEW e \in Ends
      PROVE  states[Longer] = states[e]
  <2>1. \A f \in Ends : Answers(f) = {}
    BY <1>4 DEF Answers, At, Ends
  <2>. QED  BY <1>1, <1>4, <2>1 DEF Ledger, Promised, Even, Ends
<1>5. Shared!Told
  BY <1>4 DEF Shared!Told
<1>. QED  BY <1>3, <1>5

\* The steps of the book, one for every kind of step of the channel.
LEMMA BookStep ==
  ASSUME IInv, Ledger, [Next]_vars, Shared!PursesMatch', Shared!Told'
  PROVE  [Shared!Next]_bookvars
<1>1. /\ states \in [Ends -> Seq(Update)] /\ Ends = {Agent, Server} /\ Agent # Server
      /\ \A e \in Ends : states[e] \in Seq(Update) /\ Len(states[e]) \in Nat
  BY DEF IInv, TypeOK, Ends, Agent, Server
<1>2. Promised' => Promised
  BY AwardFreeBefore DEF Promised
<1>3. CASE ~ Promised
  <2>1. ~ Promised'
    BY <1>2, <1>3
  <2>2. Promised' = Promised
    BY <1>3, <2>1 DEF Promised
  <2>3. Book' = Book /\ Read' = Read /\ Idle' = Idle
    BY <1>3, <2>1 DEF Book, Read, Idle
  <2>4. Purse' = Purse
    BY <1>3, <2>1 DEF Purse
  <2>. QED  BY <2>2, <2>3, <2>4 DEF bookvars
<1>4. CASE Promised /\ ~ Promised'
  BY <1>4 DEF Shared!Next, Shared!Part, Shared!Nothing
<1>5. CASE Promised /\ Promised'
  <2>1. Even /\ Wired /\ Retained
    BY <1>5 DEF Ledger, Promised
  <2>2. SUFFICES UNCHANGED <<Book, Read>> \/ \E e \in Ends : Shared!Enter(e) \/ Shared!Learn(e)
    BY <1>5 DEF Shared!Next, Shared!Keep, Book, Read
  <2>3. Book = states[Longer] /\ Book' = states'[Longer'] /\ \A e \in Ends : Read[e] = Len(states[e]) /\ Read'[e] = Len(states'[e])
    BY <1>5 DEF Book, Read
  <2>4. CASE states' = states
    BY <1>5, <2>4 DEF Book, Read, Longer
  <2>5. ASSUME NEW e \in Ends, CountersignStateUpdate(e)
        PROVE  Shared!Enter(e)
    <3>. DEFINE p == Peer(e)
                s == states[e]
                u == Received(e).update
                t == Append(s, u)
                n == Len(s)
    <3>1. /\ p \in Ends /\ p # e /\ Ends = {e, p} /\ {Agent, Server} = {e, p}
          /\ s \in Seq(Update) /\ n \in Nat /\ u \in Update
      BY <1>1, <2>5, TwoEnds, ReceivedUpdate DEF CountersignStateUpdate
    <3>2. states[p] = s /\ Follows(p, s, u)
      BY <2>1, <2>5, CountersignLedger
    <3>3. states' = [states EXCEPT ![e] = t]
      BY <2>5 DEF CountersignStateUpdate, Adopt
    <3>. HIDE DEF p, s, u
    <3>4. t \in Seq(Update) /\ Len(t) = n + 1 /\ t[n + 1] = u /\ (n = 0 <=> s = <<>>)
      BY <3>1
    <3>. HIDE DEF t, n
    <3>5. states'[e] = t /\ states'[p] = s /\ states[e] = s
      BY <1>1, <3>1, <3>2, <3>3 DEF s
    <3>6. Book = s /\ Len(s) = n
      BY <1>1, <2>3, <3>1, <3>2 DEF Longer, s, n
    <3>7. Longer' = e
      BY <1>1, <3>1, <3>4, <3>5, <3>6 DEF Longer
    <3>8. Book' = t
      BY <2>3, <3>5, <3>7
    <3>9. Read = [f \in Ends |-> n] /\ Read' = [Read EXCEPT ![e] = n + 1]
      BY <1>5, <3>1, <3>2, <3>4, <3>5, <3>6 DEF Read
    <3>10. u.prev \in {Receipts, IF n = 0 THEN 0 ELSE s[n].id}
      BY <3>2, <3>4, <3>6 DEF Follows
    <3>11. Held(s) = IF n = 0 THEN [agent |-> AgentDeposit, server |-> ServerDeposit] ELSE s[n].balance
      BY <3>4, <3>6 DEF Held
    <3>12. \E cost \in Costs :
             Shared!Pays(p, cost, IF n = 0 THEN [agent |-> AgentDeposit, server |-> ServerDeposit] ELSE s[n].balance, u.balance)
      BY <3>2, <3>11 DEF Follows
    <3>13. /\ \A f \in Ends : Read[f] = n
           /\ Read' = [Read EXCEPT ![e] = n + 1]
      BY <3>9, Zenon
    <3>14. /\ Len(Book) = n /\ Len(Book') = n + 1 /\ Book'[n + 1] = u
           /\ Book' = Append(Book, u)
      BY <3>4, <3>6, <3>8 DEF t
    <3>15. u.prev \in {Receipts, IF n = 0 THEN 0 ELSE Book[n].id}
      BY <3>6, <3>10
    <3>16. \E f \in Ends \ {e}, cost \in Costs :
             Shared!Pays(f, cost, IF n = 0 THEN [agent |-> AgentDeposit, server |-> ServerDeposit] ELSE Book[n].balance, u.balance)
      BY <3>1, <3>6, <3>12
    <3>. QED
      BY <3>13, <3>14, <3>15, <3>16 DEF Shared!Enter, Shared!Balance, Book, Read
  <2>6. ASSUME NEW e \in Ends, ApplyStateUpdate(e)
        PROVE  Shared!Learn(e)
    <3>. DEFINE p == Peer(e)
                s == states[e]
                u == Received(e).update
                t == Append(s, u)
                n == Len(s)
    <3>1. /\ p \in Ends /\ p # e /\ Ends = {e, p} /\ {Agent, Server} = {e, p}
          /\ s \in Seq(Update) /\ n \in Nat /\ u \in Update
      BY <1>1, <2>6, TwoEnds, ReceivedUpdate DEF ApplyStateUpdate
    <3>2. states[p] = t
      BY <2>1, <2>6, ApplyLedger
    <3>3. states' = [states EXCEPT ![e] = t]
      BY <2>6 DEF ApplyStateUpdate, Adopt
    <3>. HIDE DEF p, s, u
    <3>4. t \in Seq(Update) /\ Len(t) = n + 1
      BY <3>1
    <3>. HIDE DEF t, n
    <3>5. states'[e] = t /\ states'[p] = t /\ states[e] = s /\ Len(s) = n
      BY <1>1, <3>1, <3>2, <3>3 DEF s, n
    <3>6. Longer = p /\ (Longer' = e \/ Longer' = p)
      BY <1>1, <3>1, <3>2, <3>4, <3>5 DEF Longer
    <3>7. Book = t /\ Book' = t
      BY <2>3, <3>2, <3>5, <3>6
    <3>8. Read[e] = n /\ Read' = [Read EXCEPT ![e] = n + 1]
      BY <1>5, <3>1, <3>2, <3>4, <3>5 DEF Read
    <3>9. Read[e] < Len(Book) /\ Read' = [Read EXCEPT ![e] = Read[e] + 1] /\ Book' = Book
      BY <3>1, <3>4, <3>7, <3>8
    <3>. QED  BY <3>9 DEF Shared!Learn, Book, Read
  <2>7. \/ states' = states
        \/ \E e \in Ends : CountersignStateUpdate(e) \/ ApplyStateUpdate(e)
    BY <1>5, AwardFreeBefore DEF Promised
  <2>. QED  BY <2>4, <2>5, <2>6, <2>7
<1>. QED  BY <1>3, <1>4, <1>5

\* The payments of two objects of PaymentChannel whose owners wait for the
\* countersignature of a proposal are those of one book: countersign_state_update
\* enters an update only when both ends hold the same ones, the update makes one
\* payment out of the balances of the last and names it, and apply_state_update
\* brings it to the other end before the next is entered, whatever proposals
\* cross and whatever closes and challenges intervene.
THEOREM ChannelImplementsLedger == Spec => ImplementsLedger
<1>1. Init => Shared!Init
  BY DEF Init, Shared!Init, Shared!Nothing, Promised, Longer, AwardFree, Ends
<1>2. IInv /\ Ledger /\ [Next]_vars /\ Shared!PursesMatch' /\ Shared!Told' => [Shared!Next]_bookvars
  BY BookStep
<1>3. Spec => []Ledger
  BY LedgerInitially, LedgerInductive, Invariance, PTL DEF Spec
<1>4. Spec => [][Shared!Next]_bookvars
  BY <1>2, <1>3, Invariance, PursesFull, PTL DEF Spec
<1>5. Spec => Init
  BY DEF Spec
<1>. QED  BY <1>1, <1>4, <1>5, PTL DEF ImplementsLedger, Shared!Spec, bookvars, Book, Read, Purse, Idle

-----------------------------------------------------------------------------
(* The price negotiation.                                                  *)

\* What was accepted had been offered, on the terms that were accepted.
Negotiated == accepts \subseteq made /\ ScheduleAsAccepted

\* A schedule charges what its accepter signed, over every order of offers,
\* acceptances and repeated messages (PriceNegotiator.process_price_accept).
THEOREM AcceptedPrice == PSpec => []ScheduleAsAccepted
<1>1. PInit => Negotiated
  BY DEF PInit, Negotiated, ScheduleAsAccepted
<1>2. Negotiated /\ [PNext]_pvars => Negotiated'
  <2>. SUFFICES ASSUME Negotiated, [PNext]_pvars PROVE Negotiated'
    OBVIOUS
  <2>1. CASE \E price \in Prices : CreatePriceOffer(price)
    BY <2>1 DEF Negotiated, ScheduleAsAccepted, CreatePriceOffer
  <2>2. CASE \E offer \in made : ProcessPriceOffer(offer)
    BY <2>2 DEF Negotiated, ScheduleAsAccepted, ProcessPriceOffer
  <2>3. CASE \E offer \in made : CreatePriceAccept(offer)
    BY <2>3 DEF Negotiated, ScheduleAsAccepted, CreatePriceAccept
  <2>4. CASE \E accept \in accepts : ProcessPriceAccept(accept)
    BY <2>4 DEF Negotiated, ScheduleAsAccepted, ProcessPriceAccept, Schedule
  <2>5. CASE UNCHANGED pvars
    BY <2>5 DEF Negotiated, ScheduleAsAccepted, pvars
  <2>. QED
    BY <2>1, <2>2, <2>3, <2>4, <2>5 DEF PNext
<1>3. Negotiated => ScheduleAsAccepted
  BY DEF Negotiated
<1>. QED
  BY <1>1, <1>2, <1>3, PTL DEF PSpec

-------------------------------------------------------------------------------
(* The books of a metered resource. The units of the receipts, as a sum.    *)

ReceiptType == [seq : Nat, units : Nat, cost : {0}]

\* The units of a chain, as the sum over its receipts.
UnitsOf(c) == FoldLeft(LAMBDA n, r : n + r.units, 0, c)
UnitsIn(c) == [i \in DOMAIN c |-> c[i].units]

\* The units of a chain of receipts are the sum over its places.
LEMMA UnitsAreSum ==
  ASSUME NEW c \in Seq(ReceiptType)
  PROVE  UnitsOf(c) = SumOver(UnitsIn(c), DOMAIN c)
<1>. DEFINE S == DOMAIN c
            f == UnitsIn(c)
            Body(g) == [T \in SUBSET S |-> IF T = {} THEN 0
                                           ELSE g[T \ {Max(T)}] + c[Max(T)].units]
            h == CHOOSE g : g = Body(g)
            sums == [T \in SUBSET S |-> SumOver(f, T)]
<1>1. S = 1 .. Len(c) /\ Len(c) \in Nat /\ IsFiniteSet(S)
  <2>1. S = 1 .. Len(c) /\ Len(c) \in Nat
    OBVIOUS
  <2>. QED  BY <2>1, FS_Interval
<1>2. \A x \in S : f[x] \in Nat /\ f[x] = c[x].units
  <2>1. \A x \in S : c[x] \in ReceiptType
    BY <1>1
  <2>. QED  BY <2>1 DEF UnitsIn, ReceiptType
<1>3. ASSUME NEW T \in SUBSET S, T # {}
      PROVE  Max(T) \in T /\ T \ {Max(T)} \in SUBSET S
  BY <1>1, <1>3, LastExists
<1>. HIDE DEF S, f
<1>4. ASSUME NEW T \in SUBSET S, T # {}
      PROVE  SumOver(f, T) = SumOver(f, T \ {Max(T)}) + c[Max(T)].units
  <2>1. IsFiniteSet(T) /\ Max(T) \in T
    BY <1>1, <1>3, <1>4, FS_Subset
  <2>2. SumOver(f, T) = f[Max(T)] + SumOver(f, T \ {Max(T)})
    BY <1>2, <2>1, SumTakesOut
  <2>3. IsFiniteSet(T \ {Max(T)})
    BY <2>1, FS_Subset
  <2>4. SumOver(f, T \ {Max(T)}) \in Nat
    BY <1>2, <2>3, SumNat
  <2>. QED  BY <1>2, <2>1, <2>2, <2>4
<1>5. sums = Body(sums)
  <2>1. ASSUME NEW T \in SUBSET S
        PROVE  sums[T] = Body(sums)[T]
    <3>1. CASE T = {}
      BY <3>1, FS_EmptySet, SumStep
    <3>2. CASE T # {}
      BY <1>3, <1>4, <3>2
    <3>. QED  BY <3>1, <3>2
  <2>. QED  BY <2>1
<1>6. h = Body(h)
  BY <1>5, Zenon
<1>7. UnitsOf(c) = h[S]
  BY DEF UnitsOf, FoldLeft, MapThenFoldSet, S
<1>8. h[S] = sums[S]
  <2>. HIDE DEF h, sums
  <2>. DEFINE C == {T \in SUBSET S : h[T] # sums[T]}
  <2>1. SUFFICES ASSUME C # {} PROVE FALSE
    OBVIOUS
  <2>2. PICK T \in C : \A U \in C : U \subseteq T => U = T
    <3>1. C \in SUBSET SUBSET S
      OBVIOUS
    <3>2. IsFiniteSet(S)
      BY <1>1
    <3>. HIDE DEF C
    <3>. QED  BY <2>1, <3>1, <3>2, MinimalSubset
  <2>3. h[T] = Body(h)[T] /\ sums[T] = Body(sums)[T]
    BY <1>5, <1>6, Zenon
  <2>4. T # {}
    BY <2>3
  <2>5. h[T \ {Max(T)}] = sums[T \ {Max(T)}]
    BY <1>3, <2>2, <2>4
  <2>. QED  BY <2>3, <2>4, <2>5
<1>. QED  BY <1>7, <1>8 DEF S, f

\* A receipt appended adds its units.
LEMMA UnitsAppend ==
  ASSUME NEW c \in Seq(ReceiptType), NEW r \in ReceiptType
  PROVE  /\ UnitsOf(Append(c, r)) = UnitsOf(c) + r.units
         /\ UnitsOf(c) \in Nat
<1>. DEFINE n == Len(c)
            d == Append(c, r)
<1>1. /\ n \in Nat /\ d \in Seq(ReceiptType)
      /\ DOMAIN c = 1 .. n /\ DOMAIN d = 1 .. (n + 1)
      /\ d[n + 1] = r /\ \A i \in 1 .. n : d[i] = c[i]
  OBVIOUS
<1>2. \A i \in 1 .. n : c[i].units \in Nat
  <2>1. \A i \in 1 .. n : c[i] \in ReceiptType
    BY <1>1
  <2>. QED  BY <2>1 DEF ReceiptType
<1>3. r.units \in Nat
  BY DEF ReceiptType
<1>4. UnitsOf(d) = SumOver(UnitsIn(d), DOMAIN d) /\ UnitsOf(c) = SumOver(UnitsIn(c), DOMAIN c)
  BY <1>1, UnitsAreSum
<1>. HIDE DEF d, n
<1>5. IsFiniteSet(1 .. n) /\ IsFiniteSet(1 .. (n + 1))
  BY <1>1, FS_Interval
<1>6. /\ UnitsIn(d)[n + 1] = r.units
      /\ \A i \in 1 .. n : UnitsIn(d)[i] = UnitsIn(c)[i] /\ UnitsIn(c)[i] \in Nat
      /\ \A i \in 1 .. (n + 1) : UnitsIn(d)[i] \in Int
  BY <1>1, <1>2, <1>3 DEF UnitsIn
<1>7. n + 1 \in 1 .. (n + 1) /\ (1 .. (n + 1)) \ {n + 1} = 1 .. n
  BY <1>1
<1>8. SumOver(UnitsIn(d), 1 .. (n + 1)) = r.units + SumOver(UnitsIn(d), 1 .. n)
  <2>. DEFINE T == 1 .. (n + 1)
              g == UnitsIn(d)
              x == n + 1
  <2>1. IsFiniteSet(T) /\ x \in T /\ \A y \in T : g[y] \in Int
    BY <1>5, <1>6, <1>7
  <2>2. T \ {x} = 1 .. n /\ g[x] = r.units
    BY <1>6, <1>7
  <2>. HIDE DEF T, g, x
  <2>3. SumOver(g, T) = g[x] + SumOver(g, T \ {x})
    BY <2>1, SumTakesOut
  <2>. QED  BY <2>2, <2>3 DEF T, g
<1>9. SumOver(UnitsIn(d), 1 .. n) = SumOver(UnitsIn(c), 1 .. n)
  BY <1>5, <1>6, SumsAgree
<1>10. SumOver(UnitsIn(c), 1 .. n) \in Nat
  BY <1>5, <1>6, SumNat
<1>. QED  BY <1>1, <1>3, <1>4, <1>8, <1>9, <1>10 DEF d

\* No receipts, no units.
LEMMA UnitsEmpty ==
  UnitsOf(<< >>) = 0
<1>1. << >> \in Seq(ReceiptType) /\ DOMAIN << >> = {}
  OBVIOUS
<1>. QED  BY <1>1, UnitsAreSum, SumStep, FS_EmptySet

-------------------------------------------------------------------------------
(* The invariant.                                                             *)

Methods == {"agreed", "higher_seq", "average", "failed"}
ToServer == [kind : {"request"}] \cup [kind : {"ack"}, seq : Nat] \cup [kind : {"suspend"}]
            \cup [kind : {"release"}, units : Nat] \cup [kind : {"reconcile"}, chain : {<< >>}]
ToAgent == [kind : {"grant", "deny", "suspend"}]
           \cup [kind : {"report"}, seq : Nat, units : Nat, cost : Nat]
           \cup [kind : {"reconciled"}, method : Methods, cost : Int]

ResourceStates == {"unknown", "active", "suspended", "released"}
Resource == [state : ResourceStates, units : Nat, cost : Nat, seq : Nat, acked : Nat]
SessionStates == {"idle", "requested", "resolved", "failed"}

\* A reconciliation session, of whatever age, method and result.
IsSession(s) ==
  \/ s = NoSession
  \/ /\ s.state \in SessionStates
     /\ s = [state |-> s.state, created |-> s.created, method |-> s.method, agreed |-> s.agreed]

BooksTyped ==
  /\ resource \in [Holders -> Resource]
  /\ metered \in Nat
  /\ chain \in Seq(ReceiptType)
  /\ session = [e \in Holders |-> session[e]]
  /\ \A e \in Holders : IsSession(session[e])
LinesTyped ==
  /\ line = [e \in Holders |-> line[e]]
  /\ line["agent"] \in Seq(ToServer)
  /\ line["server"] \in Seq(ToAgent)

\* An end that knows nothing of the resource has counted nothing.
UnknownIsFresh == \A e \in Holders : In(e, {"unknown"}) => resource[e] = Unknown

\* A request travels alone, before either end knows the resource.
RequestAlone ==
  \A i \in DOMAIN line["agent"] : line["agent"][i].kind = "request" =>
    /\ Len(line["agent"]) = 1 /\ line["server"] = << >>
    /\ In("agent", {"unknown"}) /\ In("server", {"unknown"})

\* A grant is the first message of the server.
GrantFirst ==
  \A i \in DOMAIN line["server"] : line["server"][i].kind = "grant" =>
    i = 1 /\ In("agent", {"unknown"})

\* The agent acknowledges only what it has seen.
AcksTrail ==
  \A i \in DOMAIN line["agent"] : line["agent"][i].kind = "ack" =>
    line["agent"][i].seq =< resource["agent"].seq

\* The reports on their way are in order, ahead of the agent and not of the server.
ReportsAhead ==
  \A i \in DOMAIN line["server"] : line["server"][i].kind = "report" =>
    /\ line["server"][i].units =< resource["server"].units
    /\ line["server"][i].cost =< resource["server"].cost
    /\ line["server"][i].seq =< resource["server"].seq
    /\ resource["agent"].seq =< line["server"][i].seq
ReportsOrdered ==
  \A i, j \in DOMAIN line["server"] :
    i =< j /\ line["server"][i].kind = "report" /\ line["server"][j].kind = "report" =>
      line["server"][i].seq =< line["server"][j].seq

\* One request for a reconciliation, and one answer, are ever on their way.
ReconcileOnce ==
  /\ \A i \in DOMAIN line["agent"] : line["agent"][i].kind = "reconcile" =>
       /\ session["agent"].state = "requested"
       /\ \A j \in DOMAIN line["server"] : line["server"][j].kind # "reconciled"
  /\ \A i, j \in DOMAIN line["agent"] :
       line["agent"][i].kind = "reconcile" /\ line["agent"][j].kind = "reconcile" => i = j
AnswerOnce ==
  /\ \A i \in DOMAIN line["server"] : line["server"][i].kind = "reconciled" =>
       /\ session["agent"].state = "requested"
       /\ LET m == line["server"][i]
          IN  IF m.method = "failed"
              THEN session["server"].state = "failed" /\ session["server"].agreed = 0
              ELSE session["server"].state = "resolved" /\ session["server"].agreed = m.cost
  /\ \A i, j \in DOMAIN line["server"] :
       line["server"][i].kind = "reconciled" /\ line["server"][j].kind = "reconciled" => i = j
OpenIsFree == session["agent"].state \in {"idle", "requested"} => session["agent"].agreed = 0

BooksInv ==
  /\ BooksTyped /\ LinesTyped /\ UnknownIsFresh
  /\ RequestAlone /\ GrantFirst
  /\ AcksTrail /\ ReportsAhead /\ ReportsOrdered
  /\ ReconcileOnce /\ AnswerOnce /\ OpenIsFree
  /\ BooksAgree

-------------------------------------------------------------------------------
(* What the steps do to the lines.                                            *)

\* The messages of some kinds on a line r were on q, in the same order.
StillOn(q, r, K) ==
  \E k \in {0, 1} :
    \A i \in DOMAIN r : r[i].kind \in K => i + k \in DOMAIN q /\ r[i] = q[i + k]

\* A line that stays keeps its messages.
LEMMA KeptSame ==
  ASSUME NEW M, NEW q \in Seq(M), NEW K
  PROVE  StillOn(q, q, K)
<1>1. \A i \in DOMAIN q : i + 0 \in DOMAIN q /\ q[i] = q[i + 0]
  OBVIOUS
<1>. QED  BY <1>1 DEF StillOn

\* A message said is the only new one, and of its kind.
LEMMA KeptGrows ==
  ASSUME NEW M, NEW q \in Seq(M), NEW m \in M, NEW K, m.kind \notin K
  PROVE  StillOn(q, Append(q, m), K)
<1>. DEFINE r == Append(q, m)
<1>1. DOMAIN q = 1 .. Len(q) /\ Len(q) \in Nat
  OBVIOUS
<1>2. /\ DOMAIN r = 1 .. (Len(q) + 1) /\ r[Len(q) + 1] = m
      /\ \A i \in 1 .. Len(q) : r[i] = q[i]
  OBVIOUS
<1>. HIDE DEF r
<1>3. \A i \in DOMAIN r : r[i].kind \in K => i + 0 \in DOMAIN q /\ r[i] = q[i + 0]
  BY <1>1, <1>2
<1>. QED  BY <1>3 DEF StillOn, r

\* A message heard is gone, and the others are still on the line.
LEMMA KeptShrinks ==
  ASSUME NEW M, NEW q \in Seq(M), q # << >>, NEW K
  PROVE  StillOn(q, Tail(q), K)
<1>1. \A i \in DOMAIN Tail(q) : i + 1 \in DOMAIN q /\ Tail(q)[i] = q[i + 1]
  OBVIOUS
<1>. QED  BY <1>1 DEF StillOn

\* Both lines keep all messages of some kinds.
LinesKeep(K, L) ==
  StillOn(line["agent"], line'["agent"], K) /\ StillOn(line["server"], line'["server"], L)

\* The same for both lines: neither moves;
LEMMA LinesStay ==
  ASSUME LinesTyped, UNCHANGED line, NEW K, NEW L
  PROVE  LinesTyped' /\ LinesKeep(K, L)
BY KeptSame DEF LinesTyped, LinesKeep

\* the agent says something;
LEMMA AgentSays ==
  ASSUME LinesTyped, NEW m \in ToServer, Says("agent", m), NEW K, m.kind \notin K, NEW L
  PROVE  LinesTyped' /\ LinesKeep(K, L) /\ line'["server"] = line["server"]
<1>1. line'["agent"] = Append(line["agent"], m) /\ line'["server"] = line["server"]
      /\ line' = [e \in Holders |-> line'[e]]
  BY DEF Says, LinesTyped, Holders
<1>2. line'["agent"] \in Seq(ToServer) /\ line'["server"] \in Seq(ToAgent)
  BY <1>1 DEF LinesTyped
<1>. QED  BY <1>1, <1>2, KeptSame, KeptGrows DEF LinesTyped, LinesKeep

\* the server says something;
LEMMA ServerSays ==
  ASSUME LinesTyped, NEW m \in ToAgent, Says("server", m), NEW K, NEW L, m.kind \notin L
  PROVE  LinesTyped' /\ LinesKeep(K, L) /\ line'["agent"] = line["agent"]
<1>1. line'["server"] = Append(line["server"], m) /\ line'["agent"] = line["agent"]
      /\ line' = [e \in Holders |-> line'[e]]
  BY DEF Says, LinesTyped, Holders
<1>2. line'["agent"] \in Seq(ToServer) /\ line'["server"] \in Seq(ToAgent)
  BY <1>1 DEF LinesTyped
<1>. QED  BY <1>1, <1>2, KeptSame, KeptGrows DEF LinesTyped, LinesKeep

\* the agent hears something;
LEMMA AgentHears ==
  ASSUME LinesTyped, NEW kind, Hears("agent", kind), Heard("agent"), NEW K, NEW L
  PROVE  /\ LinesTyped' /\ LinesKeep(K, L)
         /\ line["server"] # << >> /\ HeadOf("agent") \in ToAgent
         /\ HeadOf("agent") = line["server"][1] /\ HeadOf("agent").kind = kind
         /\ line'["server"] = Tail(line["server"]) /\ line'["agent"] = line["agent"]
<1>1. line'["server"] = Tail(line["server"]) /\ line'["agent"] = line["agent"]
      /\ line' = [e \in Holders |-> line'[e]]
  BY DEF Heard, Other, LinesTyped, Holders
<1>2. line["server"] # << >> /\ HeadOf("agent") = Head(line["server"])
      /\ HeadOf("agent").kind = kind
  BY DEF Hears, HeadOf, Other
<1>3. line'["agent"] \in Seq(ToServer) /\ line'["server"] \in Seq(ToAgent)
      /\ Head(line["server"]) \in ToAgent /\ Head(line["server"]) = line["server"][1]
  BY <1>1, <1>2 DEF LinesTyped
<1>. QED  BY <1>1, <1>2, <1>3, KeptSame, KeptShrinks DEF LinesTyped, LinesKeep

\* the server hears something;
LEMMA ServerHears ==
  ASSUME LinesTyped, NEW kind, Hears("server", kind), Heard("server"), NEW K, NEW L
  PROVE  /\ LinesTyped' /\ LinesKeep(K, L)
         /\ line["agent"] # << >> /\ HeadOf("server") \in ToServer
         /\ HeadOf("server") = line["agent"][1] /\ HeadOf("server").kind = kind
         /\ line'["agent"] = Tail(line["agent"]) /\ line'["server"] = line["server"]
<1>1. line'["agent"] = Tail(line["agent"]) /\ line'["server"] = line["server"]
      /\ line' = [e \in Holders |-> line'[e]]
  BY DEF Heard, Other, LinesTyped, Holders
<1>2. line["agent"] # << >> /\ HeadOf("server") = Head(line["agent"])
      /\ HeadOf("server").kind = kind
  BY DEF Hears, HeadOf, Other
<1>3. line'["agent"] \in Seq(ToServer) /\ line'["server"] \in Seq(ToAgent)
      /\ Head(line["agent"]) \in ToServer /\ Head(line["agent"]) = line["agent"][1]
  BY <1>1, <1>2 DEF LinesTyped
<1>. QED  BY <1>1, <1>2, <1>3, KeptSame, KeptShrinks DEF LinesTyped, LinesKeep

\* the agent hears something and answers it;
LEMMA AgentAnswers ==
  ASSUME LinesTyped, NEW kind, Hears("agent", kind), NEW m \in ToServer,
         HeardAndSays("agent", m), NEW K, m.kind \notin K, NEW L
  PROVE  /\ LinesTyped' /\ LinesKeep(K, L)
         /\ line["server"] # << >> /\ HeadOf("agent") \in ToAgent
         /\ HeadOf("agent") = line["server"][1] /\ HeadOf("agent").kind = kind
         /\ line'["server"] = Tail(line["server"])
         /\ line'["agent"] = Append(line["agent"], m)
<1>1. line'["server"] = Tail(line["server"]) /\ line'["agent"] = Append(line["agent"], m)
      /\ line' = [e \in Holders |-> line'[e]]
  BY DEF HeardAndSays, Other, LinesTyped, Holders
<1>2. line["server"] # << >> /\ HeadOf("agent") = Head(line["server"])
      /\ HeadOf("agent").kind = kind
  BY DEF Hears, HeadOf, Other
<1>3. line'["agent"] \in Seq(ToServer) /\ line'["server"] \in Seq(ToAgent)
      /\ Head(line["server"]) \in ToAgent /\ Head(line["server"]) = line["server"][1]
  BY <1>1, <1>2 DEF LinesTyped
<1>. QED  BY <1>1, <1>2, <1>3, KeptGrows, KeptShrinks DEF LinesTyped, LinesKeep

\* the server hears something and answers it.
LEMMA ServerAnswers ==
  ASSUME LinesTyped, NEW kind, Hears("server", kind), NEW m \in ToAgent,
         HeardAndSays("server", m), NEW K, NEW L, m.kind \notin L
  PROVE  /\ LinesTyped' /\ LinesKeep(K, L)
         /\ line["agent"] # << >> /\ HeadOf("server") \in ToServer
         /\ HeadOf("server") = line["agent"][1] /\ HeadOf("server").kind = kind
         /\ line'["agent"] = Tail(line["agent"])
         /\ line'["server"] = Append(line["server"], m)
<1>1. line'["agent"] = Tail(line["agent"]) /\ line'["server"] = Append(line["server"], m)
      /\ line' = [e \in Holders |-> line'[e]]
  BY DEF HeardAndSays, Other, LinesTyped, Holders
<1>2. line["agent"] # << >> /\ HeadOf("server") = Head(line["agent"])
      /\ HeadOf("server").kind = kind
  BY DEF Hears, HeadOf, Other
<1>3. line'["agent"] \in Seq(ToServer) /\ line'["server"] \in Seq(ToAgent)
      /\ Head(line["agent"]) \in ToServer /\ Head(line["agent"]) = line["agent"][1]
  BY <1>1, <1>2 DEF LinesTyped
<1>. QED  BY <1>1, <1>2, <1>3, KeptGrows, KeptShrinks DEF LinesTyped, LinesKeep

-------------------------------------------------------------------------------
(* What keeps the parts of the invariant.                                     *)

Active == {"active", "suspended", "released"}
Steady(r, q) == q.units = r.units /\ q.cost = r.cost /\ q.seq = r.seq /\ q.acked = r.acked

\* A change of state leaves usage and cost alone.
LEMMA StateMoves ==
  ASSUME NEW r \in Resource, NEW st \in ResourceStates
  PROVE  /\ [r EXCEPT !.state = st] \in Resource
         /\ [r EXCEPT !.state = st].state = st
         /\ Steady(r, [r EXCEPT !.state = st])
BY DEF Resource, Steady

\* Nobody asks for a resource that an end knows, or while other messages travel.
NoRequest == \A i \in DOMAIN line["agent"] : line["agent"][i].kind # "request"

\* No request is left once an end knows of a grant or another message is first.
LEMMA RequestGone ==
  ASSUME LinesTyped, RequestAlone,
         \/ ~ In("agent", {"unknown"})
         \/ ~ In("server", {"unknown"})
         \/ line["server"] # << >>
         \/ line["agent"] # << >> /\ line["agent"][1].kind # "request"
  PROVE  NoRequest
<1>1. SUFFICES ASSUME NEW i \in DOMAIN line["agent"], line["agent"][i].kind = "request"
               PROVE  FALSE
  BY DEF NoRequest
<1>2. Len(line["agent"]) = 1 /\ line["server"] = << >>
      /\ In("agent", {"unknown"}) /\ In("server", {"unknown"})
  BY <1>1 DEF RequestAlone
<1>3. i = 1
  BY <1>1, <1>2 DEF LinesTyped
<1>. QED  BY <1>1, <1>2, <1>3

\* No request comes back.
LEMMA RequestKept ==
  ASSUME NoRequest, NEW K, NEW L, LinesKeep(K, L), "request" \in K
  PROVE  RequestAlone'
BY DEF NoRequest, RequestAlone, LinesKeep, StillOn

\* A grant stays the first thing said to an agent that knows nothing yet.
LEMMA GrantKept ==
  ASSUME LinesTyped, LinesTyped', GrantFirst, NEW K, NEW L, LinesKeep(K, L), "grant" \in L,
         In("agent", {"unknown"}) => In("agent", {"unknown"})'
  PROVE  GrantFirst'
<1>. SUFFICES ASSUME NEW i \in DOMAIN line'["server"], line'["server"][i].kind = "grant"
              PROVE  i = 1 /\ In("agent", {"unknown"})'
  BY DEF GrantFirst
<1>1. PICK k \in {0, 1} : i + k \in DOMAIN line["server"]
                          /\ line'["server"][i] = line["server"][i + k]
  BY DEF LinesKeep, StillOn
<1>2. i + k = 1 /\ In("agent", {"unknown"})
  BY <1>1 DEF GrantFirst
<1>3. i >= 1 /\ i \in Int
  BY DEF LinesTyped
<1>. QED  BY <1>2, <1>3

\* Whatever the agent does with the first message, no grant is left behind it.
LEMMA GrantHeard ==
  ASSUME LinesTyped, GrantFirst, line["server"] # << >>,
         line'["server"] = Tail(line["server"])
  PROVE  GrantFirst'
<1>1. \A i \in DOMAIN line'["server"] :
        i >= 1 /\ i \in Int /\ i + 1 \in DOMAIN line["server"]
        /\ line'["server"][i] = line["server"][i + 1]
  BY DEF LinesTyped
<1>2. \A i \in DOMAIN line'["server"] : line'["server"][i].kind # "grant"
  BY <1>1 DEF GrantFirst
<1>. QED  BY <1>2 DEF GrantFirst

\* The acknowledgments on the line stay behind what the agent counted.
LEMMA AcksKept ==
  ASSUME LinesTyped, BooksTyped, AcksTrail, NEW K, NEW L, LinesKeep(K, L), "ack" \in K,
         resource'["agent"].seq \in Nat, resource["agent"].seq =< resource'["agent"].seq
  PROVE  AcksTrail'
<1>. SUFFICES ASSUME NEW i \in DOMAIN line'["agent"], line'["agent"][i].kind = "ack"
              PROVE  line'["agent"][i].seq =< resource'["agent"].seq
  BY DEF AcksTrail
<1>1. PICK k \in {0, 1} : i + k \in DOMAIN line["agent"]
                          /\ line'["agent"][i] = line["agent"][i + k]
  BY DEF LinesKeep, StillOn
<1>2. line["agent"][i + k] \in ToServer
  BY <1>1 DEF LinesTyped
<1>3. line["agent"][i + k].seq \in Nat
  BY <1>1, <1>2 DEF ToServer
<1>4. line["agent"][i + k].seq =< resource["agent"].seq
  BY <1>1 DEF AcksTrail
<1>5. resource["agent"].seq \in Nat
  BY DEF BooksTyped, Holders, Resource
<1>. QED  BY <1>1, <1>3, <1>4, <1>5

\* The reports that are left of those on their way.
LEMMA ReportsKept ==
  ASSUME LinesTyped, LinesTyped', BooksTyped, BooksTyped', ReportsAhead, ReportsOrdered,
         NEW K, NEW L, LinesKeep(K, L), "report" \in L,
         resource["server"].units =< resource'["server"].units,
         resource["server"].cost =< resource'["server"].cost,
         resource["server"].seq =< resource'["server"].seq,
         resource'["agent"].seq = resource["agent"].seq
  PROVE  ReportsAhead' /\ ReportsOrdered'
<1>1. PICK k \in {0, 1} :
        \A i \in DOMAIN line'["server"] : line'["server"][i].kind = "report" =>
          i + k \in DOMAIN line["server"] /\ line'["server"][i] = line["server"][i + k]
  BY DEF LinesKeep, StillOn
<1>2. ASSUME NEW i \in DOMAIN line'["server"], line'["server"][i].kind = "report"
      PROVE  /\ line'["server"][i].units =< resource'["server"].units
             /\ line'["server"][i].cost =< resource'["server"].cost
             /\ line'["server"][i].seq =< resource'["server"].seq
             /\ resource'["agent"].seq =< line'["server"][i].seq
  <2>1. i + k \in DOMAIN line["server"] /\ line'["server"][i] = line["server"][i + k]
    BY <1>1, <1>2
  <2>2. line["server"][i + k] \in ToAgent
    BY <2>1 DEF LinesTyped
  <2>. DEFINE m == line["server"][i + k]
  <2>3. m.units \in Nat /\ m.cost \in Nat /\ m.seq \in Nat
    BY <1>2, <2>1, <2>2 DEF ToAgent
  <2>4. /\ m.units =< resource["server"].units /\ m.cost =< resource["server"].cost
        /\ m.seq =< resource["server"].seq /\ resource["agent"].seq =< m.seq
    BY <1>2, <2>1 DEF ReportsAhead
  <2>5. \A e \in Holders : resource[e] \in Resource /\ resource'[e] \in Resource
    BY DEF BooksTyped
  <2>6. /\ resource["server"].units \in Nat /\ resource'["server"].units \in Nat
        /\ resource["server"].cost \in Nat /\ resource'["server"].cost \in Nat
        /\ resource["server"].seq \in Nat /\ resource'["server"].seq \in Nat
    BY <2>5 DEF Holders, Resource
  <2>. HIDE DEF m
  <2>7. line'["server"][i] = m
    BY <2>1 DEF m
  <2>. QED  BY <2>3, <2>4, <2>6, <2>7
<1>3. ASSUME NEW i \in DOMAIN line'["server"], NEW j \in DOMAIN line'["server"], i =< j,
             line'["server"][i].kind = "report", line'["server"][j].kind = "report"
      PROVE  line'["server"][i].seq =< line'["server"][j].seq
  <2>1. i \in Int /\ j \in Int /\ i + k =< j + k
    BY <1>3 DEF LinesTyped
  <2>2. /\ i + k \in DOMAIN line["server"] /\ line'["server"][i] = line["server"][i + k]
        /\ j + k \in DOMAIN line["server"] /\ line'["server"][j] = line["server"][j + k]
    BY <1>1, <1>3
  <2>. QED  BY <1>3, <2>1, <2>2 DEF ReportsOrdered
<1>. QED  BY <1>2, <1>3 DEF ReportsAhead, ReportsOrdered

\* Places that are moved alike stay apart.
LEMMA SameShift ==
  ASSUME NEW i \in Int, NEW j \in Int, NEW l \in Int, i + l = j + l
  PROVE  i = j
OBVIOUS

\* One reconciliation at a time stays one.
LEMMA ReconciliationKept ==
  ASSUME LinesTyped, LinesTyped', ReconcileOnce, AnswerOnce, OpenIsFree, ResolvedAlike,
         NEW K, NEW L, LinesKeep(K, L), "reconcile" \in K, "reconciled" \in L,
         UNCHANGED session
  PROVE  ReconcileOnce' /\ AnswerOnce' /\ OpenIsFree' /\ ResolvedAlike'
<1>1. PICK k \in {0, 1} :
        \A i \in DOMAIN line'["agent"] : line'["agent"][i].kind = "reconcile" =>
          i + k \in DOMAIN line["agent"] /\ line'["agent"][i] = line["agent"][i + k]
  BY DEF LinesKeep, StillOn
<1>2. PICK l \in {0, 1} :
        \A i \in DOMAIN line'["server"] : line'["server"][i].kind = "reconciled" =>
          i + l \in DOMAIN line["server"] /\ line'["server"][i] = line["server"][i + l]
  BY DEF LinesKeep, StillOn
<1>3. DOMAIN line'["agent"] \subseteq Int /\ DOMAIN line'["server"] \subseteq Int
  BY DEF LinesTyped
<1>4. ReconcileOnce'
  <2>1. ASSUME NEW i \in DOMAIN line'["agent"], line'["agent"][i].kind = "reconcile"
        PROVE  /\ session'["agent"].state = "requested"
               /\ \A j \in DOMAIN line'["server"] : line'["server"][j].kind # "reconciled"
    BY <1>1, <1>2, <2>1 DEF ReconcileOnce
  <2>2. ASSUME NEW i \in DOMAIN line'["agent"], NEW j \in DOMAIN line'["agent"],
               line'["agent"][i].kind = "reconcile", line'["agent"][j].kind = "reconcile"
        PROVE  i = j
    <3>1. i + k = j + k
      BY <1>1, <2>2 DEF ReconcileOnce
    <3>2. i \in Int /\ j \in Int /\ k \in Int
      BY <1>3
    <3>. QED  BY <3>1, <3>2, SameShift, Zenon
  <2>. QED  BY <2>1, <2>2 DEF ReconcileOnce
<1>5. AnswerOnce'
  <2>1. ASSUME NEW i \in DOMAIN line'["server"], line'["server"][i].kind = "reconciled"
        PROVE  /\ session'["agent"].state = "requested"
               /\ LET m == line'["server"][i]
                  IN  IF m.method = "failed"
                      THEN session'["server"].state = "failed" /\ session'["server"].agreed = 0
                      ELSE session'["server"].state = "resolved"
                           /\ session'["server"].agreed = m.cost
    BY <1>2, <2>1 DEF AnswerOnce
  <2>2. ASSUME NEW i \in DOMAIN line'["server"], NEW j \in DOMAIN line'["server"],
               line'["server"][i].kind = "reconciled", line'["server"][j].kind = "reconciled"
        PROVE  i = j
    <3>1. i + l = j + l
      BY <1>2, <2>2 DEF AnswerOnce
    <3>2. i \in Int /\ j \in Int /\ l \in Int
      BY <1>3
    <3>. QED  BY <3>1, <3>2, SameShift, Zenon
  <2>. QED  BY <2>1, <2>2 DEF AnswerOnce
<1>6. OpenIsFree' /\ ResolvedAlike'
  BY DEF OpenIsFree, ResolvedAlike
<1>. QED  BY <1>4, <1>5, <1>6

\* The invariant over the receipts, in terms of their units,
LEMMA Coverage ==
  ReceiptsCoverUsage <=> UnitsOf(chain) + metered = resource["server"].units
BY Zenon DEF ReceiptsCoverUsage, UnitsOf

\* and after a step.
LEMMA CoverageNext ==
  ReceiptsCoverUsage' <=> UnitsOf(chain') + metered' = resource'["server"].units
<1>1. ReceiptsCoverUsage' <=> (UnitsOf(chain) + metered = resource["server"].units)'
  BY Coverage, PTL
<1>. QED  BY <1>1

\* The counts of both ends, the meter and the chain stay.
LEMMA CountsKept ==
  ASSUME ReceiptsCoverUsage, ReportsTrail, UNCHANGED <<metered, chain>>,
         \A e \in Holders : Steady(resource[e], resource'[e])
  PROVE  ReceiptsCoverUsage' /\ ReportsTrail'
<1>1. UnitsOf(chain') + metered' = UnitsOf(chain) + metered
  OBVIOUS
<1>2. ReceiptsCoverUsage'
  BY <1>1, Coverage, CoverageNext DEF Steady, Holders
<1>3. ReportsTrail'
  BY DEF ReportsTrail, Steady, Holders
<1>. QED  BY <1>2, <1>3

\* A step that counts nothing, and says and hears nothing of a request, a
\* report, an acknowledgement or a reconciliation.
LEMMA QuietStep ==
  ASSUME BooksInv, LinesTyped', resource' \in [Holders -> Resource],
         \A e \in Holders : Steady(resource[e], resource'[e]),
         UNCHANGED <<metered, chain, session>>,
         NEW K, NEW L, LinesKeep(K, L),
         {"ack", "reconcile"} \subseteq K, {"report", "reconciled"} \subseteq L,
         UnknownIsFresh', RequestAlone', GrantFirst'
  PROVE  BooksInv'
<1>. USE DEF BooksInv, BooksAgree
<1>1. "ack" \in K /\ "reconcile" \in K /\ "report" \in L /\ "reconciled" \in L
  OBVIOUS
<1>2. BooksTyped'
  BY DEF BooksTyped
<1>3. ReceiptsCoverUsage' /\ ReportsTrail'
  BY CountsKept
<1>4. \A e \in Holders : resource[e] \in Resource /\ resource'[e] \in Resource
  BY DEF BooksTyped
<1>5. resource'["agent"].seq \in Nat /\ resource'["agent"].seq = resource["agent"].seq
  BY <1>4 DEF Holders, Resource, Steady
<1>6. AcksTrail'
  BY <1>1, <1>5, AcksKept
<1>7. /\ resource["server"].units =< resource'["server"].units
      /\ resource["server"].cost =< resource'["server"].cost
      /\ resource["server"].seq =< resource'["server"].seq
  BY <1>4 DEF Holders, Resource, Steady
<1>8. ReportsAhead' /\ ReportsOrdered'
  BY <1>1, <1>2, <1>5, <1>7, ReportsKept
<1>9. ReconcileOnce' /\ AnswerOnce' /\ OpenIsFree' /\ ResolvedAlike'
  BY <1>1, ReconciliationKept
<1>. QED  BY <1>2, <1>3, <1>6, <1>8, <1>9

-------------------------------------------------------------------------------
(* The steps that count nothing.                                              *)

Asks == {"ack", "request", "reconcile"}
Tells == {"grant", "report", "reconciled"}

\* An end that loses no count may change what it knows of the resource.
LEMMA OneMoves ==
  ASSUME BooksTyped, NEW e \in Holders, NEW r \in Resource, Steady(resource[e], r),
         resource' = [resource EXCEPT ![e] = r]
  PROVE  /\ resource' \in [Holders -> Resource] /\ resource'[e] = r
         /\ \A f \in Holders : Steady(resource[f], resource'[f])
         /\ \A f \in Holders : f # e => resource'[f] = resource[f]
BY DEF BooksTyped, Steady

\* A resource that becomes something else keeps its books.
LEMMA BecomesMoves ==
  ASSUME BooksTyped, NEW e \in Holders, NEW st \in ResourceStates, Becomes(e, st)
  PROVE  /\ resource' \in [Holders -> Resource] /\ resource'[e].state = st
         /\ \A f \in Holders : Steady(resource[f], resource'[f])
         /\ \A f \in Holders : f # e => resource'[f] = resource[f]
<1>. DEFINE r == [resource[e] EXCEPT !.state = st]
<1>1. resource[e] \in Resource
  BY DEF BooksTyped
<1>2. r \in Resource /\ r.state = st /\ Steady(resource[e], r)
  BY <1>1, StateMoves
<1>3. resource' = [resource EXCEPT ![e] = r]
  BY DEF Becomes
<1>. HIDE DEF r
<1>. QED  BY <1>2, <1>3, OneMoves

\* A grant starts books that are empty.
LEMMA FreshMoves ==
  Unknown \in Resource /\ Granted \in Resource /\ Steady(Unknown, Granted)
  /\ Granted.state = "active"
BY DEF Unknown, Granted, Resource, ResourceStates, Steady

\* The agent asks for the resource.
LEMMA CreateResourceRequestStep ==
  ASSUME BooksInv, CreateResourceRequest
  PROVE  BooksInv'
<1>. USE DEF BooksInv
<1>. DEFINE m == [kind |-> "request"]
<1>1. /\ Says("agent", m) /\ m \in ToServer /\ m.kind \notin {"ack", "reconcile"}
      /\ line["agent"] = << >> /\ line["server"] = << >>
      /\ In("agent", {"unknown"}) /\ In("server", {"unknown"})
      /\ UNCHANGED <<resource, metered, chain, session>>
  BY DEF CreateResourceRequest, ToServer, Holders
<1>. HIDE DEF m
<1>2. /\ LinesTyped' /\ LinesKeep({"ack", "reconcile"}, Tells)
      /\ line'["server"] = << >>
  BY <1>1, AgentSays
<1>3. Len(line'["agent"]) = 1
  <2>1. line'["agent"] = Append(line["agent"], m)
    BY DEF Says, LinesTyped, Holders, CreateResourceRequest, m
  <2>. QED  BY <1>1, <2>1
<1>4. RequestAlone'
  BY <1>1, <1>2, <1>3 DEF RequestAlone, In
<1>5. GrantFirst'
  BY <1>2 DEF GrantFirst
<1>6. UnknownIsFresh' /\ resource' \in [Holders -> Resource]
      /\ \A e \in Holders : Steady(resource[e], resource'[e])
  BY <1>1 DEF UnknownIsFresh, In, BooksTyped, Steady
<1>. QED  BY <1>1, <1>2, <1>4, <1>5, <1>6, QuietStep DEF Tells

\* The server answers a request.
LEMMA ResourceRequestStep ==
  ASSUME BooksInv, ProcessResourceRequest \/ DenyResourceRequest
  PROVE  BooksInv'
<1>. USE DEF BooksInv
<1>1. PICK m \in {[kind |-> "grant"], [kind |-> "deny"]} :
        /\ HeardAndSays("server", m)
        /\ \/ m.kind = "grant" /\ resource' = [resource EXCEPT !["server"] = Granted]
           \/ m.kind = "deny" /\ UNCHANGED resource
  BY DEF ProcessResourceRequest, DenyResourceRequest
<1>2. Hears("server", "request") /\ UNCHANGED <<metered, chain, session>>
  BY DEF ProcessResourceRequest, DenyResourceRequest
<1>3. m \in ToAgent /\ m.kind \notin {"report", "reconciled"}
  BY DEF ToAgent
<1>4. /\ LinesTyped' /\ LinesKeep(Asks, {"report", "reconciled"})
      /\ line["agent"] # << >> /\ line["agent"][1].kind = "request"
      /\ line'["agent"] = Tail(line["agent"])
      /\ line'["server"] = Append(line["server"], m)
  BY <1>1, <1>2, <1>3, ServerAnswers
<1>5. 1 \in DOMAIN line["agent"]
  BY <1>4 DEF LinesTyped
<1>6. /\ Len(line["agent"]) = 1 /\ line["server"] = << >>
      /\ In("agent", {"unknown"}) /\ In("server", {"unknown"})
  BY <1>4, <1>5 DEF RequestAlone
<1>7. DOMAIN line'["agent"] = {} /\ DOMAIN line'["server"] = {1}
  BY <1>4, <1>6 DEF LinesTyped
<1>8. /\ resource' \in [Holders -> Resource]
      /\ \A e \in Holders : Steady(resource[e], resource'[e])
      /\ UnknownIsFresh' /\ In("agent", {"unknown"})'
  <2>1. CASE UNCHANGED resource
    BY <1>6, <2>1 DEF BooksTyped, UnknownIsFresh, Steady, In
  <2>2. CASE resource' = [resource EXCEPT !["server"] = Granted]
    <3>1. resource["server"] = Unknown
      BY <1>6 DEF UnknownIsFresh, Holders
    <3>2. /\ resource' \in [Holders -> Resource] /\ resource'["server"] = Granted
          /\ \A f \in Holders : Steady(resource[f], resource'[f])
          /\ resource'["agent"] = resource["agent"]
      BY <2>2, <3>1, FreshMoves, OneMoves DEF Holders
    <3>. QED  BY <1>6, <3>2, FreshMoves DEF UnknownIsFresh, In, Holders
  <2>. QED  BY <1>1, <2>1, <2>2
<1>9. RequestAlone' /\ GrantFirst'
  BY <1>7, <1>8 DEF RequestAlone, GrantFirst
<1>. QED  BY <1>2, <1>4, <1>8, <1>9, QuietStep DEF Asks

\* The agent learns the answer.
LEMMA ResourceAnswerStep ==
  ASSUME BooksInv, ProcessResourceGrant \/ ProcessResourceDeny
  PROVE  BooksInv'
<1>. USE DEF BooksInv
<1>1. PICK kind \in {"grant", "deny"} :
        /\ Hears("agent", kind)
        /\ \/ kind = "grant" /\ resource' = [resource EXCEPT !["agent"] = Granted]
           \/ kind = "deny" /\ UNCHANGED resource
  BY DEF ProcessResourceGrant, ProcessResourceDeny
<1>2. Heard("agent") /\ UNCHANGED <<metered, chain, session>>
  BY DEF ProcessResourceGrant, ProcessResourceDeny
<1>3. /\ LinesTyped' /\ LinesKeep(Asks, Tells)
      /\ line["server"] # << >> /\ line["server"][1].kind = kind
      /\ line'["server"] = Tail(line["server"])
  BY <1>1, <1>2, AgentHears
<1>4. RequestAlone' /\ GrantFirst'
  BY <1>3, RequestGone, RequestKept, GrantHeard DEF Asks
<1>5. /\ resource' \in [Holders -> Resource]
      /\ \A e \in Holders : Steady(resource[e], resource'[e])
      /\ UnknownIsFresh'
  <2>1. CASE UNCHANGED resource
    BY <2>1 DEF BooksTyped, UnknownIsFresh, Steady, In
  <2>2. CASE kind = "grant" /\ resource' = [resource EXCEPT !["agent"] = Granted]
    <3>1. 1 \in DOMAIN line["server"]
      BY <1>3 DEF LinesTyped
    <3>2. resource["agent"] = Unknown
      BY <1>3, <2>2, <3>1 DEF GrantFirst, UnknownIsFresh, Holders
    <3>3. /\ resource' \in [Holders -> Resource] /\ resource'["agent"] = Granted
          /\ \A f \in Holders : Steady(resource[f], resource'[f])
          /\ resource'["server"] = resource["server"]
      BY <2>2, <3>2, FreshMoves, OneMoves DEF Holders
    <3>. QED  BY <3>3, FreshMoves DEF UnknownIsFresh, In, Holders
  <2>. QED  BY <1>1, <2>1, <2>2
<1>. QED  BY <1>2, <1>3, <1>4, <1>5, QuietStep DEF Asks, Tells

\* Usage the agent counts for itself, time, and a report that is refused.
LEMMA IdleStep ==
  ASSUME BooksInv,
         \/ \E u \in LocalUsages : RecordLocalUsage(u)
         \/ RefuseMeterReport
         \/ MTick
         \/ UNCHANGED mvars
  PROVE  BooksInv'
<1>. USE DEF BooksInv
<1>1. /\ UNCHANGED <<resource, metered, chain, session>>
      /\ UNCHANGED line \/ (Hears("agent", "report") /\ Heard("agent"))
  BY DEF RecordLocalUsage, RefuseMeterReport, MTick, mvars
<1>2. /\ resource' \in [Holders -> Resource]
      /\ \A e \in Holders : Steady(resource[e], resource'[e])
      /\ UnknownIsFresh' /\ (In("agent", {"unknown"}) => In("agent", {"unknown"})')
  BY <1>1 DEF BooksTyped, UnknownIsFresh, Steady, In
<1>3. LinesTyped' /\ LinesKeep(Asks, Tells)
  BY <1>1, LinesStay, AgentHears
<1>4. GrantFirst'
  BY <1>2, <1>3, GrantKept DEF Tells
<1>5. RequestAlone'
  <2>1. CASE UNCHANGED line
    BY <1>1, <2>1 DEF RequestAlone, In
  <2>2. CASE Hears("agent", "report") /\ Heard("agent")
    BY <1>3, <2>2, AgentHears, RequestGone, RequestKept DEF Asks
  <2>. QED  BY <1>1, <2>1, <2>2
<1>. QED  BY <1>1, <1>2, <1>3, <1>4, <1>5, QuietStep DEF Asks, Tells

\* Suspensions and releases, whichever end they start from.
LEMMA ServerSuspendsStep ==
  ASSUME BooksInv, SuspendResource
  PROVE  BooksInv'
<1>. USE DEF BooksInv
<1>1. /\ Says("server", [kind |-> "suspend"]) /\ [kind |-> "suspend"] \in ToAgent
      /\ In("server", {"active"}) /\ Becomes("server", "suspended")
      /\ UNCHANGED <<metered, chain, session>>
  BY DEF SuspendResource, ToAgent
<1>2. LinesTyped' /\ LinesKeep(Asks, Tells)
  BY <1>1, ServerSays DEF Tells
<1>3. /\ resource' \in [Holders -> Resource] /\ resource'["server"].state = "suspended"
      /\ \A f \in Holders : Steady(resource[f], resource'[f])
      /\ resource'["agent"] = resource["agent"]
  BY <1>1, BecomesMoves DEF Holders, ResourceStates
<1>4. UnknownIsFresh' /\ (In("agent", {"unknown"}) => In("agent", {"unknown"})')
  BY <1>3 DEF UnknownIsFresh, In, Holders
<1>5. GrantFirst' /\ RequestAlone'
  BY <1>1, <1>2, <1>4, GrantKept, RequestGone, RequestKept DEF Asks, Tells, In
<1>. QED  BY <1>1, <1>2, <1>3, <1>4, <1>5, QuietStep DEF Asks, Tells

\* The agent gives its resource back.
LEMMA AgentReleasesStep ==
  ASSUME BooksInv, CreateResourceRelease
  PROVE  BooksInv'
<1>. USE DEF BooksInv
<1>. DEFINE m == [kind |-> "release", units |-> resource["agent"].units]
<1>1. /\ Says("agent", m) /\ m \in ToServer /\ m.kind \notin Asks
      /\ In("agent", {"active", "suspended"}) /\ Becomes("agent", "released")
      /\ UNCHANGED <<metered, chain, session>>
  BY DEF CreateResourceRelease, ToServer, BooksTyped, Resource, Holders, Asks
<1>. HIDE DEF m
<1>2. LinesTyped' /\ LinesKeep(Asks, Tells)
  BY <1>1, AgentSays
<1>3. /\ resource' \in [Holders -> Resource] /\ resource'["agent"].state = "released"
      /\ \A f \in Holders : Steady(resource[f], resource'[f])
      /\ resource'["server"] = resource["server"]
  BY <1>1, BecomesMoves DEF Holders, ResourceStates
<1>4. UnknownIsFresh' /\ ~ In("agent", {"unknown"})
  BY <1>1, <1>3 DEF UnknownIsFresh, In, Holders
<1>5. GrantFirst' /\ RequestAlone'
  BY <1>2, <1>4, GrantKept, RequestGone, RequestKept DEF Asks, Tells
<1>. QED  BY <1>1, <1>2, <1>3, <1>4, <1>5, QuietStep DEF Asks, Tells

\* The agent learns that its resource is suspended.
LEMMA AgentHearsSuspendStep ==
  ASSUME BooksInv, ProcessResourceSuspend("agent")
  PROVE  BooksInv'
<1>. USE DEF BooksInv
<1>1. /\ Hears("agent", "suspend") /\ Heard("agent") /\ Becomes("agent", "suspended")
      /\ UNCHANGED <<metered, chain, session>>
  BY DEF ProcessResourceSuspend
<1>2. /\ LinesTyped' /\ LinesKeep(Asks, Tells) /\ line["server"] # << >>
      /\ line'["server"] = Tail(line["server"])
  BY <1>1, AgentHears
<1>3. /\ resource' \in [Holders -> Resource] /\ resource'["agent"].state = "suspended"
      /\ \A f \in Holders : Steady(resource[f], resource'[f])
      /\ resource'["server"] = resource["server"]
  BY <1>1, BecomesMoves DEF Holders, ResourceStates
<1>4. UnknownIsFresh'
  BY <1>3 DEF UnknownIsFresh, In, Holders
<1>5. GrantFirst' /\ RequestAlone'
  BY <1>2, GrantHeard, RequestGone, RequestKept DEF Asks
<1>. QED  BY <1>1, <1>2, <1>3, <1>4, <1>5, QuietStep DEF Asks, Tells

\* The server learns that the agent is done.
LEMMA ServerHearsEndStep ==
  ASSUME BooksInv, ProcessResourceSuspend("server") \/ ProcessResourceRelease
  PROVE  BooksInv'
<1>. USE DEF BooksInv
<1>1. PICK kind \in {"suspend", "release"}, st \in {"suspended", "released"} :
        Hears("server", kind) /\ Becomes("server", st)
  BY DEF ProcessResourceSuspend, ProcessResourceRelease
<1>2. Heard("server") /\ UNCHANGED <<metered, chain, session>>
  BY DEF ProcessResourceSuspend, ProcessResourceRelease
<1>3. /\ LinesTyped' /\ LinesKeep(Asks, Tells) /\ line["agent"] # << >>
      /\ line["agent"][1].kind = kind
  BY <1>1, <1>2, ServerHears
<1>4. /\ resource' \in [Holders -> Resource] /\ resource'["server"].state = st
      /\ \A f \in Holders : Steady(resource[f], resource'[f])
      /\ resource'["agent"] = resource["agent"]
  BY <1>1, BecomesMoves DEF Holders, ResourceStates
<1>5. UnknownIsFresh' /\ (In("agent", {"unknown"}) => In("agent", {"unknown"})')
  BY <1>4 DEF UnknownIsFresh, In, Holders
<1>6. GrantFirst' /\ RequestAlone'
  BY <1>3, <1>5, GrantKept, RequestGone, RequestKept DEF Asks, Tells
<1>. QED  BY <1>2, <1>3, <1>4, <1>5, <1>6, QuietStep DEF Asks, Tells

-------------------------------------------------------------------------------
(* The steps that count.                                                      *)

\* The resource of each end has its type.
LEMMA HoldingsTyped ==
  ASSUME BooksTyped, NEW e \in Holders
  PROVE  /\ resource[e] \in Resource
         /\ resource[e].units \in Nat /\ resource[e].cost \in Nat
         /\ resource[e].seq \in Nat /\ resource[e].acked \in Nat
BY DEF BooksTyped, Resource

\* What one end knows changes, the other does not.
LEMMA OneChanges ==
  ASSUME BooksTyped, NEW e \in Holders, NEW r \in Resource,
         resource' = [resource EXCEPT ![e] = r]
  PROVE  /\ resource' \in [Holders -> Resource] /\ resource'[e] = r
         /\ resource'[Other(e)] = resource[Other(e)]
BY DEF BooksTyped, Other, Holders

\* Usage recorded is metered before it is reported.
LEMMA RecordUsageStep ==
  ASSUME BooksInv, NEW n \in UsageSizes, RecordUsage(n)
  PROVE  BooksInv'
<1>. USE DEF BooksInv, BooksAgree
<1>. DEFINE s == resource["server"]
            c == n * Price
            q == [s EXCEPT !.units = @ + n, !.cost = @ + c]
<1>1. n \in Nat /\ c \in Nat
  <2>1. n \in Nat /\ Price \in Nat
    BY MeteringAssumption
  <2>. QED  BY <2>1
<1>2. UNCHANGED <<chain, session, line>> /\ metered' = metered + n /\ s.state = "active"
  BY DEF RecordUsage, In
<1>3. resource' = [resource EXCEPT !["server"] = q]
  BY DEF RecordUsage, BooksTyped, Holders
<1>. HIDE DEF c
<1>4. s \in Resource /\ s.units \in Nat /\ s.cost \in Nat
  BY HoldingsTyped DEF Holders
<1>5. /\ q \in Resource /\ q.units = s.units + n /\ q.cost = s.cost + c
      /\ q.seq = s.seq /\ q.acked = s.acked /\ q.state = s.state
  <2>. HIDE DEF s
  <2>1. /\ DOMAIN s = {"state", "units", "cost", "seq", "acked"}
        /\ s.state \in ResourceStates /\ s.seq \in Nat /\ s.acked \in Nat
    BY <1>4 DEF Resource
  <2>2. q.units = s.units + n
    BY <2>1
  <2>3. q.cost = s.cost + c
    BY <2>1
  <2>4. q.seq = s.seq /\ q.acked = s.acked /\ q.state = s.state
    BY <2>1
  <2>5. q \in Resource
    <3>. DEFINE p == [s EXCEPT !.units = s.units + n]
    <3>1. p \in Resource /\ p.cost = s.cost
      BY <1>1, <1>4, <2>1 DEF Resource
    <3>2. q = [p EXCEPT !.cost = s.cost + c]
      BY <2>1
    <3>3. s.cost + c \in Nat
      BY <1>1, <1>4
    <3>. HIDE DEF p, q
    <3>. QED  BY <3>1, <3>2, <3>3 DEF Resource
  <2>. QED  BY <2>2, <2>3, <2>4, <2>5
<1>. HIDE DEF q
<1>6. /\ resource' \in [Holders -> Resource] /\ resource'["server"] = q
      /\ resource'["agent"] = resource["agent"]
  BY <1>3, <1>5, OneChanges DEF Holders, Other
<1>7. BooksTyped'
  BY <1>1, <1>2, <1>6 DEF BooksTyped
<1>8. ReceiptsCoverUsage'
  <2>1. UnitsOf(chain) \in Nat
    <3>1. chain \in Seq(ReceiptType) /\ [seq |-> 0, units |-> 0, cost |-> 0] \in ReceiptType
      BY DEF BooksTyped, ReceiptType
    <3>. QED  BY <3>1, UnitsAppend
  <2>2. metered \in Nat
    BY DEF BooksTyped
  <2>3. UnitsOf(chain') + metered' = UnitsOf(chain) + (metered + n)
    BY <1>2
  <2>4. UnitsOf(chain) + metered = s.units
    BY Coverage
  <2>. QED  BY <1>1, <1>4, <1>5, <1>6, <2>1, <2>2, <2>3, <2>4, CoverageNext
<1>9. ReportsTrail'
  BY <1>1, <1>4, <1>5, <1>6, HoldingsTyped DEF ReportsTrail, Holders
<1>10. LinesTyped' /\ LinesKeep(Asks, Tells)
  BY <1>2, LinesStay
<1>11. UnknownIsFresh' /\ RequestAlone' /\ GrantFirst'
  <2>1. NoRequest
    BY <1>2, RequestGone DEF In
  <2>. QED  BY <1>2, <1>5, <1>6, <1>10, <2>1, RequestKept, GrantKept
            DEF UnknownIsFresh, In, Holders, Asks, Tells
<1>12. AcksTrail'
  BY <1>6, <1>10, HoldingsTyped, AcksKept DEF Asks, Holders
<1>13. ReportsAhead' /\ ReportsOrdered'
  <2>1. s.units =< q.units /\ s.cost =< q.cost /\ s.seq =< q.seq
    BY <1>1, <1>4, <1>5, HoldingsTyped DEF Holders
  <2>. QED  BY <1>6, <1>7, <1>10, <2>1, ReportsKept DEF Tells
<1>14. ReconcileOnce' /\ AnswerOnce' /\ OpenIsFree' /\ ResolvedAlike'
  BY <1>2, <1>10, ReconciliationKept DEF Asks, Tells
<1>. QED  BY <1>7, <1>8, <1>9, <1>10, <1>11, <1>12, <1>13, <1>14

\* A report turns what was metered into a receipt.
LEMMA GenerateMeterReportStep ==
  ASSUME BooksInv, GenerateMeterReport
  PROVE  BooksInv'
<1>. USE DEF BooksInv, BooksAgree
<1>. DEFINE s == resource["server"]
            q == [s EXCEPT !.seq = @ + 1]
            m == [kind |-> "report", seq |-> s.seq + 1, units |-> s.units, cost |-> s.cost]
            r == [seq |-> Len(chain) + 1, units |-> metered, cost |-> 0]
            R == line["server"]
<1>1. /\ s \in Resource /\ s.units \in Nat /\ s.cost \in Nat /\ s.seq \in Nat
      /\ metered \in Nat /\ chain \in Seq(ReceiptType)
  BY HoldingsTyped DEF Holders, BooksTyped
<1>2. /\ resource' = [resource EXCEPT !["server"] = q] /\ Says("server", m)
      /\ chain' = Append(chain, r) /\ metered' = 0 /\ UNCHANGED session
      /\ s.state = "active"
  BY DEF GenerateMeterReport, GenerateReceipt, In
<1>3. /\ q \in Resource /\ q.units = s.units /\ q.cost = s.cost /\ q.seq = s.seq + 1
      /\ q.acked = s.acked /\ q.state = s.state
  BY <1>1 DEF Resource
<1>4. /\ m \in ToAgent /\ m.kind = "report" /\ m.kind \notin {"grant", "reconciled"}
      /\ m.seq = s.seq + 1 /\ m.units = s.units /\ m.cost = s.cost
  BY <1>1 DEF ToAgent
<1>5. r \in ReceiptType /\ r.units = metered
  BY <1>1 DEF ReceiptType
<1>6. line'["server"] = Append(R, m)
  BY <1>2 DEF Says, LinesTyped, Holders
<1>. HIDE DEF q, m, r
<1>7. /\ resource' \in [Holders -> Resource] /\ resource'["server"] = q
      /\ resource'["agent"] = resource["agent"]
  BY <1>2, <1>3, OneChanges DEF Holders, Other
<1>8. BooksTyped'
  BY <1>1, <1>2, <1>5, <1>7 DEF BooksTyped
<1>9. ReceiptsCoverUsage'
  <2>1. UnitsOf(chain') = UnitsOf(chain) + metered /\ UnitsOf(chain) \in Nat
    BY <1>1, <1>2, <1>5, UnitsAppend
  <2>2. UnitsOf(chain) + metered = s.units
    BY Coverage
  <2>. QED  BY <1>1, <1>2, <1>3, <1>7, <2>1, <2>2, CoverageNext
<1>10. ReportsTrail'
  BY <1>1, <1>3, <1>7, HoldingsTyped DEF ReportsTrail, Holders
<1>11. LinesTyped' /\ LinesKeep(Asks, {"grant", "reconciled"})
  BY <1>2, <1>4, ServerSays
<1>12. UnknownIsFresh' /\ RequestAlone' /\ GrantFirst'
  <2>1. NoRequest
    BY <1>2, RequestGone DEF In
  <2>. QED  BY <1>2, <1>3, <1>7, <1>11, <2>1, RequestKept, GrantKept
            DEF UnknownIsFresh, In, Holders, Asks
<1>13. AcksTrail'
  BY <1>7, <1>11, HoldingsTyped, AcksKept DEF Asks, Holders
<1>14. ReportsAhead' /\ ReportsOrdered'
  <2>. DEFINE n == Len(R)
  <2>1. /\ n \in Nat /\ DOMAIN R = 1 .. n /\ DOMAIN line'["server"] = 1 .. (n + 1)
        /\ line'["server"][n + 1] = m
        /\ \A i \in 1 .. n : line'["server"][i] = R[i] /\ R[i] \in ToAgent
    BY <1>4, <1>6 DEF LinesTyped
  <2>. HIDE DEF n
  <2>2. ASSUME NEW i \in 1 .. n, R[i].kind = "report"
        PROVE  /\ R[i].units \in Nat /\ R[i].cost \in Nat /\ R[i].seq \in Nat
               /\ R[i].units =< s.units /\ R[i].cost =< s.cost /\ R[i].seq =< s.seq
               /\ resource["agent"].seq =< R[i].seq
    <3>1. R[i].units \in Nat /\ R[i].cost \in Nat /\ R[i].seq \in Nat
      BY <2>1, <2>2 DEF ToAgent
    <3>. QED  BY <2>1, <2>2, <3>1 DEF ReportsAhead
  <2>3. resource["agent"].seq =< s.seq /\ resource["agent"].seq \in Nat
    BY HoldingsTyped DEF ReportsTrail, Holders
  <2>4. ReportsAhead'
    <3>. SUFFICES ASSUME NEW i \in 1 .. (n + 1), line'["server"][i].kind = "report"
                  PROVE  /\ line'["server"][i].units =< q.units
                         /\ line'["server"][i].cost =< q.cost
                         /\ line'["server"][i].seq =< q.seq
                         /\ resource["agent"].seq =< line'["server"][i].seq
      BY <1>7, <2>1 DEF ReportsAhead
    <3>1. CASE i \in 1 .. n
      <4>1. line'["server"][i] = R[i] /\ R[i].kind = "report"
        BY <2>1, <3>1
      <4>. QED  BY <1>1, <1>3, <2>2, <3>1, <4>1
    <3>2. CASE i = n + 1
      <4>1. line'["server"][i] = m
        BY <2>1, <3>2
      <4>. QED  BY <1>1, <1>3, <1>4, <2>3, <4>1
    <3>. QED  BY <2>1, <3>1, <3>2
  <2>5. ReportsOrdered'
    <3>. SUFFICES ASSUME NEW i \in 1 .. (n + 1), NEW j \in 1 .. (n + 1), i =< j,
                         line'["server"][i].kind = "report",
                         line'["server"][j].kind = "report"
                  PROVE  line'["server"][i].seq =< line'["server"][j].seq
      BY <2>1 DEF ReportsOrdered
    <3>1. CASE j \in 1 .. n
      <4>1. i \in 1 .. n
        BY <2>1, <3>1
      <4>2. line'["server"][i] = R[i] /\ line'["server"][j] = R[j]
        BY <2>1, <3>1, <4>1
      <4>3. R[i].seq =< R[j].seq
        BY <2>1, <3>1, <4>1, <4>2 DEF ReportsOrdered
      <4>. QED  BY <4>2, <4>3
    <3>2. CASE j = n + 1 /\ i \in 1 .. n
      <4>1. line'["server"][i] = R[i] /\ line'["server"][j] = m
        BY <2>1, <3>2
      <4>2. R[i].seq \in Nat /\ R[i].seq =< s.seq
        BY <2>2, <3>2, <4>1
      <4>. QED  BY <1>1, <1>4, <4>1, <4>2
    <3>3. CASE j = n + 1 /\ i = n + 1
      BY <1>1, <1>4, <2>1, <3>3
    <3>. QED  BY <2>1, <3>1, <3>2, <3>3
  <2>. QED  BY <2>4, <2>5
<1>15. ReconcileOnce' /\ AnswerOnce' /\ OpenIsFree' /\ ResolvedAlike'
  BY <1>2, <1>11, ReconciliationKept DEF Asks
<1>. QED  BY <1>8, <1>9, <1>10, <1>11, <1>12, <1>13, <1>14, <1>15

\* A session that is opened, and nothing of it on the lines yet.
LEMMA ReconciliationOpens ==
  ASSUME LinesTyped, ReconcileOnce, AnswerOnce,
         NEW K, NEW L, LinesKeep(K, L), "reconcile" \in K, "reconciled" \in L,
         session["agent"].state # "requested",
         session'["agent"].state = "idle", session'["agent"].agreed = 0
  PROVE  ReconcileOnce' /\ AnswerOnce' /\ OpenIsFree' /\ ResolvedAlike'
<1>1. \A i \in DOMAIN line["agent"] : line["agent"][i].kind # "reconcile"
  BY DEF ReconcileOnce
<1>2. \A i \in DOMAIN line["server"] : line["server"][i].kind # "reconciled"
  BY DEF AnswerOnce
<1>3. \A i \in DOMAIN line'["agent"] : line'["agent"][i].kind # "reconcile"
  BY <1>1 DEF LinesKeep, StillOn
<1>4. \A i \in DOMAIN line'["server"] : line'["server"][i].kind # "reconciled"
  BY <1>2 DEF LinesKeep, StillOn
<1>. QED  BY <1>3, <1>4 DEF ReconcileOnce, AnswerOnce, OpenIsFree, ResolvedAlike

\* A new reconciliation has agreed on nothing.
LEMMA NewSessionFacts ==
  /\ NoSession.state = "none" /\ NewSession.state = "idle" /\ NewSession.agreed = 0
  /\ NewSession = [state |-> NewSession.state, created |-> NewSession.created,
                   method |-> NewSession.method, agreed |-> NewSession.agreed]
  /\ IsSession(NewSession)
BY DEF NoSession, NewSession, IsSession, SessionStates

\* What the agent hears is the head of its line.
LEMMA AgentHeard ==
  ASSUME LinesTyped, NEW kind, Hears("agent", kind)
  PROVE  /\ line["server"] # << >> /\ HeadOf("agent") = line["server"][1]
         /\ HeadOf("agent") \in ToAgent /\ HeadOf("agent").kind = kind
         /\ 1 \in DOMAIN line["server"]
<1>1. line["server"] # << >> /\ HeadOf("agent") = Head(line["server"])
      /\ HeadOf("agent").kind = kind
  BY DEF Hears, HeadOf, Other
<1>2. line["server"] \in Seq(ToAgent)
  BY DEF LinesTyped
<1>. QED  BY <1>1, <1>2

\* The agent books a report it can check.
LEMMA ProcessMeterReportStep ==
  ASSUME BooksInv, ProcessMeterReport
  PROVE  BooksInv'
<1>. USE DEF BooksInv, BooksAgree
<1>. DEFINE a == resource["agent"]
            m == HeadOf("agent")
            st == IF Exceeded(Installed(m)) THEN "suspended" ELSE "active"
            q == [Installed(m) EXCEPT !.state = st]
            reply == IF Exceeded(Installed(m)) THEN [kind |-> "suspend"]
                                               ELSE [kind |-> "ack", seq |-> m.seq]
            R == line["server"]
<1>1. /\ Hears("agent", "report") /\ HeardAndSays("agent", reply)
      /\ resource' = [resource EXCEPT !["agent"] = q] /\ a.state = "active"
      /\ session' = [session EXCEPT !["agent"] = IF Detected(m) THEN NewSession ELSE @]
      /\ UNCHANGED <<metered, chain>>
  BY DEF ProcessMeterReport, In
<1>2. /\ R # << >> /\ m = R[1] /\ m \in ToAgent /\ m.kind = "report"
      /\ 1 \in DOMAIN R
  BY <1>1, AgentHeard DEF LinesTyped
<1>3. m.seq \in Nat /\ m.units \in Nat /\ m.cost \in Nat
  BY <1>2 DEF ToAgent
<1>4. st \in ResourceStates /\ st # "unknown"
  BY DEF ResourceStates
<1>5. /\ a \in Resource /\ a.seq \in Nat /\ a.units \in Nat /\ a.acked \in Nat
      /\ m.units =< resource["server"].units /\ m.cost =< resource["server"].cost
      /\ m.seq =< resource["server"].seq /\ a.seq =< m.seq
  BY <1>2, HoldingsTyped DEF Holders, ReportsAhead
<1>6. reply \in ToServer /\ reply.kind \notin {"request", "reconcile"}
  BY <1>3 DEF ToServer
<1>7. reply.kind = "ack" => reply.seq = m.seq
  OBVIOUS
<1>. HIDE DEF st, m
<1>8. q \in Resource /\ q.units = m.units /\ q.cost = m.cost /\ q.seq = m.seq /\ q.state = st
  <2>. DEFINE p1 == [a EXCEPT !.units = m.units]
              p2 == [p1 EXCEPT !.cost = m.cost]
              p3 == [p2 EXCEPT !.seq = m.seq]
  <2>. HIDE DEF a
  <2>1. p1 \in Resource /\ p1.units = m.units
    BY <1>3, <1>5 DEF Resource
  <2>2. p2 \in Resource /\ p2.units = m.units /\ p2.cost = m.cost
    <3>. HIDE DEF p1
    <3>. QED  BY <1>3, <2>1 DEF Resource
  <2>3. p3 \in Resource /\ p3.units = m.units /\ p3.cost = m.cost /\ p3.seq = m.seq
    <3>. HIDE DEF p2
    <3>. QED  BY <1>3, <2>2 DEF Resource
  <2>4. q = [p3 EXCEPT !.state = st]
    BY DEF Installed, a
  <2>. HIDE DEF p3, q
  <2>. QED  BY <1>4, <2>3, <2>4 DEF Resource
<1>. HIDE DEF q, reply
<1>9. /\ resource' \in [Holders -> Resource] /\ resource'["agent"] = q
      /\ resource'["server"] = resource["server"]
  BY <1>1, <1>8, OneChanges DEF Holders, Other
<1>10. /\ LinesTyped' /\ LinesKeep({"request", "reconcile"}, Tells)
       /\ line'["server"] = Tail(R) /\ line'["agent"] = Append(line["agent"], reply)
  BY <1>1, <1>6, AgentAnswers
<1>11. BooksTyped'
  <2>1. IsSession(session'["agent"]) /\ session'["server"] = session["server"]
        /\ session' = [e \in Holders |-> session'[e]]
    BY <1>1, NewSessionFacts DEF BooksTyped, Holders
  <2>. QED  BY <1>1, <1>9, <2>1 DEF BooksTyped, Holders
<1>12. ReceiptsCoverUsage'
  <2>1. UnitsOf(chain') + metered' = UnitsOf(chain) + metered
    BY <1>1
  <2>. QED  BY <1>9, <2>1, Coverage, CoverageNext
<1>13. ReportsTrail'
  BY <1>3, <1>5, <1>8, <1>9, HoldingsTyped DEF ReportsTrail, Holders
<1>14. UnknownIsFresh' /\ RequestAlone' /\ GrantFirst'
  <2>1. NoRequest
    BY <1>1, RequestGone DEF In
  <2>. QED  BY <1>2, <1>4, <1>8, <1>9, <1>10, <2>1, RequestKept, GrantHeard
            DEF UnknownIsFresh, In, Holders
<1>15. AcksTrail'
  <2>. SUFFICES ASSUME NEW i \in DOMAIN line'["agent"], line'["agent"][i].kind = "ack"
                PROVE  line'["agent"][i].seq =< m.seq
    BY <1>8, <1>9 DEF AcksTrail
  <2>. DEFINE A == line["agent"]
  <2>1. /\ DOMAIN A = 1 .. Len(A) /\ Len(A) \in Nat
        /\ DOMAIN line'["agent"] = 1 .. (Len(A) + 1)
        /\ line'["agent"][Len(A) + 1] = reply
        /\ \A j \in 1 .. Len(A) : line'["agent"][j] = A[j] /\ A[j] \in ToServer
    BY <1>6, <1>10 DEF LinesTyped
  <2>2. CASE i = Len(A) + 1
    BY <1>3, <1>7, <2>1, <2>2
  <2>3. CASE i \in 1 .. Len(A)
    <3>1. line'["agent"][i] = A[i] /\ A[i].seq \in Nat
      BY <2>1, <2>3 DEF ToServer
    <3>2. A[i].seq =< a.seq
      BY <2>1, <2>3, <3>1 DEF AcksTrail
    <3>. QED  BY <1>3, <1>5, <3>1, <3>2
  <2>. QED  BY <2>1, <2>2, <2>3
<1>16. ReportsAhead' /\ ReportsOrdered'
  <2>1. \A i \in DOMAIN line'["server"] :
          /\ i + 1 \in DOMAIN R /\ line'["server"][i] = R[i + 1]
          /\ i \in Int /\ 1 =< i + 1
    BY <1>2, <1>10 DEF LinesTyped
  <2>2. ReportsAhead'
    BY <1>2, <1>8, <1>9, <2>1 DEF ReportsAhead, ReportsOrdered
  <2>3. ReportsOrdered'
    <3>. SUFFICES ASSUME NEW i \in DOMAIN line'["server"], NEW j \in DOMAIN line'["server"],
                         i =< j,
                         line'["server"][i].kind = "report",
                         line'["server"][j].kind = "report"
                  PROVE  line'["server"][i].seq =< line'["server"][j].seq
      BY DEF ReportsOrdered
    <3>1. i + 1 =< j + 1
      BY <2>1
    <3>. QED  BY <2>1, <3>1 DEF ReportsOrdered
  <2>. QED  BY <2>2, <2>3
<1>17. ReconcileOnce' /\ AnswerOnce' /\ OpenIsFree' /\ ResolvedAlike'
  <2>1. CASE session["agent"] = NoSession /\ session'["agent"] = NewSession
    BY <1>10, <2>1, NewSessionFacts, ReconciliationOpens DEF Tells
  <2>2. CASE UNCHANGED session
    BY <1>10, <2>2, ReconciliationKept DEF Tells
  <2>3. \/ session["agent"] = NoSession /\ session'["agent"] = NewSession
        \/ UNCHANGED session
    BY <1>1 DEF Detected, BooksTyped, Holders
  <2>. QED  BY <2>1, <2>2, <2>3
<1>. QED  BY <1>10, <1>11, <1>12, <1>13, <1>14, <1>15, <1>16, <1>17


\* The server takes an acknowledgment for a report it made.
LEMMA ProcessMeterAckStep ==
  ASSUME BooksInv, ProcessMeterAck
  PROVE  BooksInv'
<1>. USE DEF BooksInv, BooksAgree
<1>. DEFINE s == resource["server"]
            n == HeadOf("server").seq
            q == [s EXCEPT !.acked = n]
<1>1. /\ Hears("server", "ack") /\ Heard("server")
      /\ resource' = [resource EXCEPT !["server"] = q]
      /\ UNCHANGED <<metered, chain, session>>
  BY DEF ProcessMeterAck
<1>2. /\ LinesTyped' /\ LinesKeep(Asks, Tells)
      /\ line["agent"] # << >> /\ HeadOf("server") \in ToServer
      /\ HeadOf("server") = line["agent"][1] /\ HeadOf("server").kind = "ack"
  BY <1>1, ServerHears
<1>3. n \in Nat /\ n =< resource["agent"].seq
  <2>1. 1 \in DOMAIN line["agent"]
    BY <1>2 DEF LinesTyped
  <2>. QED  BY <1>2, <2>1 DEF AcksTrail, ToServer
<1>4. s \in Resource
  BY HoldingsTyped DEF Holders
<1>. HIDE DEF n
<1>5. /\ q \in Resource /\ q.units = s.units /\ q.cost = s.cost /\ q.seq = s.seq
      /\ q.acked = n /\ q.state = s.state
  BY <1>3, <1>4 DEF Resource
<1>6. s.state = "unknown" => q = Unknown
  <2>. SUFFICES ASSUME s.state = "unknown" PROVE q = Unknown
    OBVIOUS
  <2>1. s = Unknown
    BY DEF UnknownIsFresh, In, Holders
  <2>2. resource["agent"].seq =< 0 /\ resource["agent"].seq \in Nat
    BY <2>1, HoldingsTyped DEF ReportsTrail, Unknown, Holders
  <2>3. n = 0
    BY <1>3, <2>2
  <2>. QED  BY <2>1, <2>3 DEF Unknown
<1>. HIDE DEF q
<1>7. /\ resource' \in [Holders -> Resource] /\ resource'["server"] = q
      /\ resource'["agent"] = resource["agent"]
  BY <1>1, <1>5, OneChanges DEF Holders, Other
<1>8. BooksTyped'
  BY <1>1, <1>7 DEF BooksTyped
<1>9. ReceiptsCoverUsage'
  <2>1. UnitsOf(chain') + metered' = UnitsOf(chain) + metered
    BY <1>1
  <2>. QED  BY <1>5, <1>7, <2>1, Coverage, CoverageNext
<1>10. ReportsTrail'
  BY <1>3, <1>5, <1>7 DEF ReportsTrail
<1>11. UnknownIsFresh' /\ RequestAlone' /\ GrantFirst'
  <2>1. NoRequest
    BY <1>2, RequestGone
  <2>2. UnknownIsFresh'
    BY <1>5, <1>6, <1>7 DEF UnknownIsFresh, In, Holders
  <2>. QED  BY <1>2, <1>7, <2>1, <2>2, RequestKept, GrantKept DEF In, Asks, Tells
<1>12. AcksTrail'
  BY <1>2, <1>7, HoldingsTyped, AcksKept DEF Asks, Holders
<1>13. ReportsAhead' /\ ReportsOrdered'
  <2>1. s.units =< q.units /\ s.cost =< q.cost /\ s.seq =< q.seq
    BY <1>5, HoldingsTyped DEF Holders
  <2>. QED  BY <1>2, <1>7, <1>8, <2>1, ReportsKept DEF Tells
<1>14. ReconcileOnce' /\ AnswerOnce' /\ OpenIsFree' /\ ResolvedAlike'
  BY <1>1, <1>2, ReconciliationKept DEF Asks, Tells
<1>. QED  BY <1>2, <1>8, <1>9, <1>10, <1>11, <1>12, <1>13, <1>14

-------------------------------------------------------------------------------
(* Reconciliation.                                                            *)

\* A step of the reconciliation that hears and says nothing else.
LEMMA ReconcilingStep ==
  ASSUME BooksInv, LinesTyped', UNCHANGED <<resource, metered, chain>>,
         session' = [e \in Holders |-> session'[e]],
         \A e \in Holders : IsSession(session'[e]),
         NEW K, NEW L, LinesKeep(K, L), "ack" \in K, "report" \in L,
         RequestAlone', GrantFirst',
         ReconcileOnce' /\ AnswerOnce' /\ OpenIsFree' /\ ResolvedAlike'
  PROVE  BooksInv'
<1>. USE DEF BooksInv, BooksAgree
<1>1. BooksTyped'
  BY DEF BooksTyped
<1>2. ReceiptsCoverUsage' /\ ReportsTrail'
  <2>1. UnitsOf(chain') + metered' = UnitsOf(chain) + metered
    OBVIOUS
  <2>. QED  BY <2>1, Coverage, CoverageNext DEF ReportsTrail
<1>3. UnknownIsFresh'
  BY DEF UnknownIsFresh, In
<1>4. AcksTrail'
  BY HoldingsTyped, AcksKept DEF Holders
<1>5. ReportsAhead' /\ ReportsOrdered'
  BY <1>1, HoldingsTyped, ReportsKept DEF Holders
<1>. QED  BY <1>1, <1>2, <1>3, <1>4, <1>5

\* A change of state leaves what was agreed alone.
LEMMA SessionMoves ==
  ASSUME NEW s, IsSession(s), s # NoSession, NEW st \in SessionStates
  PROVE  /\ IsSession([s EXCEPT !.state = st]) /\ [s EXCEPT !.state = st].state = st
         /\ [s EXCEPT !.state = st].agreed = s.agreed
BY DEF IsSession

\* Either end may ask for a reconciliation it has none of.
LEMMA CreateReconciliationRequestStep ==
  ASSUME BooksInv, CreateReconciliationRequest
  PROVE  BooksInv'
<1>. USE DEF BooksInv
<1>. DEFINE s == IF session["agent"] = NoSession THEN NewSession ELSE session["agent"]
            t == [s EXCEPT !.state = "requested"]
            m == [kind |-> "reconcile", chain |-> << >>]
<1>1. /\ Says("agent", m) /\ ~ In("agent", {"unknown"})
      /\ session["agent"].state \in {"none", "idle"}
      /\ session' = [session EXCEPT !["agent"] = t]
      /\ UNCHANGED <<resource, metered, chain>>
  BY DEF CreateReconciliationRequest
<1>2. m \in ToServer /\ m.kind \notin {"request", "ack"}
  BY DEF ToServer
<1>3. IsSession(s) /\ s # NoSession /\ s.agreed = 0
  <2>1. CASE session["agent"] = NoSession
    BY <2>1, NewSessionFacts DEF NewSession, NoSession
  <2>2. CASE session["agent"] # NoSession
    BY <1>1, <2>2 DEF BooksTyped, Holders, IsSession, SessionStates, OpenIsFree
  <2>. QED  BY <2>1, <2>2
<1>. HIDE DEF s, m
<1>4. IsSession(t) /\ t.state = "requested" /\ t.agreed = 0
  BY <1>3, SessionMoves DEF SessionStates
<1>5. line'["agent"] = Append(line["agent"], m)
  BY <1>1 DEF Says, LinesTyped, Holders
<1>. HIDE DEF t
<1>6. session'["agent"] = t /\ session'["server"] = session["server"]
      /\ session' = [e \in Holders |-> session'[e]]
  BY <1>1 DEF BooksTyped, Holders
<1>7. LinesTyped' /\ LinesKeep({"request", "ack"}, Tells) /\ line'["server"] = line["server"]
  BY <1>1, <1>2, AgentSays
<1>8. RequestAlone' /\ GrantFirst'
  <2>1. NoRequest
    BY <1>1, RequestGone
  <2>. QED  BY <1>1, <1>7, <2>1, RequestKept, GrantKept DEF In, Tells
<1>9. /\ \A i \in DOMAIN line["agent"] : line["agent"][i].kind # "reconcile"
      /\ \A i \in DOMAIN line["server"] : line["server"][i].kind # "reconciled"
  BY <1>1 DEF ReconcileOnce, AnswerOnce
<1>10. \A i \in DOMAIN line'["agent"] : line'["agent"][i].kind = "reconcile" =>
         i = Len(line["agent"]) + 1
  <2>. DEFINE A == line["agent"]
  <2>1. /\ DOMAIN A = 1 .. Len(A) /\ Len(A) \in Nat
        /\ DOMAIN line'["agent"] = 1 .. (Len(A) + 1)
        /\ \A j \in 1 .. Len(A) : line'["agent"][j] = A[j]
    BY <1>2, <1>5 DEF LinesTyped
  <2>. QED  BY <1>9, <2>1
<1>11. ReconcileOnce'
  BY <1>4, <1>6, <1>7, <1>9, <1>10 DEF ReconcileOnce
<1>12. AnswerOnce' /\ OpenIsFree' /\ ResolvedAlike'
  BY <1>4, <1>6, <1>7, <1>9 DEF AnswerOnce, OpenIsFree, ResolvedAlike
<1>13. \A e \in Holders : IsSession(session'[e])
  BY <1>4, <1>6 DEF BooksTyped, Holders
<1>. QED  BY <1>1, <1>6, <1>7, <1>8, <1>11, <1>12, <1>13, ReconcilingStep DEF Tells

\* The costs of the receipts are nil, and so is what the server settles on.
LEMMA SettledForNothing ==
  ASSUME NEW c \in Seq(ReceiptType)
  PROVE  AutoResolution(c, << >>) = [method |-> "agreed", cost |-> 0]
<1>1. \A i \in DOMAIN c : c[i].cost = 0
  <2>1. \A i \in DOMAIN c : c[i] \in ReceiptType
    OBVIOUS
  <2>. QED  BY <2>1 DEF ReceiptType
<1>2. \A n : CostAt(<< >>, n) = 0
  BY DEF CostAt
<1>3. ASSUME NEW n PROVE CostAt(c, n) = 0
  <2>1. CASE \E i \in DOMAIN c : c[i].seq = n
    <3>1. (CHOOSE i \in DOMAIN c : c[i].seq = n) \in DOMAIN c
      BY <2>1
    <3>. QED  BY <1>1, <2>1, <3>1 DEF CostAt
  <2>2. CASE ~ \E i \in DOMAIN c : c[i].seq = n
    BY <2>2, Zenon DEF CostAt
  <2>. QED  BY <2>1, <2>2
<1>4. LastCost(c) = 0
  BY <1>1 DEF LastCost, Last
<1>. DEFINE disputed == {n \in Seqs(c) \cup Seqs(<< >>) : CostAt(c, n) # CostAt(<< >>, n)}
<1>5. disputed = {}
  BY <1>2, <1>3
<1>. QED  BY <1>4, <1>5 DEF AutoResolution

\* The other end answers with its own books.
LEMMA ProcessReconciliationRequestStep ==
  ASSUME BooksInv, ProcessReconciliationRequest
  PROVE  BooksInv'
<1>. USE DEF BooksInv
<1>. DEFINE o == AutoResolution(chain, HeadOf("server").chain)
            t == Resolved(NewSession, o.method, o.cost)
            m == [kind |-> "reconciled", method |-> o.method, cost |-> o.cost]
<1>1. /\ Hears("server", "reconcile") /\ HeardAndSays("server", m)
      /\ session' = [session EXCEPT !["server"] = t]
      /\ UNCHANGED <<resource, metered, chain>>
  BY DEF ProcessReconciliationRequest
<1>2. /\ line["agent"] # << >> /\ HeadOf("server") \in ToServer
      /\ HeadOf("server") = line["agent"][1] /\ HeadOf("server").kind = "reconcile"
      /\ line["agent"] \in Seq(ToServer) /\ 1 \in DOMAIN line["agent"]
  <2>1. line["agent"] # << >> /\ HeadOf("server") = Head(line["agent"])
        /\ HeadOf("server").kind = "reconcile"
    BY <1>1 DEF Hears, HeadOf, Other
  <2>2. line["agent"] \in Seq(ToServer)
    BY DEF LinesTyped
  <2>. QED  BY <2>1, <2>2
<1>3. o = [method |-> "agreed", cost |-> 0]
  <2>1. HeadOf("server").chain = << >>
    BY <1>2 DEF ToServer
  <2>. QED  BY <2>1, SettledForNothing DEF BooksTyped
<1>. HIDE DEF o
<1>4. /\ m \in ToAgent /\ m.kind = "reconciled" /\ m.kind \notin {"grant", "report"}
      /\ m.method # "failed" /\ m.cost = 0
  <2>1. m = [kind |-> "reconciled", method |-> "agreed", cost |-> 0]
    BY <1>3
  <2>2. [kind |-> "reconciled", method |-> "agreed", cost |-> 0] \in ToAgent
    BY DEF ToAgent, Methods
  <2>. HIDE DEF m
  <2>. QED  BY <2>1, <2>2
<1>5. IsSession(t) /\ t.state = "resolved" /\ t.agreed = 0
  <2>1. t = [state |-> "resolved", created |-> time, method |-> "agreed", agreed |-> 0]
    BY <1>3 DEF Resolved, NewSession
  <2>. QED  BY <2>1 DEF IsSession, SessionStates
<1>. HIDE DEF m, t
<1>6. session'["server"] = t /\ session'["agent"] = session["agent"]
      /\ session' = [e \in Holders |-> session'[e]]
  BY <1>1 DEF BooksTyped, Holders
<1>7. /\ LinesTyped' /\ LinesKeep(Asks, {"grant", "report"})
      /\ line'["agent"] = Tail(line["agent"]) /\ line'["server"] = Append(line["server"], m)
  BY <1>1, <1>4, ServerAnswers
<1>8. RequestAlone' /\ GrantFirst'
  <2>1. NoRequest
    BY <1>2, RequestGone
  <2>. QED  BY <1>1, <1>7, <2>1, RequestKept, GrantKept DEF In, Asks
<1>9. /\ session["agent"].state = "requested"
      /\ \A i \in DOMAIN line["server"] : line["server"][i].kind # "reconciled"
  BY <1>2 DEF ReconcileOnce
<1>10. \A i \in DOMAIN line'["agent"] : line'["agent"][i].kind # "reconcile"
  <2>1. \A i \in DOMAIN line'["agent"] :
          /\ i + 1 \in DOMAIN line["agent"] /\ line'["agent"][i] = line["agent"][i + 1]
          /\ i + 1 # 1
    BY <1>2, <1>7
  <2>. QED  BY <1>2, <2>1 DEF ReconcileOnce
<1>11. \A i \in DOMAIN line'["server"] : line'["server"][i].kind = "reconciled" =>
         i = Len(line["server"]) + 1 /\ line'["server"][i] = m
  <2>. DEFINE R == line["server"]
  <2>1. /\ DOMAIN R = 1 .. Len(R) /\ Len(R) \in Nat
        /\ DOMAIN line'["server"] = 1 .. (Len(R) + 1)
        /\ line'["server"][Len(R) + 1] = m
        /\ \A j \in 1 .. Len(R) : line'["server"][j] = R[j]
    BY <1>4, <1>7 DEF LinesTyped
  <2>. QED  BY <1>9, <2>1
<1>12. ReconcileOnce'
  BY <1>10 DEF ReconcileOnce
<1>13. AnswerOnce'
  BY <1>4, <1>5, <1>6, <1>9, <1>11 DEF AnswerOnce
<1>14. OpenIsFree' /\ ResolvedAlike'
  BY <1>6, <1>9 DEF OpenIsFree, ResolvedAlike
<1>15. \A e \in Holders : IsSession(session'[e])
  BY <1>5, <1>6 DEF BooksTyped, Holders
<1>. QED  BY <1>1, <1>6, <1>7, <1>8, <1>12, <1>13, <1>14, <1>15, ReconcilingStep DEF Asks

\* The end that asked resolves by the answer.
LEMMA ProcessReconciliationResponseStep ==
  ASSUME BooksInv, ProcessReconciliationResponse
  PROVE  BooksInv'
<1>. USE DEF BooksInv, BooksAgree
<1>. DEFINE m == HeadOf("agent")
            s == session["agent"]
            t == IF Expired(s) THEN s ELSE Resolved(s, m.method, m.cost)
<1>1. /\ Hears("agent", "reconciled") /\ Heard("agent") /\ s.state = "requested"
      /\ session' = [session EXCEPT !["agent"] = t]
      /\ UNCHANGED <<resource, metered, chain>>
  BY DEF ProcessReconciliationResponse
<1>2. /\ LinesTyped' /\ LinesKeep(Asks, Tells)
      /\ line["server"] # << >> /\ m = line["server"][1] /\ m.kind = "reconciled"
      /\ line'["server"] = Tail(line["server"]) /\ line'["agent"] = line["agent"]
  BY <1>1, AgentHears
<1>3. line["server"] \in Seq(ToAgent) /\ 1 \in DOMAIN line["server"]
  BY <1>2 DEF LinesTyped
<1>4. IF m.method = "failed"
      THEN session["server"].state = "failed" /\ session["server"].agreed = 0
      ELSE session["server"].state = "resolved" /\ session["server"].agreed = m.cost
  BY <1>2, <1>3 DEF AnswerOnce
<1>5. s.agreed = 0 /\ IsSession(s) /\ s # NoSession
  BY <1>1 DEF OpenIsFree, BooksTyped, Holders, NoSession
<1>. HIDE DEF m, s
<1>6. /\ IsSession(t)
      /\ \/ t = s
         \/ m.method = "failed" /\ t.state = "failed" /\ t.agreed = 0
         \/ m.method # "failed" /\ t.state = "resolved" /\ t.agreed = m.cost
  <2>1. CASE Expired(s)
    BY <1>5, <2>1
  <2>2. CASE ~ Expired(s) /\ m.method = "failed"
    BY <1>5, <2>2, SessionMoves DEF Resolved, SessionStates
  <2>3. CASE ~ Expired(s) /\ m.method # "failed"
    <3>1. t = [state |-> "resolved", created |-> s.created, method |-> m.method,
               agreed |-> m.cost]
      BY <1>5, <2>3 DEF Resolved, IsSession
    <3>. QED  BY <2>3, <3>1 DEF IsSession, SessionStates
  <2>. QED  BY <2>1, <2>2, <2>3
<1>. HIDE DEF t
<1>7. session'["agent"] = t /\ session'["server"] = session["server"]
      /\ session' = [e \in Holders |-> session'[e]]
  BY <1>1 DEF BooksTyped, Holders
<1>8. RequestAlone' /\ GrantFirst'
  <2>1. NoRequest
    BY <1>2, RequestGone
  <2>. QED  BY <1>1, <1>2, <2>1, RequestKept, GrantKept DEF In, Asks, Tells
<1>9. \A i \in DOMAIN line'["agent"] : line'["agent"][i].kind # "reconcile"
  BY <1>2, <1>3 DEF ReconcileOnce
<1>10. \A i \in DOMAIN line'["server"] : line'["server"][i].kind # "reconciled"
  <2>1. \A i \in DOMAIN line'["server"] :
          /\ i + 1 \in DOMAIN line["server"] /\ line'["server"][i] = line["server"][i + 1]
          /\ i + 1 # 1
    BY <1>2, <1>3
  <2>. QED  BY <1>2, <1>3, <2>1 DEF AnswerOnce
<1>11. ReconcileOnce' /\ AnswerOnce'
  BY <1>9, <1>10 DEF ReconcileOnce, AnswerOnce
<1>12. OpenIsFree'
  BY <1>5, <1>6, <1>7 DEF OpenIsFree
<1>13. ResolvedAlike'
  BY <1>1, <1>4, <1>6, <1>7 DEF ResolvedAlike, s
<1>14. \A e \in Holders : IsSession(session'[e])
  BY <1>6, <1>7 DEF BooksTyped, Holders
<1>. QED  BY <1>1, <1>2, <1>7, <1>8, <1>11, <1>12, <1>13, <1>14, ReconcilingStep
          DEF Asks, Tells

-------------------------------------------------------------------------------
\* Nothing is granted, metered or said at first.
LEMMA BooksInit ==
  MInit => BooksInv
<1>. SUFFICES ASSUME MInit PROVE BooksInv
  OBVIOUS
<1>. USE DEF MInit, Holders
<1>1. resource["agent"] = Unknown /\ resource["server"] = Unknown
      /\ Unknown.units = 0 /\ Unknown.cost = 0 /\ Unknown.seq = 0 /\ Unknown.acked = 0
  BY DEF Unknown
<1>2. BooksTyped
  BY FreshMoves DEF BooksTyped, IsSession
<1>3. LinesTyped
  BY DEF LinesTyped
<1>4. DOMAIN line["agent"] = {} /\ DOMAIN line["server"] = {}
  OBVIOUS
<1>5. RequestAlone /\ GrantFirst /\ AcksTrail /\ ReportsAhead /\ ReportsOrdered
      /\ ReconcileOnce /\ AnswerOnce
  BY <1>4 DEF RequestAlone, GrantFirst, AcksTrail, ReportsAhead, ReportsOrdered,
              ReconcileOnce, AnswerOnce
<1>6. UnknownIsFresh
  BY <1>1 DEF UnknownIsFresh
<1>7. session["agent"].state = "none"
  BY DEF NoSession
<1>8. OpenIsFree /\ ResolvedAlike
  BY <1>7 DEF OpenIsFree, ResolvedAlike
<1>9. ReceiptsCoverUsage
  <2>1. UnitsOf(chain) = 0
    BY UnitsEmpty
  <2>. QED  BY <1>1, <2>1, Coverage
<1>10. ReportsTrail
  BY <1>1 DEF ReportsTrail
<1>. QED  BY <1>2, <1>3, <1>5, <1>6, <1>8, <1>9, <1>10 DEF BooksInv, BooksAgree

\* Every step of the two ends keeps the books.
LEMMA BooksStep ==
  BooksInv /\ [MNext]_mvars => BooksInv'
<1>. SUFFICES ASSUME BooksInv, [MNext]_mvars PROVE BooksInv'
  OBVIOUS
<1>1. CASE CreateResourceRequest
  BY <1>1, CreateResourceRequestStep
<1>2. CASE ProcessResourceRequest \/ DenyResourceRequest
  BY <1>2, ResourceRequestStep
<1>3. CASE ProcessResourceGrant \/ ProcessResourceDeny
  BY <1>3, ResourceAnswerStep
<1>4. CASE \E n \in UsageSizes : RecordUsage(n)
  BY <1>4, RecordUsageStep
<1>5. CASE GenerateMeterReport
  BY <1>5, GenerateMeterReportStep
<1>6. CASE \/ \E u \in LocalUsages : RecordLocalUsage(u)
           \/ RefuseMeterReport
           \/ MTick
           \/ UNCHANGED mvars
  BY <1>6, IdleStep
<1>7. CASE ProcessMeterReport
  BY <1>7, ProcessMeterReportStep
<1>8. CASE ProcessMeterAck
  BY <1>8, ProcessMeterAckStep
<1>9. CASE SuspendResource
  BY <1>9, ServerSuspendsStep
<1>10. CASE \E e \in Holders : ProcessResourceSuspend(e)
  BY <1>10, AgentHearsSuspendStep, ServerHearsEndStep DEF Holders
<1>11. CASE CreateResourceRelease
  BY <1>11, AgentReleasesStep
<1>12. CASE ProcessResourceRelease
  BY <1>12, ServerHearsEndStep
<1>13. CASE CreateReconciliationRequest
  BY <1>13, CreateReconciliationRequestStep
<1>14. CASE ProcessReconciliationRequest
  BY <1>14, ProcessReconciliationRequestStep
<1>15. CASE ProcessReconciliationResponse
  BY <1>15, ProcessReconciliationResponseStep
<1>. QED
  BY <1>1, <1>2, <1>3, <1>4, <1>5, <1>6, <1>7, <1>8, <1>9, <1>10, <1>11, <1>12, <1>13,
     <1>14, <1>15
  DEF MNext

\* The books of the two ends of a metered resource never contradict each other
\* (metering.py, accounting.py, reconciliation.py): the receipts and the meter
\* cover every unit, the reports that cross on the line never take the agent
\* beyond the server, and a reconciliation that ends on both sides ends alike.
THEOREM BooksAlwaysAgree == MSpec => []BooksAgree
<1>1. MInit => BooksInv
  BY BooksInit
<1>2. BooksInv /\ [MNext]_mvars => BooksInv'
  BY BooksStep
<1>3. BooksInv => BooksAgree
  BY DEF BooksInv
<1>. QED  BY <1>1, <1>2, <1>3, PTL DEF MSpec

-------------------------------------------------------------------------------
(* The verdict of a dispute.                                               *)

Verdicts == {"none", "claimant", "respondent", "split", "dismissed"}
Faults == [party : Parties \cup {"none"},
           kind : {"none", "evidence_tampering", "systematic_overcharge",
                   "systematic_underreport", "metering_malfunction"}]
Dispute == [state : {"none", "evidence_submission", "resolved"}, claimed : Int,
            evidence : [Parties -> Nat], verdict : Verdicts, award : Int, fault : Faults]

\* A verdict that attributes no award to who lost, and none below zero.
SoundDecision(v) ==
  /\ v.award > 0 => v.verdict \in {"claimant", "split"}
  /\ dispute.claimed >= 0 => v.award >= 0
  /\ v.verdict \in Verdicts /\ v.award \in Int

\* A verdict that does not reward a fault.
FollowsFault(v, f) ==
  f.kind \in {"evidence_tampering", "systematic_overcharge", "systematic_underreport"}
    => v.verdict # f.party

\* The discrepancies of two chains are finitely many and have a size.
LEMMA DifferencesAre ==
  ASSUME NEW c \in [Parties -> Chains]
  PROVE  /\ IsFiniteSet(Discrepant(Differences(c)))
         /\ \A n \in DOMAIN Differences(c) : Differences(c)[n] \in Int
<1>1. c["claimant"] \in Seq(Int) /\ c["respondent"] \in Seq(Int)
  BY DisputeAssumption DEF Parties
<1>2. IsFiniteSet(DOMAIN c["claimant"]) /\ IsFiniteSet(DOMAIN c["respondent"])
  <2>1. ASSUME NEW s \in Seq(Int) PROVE IsFiniteSet(DOMAIN s)
    <3>1. DOMAIN s = 1 .. Len(s) /\ Len(s) \in Int
      OBVIOUS
    <3>2. IsFiniteSet(1 .. Len(s))
      BY <3>1, FS_Interval
    <3>. QED  BY <3>1, <3>2
  <2>. QED  BY <1>1, <2>1
<1>3. DOMAIN Differences(c) = DOMAIN c["claimant"] \cup DOMAIN c["respondent"]
  BY DEF Differences
<1>4. IsFiniteSet(DOMAIN Differences(c))
  BY <1>2, <1>3, FS_Union
<1>5. Discrepant(Differences(c)) \subseteq DOMAIN Differences(c)
  BY DEF Discrepant
<1>6. IsFiniteSet(Discrepant(Differences(c)))
  BY <1>4, <1>5, FS_Subset
<1>7. ASSUME NEW n \in DOMAIN Differences(c)
      PROVE  Differences(c)[n] \in Int
  <2>1. ASSUME NEW s \in Seq(Int) PROVE UnitsAt(s, n) \in Int
    BY DEF UnitsAt
  <2>2. Differences(c)[n] = UnitsAt(c["respondent"], n) - UnitsAt(c["claimant"], n)
    BY <1>3, <1>7 DEF Differences
  <2>. QED  BY <1>1, <2>1, <2>2
<1>. QED  BY <1>6, <1>7

\* The adjustment is the sum of the discrepancies, and has their sign.
LEMMA AdjustmentSign ==
  ASSUME NEW c \in [Parties -> Chains], NEW d, d = Differences(c)
  PROVE  /\ Adjustment(d) \in Int
         /\ Discrepant(d) # {} /\ (\A n \in Discrepant(d) : d[n] > 0) => Adjustment(d) > 0
         /\ Discrepant(d) # {} /\ (\A n \in Discrepant(d) : d[n] < 0) => Adjustment(d) < 0
<1>1. IsFiniteSet(Discrepant(d)) /\ \A n \in Discrepant(d) : d[n] \in Int
  BY DifferencesAre DEF Discrepant
<1>2. Adjustment(d) = SumOver(d, Discrepant(d))
  BY DEF Adjustment, SumOver
<1>3. Adjustment(d) \in Int
  BY <1>1, <1>2, SumInt
<1>4. ASSUME Discrepant(d) # {}, \A n \in Discrepant(d) : d[n] > 0
      PROVE  Adjustment(d) > 0
  <2>1. \A n \in Discrepant(d) : d[n] \in Nat \ {0}
    BY <1>1, <1>4
  <2>. QED  BY <1>1, <1>2, <1>4, <2>1, SumPositive
<1>5. ASSUME Discrepant(d) # {}, \A n \in Discrepant(d) : d[n] < 0
      PROVE  Adjustment(d) < 0
  BY <1>1, <1>2, <1>5, SumNegative
<1>. QED  BY <1>3, <1>4, <1>5

\* The fault of a verdict: what attribute finds, evaluate_dispute does not reward.
LEMMA VerdictFollowsFault ==
  ASSUME NEW c \in [Parties -> Chains], NEW valid \in [Parties -> BOOLEAN],
         dispute \in Dispute
  PROVE  /\ FollowsFault(EvaluateDispute(c, valid), Attribute(c, valid))
         /\ SoundDecision(EvaluateDispute(c, valid))
         /\ Attribute(c, valid) \in Faults
<1>. DEFINE d == Differences(c)
            compared == c["claimant"] # << >> /\ c["respondent"] # << >>
            over == {n \in DOMAIN d : compared /\ d[n] > 0}
            under == {n \in DOMAIN d : compared /\ d[n] < 0}
<1>. USE DEF Parties, Decision
<1>1. dispute.claimed \in Int /\ dispute.claimed \div 2 \in Int
      /\ (dispute.claimed >= 0 => dispute.claimed \div 2 >= 0)
  BY DEF Dispute
<1>2. /\ Adjustment(d) \in Int
      /\ Discrepant(d) # {} /\ (\A n \in Discrepant(d) : d[n] > 0) => Adjustment(d) > 0
      /\ Discrepant(d) # {} /\ (\A n \in Discrepant(d) : d[n] < 0) => Adjustment(d) < 0
  BY AdjustmentSign
<1>3. \A n \in DOMAIN d : d[n] \in Int
  BY DifferencesAre
<1>4. Discrepant(d) = {n \in DOMAIN d : d[n] > 0} \cup {n \in DOMAIN d : d[n] < 0}
  BY <1>3 DEF Discrepant
<1>. DEFINE e == dispute.evidence
<1>5. e["claimant"] \in Nat /\ e["respondent"] \in Nat
  BY DEF Dispute
<1>6. valid["claimant"] \in BOOLEAN /\ valid["respondent"] \in BOOLEAN
  OBVIOUS
<1>. DEFINE ev == EvaluateDispute(c, valid)
            at == Attribute(c, valid)
            Compared == IF compared /\ Discrepant(d) # {}
                     THEN CASE Adjustment(d) > 0 -> Decision("claimant", Adjustment(d))
                            [] Adjustment(d) < 0 -> Decision("respondent", 0)
                            [] OTHER -> Decision("split", dispute.claimed \div 2)
                     ELSE IF c["claimant"] = << >> /\ c["respondent"] = << >>
                     THEN CASE e["claimant"] > e["respondent"] -> Decision("claimant", dispute.claimed)
                            [] e["respondent"] > e["claimant"] -> Decision("respondent", 0)
                            [] OTHER -> Decision("split", dispute.claimed \div 2)
                     ELSE Decision("dismissed", 0)
<1>7. \/ ev = Decision("claimant", dispute.claimed)
      \/ ev = Decision("respondent", 0)
      \/ ev = Decision("split", dispute.claimed \div 2)
      \/ ev = Decision("dismissed", 0)
      \/ Adjustment(d) > 0 /\ ev = Decision("claimant", Adjustment(d))
  <2>1. CASE ~ (valid["claimant"] /\ valid["respondent"])
    BY <1>6, <2>1, Zenon DEF EvaluateDispute
  <2>2. CASE valid["claimant"] /\ valid["respondent"]
    <3>1. ev = Compared
      BY <2>2 DEF EvaluateDispute
    <3>. HIDE DEF ev
    <3>. QED  BY <1>2, <1>5, <3>1
  <2>. QED  BY <2>1, <2>2
<1>. HIDE DEF ev
<1>8. SoundDecision(ev)
  <2>. USE DEF SoundDecision, Verdicts
  <2>1. CASE ev = Decision("claimant", dispute.claimed)
    BY <1>1, <2>1
  <2>2. CASE ev = Decision("respondent", 0)
    BY <1>1, <2>2
  <2>3. CASE ev = Decision("split", dispute.claimed \div 2)
    BY <1>1, <2>3
  <2>4. CASE ev = Decision("dismissed", 0)
    BY <1>1, <2>4
  <2>5. CASE Adjustment(d) > 0 /\ ev = Decision("claimant", Adjustment(d))
    BY <1>1, <1>2, <2>5
  <2>. QED  BY <1>7, <2>1, <2>2, <2>3, <2>4, <2>5
<1>9. CASE \E p \in Parties : ~ valid[p] /\ valid[Opponent(p)]
  <2>1. PICK p \in Parties : ~ valid[p] /\ valid[Opponent(p)]
    BY <1>9
  <2>2. at = [party |-> CHOOSE q \in Parties : ~ valid[q], kind |-> "evidence_tampering"]
    <3>1. valid["claimant"] # valid["respondent"]
      BY <1>6, <2>1 DEF Opponent
    <3>. QED  BY <1>9, <3>1 DEF Attribute
  <2>3. \A q \in Parties : ~ valid[q] => q = p
    BY <2>1 DEF Opponent
  <2>4. (CHOOSE q \in Parties : ~ valid[q]) = p
    BY <2>1, <2>3
  <2>5. at = [party |-> p, kind |-> "evidence_tampering"]
    BY <2>2, <2>4, Zenon
  <2>6. ev.verdict # p
    <3>1. CASE p = "claimant"
      <4>1. ~ valid["claimant"] /\ valid["respondent"]
        BY <2>1, <3>1 DEF Opponent
      <4>2. ev = Decision("respondent", 0)
        BY <4>1, Zenon DEF ev, EvaluateDispute
      <4>. QED  BY <3>1, <4>2
    <3>2. CASE p = "respondent"
      <4>1. ~ valid["respondent"] /\ valid["claimant"]
        BY <2>1, <3>2 DEF Opponent
      <4>2. ev = Decision("claimant", dispute.claimed)
        BY <4>1, Zenon DEF ev, EvaluateDispute
      <4>. QED  BY <3>2, <4>2
    <3>. QED  BY <3>1, <3>2
  <2>. HIDE DEF at
  <2>7. FollowsFault(ev, at) /\ at \in Faults
    BY <2>5, <2>6 DEF FollowsFault, Faults
  <2>. QED  BY <1>8, <2>7 DEF ev, at
<1>10. CASE ~ \E p \in Parties : ~ valid[p] /\ valid[Opponent(p)]
  <2>1. valid["claimant"] = valid["respondent"]
    BY <1>6, <1>10 DEF Opponent
  <2>2. \/ at = NoFault
        \/ /\ at = [party |-> "respondent", kind |-> "systematic_overcharge"]
           /\ Cardinality(over) >= SystematicThreshold /\ under = {}
        \/ /\ at = [party |-> "claimant", kind |-> "systematic_underreport"]
           /\ Cardinality(under) >= SystematicThreshold /\ over = {}
        \/ at = [party |-> "respondent", kind |-> "metering_malfunction"]
    BY <1>10, <2>1 DEF Attribute
  <2>3. Cardinality({}) = 0
    BY FS_EmptySet
  <2>4. ASSUME over # {} \/ under # {}
        PROVE  compared /\ Discrepant(d) # {}
    BY <1>4, <2>4
  <2>5. ASSUME over # {}, under = {}
        PROVE  ev.verdict # "respondent"
    <3>1. compared /\ Discrepant(d) # {} /\ \A n \in Discrepant(d) : d[n] > 0
      BY <1>4, <2>4, <2>5
    <3>2. Adjustment(d) > 0
      BY <1>2, <3>1
    <3>3. CASE valid["claimant"]
      <4>1. ev = Compared
        BY <2>1, <3>3 DEF ev, EvaluateDispute
      <4>2. ev = Decision("claimant", Adjustment(d))
        BY <1>2, <3>1, <3>2, <4>1
      <4>. QED  BY <4>2
    <3>4. CASE ~ valid["claimant"]
      <4>1. ev = Decision("dismissed", 0)
        BY <2>1, <3>4, Zenon DEF ev, EvaluateDispute
      <4>. QED  BY <4>1
    <3>. QED  BY <3>3, <3>4
  <2>6. ASSUME under # {}, over = {}
        PROVE  ev.verdict # "claimant"
    <3>1. compared /\ Discrepant(d) # {} /\ \A n \in Discrepant(d) : d[n] < 0
      BY <1>4, <2>4, <2>6
    <3>2. Adjustment(d) < 0 /\ ~ Adjustment(d) > 0
      BY <1>2, <3>1
    <3>3. CASE valid["claimant"]
      <4>1. ev = Compared
        BY <2>1, <3>3 DEF ev, EvaluateDispute
      <4>2. ev = Decision("respondent", 0)
        BY <1>2, <3>1, <3>2, <4>1
      <4>. QED  BY <4>2
    <3>4. CASE ~ valid["claimant"]
      <4>1. ev = Decision("dismissed", 0)
        BY <2>1, <3>4, Zenon DEF ev, EvaluateDispute
      <4>. QED  BY <4>1
    <3>. QED  BY <3>3, <3>4
  <2>. HIDE DEF at, over, under, compared, d
  <2>7. ASSUME Cardinality(over) >= SystematicThreshold, under = {},
               at = [party |-> "respondent", kind |-> "systematic_overcharge"]
        PROVE  FollowsFault(ev, at) /\ at \in Faults
    <3>1. over # {}
      BY <2>3, <2>7 DEF SystematicThreshold
    <3>2. ev.verdict # "respondent"
      BY <2>5, <2>7, <3>1
    <3>3. at.party = "respondent" /\ at.kind = "systematic_overcharge" /\ at \in Faults
      BY <2>7 DEF Faults
    <3>. QED  BY <3>2, <3>3 DEF FollowsFault
  <2>8. ASSUME Cardinality(under) >= SystematicThreshold, over = {},
               at = [party |-> "claimant", kind |-> "systematic_underreport"]
        PROVE  FollowsFault(ev, at) /\ at \in Faults
    <3>1. under # {}
      BY <2>3, <2>8 DEF SystematicThreshold
    <3>2. ev.verdict # "claimant"
      BY <2>6, <2>8, <3>1
    <3>3. at.party = "claimant" /\ at.kind = "systematic_underreport" /\ at \in Faults
      BY <2>8 DEF Faults
    <3>. QED  BY <3>2, <3>3 DEF FollowsFault
  <2>9. ASSUME at = NoFault \/ at = [party |-> "respondent", kind |-> "metering_malfunction"]
        PROVE  FollowsFault(ev, at) /\ at \in Faults
    BY <2>9 DEF FollowsFault, Faults, NoFault
  <2>10. FollowsFault(ev, at) /\ at \in Faults
    BY <2>2, <2>7, <2>8, <2>9
  <2>. QED  BY <1>8, <2>10 DEF ev, at
<1>. QED  BY <1>9, <1>10

\* The verdict of a dispute and its fault record never contradict each other,
\* for any two chains of receipts and any claim.
THEOREM FaultFollowed == ASpec => []FaultMatchesVerdict
<1>. DEFINE Inv == dispute \in Dispute /\ FaultMatchesVerdict
<1>1. AInit => Inv
  BY DEF AInit, NoDispute, NoFault, Dispute, Parties, Faults, Verdicts, FaultMatchesVerdict
<1>2. ASSUME Inv, [ANext]_dispute
      PROVE  Inv'
  <2>1. ASSUME NEW value \in ClaimedValues, OpenDispute(value)
        PROVE  Inv'
    <3>1. dispute' \in Dispute /\ dispute'.state # "resolved"
      BY <1>2, <2>1, DisputeAssumption DEF OpenDispute, Dispute
    <3>. QED  BY <3>1 DEF FaultMatchesVerdict
  <2>2. ASSUME NEW p \in Parties, SubmitEvidence(p)
        PROVE  Inv'
    <3>1. [dispute.evidence EXCEPT ![p] = @ + 1] \in [Parties -> Nat]
      BY <1>2 DEF Dispute
    <3>2. dispute' \in Dispute /\ dispute'.state # "resolved"
      BY <1>2, <2>2, <3>1 DEF SubmitEvidence, Dispute
    <3>. QED  BY <3>2 DEF FaultMatchesVerdict
  <2>3. ASSUME NEW c \in [Parties -> Chains], NEW valid \in [Parties -> BOOLEAN],
               ReviewDispute(c, valid)
        PROVE  Inv'
    <3>. DEFINE ev == EvaluateDispute(c, valid)
                at == Attribute(c, valid)
    <3>1. dispute' = [dispute EXCEPT !.state = "resolved", !.verdict = ev.verdict,
                                     !.award = ev.award, !.fault = at]
      BY <2>3 DEF ReviewDispute
    <3>2. FollowsFault(ev, at) /\ SoundDecision(ev) /\ at \in Faults
      BY <1>2, VerdictFollowsFault
    <3>. HIDE DEF ev, at
    <3>3. /\ dispute'.verdict = ev.verdict /\ dispute'.award = ev.award
          /\ dispute'.fault = at /\ dispute'.claimed = dispute.claimed
          /\ dispute' \in Dispute
      BY <1>2, <3>1, <3>2 DEF Dispute, SoundDecision
    <3>. QED
      BY <3>2, <3>3 DEF FaultMatchesVerdict, FollowsFault, SoundDecision
  <2>4. CASE UNCHANGED dispute
    BY <1>2, <2>4 DEF FaultMatchesVerdict
  <2>. QED  BY <1>2, <2>1, <2>2, <2>3, <2>4 DEF ANext
<1>. QED  BY <1>1, <1>2, PTL DEF ASpec

-----------------------------------------------------------------------------
(* The standing of an agent: what both backends of the registry keep, and  *)
(* what the behavioural verifier has counted.                              *)

Standing == [alpha : Nat \ {0}, beta : Nat \ {0}, total : Nat, vcs : Seq(AuditVCs),
             behavior : Int, flags : SUBSET {"disputed"}]

IsTableOf(f, S) == f = [k \in DOMAIN f |-> f[k]] /\ \A k \in DOMAIN f : f[k] \in S

\* A credential that an entry has was valid when it was added, is about the
\* agent of the entry, and is kept under its id.
Backed(vcs, did, entry, day) ==
  \A i \in 1 .. Len(entry.vcs) : /\ entry.vcs[i].about = did
                                 /\ entry.vcs[i].id \in DOMAIN vcs
                                 /\ vcs[entry.vcs[i].id] = entry.vcs[i]
                                 /\ entry.vcs[i].sound
                                 /\ entry.vcs[i].validFrom =< day

\* Both backends keep the same, the database its rows with ids.
Standings ==
  /\ today \in Nat
  /\ memory = [entries |-> memory.entries, vcs |-> memory.vcs]
  /\ IsTableOf(memory.entries, Standing)
  /\ IsTableOf(memory.vcs, AuditVCs)
  /\ \A did \in DOMAIN memory.entries : Backed(memory.vcs, did, memory.entries[did], today)
  /\ database = [rows |-> [did \in DOMAIN memory.entries |-> SerializeEntry(memory.entries[did])],
                 vcs |-> memory.vcs]

\* The verifier has marked the events that did not follow the ones before.
Conduct ==
  /\ events \in Seq(DOMAIN EventState)
  /\ behaving = StateBefore(Len(events) + 1)
  /\ violations \subseteq 1 .. Len(events)
  /\ \A i \in 1 .. Len(events) : i \in violations <=> EventState[events[i]] \notin Permitted[StateBefore(i)]

StandingInv == Standings /\ Conduct

-----------------------------------------------------------------------------
(* Credentials and rows.                                                   *)

\* A credential says what create_audit_vc let it say, and its id is its own.
LEMMA CredentialTyped ==
  ASSUME NEW vc \in AuditVCs
  PROVE  /\ vc.level \in 1 .. 3 /\ vc.validFrom \in Int /\ vc.validUntil \in Int /\ vc.sound \in BOOLEAN
         /\ \A other \in AuditVCs : other.id = vc.id => other = vc
<1>1. \A x \in AuditVCs : \E r \in Requests :
        /\ r.level \in 1 .. 3
        /\ x = [id |-> r.id, about |-> r.about, level |-> r.level, sound |-> r.sound, validFrom |-> r.validFrom,
                validUntil |-> IF r.validUntil = 0 THEN r.validFrom + 365 ELSE r.validUntil]
  BY DEF AuditVCs, CreateAuditVC
<1>2. PICK r \in Requests :
        /\ r.level \in 1 .. 3
        /\ vc = [id |-> r.id, about |-> r.about, level |-> r.level, sound |-> r.sound, validFrom |-> r.validFrom,
                 validUntil |-> IF r.validUntil = 0 THEN r.validFrom + 365 ELSE r.validUntil]
  BY <1>1
<1>3. r.validFrom \in Int /\ r.validUntil \in Int /\ r.sound \in BOOLEAN
  BY TrustAssumption DEF TrustAssumption
<1>4. ASSUME NEW other \in AuditVCs, other.id = vc.id
      PROVE  other = vc
  <2>1. PICK s \in Requests :
          /\ s.level \in 1 .. 3
          /\ other = [id |-> s.id, about |-> s.about, level |-> s.level, sound |-> s.sound, validFrom |-> s.validFrom,
                      validUntil |-> IF s.validUntil = 0 THEN s.validFrom + 365 ELSE s.validUntil]
    BY <1>1
  <2>2. s.id = r.id
    BY <1>2, <1>4, <2>1
  <2>3. s = r
    BY <2>2, TrustAssumption DEF TrustAssumption
  <2>. QED  BY <1>2, <2>1, <2>3
<1>. QED  BY <1>2, <1>3, <1>4

\* The table of a loop over a row whose credentials are all there: after each
\* round it has those up to there.
LEMMA ReadsAll ==
  ASSUME NEW V, NEW q \in Seq(V), NEW t,
         t = [i \in 0 .. Len(q) |-> IF i = 0 THEN << >> ELSE Append(t[i - 1], q[i])]
  PROVE  t[Len(q)] = q
<1>. DEFINE n == Len(q)
            C == {i \in 0 .. n : t[i] # SubSeq(q, 1, i)}
<1>0. n \in Nat
  OBVIOUS
<1>1. \A i \in 0 .. n : t[i] = IF i = 0 THEN << >> ELSE Append(t[i - 1], q[i])
  OBVIOUS
<1>2. C = {}
  <2>1. SUFFICES ASSUME C # {} PROVE FALSE
    OBVIOUS
  <2>2. PICK k \in C : \A m \in C : k =< m
    <3>1. C \in SUBSET Nat
      BY <1>0
    <3>. HIDE DEF C
    <3>. QED  BY <2>1, <3>1, LeastExists
  <2>3. k \in 0 .. n /\ t[k] # SubSeq(q, 1, k)
    OBVIOUS
  <2>4. k # 0
    <3>1. t[0] = << >> /\ SubSeq(q, 1, 0) = << >>
      BY <1>0, <1>1
    <3>. QED  BY <2>3, <3>1
  <2>5. t[k - 1] = SubSeq(q, 1, k - 1)
    <3>1. k - 1 \in 0 .. n /\ ~ (k =< k - 1)
      BY <1>0, <2>3, <2>4
    <3>2. k - 1 \notin C
      BY <2>2, <3>1
    <3>. QED  BY <3>1, <3>2
  <2>6. t[k] = Append(SubSeq(q, 1, k - 1), q[k])
    BY <1>1, <2>3, <2>4, <2>5
  <2>7. Append(SubSeq(q, 1, k - 1), q[k]) = SubSeq(q, 1, k)
    <3>1. k \in 1 .. Len(q)
      BY <1>0, <2>3, <2>4
    <3>. HIDE DEF C, n
    <3>. QED  BY <3>1
  <2>. QED  BY <2>3, <2>6, <2>7
<1>3. t[n] = SubSeq(q, 1, n)
  <2>1. n \in 0 .. n
    BY <1>0
  <2>. QED  BY <1>2, <2>1
<1>4. SubSeq(q, 1, Len(q)) = q
  OBVIOUS
<1>. QED  BY <1>3, <1>4

\* A row that is read gives the entry it was written from.
LEMMA RowRead ==
  ASSUME Standings, NEW did \in DOMAIN memory.entries
  PROVE  DeserializeEntry(database.rows[did]) = memory.entries[did]
<1>. DEFINE entry == memory.entries[did]
            q == entry.vcs
            row == SerializeEntry(entry)
            n == Len(q)
            F(g) == [i \in 0 .. n |-> IF i = 0 THEN << >> ELSE Append(g[i - 1], q[i])]
            G(g) == [i \in 0 .. Len(row.vcs) |->
                       IF i = 0 THEN << >>
                       ELSE IF row.vcs[i] \in DOMAIN database.vcs THEN Append(g[i - 1], database.vcs[row.vcs[i]])
                       ELSE g[i - 1]]
            t == CHOOSE g : g = G(g)
<1>1. /\ entry \in Standing /\ Backed(memory.vcs, did, entry, today)
      /\ database.rows[did] = row /\ database.vcs = memory.vcs
  BY DEF Standings, IsTableOf
<1>2. q \in Seq(AuditVCs) /\ n \in Nat
  BY <1>1 DEF Standing
<1>3. row.vcs = [i \in 1 .. n |-> q[i].id]
  BY <1>1, <1>2 DEF Standing, SerializeEntry
<1>4. Len(row.vcs) = n
  BY <1>2, <1>3
<1>5. ASSUME NEW i \in 1 .. n
      PROVE  row.vcs[i] \in DOMAIN database.vcs /\ database.vcs[row.vcs[i]] = q[i]
  <2>1. row.vcs[i] = q[i].id
    <3>. HIDE DEF row, q, n
    <3>. QED  BY <1>3, <1>5
  <2>2. q[i].id \in DOMAIN memory.vcs /\ memory.vcs[q[i].id] = q[i]
    BY <1>1, <1>5 DEF Backed
  <2>. HIDE DEF row, q
  <2>. QED  BY <1>1, <2>1, <2>2
<1>6. ASSUME NEW g PROVE G(g) = F(g)
  <2>1. \A i \in 0 .. n : i # 0 => i \in 1 .. n
    BY <1>2
  <2>. HIDE DEF row, q, n
  <2>. QED  BY <1>4, <1>5, <2>1
<1>7. \E g : g = F(g)
  <2>. DEFINE g == [i \in 0 .. n |-> SubSeq(q, 1, i)]
  <2>1. ASSUME NEW i \in 0 .. n
        PROVE  g[i] = IF i = 0 THEN << >> ELSE Append(g[i - 1], q[i])
    <3>1. CASE i = 0
      BY <1>2, <3>1
    <3>2. CASE i # 0
      <4>1. i - 1 \in 0 .. n /\ i \in 1 .. Len(q)
        BY <1>2, <3>2
      <4>2. g[i - 1] = SubSeq(q, 1, i - 1) /\ g[i] = SubSeq(q, 1, i)
        BY <4>1
      <4>3. Append(SubSeq(q, 1, i - 1), q[i]) = SubSeq(q, 1, i)
        <5>. HIDE DEF q, n
        <5>. QED  BY <1>2, <4>1
      <4>. QED  BY <3>2, <4>2, <4>3
    <3>. QED  BY <3>1, <3>2
  <2>2. g = F(g)
    <3>. DEFINE h == F(g)
    <3>1. \A i \in 0 .. n : h[i] = g[i]
      BY <2>1
    <3>2. h = [i \in 0 .. n |-> h[i]] /\ g = [i \in 0 .. n |-> g[i]]
      OBVIOUS
    <3>. HIDE DEF g, h
    <3>3. h = g
      BY <3>1, <3>2
    <3>. QED  BY <3>3 DEF h
  <2>. QED  BY <2>2
<1>8. t = F(t)
  <2>1. \E g : g = G(g)
    <3>. HIDE DEF F, G
    <3>. QED  BY <1>6, <1>7
  <2>2. t = G(t)
    <3>. HIDE DEF G
    <3>. QED  BY <2>1, Zenon
  <2>. HIDE DEF t, F, G
  <2>. QED  BY <1>6, <2>2
<1>9. t[n] = q
  <2>. HIDE DEF t, q
  <2>. QED  BY <1>2, <1>8, ReadsAll
<1>10. DeserializeEntry(row) = [row EXCEPT !.vcs = t[Len(row.vcs)]]
  BY DEF DeserializeEntry
<1>11. [row EXCEPT !.vcs = q] = entry
  BY <1>1, <1>2 DEF SerializeEntry, Standing
<1>. QED
  <2>. HIDE DEF t, row, entry, q, n
  <2>1. DeserializeEntry(row) = [row EXCEPT !.vcs = q]
    BY <1>4, <1>9, <1>10
  <2>. QED  BY <1>1, <1>11, <2>1 DEF entry

-----------------------------------------------------------------------------
(* The operations of the registry.                                         *)

\* What both backends hold after an operation that writes one entry, the same
\* in both, along with the credentials.
LEMMA EntryWritten ==
  ASSUME Standings, NEW did, NEW entry \in Standing, NEW vcs, IsTableOf(vcs, AuditVCs),
         Backed(vcs, did, entry, today),
         \A other \in DOMAIN memory.entries : Backed(vcs, other, memory.entries[other], today),
         memory' = [entries |-> Put(memory.entries, did, entry), vcs |-> vcs],
         database' = [rows |-> Put(database.rows, did, SerializeEntry(entry)), vcs |-> vcs],
         today' = today
  PROVE  Standings'
<1>. DEFINE f == Put(memory.entries, did, entry)
<1>1. /\ DOMAIN f = {did} \cup DOMAIN memory.entries
      /\ f = [k \in DOMAIN f |-> f[k]]
      /\ \A k \in DOMAIN f : f[k] = IF k = did THEN entry ELSE memory.entries[k]
  BY DEF Put
<1>2. memory'.entries = f /\ memory'.vcs = vcs
  OBVIOUS
<1>. HIDE DEF f
<1>3. IsTableOf(f, Standing)
  BY <1>1 DEF Standings, IsTableOf
<1>4. \A k \in DOMAIN f : Backed(vcs, k, f[k], today)
  BY <1>1
<1>5. database'.rows = [k \in DOMAIN f |-> SerializeEntry(f[k])]
  <2>1. database.rows = [k \in DOMAIN memory.entries |-> SerializeEntry(memory.entries[k])]
    BY DEF Standings
  <2>. DEFINE g == Put(database.rows, did, SerializeEntry(entry))
  <2>2. g = [k \in {did} \cup DOMAIN memory.entries |->
               IF k = did THEN SerializeEntry(entry) ELSE SerializeEntry(memory.entries[k])]
    BY <2>1 DEF Put
  <2>3. g = [k \in DOMAIN f |-> SerializeEntry(f[k])]
    BY <1>1, <2>2
  <2>4. database'.rows = g
    OBVIOUS
  <2>. QED  BY <2>3, <2>4
<1>6. database' = [rows |-> [k \in DOMAIN f |-> SerializeEntry(f[k])], vcs |-> vcs]
  BY <1>5
<1>7. memory' = [entries |-> f, vcs |-> vcs]
  BY DEF f
<1>8. today' \in Nat
  BY DEF Standings
<1>. QED  BY <1>2, <1>3, <1>4, <1>6, <1>7, <1>8 DEF Standings, IsTableOf

\* A refused operation changes nothing.
LEMMA StandingsStay ==
  ASSUME Standings, memory' = memory, database' = database, today' = today
  PROVE  Standings'
BY DEF Standings, IsTableOf, Backed

\* An operation that changes an entry and not its credentials.
LEMMA EntryUpdated ==
  ASSUME Standings, NEW did, NEW kept, NEW stored,
         did \in DOMAIN memory.entries =>
           kept \in Standing /\ kept.vcs = memory.entries[did].vcs /\ stored = kept,
         UpdateEntry(did, kept, stored)
  PROVE  Standings'
<1>0. DOMAIN database.rows = DOMAIN memory.entries /\ database.vcs = memory.vcs /\ today' = today
  BY DEF Standings, UpdateEntry, UpdateWith
<1>1. CASE did \notin DOMAIN memory.entries
  <2>1. memory' = memory /\ database' = database
    BY <1>0, <1>1 DEF UpdateEntry, UpdateWith
  <2>. QED  BY <1>0, <2>1, StandingsStay
<1>2. CASE did \in DOMAIN memory.entries
  <2>1. /\ memory' = [entries |-> Put(memory.entries, did, kept), vcs |-> memory.vcs]
        /\ database' = [rows |-> Put(database.rows, did, SerializeEntry(kept)), vcs |-> memory.vcs]
    BY <1>0, <1>2 DEF UpdateEntry, UpdateWith
  <2>2. Backed(memory.vcs, did, kept, today)
    BY <1>2 DEF Standings, Backed
  <2>3. \A other \in DOMAIN memory.entries : Backed(memory.vcs, other, memory.entries[other], today)
    BY DEF Standings
  <2>4. IsTableOf(memory.vcs, AuditVCs)
    BY DEF Standings
  <2>. QED  BY <1>0, <1>2, <2>1, <2>2, <2>3, <2>4, EntryWritten
<1>. QED  BY <1>1, <1>2

\* An entry is what it was read for.
LEMMA EntryRead ==
  ASSUME Standings, NEW did \in DOMAIN memory.entries
  PROVE  Kept(did) \in Standing /\ Stored(did) = Kept(did) /\ Kept(did) = memory.entries[did]
<1>1. DeserializeEntry(database.rows[did]) = memory.entries[did]
  BY RowRead
<1>. QED  BY <1>1 DEF Standings, IsTableOf, Kept, Stored

LEMMA RegisterKeeps ==
  ASSUME Standings, NEW did, Register(did)
  PROVE  Standings'
<1>0. DOMAIN database.rows = DOMAIN memory.entries /\ database.vcs = memory.vcs /\ today' = today
  BY DEF Standings, Register
<1>1. CASE did \in DOMAIN memory.entries
  <2>1. memory' = memory /\ database' = database
    BY <1>0, <1>1 DEF Register
  <2>. QED  BY <1>0, <2>1, StandingsStay
<1>2. CASE did \notin DOMAIN memory.entries
  <2>1. NewEntry \in Standing
    BY DEF NewEntry, Standing
  <2>2. /\ memory' = [entries |-> Put(memory.entries, did, NewEntry), vcs |-> memory.vcs]
        /\ database' = [rows |-> Put(database.rows, did, SerializeEntry(NewEntry)), vcs |-> memory.vcs]
    BY <1>0, <1>2 DEF Register, Standings
  <2>3. Backed(memory.vcs, did, NewEntry, today)
    BY DEF Backed, NewEntry
  <2>4. /\ IsTableOf(memory.vcs, AuditVCs)
        /\ \A other \in DOMAIN memory.entries : Backed(memory.vcs, other, memory.entries[other], today)
    BY DEF Standings
  <2>. QED  BY <1>0, <2>1, <2>2, <2>3, <2>4, EntryWritten
<1>. QED  BY <1>1, <1>2

LEMMA ReputationKeeps ==
  ASSUME Standings, NEW did, NEW success \in BOOLEAN, UpdateReputation(did, success)
  PROVE  Standings'
<1>1. ASSUME did \in DOMAIN memory.entries
      PROVE  /\ Counted(Kept(did), success) \in Standing
             /\ Counted(Kept(did), success).vcs = memory.entries[did].vcs
             /\ Counted(Stored(did), success) = Counted(Kept(did), success)
  <2>1. Kept(did) \in Standing /\ Stored(did) = Kept(did) /\ Kept(did) = memory.entries[did]
    BY <1>1, EntryRead
  <2>. DEFINE x == Kept(did)
              a == x.alpha + (IF success THEN 1 ELSE 0)
              b == x.beta + (IF success THEN 0 ELSE 1)
              c == x.total + 1
  <2>2. a \in Nat \ {0} /\ b \in Nat \ {0} /\ c \in Nat
    <3>1. x.alpha \in Nat /\ x.alpha # 0 /\ x.beta \in Nat /\ x.beta # 0 /\ x.total \in Nat
      BY <2>1 DEF Standing
    <3>. HIDE DEF x
    <3>2. CASE success
      BY <3>1, <3>2
    <3>3. CASE ~ success
      BY <3>1, <3>3
    <3>. QED  BY <3>2, <3>3
  <2>3. Counted(x, success) = [x EXCEPT !.alpha = a, !.beta = b, !.total = c]
    BY DEF Counted
  <2>. HIDE DEF x, a, b, c
  <2>4. x \in Standing
    BY <2>1 DEF x
  <2>5. Counted(x, success) \in Standing /\ Counted(x, success).vcs = x.vcs
    BY <2>2, <2>3, <2>4 DEF Standing
  <2>. QED  BY <2>1, <2>5 DEF x
<1>. QED  BY <1>1, EntryUpdated DEF UpdateReputation

LEMMA FlagKeeps ==
  ASSUME Standings, NEW did, AddFlag(did) \/ RemoveFlag(did)
  PROVE  Standings'
<1>1. ASSUME did \in DOMAIN memory.entries, NEW flags \in SUBSET {"disputed"}
      PROVE  /\ Flagged(Kept(did), flags) \in Standing
             /\ Flagged(Kept(did), flags).vcs = memory.entries[did].vcs
  <2>1. Kept(did) \in Standing /\ Kept(did) = memory.entries[did]
    BY <1>1, EntryRead
  <2>. QED  BY <2>1 DEF Flagged, Standing
<1>2. ASSUME did \in DOMAIN memory.entries
      PROVE  /\ Kept(did).flags \cup {"disputed"} \in SUBSET {"disputed"}
             /\ Kept(did).flags \ {"disputed"} \in SUBSET {"disputed"}
             /\ Stored(did) = Kept(did)
  BY <1>2, EntryRead DEF Standing
<1>3. CASE AddFlag(did)
  <2>. DEFINE kept == Flagged(Kept(did), Kept(did).flags \cup {"disputed"})
              stored == Flagged(Stored(did), Stored(did).flags \cup {"disputed"})
  <2>1. did \in DOMAIN memory.entries => kept \in Standing /\ kept.vcs = memory.entries[did].vcs /\ stored = kept
    BY <1>1, <1>2
  <2>2. UpdateEntry(did, kept, stored)
    BY <1>3 DEF AddFlag
  <2>. HIDE DEF kept, stored
  <2>. QED  BY <2>1, <2>2, EntryUpdated
<1>4. CASE RemoveFlag(did)
  <2>. DEFINE kept == Flagged(Kept(did), Kept(did).flags \ {"disputed"})
              stored == Flagged(Stored(did), Stored(did).flags \ {"disputed"})
  <2>1. did \in DOMAIN memory.entries => kept \in Standing /\ kept.vcs = memory.entries[did].vcs /\ stored = kept
    BY <1>1, <1>2
  <2>2. UpdateEntry(did, kept, stored)
    BY <1>4 DEF RemoveFlag
  <2>. HIDE DEF kept, stored
  <2>. QED  BY <2>1, <2>2, EntryUpdated
<1>. QED  BY <1>3, <1>4

LEMMA BehaviorKeeps ==
  ASSUME Standings, NEW did, NEW score \in BehaviorReports, UpdateBehavioralScore(did, score)
  PROVE  Standings'
<1>1. score \in Int /\ Clamp(score) \in Int
  BY TrustAssumption DEF TrustAssumption, Clamp
<1>2. ASSUME did \in DOMAIN memory.entries
      PROVE  /\ Behaving(Kept(did), score) \in Standing
             /\ Behaving(Kept(did), score).vcs = memory.entries[did].vcs
             /\ Behaving(Stored(did), score) = Behaving(Kept(did), score)
  <2>1. Kept(did) \in Standing /\ Stored(did) = Kept(did) /\ Kept(did) = memory.entries[did]
    BY <1>2, EntryRead
  <2>. QED  BY <1>1, <2>1 DEF Behaving, Standing
<1>. QED  BY <1>2, EntryUpdated DEF UpdateBehavioralScore

\* A credential is put under its id, where nothing else can be.
LEMMA CredentialKeeps ==
  ASSUME Standings, NEW did, NEW vc \in AuditVCs, AddAuditVC(did, vc)
  PROVE  Standings'
<1>0. DOMAIN database.rows = DOMAIN memory.entries /\ database.vcs = memory.vcs /\ today' = today
  BY DEF Standings, AddAuditVC, UpdateWith
<1>1. CASE did \notin DOMAIN memory.entries
  <2>1. memory' = memory /\ database' = database
    BY <1>0, <1>1 DEF AddAuditVC, UpdateWith
  <2>. QED  BY <1>0, <2>1, StandingsStay
<1>2. CASE did \in DOMAIN memory.entries
  <2>. DEFINE vcs == Put(memory.vcs, vc.id, vc)
              entry == Credited(Kept(did), vc)
  <2>1. Kept(did) \in Standing /\ Stored(did) = Kept(did) /\ Kept(did) = memory.entries[did]
    BY <1>2, EntryRead
  <2>2. /\ DOMAIN vcs = {vc.id} \cup DOMAIN memory.vcs
        /\ \A k \in DOMAIN vcs : vcs[k] = IF k = vc.id THEN vc ELSE memory.vcs[k]
        /\ vcs = [k \in DOMAIN vcs |-> vcs[k]]
    BY DEF Put
  <2>3. IsTableOf(vcs, AuditVCs)
    BY <2>2 DEF IsTableOf, Standings
  <2>4. \A k \in DOMAIN memory.vcs : k = memory.vcs[k].id /\ k = vc.id => memory.vcs[k] = vc
    BY CredentialTyped DEF Standings, IsTableOf
  <2>5. ASSUME NEW other \in DOMAIN memory.entries
        PROVE  Backed(vcs, other, memory.entries[other], today)
    <3>1. Backed(memory.vcs, other, memory.entries[other], today)
      BY DEF Standings
    <3>. HIDE DEF vcs
    <3>2. ASSUME NEW c, c \in DOMAIN memory.vcs
          PROVE  c \in DOMAIN vcs /\ (c = memory.vcs[c].id => vcs[c] = memory.vcs[c])
      BY <2>2, <2>4, <3>2
    <3>3. ASSUME NEW i \in 1 .. Len(memory.entries[other].vcs)
          PROVE  /\ memory.entries[other].vcs[i].id \in DOMAIN vcs
                 /\ vcs[memory.entries[other].vcs[i].id] = memory.entries[other].vcs[i]
      <4>. DEFINE e == memory.entries[other].vcs[i]
      <4>1. e.id \in DOMAIN memory.vcs /\ memory.vcs[e.id] = e
        BY <3>1 DEF Backed
      <4>. HIDE DEF e
      <4>. QED  BY <3>2, <4>1 DEF e
    <3>. QED  BY <3>1, <3>3 DEF Backed
  <2>6. /\ entry \in Standing
        /\ Len(entry.vcs) = Len(Kept(did).vcs) + 1
        /\ Len(Kept(did).vcs) \in Nat
        /\ \A i \in 1 .. Len(Kept(did).vcs) : entry.vcs[i] = Kept(did).vcs[i]
        /\ entry.vcs[Len(entry.vcs)] = vc
    <3>. DEFINE q == Kept(did).vcs
    <3>1. Kept(did) \in Standing /\ q \in Seq(AuditVCs)
      BY <2>1 DEF Standing
    <3>2. entry = [Kept(did) EXCEPT !.vcs = Append(q, vc)]
      BY DEF Credited
    <3>3. /\ Append(q, vc) \in Seq(AuditVCs) /\ Len(Append(q, vc)) = Len(q) + 1 /\ Len(q) \in Nat
          /\ \A i \in 1 .. Len(q) : Append(q, vc)[i] = q[i]
          /\ Append(q, vc)[Len(q) + 1] = vc
      <4>. HIDE DEF q
      <4>. QED  BY <3>1
    <3>4. entry \in Standing /\ entry.vcs = Append(q, vc)
      BY <3>1, <3>2, <3>3 DEF Standing
    <3>. HIDE DEF entry
    <3>. QED  BY <3>3, <3>4
  <2>7. Backed(vcs, did, entry, today)
    <3>1. ASSUME NEW i \in 1 .. Len(entry.vcs), i # Len(entry.vcs)
          PROVE  i \in 1 .. Len(Kept(did).vcs)
      BY <2>6, <3>1
    <3>2. vc.about = did /\ vc.sound /\ vc.validFrom =< today
      BY CredentialTyped DEF AddAuditVC, VerifyAuditVC, Standings
    <3>. HIDE DEF vcs, entry
    <3>3. SUFFICES ASSUME NEW i \in 1 .. Len(entry.vcs)
                   PROVE  /\ entry.vcs[i].about = did
                          /\ entry.vcs[i].id \in DOMAIN vcs
                          /\ vcs[entry.vcs[i].id] = entry.vcs[i]
                          /\ entry.vcs[i].sound
                          /\ entry.vcs[i].validFrom =< today
      BY DEF Backed
    <3>4. CASE i = Len(entry.vcs)
      BY <2>2, <2>6, <3>2, <3>4
    <3>5. CASE i # Len(entry.vcs)
      <4>1. i \in 1 .. Len(Kept(did).vcs) /\ entry.vcs[i] = Kept(did).vcs[i]
        BY <2>6, <3>1, <3>5
      <4>2. Backed(vcs, did, Kept(did), today)
        BY <1>2, <2>1, <2>5
      <4>. QED  BY <4>1, <4>2 DEF Backed
    <3>. QED  BY <3>4, <3>5
  <2>8. /\ memory' = [entries |-> Put(memory.entries, did, entry), vcs |-> vcs]
        /\ database' = [rows |-> Put(database.rows, did, SerializeEntry(entry)), vcs |-> vcs]
    BY <1>0, <1>2, <2>1 DEF AddAuditVC, UpdateWith
  <2>. HIDE DEF vcs, entry
  <2>. QED  BY <1>0, <2>3, <2>5, <2>6, <2>7, <2>8, EntryWritten
<1>. QED  BY <1>1, <1>2

\* An agent takes its credentials with it, and those of no other.
LEMMA RemoveKeeps ==
  ASSUME Standings, NEW did, RemoveAgent(did)
  PROVE  Standings'
<1>0. DOMAIN database.rows = DOMAIN memory.entries /\ database.vcs = memory.vcs /\ today' = today
  BY DEF Standings, RemoveAgent
<1>1. CASE did \notin DOMAIN memory.entries
  <2>1. memory' = memory /\ database' = database
    BY <1>0, <1>1 DEF RemoveAgent
  <2>. QED  BY <1>0, <2>1, StandingsStay
<1>2. CASE did \in DOMAIN memory.entries
  <2>. DEFINE gone == IdsOf(memory.entries[did].vcs)
              vcs == Restrict(memory.vcs, DOMAIN memory.vcs \ gone)
              f == Without(memory.entries, did)
  <2>1. DeserializeEntry(database.rows[did]) = memory.entries[did]
    BY <1>2, RowRead
  <2>2. memory' = [entries |-> f, vcs |-> vcs]
    BY <1>2 DEF RemoveAgent
  <2>3. database' = [rows |-> Without(database.rows, did), vcs |-> vcs]
    BY <1>0, <1>2, <2>1 DEF RemoveAgent
  <2>4. /\ f = [k \in DOMAIN memory.entries \ {did} |-> memory.entries[k]]
        /\ DOMAIN f = DOMAIN memory.entries \ {did}
        /\ \A k \in DOMAIN f : f[k] = memory.entries[k]
        /\ f = [k \in DOMAIN f |-> f[k]]
    BY DEF Without, Restrict
  <2>5. /\ DOMAIN vcs = DOMAIN memory.vcs \ gone
        /\ \A k \in DOMAIN vcs : vcs[k] = memory.vcs[k]
        /\ vcs = [k \in DOMAIN vcs |-> vcs[k]]
    BY DEF Restrict
  <2>6. IsTableOf(f, Standing) /\ IsTableOf(vcs, AuditVCs)
    <3>. HIDE DEF f, vcs, gone
    <3>. QED  BY <2>4, <2>5 DEF IsTableOf, Standings
  <2>7. Without(database.rows, did) = [k \in DOMAIN f |-> SerializeEntry(f[k])]
    <3>1. database.rows = [k \in DOMAIN memory.entries |-> SerializeEntry(memory.entries[k])]
      BY DEF Standings
    <3>2. Without(database.rows, did) = [k \in DOMAIN memory.entries \ {did} |-> SerializeEntry(memory.entries[k])]
      BY <3>1 DEF Without, Restrict
    <3>. HIDE DEF f
    <3>. QED  BY <2>4, <3>2
  <2>8. ASSUME NEW k \in DOMAIN f
        PROVE  Backed(vcs, k, f[k], today)
    <3>1. Backed(memory.vcs, k, memory.entries[k], today) /\ Backed(memory.vcs, did, memory.entries[did], today) /\ k # did
      BY <1>2, <2>4 DEF Standings
    <3>2. Len(memory.entries[did].vcs) \in Nat /\ DOMAIN memory.entries[did].vcs = 1 .. Len(memory.entries[did].vcs)
      BY <1>2 DEF Standings, IsTableOf, Standing
    <3>3. ASSUME NEW i \in 1 .. Len(memory.entries[k].vcs)
          PROVE  memory.entries[k].vcs[i].id \notin gone
      <4>1. SUFFICES ASSUME NEW j \in 1 .. Len(memory.entries[did].vcs),
                            memory.entries[did].vcs[j].id = memory.entries[k].vcs[i].id
                     PROVE  FALSE
        BY <3>2 DEF IdsOf
      <4>2. memory.entries[did].vcs[j] = memory.entries[k].vcs[i]
        <5>1. memory.vcs[memory.entries[did].vcs[j].id] = memory.entries[did].vcs[j]
          BY <3>1 DEF Backed
        <5>2. memory.vcs[memory.entries[k].vcs[i].id] = memory.entries[k].vcs[i]
          BY <3>1 DEF Backed
        <5>. QED  BY <4>1, <5>1, <5>2, Zenon
      <4>3. memory.entries[did].vcs[j].about = did /\ memory.entries[k].vcs[i].about = k
        BY <3>1 DEF Backed
      <4>. QED  BY <3>1, <4>2, <4>3, Zenon
    <3>. HIDE DEF f, vcs, gone
    <3>4. f[k] = memory.entries[k]
      BY <2>4
    <3>5. ASSUME NEW c, c \in DOMAIN memory.vcs, c \notin gone
          PROVE  c \in DOMAIN vcs /\ vcs[c] = memory.vcs[c]
      BY <2>5, <3>5
    <3>6. ASSUME NEW i \in 1 .. Len(memory.entries[k].vcs)
          PROVE  /\ memory.entries[k].vcs[i].id \in DOMAIN vcs
                 /\ vcs[memory.entries[k].vcs[i].id] = memory.entries[k].vcs[i]
      <4>. DEFINE v == memory.entries[k].vcs[i]
      <4>1. v.id \in DOMAIN memory.vcs /\ memory.vcs[v.id] = v /\ v.id \notin gone
        BY <3>1, <3>3 DEF Backed
      <4>. HIDE DEF v
      <4>. QED  BY <3>5, <4>1 DEF v
    <3>7. Backed(memory.vcs, k, memory.entries[k], today)
      BY <3>1
    <3>8. ASSUME NEW i \in 1 .. Len(memory.entries[k].vcs)
          PROVE  /\ memory.entries[k].vcs[i].about = k /\ memory.entries[k].vcs[i].sound
                 /\ memory.entries[k].vcs[i].validFrom =< today
      BY <3>7 DEF Backed
    <3>9. Backed(vcs, k, memory.entries[k], today)
      BY <3>6, <3>8, Zenon DEF Backed
    <3>. QED  BY <3>4, <3>9, Zenon
  <2>9. memory'.entries = f /\ memory'.vcs = vcs /\ today' \in Nat
    BY <1>0, <2>2 DEF Standings
  <2>. HIDE DEF f, vcs, gone
  <2>. QED  BY <1>0, <2>2, <2>3, <2>6, <2>7, <2>8, <2>9 DEF Standings, IsTableOf
<1>. QED  BY <1>1, <1>2

LEMMA ClearKeeps ==
  ASSUME Standings, Clear
  PROVE  Standings'
<1>. DEFINE e == << >>
<1>1. DOMAIN e = {} /\ e = [k \in DOMAIN e |-> e[k]] /\ e = [k \in {} |-> SerializeEntry(e[k])]
  OBVIOUS
<1>2. memory' = [entries |-> e, vcs |-> e] /\ database' = [rows |-> e, vcs |-> e] /\ today' = today
  BY DEF Clear
<1>3. memory'.entries = e /\ memory'.vcs = e
  BY <1>2
<1>. HIDE DEF e
<1>. QED  BY <1>1, <1>2, <1>3 DEF Standings, IsTableOf

\* A day more makes nothing of what counts not yet valid.
LEMMA DayKeeps ==
  ASSUME Standings, DayPasses
  PROVE  Standings'
<1>1. today' = today + 1 /\ memory' = memory /\ database' = database /\ today \in Nat
  BY DEF DayPasses, Standings
<1>2. ASSUME NEW did \in DOMAIN memory.entries
      PROVE  Backed(memory.vcs, did, memory.entries[did], today + 1)
  <2>1. Backed(memory.vcs, did, memory.entries[did], today)
    BY DEF Standings
  <2>2. memory.entries[did].vcs \in Seq(AuditVCs)
    BY DEF Standings, IsTableOf, Standing
  <2>3. \A i \in 1 .. Len(memory.entries[did].vcs) : memory.entries[did].vcs[i].validFrom \in Int
    BY <2>2, CredentialTyped
  <2>. QED  BY <1>1, <2>1, <2>3 DEF Backed
<1>. QED  BY <1>1, <1>2 DEF Standings, IsTableOf

\* An event is marked by the one before it, and the others stay as they are.
LEMMA EventKeeps ==
  ASSUME Conduct, NEW type \in DOMAIN EventState, RecordEvent(type)
  PROVE  Conduct'
<1>0. PICK n \in Nat : n = Len(events)
  BY DEF Conduct
<1>1. /\ events' = Append(events, type) /\ events' \in Seq(DOMAIN EventState)
      /\ Len(events') = n + 1 /\ events'[n + 1] = type
      /\ \A i \in 1 .. n : events'[i] = events[i]
  BY <1>0 DEF Conduct, RecordEvent
<1>2. ASSUME NEW i \in 1 .. (n + 1) PROVE StateBefore(i)' = StateBefore(i)
  <2>1. i # 1 => i - 1 \in 1 .. n
    BY <1>1
  <2>. QED  BY <1>1, <2>1 DEF StateBefore
<1>3. behaving' = EventState[type] /\ behaving' = StateBefore(n + 2)'
  <2>1. n + 2 # 1 /\ (n + 2) - 1 = n + 1
    BY <1>1
  <2>. QED  BY <1>1, <2>1 DEF RecordEvent, StateBefore
<1>4. behaving = StateBefore(n + 1)
  BY <1>0 DEF Conduct
<1>5. violations' = IF EventState[type] \in Permitted[StateBefore(n + 1)] THEN violations
                    ELSE violations \cup {n + 1}
  BY <1>0, <1>4 DEF RecordEvent
<1>6. violations' \subseteq 1 .. (n + 1)
  <2>1. violations \subseteq 1 .. n
    BY <1>0 DEF Conduct
  <2>2. 1 .. n \subseteq 1 .. (n + 1) /\ n + 1 \in 1 .. (n + 1)
    OBVIOUS
  <2>. QED  BY <1>5, <2>1, <2>2
<1>7. ASSUME NEW i \in 1 .. (n + 1)
      PROVE  i \in violations' <=> EventState[events'[i]] \notin Permitted[StateBefore(i)']
  <2>1. CASE i = n + 1
    <3>1. n + 1 \notin violations
      BY <1>0, <1>1 DEF Conduct
    <3>. QED  BY <1>1, <1>2, <1>5, <2>1, <3>1
  <2>2. CASE i # n + 1
    <3>1. i \in 1 .. n
      BY <1>1, <2>2
    <3>2. i \in violations <=> EventState[events[i]] \notin Permitted[StateBefore(i)]
      BY <1>0, <3>1 DEF Conduct
    <3>3. i \in violations' <=> i \in violations
      BY <1>5, <2>2
    <3>. QED  BY <1>1, <1>2, <3>1, <3>2, <3>3
  <2>. QED  BY <2>1, <2>2
<1>8. (n + 1) + 1 = n + 2
  BY <1>1
<1>. QED  BY <1>1, <1>3, <1>6, <1>7, <1>8 DEF Conduct

-----------------------------------------------------------------------------
(* The score.                                                              *)

\* The level that counts is none or that of a credential.
LEMMA LevelTyped ==
  ASSUME NEW entry \in Standing, today \in Nat
  PROVE  BestLevel(entry) \in 0 .. 3
<1>. DEFINE T == {0} \cup {entry.vcs[i].level : i \in {j \in DOMAIN entry.vcs : ~ IsExpired(entry.vcs[j])}}
            U == {x + 1 : x \in T}
<1>1. entry.vcs \in Seq(AuditVCs)
  BY DEF Standing
<1>2. T \in SUBSET (0 .. 3)
  <2>1. \A i \in DOMAIN entry.vcs : entry.vcs[i].level \in 0 .. 3
    <3>1. \A i \in DOMAIN entry.vcs : entry.vcs[i] \in AuditVCs
      BY <1>1
    <3>. QED  BY <3>1, CredentialTyped
  <2>. QED  BY <2>1
<1>3. BestLevel(entry) = Max(T)
  BY DEF BestLevel
<1>4. 0 \in T
  OBVIOUS
<1>. HIDE DEF T
<1>5. \E x \in T : \A y \in T : x >= y
  <2>1. CASE 3 \in T
    BY <1>2, <2>1
  <2>2. CASE 3 \notin T /\ 2 \in T
    BY <1>2, <2>2
  <2>3. CASE 3 \notin T /\ 2 \notin T /\ 1 \in T
    BY <1>2, <2>3
  <2>4. CASE 3 \notin T /\ 2 \notin T /\ 1 \notin T
    BY <1>2, <1>4, <2>4
  <2>. QED  BY <2>1, <2>2, <2>3, <2>4
<1>6. Max(T) \in T
  BY <1>5 DEF Max
<1>. QED  BY <1>2, <1>3, <1>6

\* The boost depends on how many interactions there were, not on their outcome.
LEMMA BoostTyped ==
  ASSUME NEW entry \in Standing, today \in Nat
  PROVE  Boost(entry) \in Nat
<1>1. BestLevel(entry) \in 0 .. 3
  BY LevelTyped
<1>2. entry.alpha \in Nat /\ entry.beta \in Nat
  BY DEF Standing
<1>3. CASE BestLevel(entry) = 0
  BY <1>3 DEF Boost
<1>4. CASE BestLevel(entry) # 0
  <2>1. BestLevel(entry) = 1 \/ BestLevel(entry) = 2 \/ BestLevel(entry) = 3
    BY <1>1, <1>4
  <2>2. <<3, 5, 7>>[BestLevel(entry)] \in 0 .. 7
    BY <2>1
  <2>3. <<3, 5, 7>>[BestLevel(entry)] * (entry.alpha + entry.beta) \in Nat
    BY <1>2, <2>2
  <2>. QED  BY <2>3 DEF Boost
<1>. QED  BY <1>3, <1>4

\* A factor keeps an order.
LEMMA Scales ==
  ASSUME NEW a \in Int, NEW b \in Int, NEW c \in Nat, a =< b
  PROVE  c * a =< c * b
OBVIOUS

\* With one success less and one failure more the level and the boost stay, and
\* so does the cap: the score follows the share of successes.
LEMMA FailureLowers ==
  ASSUME NEW entry \in Standing, today \in Nat, entry.alpha > 1
  PROVE  Score(entry) >= Score(SwappedForFailure(entry))
<1>. DEFINE other == SwappedForFailure(entry)
            a == entry.alpha
            b == entry.beta
            s == a + b
            level == BestLevel(entry)
            boost == Boost(entry)
            w == Whole(entry)
            cap == (TrustCap(entry.total) * w) \div 10
            conf == Confidence(entry)
<1>1. a \in Nat /\ b \in Nat /\ entry.total \in Nat /\ entry.behavior \in Int /\ FullConfidence \in Nat
  BY TrustAssumption DEF TrustAssumption, Standing
<1>2. /\ other.alpha = a - 1 /\ other.beta = b + 1 /\ other.total = entry.total
      /\ other.vcs = entry.vcs /\ other.behavior = entry.behavior
  BY DEF SwappedForFailure, Standing
<1>3. other.alpha + other.beta = s
  BY <1>1, <1>2
<1>4. BestLevel(other) = level
  BY <1>2 DEF BestLevel
<1>5. Boost(other) = boost
  BY <1>2, <1>3, <1>4 DEF Boost
<1>6. Whole(other) = w /\ Confidence(other) = conf
  BY <1>2, <1>3 DEF Whole, Confidence
<1>7. level \in 0 .. 3 /\ boost \in Nat
  BY LevelTyped, BoostTyped
<1>8. conf \in Nat
  BY <1>1 DEF Confidence, Smaller
<1>. DEFINE rest == (200 * level + 60 * entry.behavior) * s
<1>9. rest \in Int
  <2>. DEFINE c == 200 * level + 60 * entry.behavior
  <2>1. c \in Int /\ s \in Int
    BY <1>1, <1>7
  <2>. HIDE DEF c, s
  <2>2. c * s \in Int
    BY <2>1
  <2>. QED  BY <2>2 DEF c
<1>10. /\ Raw(entry) = 105 * Larger(10 * a, boost) + rest
       /\ Raw(other) = 105 * Larger(10 * (a - 1), boost) + rest
  BY <1>2, <1>3, <1>4, <1>5 DEF Raw
<1>11. w \in Int /\ cap \in Int
  <2>1. w \in Int
    BY <1>1 DEF Whole
  <2>2. Cardinality({i \in DOMAIN CapAt : entry.total >= CapAt[i]}) \in Nat
    <3>1. IsFiniteSet(DOMAIN CapAt)
      <4>1. CapAt \in Seq(Nat)
        BY TrustAssumption DEF TrustAssumption
      <4>2. DOMAIN CapAt = 1 .. Len(CapAt) /\ Len(CapAt) \in Nat
        BY <4>1
      <4>. QED  BY <4>2, FS_Interval
    <3>2. IsFiniteSet({i \in DOMAIN CapAt : entry.total >= CapAt[i]})
      BY <3>1, FS_Subset
    <3>. QED  BY <3>2, FS_CardinalityType
  <2>3. TrustCap(entry.total) \in Int
    BY <2>2 DEF TrustCap
  <2>4. TrustCap(entry.total) * w \in Int
    <3>. HIDE DEF w
    <3>. QED  BY <2>1, <2>3
  <2>5. \A x \in Int : x \div 10 \in Int
    OBVIOUS
  <2>. QED  BY <2>1, <2>4, <2>5
<1>12. /\ Capped(entry) = Smaller(Raw(entry), cap)
       /\ Capped(other) = Smaller(Raw(other), cap)
  BY <1>2, <1>6 DEF Capped
<1>. HIDE DEF rest, cap, w, conf, boost, level, s, other
<1>13. Raw(entry) \in Int /\ Raw(other) \in Int /\ Raw(other) =< Raw(entry)
  <2>. HIDE DEF a
  <2>. QED  BY <1>1, <1>7, <1>9, <1>10 DEF Larger
<1>14. Capped(entry) \in Int /\ Capped(other) \in Int /\ Capped(other) =< Capped(entry)
  BY <1>11, <1>12, <1>13 DEF Smaller
<1>15. (2 * conf) * Capped(other) =< (2 * conf) * Capped(entry)
  BY <1>8, <1>14, Scales
<1>16. /\ Score(entry) = (2 * conf) * Capped(entry) + (FullConfidence - conf) * w
       /\ Score(other) = (2 * conf) * Capped(other) + (FullConfidence - conf) * w
  BY <1>6 DEF Score, conf, w
<1>17. /\ (FullConfidence - conf) * w \in Int
       /\ (2 * conf) * Capped(entry) \in Int
       /\ (2 * conf) * Capped(other) \in Int
  BY <1>1, <1>8, <1>11, <1>14
<1>. DEFINE x == (2 * conf) * Capped(entry)
            y == (2 * conf) * Capped(other)
            z == (FullConfidence - conf) * w
<1>18. x \in Int /\ y \in Int /\ z \in Int /\ y =< x
  BY <1>15, <1>17
<1>19. Score(entry) = x + z /\ Score(other) = y + z
  BY <1>16
<1>. HIDE DEF x, y, z
<1>. QED  BY <1>18, <1>19 DEF other

\* Before the first step of the cap there is only its floor of 0.7, which the
\* share of the confidence weighs against the neutral half.
LEMMA NewcomerCapped ==
  ASSUME NEW entry \in Standing, today \in Nat, entry.total < CapAt[1]
  PROVE  10 * Score(entry) =< (10 * FullConfidence + 4 * Confidence(entry)) * Whole(entry)
<1>. DEFINE w == Whole(entry)
            conf == Confidence(entry)
            c == Capped(entry)
            f == FullConfidence
<1>1. /\ entry.alpha \in Nat /\ entry.beta \in Nat /\ entry.total \in Nat /\ entry.behavior \in Int /\ f \in Nat
      /\ CapAt \in Seq(Nat) /\ Len(CapAt) > 0 /\ \A i \in DOMAIN CapAt : CapAt[1] =< CapAt[i]
  BY TrustAssumption DEF TrustAssumption, Standing
<1>2. w \in Nat
  BY <1>1 DEF Whole
<1>3. conf \in Nat /\ conf =< f
  BY <1>1 DEF Confidence, Smaller
<1>4. TrustCap(entry.total) = 7
  <2>1. \A i \in DOMAIN CapAt : ~ (entry.total >= CapAt[i])
    <3>1. \A i \in DOMAIN CapAt : CapAt[i] \in Nat
      BY <1>1
    <3>2. 1 \in DOMAIN CapAt
      BY <1>1
    <3>. QED  BY <1>1, <3>1, <3>2
  <2>2. {i \in DOMAIN CapAt : entry.total >= CapAt[i]} = {}
    BY <2>1
  <2>. QED  BY <2>2, FS_EmptySet DEF TrustCap
<1>5. Raw(entry) \in Int
  <2>. DEFINE level == BestLevel(entry)
              boost == Boost(entry)
              k == 200 * level + 60 * entry.behavior
              s == entry.alpha + entry.beta
  <2>1. level \in 0 .. 3 /\ boost \in Nat
    BY LevelTyped, BoostTyped
  <2>. HIDE DEF level, boost
  <2>2. k \in Int /\ s \in Int /\ Larger(10 * entry.alpha, boost) \in Int
    BY <1>1, <2>1 DEF Larger
  <2>3. Raw(entry) = 105 * Larger(10 * entry.alpha, boost) + k * s
    BY DEF Raw, boost, level
  <2>. HIDE DEF k, s
  <2>4. k * s \in Int
    BY <2>2
  <2>. QED  BY <2>2, <2>3, <2>4
<1>6. c = Smaller(Raw(entry), (7 * w) \div 10)
  BY <1>4 DEF Capped
<1>. HIDE DEF c, w, conf, f
<1>7. c \in Int /\ 10 * c =< 7 * w
  <2>1. (7 * w) \div 10 \in Int /\ 10 * ((7 * w) \div 10) =< 7 * w
    <3>1. \A x \in Nat : x \div 10 \in Int /\ 10 * (x \div 10) =< x
      OBVIOUS
    <3>2. 7 * w \in Nat
      BY <1>2
    <3>. QED  BY <3>1, <3>2
  <2>2. 7 * w \in Int
    BY <1>2
  <2>. DEFINE d == (7 * w) \div 10
              r == Raw(entry)
  <2>. HIDE DEF d, r
  <2>3. c = Smaller(r, d) /\ d \in Int /\ r \in Int /\ 10 * d =< 7 * w
    BY <1>5, <1>6, <2>1 DEF d, r
  <2>4. c =< d /\ c \in Int
    BY <2>3 DEF Smaller
  <2>. QED  BY <2>2, <2>3, <2>4
<1>8. (2 * conf) * (10 * c) =< (2 * conf) * (7 * w)
  BY <1>2, <1>3, <1>7, Scales
<1>9. Score(entry) = 2 * conf * c + (f - conf) * w
  BY DEF Score, conf, c, w, f
<1>. DEFINE cc == conf * c
            cw == conf * w
            fw == f * w
<1>10. cc \in Int /\ cw \in Int /\ fw \in Int
  BY <1>1, <1>2, <1>3, <1>7 DEF f
<1>11. (2 * conf) * (10 * c) = 20 * cc /\ (2 * conf) * (7 * w) = 14 * cw
  BY <1>2, <1>3, <1>7
<1>12. 2 * conf * c = 2 * cc /\ (f - conf) * w = fw - cw
  BY <1>1, <1>2, <1>3, <1>7 DEF f
<1>13. (10 * f + 4 * conf) * w = 10 * fw + 4 * cw
  BY <1>1, <1>2, <1>3 DEF f
<1>. HIDE DEF cc, cw, fw
<1>14. 10 * Score(entry) =< (10 * f + 4 * conf) * w
  BY <1>8, <1>9, <1>10, <1>11, <1>12, <1>13
<1>. QED  BY <1>14 DEF w, conf, f

-----------------------------------------------------------------------------
(* The theorem.                                                            *)

\* What the invariant is for.
LEMMA StandingsAgree ==
  ASSUME Standings
  PROVE  BackendsAgree /\ ScoreFollowsEvidence
<1>1. BackendsAgree
  <2>1. DOMAIN database.rows = DOMAIN memory.entries /\ database.vcs = memory.vcs
    BY DEF Standings
  <2>2. ASSUME NEW did \in DOMAIN memory.entries
        PROVE  Lookup(did) = {memory.entries[did]}
    BY <2>1, RowRead DEF Lookup
  <2>. QED  BY <2>1, <2>2 DEF BackendsAgree
<1>2. ASSUME NEW did \in DOMAIN memory.entries
      PROVE  LET entry == memory.entries[did] IN
             /\ entry.alpha > 1 => Score(entry) >= Score(SwappedForFailure(entry))
             /\ entry.total < CapAt[1] =>
                  10 * Score(entry) =< (10 * FullConfidence + 4 * Confidence(entry)) * Whole(entry)
             /\ \A i \in DOMAIN entry.vcs : IsExpired(entry.vcs[i]) \/ VerifyAuditVC(entry.vcs[i])
  <2>. DEFINE entry == memory.entries[did]
  <2>1. entry \in Standing /\ Backed(memory.vcs, did, entry, today) /\ today \in Nat
    BY DEF Standings, IsTableOf
  <2>. HIDE DEF entry
  <2>2. ASSUME NEW i \in DOMAIN entry.vcs
        PROVE  IsExpired(entry.vcs[i]) \/ VerifyAuditVC(entry.vcs[i])
    <3>1. entry.vcs \in Seq(AuditVCs)
      BY <2>1 DEF Standing
    <3>2. i \in 1 .. Len(entry.vcs) /\ entry.vcs[i] \in AuditVCs
      BY <3>1
    <3>3. entry.vcs[i].sound /\ entry.vcs[i].validFrom =< today /\ entry.vcs[i].validFrom \in Int
      BY <2>1, <3>2, CredentialTyped DEF Backed
    <3>. QED  BY <2>1, <3>3 DEF VerifyAuditVC
  <2>3. entry.alpha > 1 => Score(entry) >= Score(SwappedForFailure(entry))
    BY <2>1, FailureLowers
  <2>4. entry.total < CapAt[1] =>
          10 * Score(entry) =< (10 * FullConfidence + 4 * Confidence(entry)) * Whole(entry)
    BY <2>1, NewcomerCapped
  <2>. QED  BY <2>2, <2>3, <2>4 DEF entry
<1>3. ScoreFollowsEvidence
  BY <1>2, Zenon DEF ScoreFollowsEvidence
<1>. QED  BY <1>1, <1>3

LEMMA ConductWindowed ==
  ASSUME Conduct
  PROVE  ConductIsWindowed
<1>1. Window \subseteq 1 .. Len(events)
  BY TrustAssumption DEF TrustAssumption, Window, WindowStart, Larger, Conduct
<1>2. ViolationsInWindow = {i \in Window : \/ EventState[events[i]] \notin Permitted[StateBefore(i)]
                                           \/ events[i] = "POLICY_VIOLATION"}
  BY <1>1 DEF Conduct, ViolationsInWindow
<1>. QED  BY <1>2 DEF ConductIsWindowed, ViolationWeight

\* The standing of an agent is what it did, in both backends: after any sequence
\* of registrations, removals, interactions, reports, flags and credentials both
\* answer the same, a failure in the place of a success never scores higher, a
\* newcomer does not pass the cap, and the behavioural score counts the
\* violations of its window and no other (trust/registry.py, scoring.py,
\* behavioral.py).
THEOREM StandingAlwaysEarned == TrSpec => []StandingIsEarned
<1>1. TrInit => StandingInv
  <2>. SUFFICES ASSUME TrInit PROVE StandingInv
    OBVIOUS
  <2>. DEFINE e == << >>
  <2>1. DOMAIN e = {} /\ e = [k \in DOMAIN e |-> e[k]] /\ e = [k \in {} |-> SerializeEntry(e[k])]
    OBVIOUS
  <2>2. memory = [entries |-> e, vcs |-> e] /\ database = [rows |-> e, vcs |-> e] /\ today = 0
    BY DEF TrInit
  <2>3. memory.entries = e /\ memory.vcs = e
    BY <2>2
  <2>4. Standings
    <3>. HIDE DEF e
    <3>. QED  BY <2>1, <2>2, <2>3 DEF Standings, IsTableOf
  <2>5. Conduct
    BY DEF TrInit, Conduct, StateBefore
  <2>. QED  BY <2>4, <2>5 DEF StandingInv
<1>2. StandingInv /\ [TrNext \/ VNext]_trustvars => StandingInv'
  <2>. SUFFICES ASSUME StandingInv, [TrNext \/ VNext]_trustvars PROVE StandingInv'
    OBVIOUS
  <2>0. Standings /\ Conduct
    BY DEF StandingInv
  <2>1. ASSUME UNCHANGED <<events, behaving, violations>> PROVE Conduct'
    BY <2>0, <2>1 DEF Conduct, StateBefore
  <2>2. ASSUME UNCHANGED <<memory, database, today>> PROVE Standings'
    BY <2>0, <2>2 DEF Standings
  <2>3. ASSUME NEW did \in Agents, Register(did) PROVE StandingInv'
    BY <2>0, <2>1, <2>3, RegisterKeeps DEF StandingInv, Register
  <2>4. ASSUME NEW did \in Agents, RemoveAgent(did) PROVE StandingInv'
    BY <2>0, <2>1, <2>4, RemoveKeeps DEF StandingInv, RemoveAgent
  <2>5. ASSUME NEW did \in Agents, AddFlag(did) \/ RemoveFlag(did) PROVE StandingInv'
    BY <2>0, <2>1, <2>5, FlagKeeps DEF StandingInv, AddFlag, RemoveFlag, UpdateEntry, UpdateWith
  <2>6. ASSUME NEW did \in Agents, NEW success \in BOOLEAN, UpdateReputation(did, success) PROVE StandingInv'
    BY <2>0, <2>1, <2>6, ReputationKeeps DEF StandingInv, UpdateReputation, UpdateEntry, UpdateWith
  <2>7. ASSUME NEW did \in Agents, NEW vc \in AuditVCs, AddAuditVC(did, vc) PROVE StandingInv'
    BY <2>0, <2>1, <2>7, CredentialKeeps DEF StandingInv, AddAuditVC, UpdateWith
  <2>8. ASSUME NEW did \in Agents, NEW score \in BehaviorReports, UpdateBehavioralScore(did, score) PROVE StandingInv'
    BY <2>0, <2>1, <2>8, BehaviorKeeps DEF StandingInv, UpdateBehavioralScore, UpdateEntry, UpdateWith
  <2>9. ASSUME Clear PROVE StandingInv'
    BY <2>0, <2>1, <2>9, ClearKeeps DEF StandingInv, Clear
  <2>10. ASSUME DayPasses PROVE StandingInv'
    BY <2>0, <2>1, <2>10, DayKeeps DEF StandingInv, DayPasses
  <2>11. ASSUME VNext PROVE StandingInv'
    <3>1. PICK type \in DOMAIN EventState : RecordEvent(type)
      BY <2>11 DEF VNext
    <3>. QED  BY <2>0, <2>2, <3>1, EventKeeps DEF StandingInv, RecordEvent
  <2>12. ASSUME UNCHANGED trustvars PROVE StandingInv'
    BY <2>1, <2>2, <2>12 DEF StandingInv, trustvars
  <2>. QED
    BY <2>3, <2>4, <2>5, <2>6, <2>7, <2>8, <2>9, <2>10, <2>11, <2>12 DEF TrNext
<1>3. StandingInv => StandingIsEarned
  BY StandingsAgree, ConductWindowed DEF StandingInv, StandingIsEarned
<1>. QED  BY <1>1, <1>2, <1>3, PTL DEF TrSpec

===============================================================================
