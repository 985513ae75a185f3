-------------------------- MODULE ConnectionProofs --------------------------
(***************************************************************************)
(* Theorems about Connection, for any configurations, any number of resets *)
(* and of messages: both ends agree on a session, and its data is in order.*)
(***************************************************************************)
EXTENDS Connection, SequenceTheorems, WellFoundedInduction, TLAPS

-----------------------------------------------------------------------------
(* Frames.                                                                 *)

Frame ==
       [type : {"ClientHello"}, key : Keys, cn : Nonces]
  \cup [type : {"ServerHello"}, key : Keys, cn : Nonces, sn : Nonces,
        suite : Suites]
  \cup [type : {"ClientAuth"}, key : Keys, cn : Nonces, sn : Nonces]
  \cup [type : {"ApplicationData"}, key : Keys, seq : 0..MaxData]
  \cup [type : {"Alert"}, key : Keys, level : {"warning", "fatal"}, code : Nat]

\* What a frame tells of the end that sent it: a hello has a nonce that was
\* drawn, an answer is one the server gave, an authentication is one the
\* client completed, and data is under the key of a completed session. n is
\* the client's nonce, O the sessions offered and C those completed.
Tells(f, n, O, C) ==
  /\ f.type = "ClientHello" => f.cn \in 1..n
  /\ f.type = "ServerHello" => <<f.cn, f.sn>> \in O
  /\ f.type = "ClientAuth" => <<f.cn, f.sn>> \in C
  /\ f.type = "ApplicationData" => f.key \in C /\ f.seq < MaxData

AllTell(q, n, O, C) == \A i \in 1..Len(q) : Tells(q[i], n, O, C)

-----------------------------------------------------------------------------
(* The inductive invariant.                                                *)

Typed == TypeOK /\ wire \in [Ends -> Seq(Frame)]

\* Who has drawn which nonces, and which key belongs to which state.
Unkeyed == {"IDLE", "HELLO_SENT", "HELLO_RECEIVED"}

Stages ==
  /\ \A e \in Ends :
       /\ nonces[e] <= resets[e] + 1
       /\ state[e] = "IDLE" => nonces[e] <= resets[e]
       /\ state[e] \in Unkeyed =>
            hmac_key[e] = InitialKey /\ send_seq[e] = 0 /\ recv_seq[e] = 0
       /\ state[e] = "ESTABLISHED" => hmac_key[e] \in completed
  /\ state[Client] # "HELLO_RECEIVED" /\ state[Server] # "HELLO_SENT"
  /\ state[Client] = "HELLO_SENT" =>
       /\ handshake[Client] \in [cn : Nonces, sn : Nonces]
       /\ handshake[Client].cn = nonces[Client]
       /\ \A k \in completed : k[1] < nonces[Client]
  /\ state[Server] = "HELLO_RECEIVED" =>
       /\ handshake[Server] \in [cn : Nonces, sn : Nonces]
       /\ <<handshake[Server].cn, handshake[Server].sn>> \in offered

Sessions ==
  /\ \A k \in offered : k[1] \in 1..nonces[Client] /\ k[2] \in 1..nonces[Server]
  /\ completed \subseteq offered
  /\ offered # {} => AlertCode = 0
  /\ \A e \in Ends : AllTell(wire[e], nonces[Client], offered, completed)

\* The session an end is in, or the one a server will be in once the client's
\* authentication reaches it: data of the session may be on its way before.
Awaits(e, K) ==
  \/ state[e] = "ESTABLISHED" /\ hmac_key[e] = K
  \/ /\ e = Server
     /\ state[e] = "HELLO_RECEIVED"
     /\ handshake[e] = [cn |-> K[1], sn |-> K[2]]

IsData(f, K, n) == f.type = "ApplicationData" /\ f.key = K /\ f.seq = n

\* A wire has message n of the session.
Has(q, K, n) == \E i \in 1..Len(q) : IsData(q[i], K, n)

\* Every message of the session beyond r is behind the one before it.
Chained(q, K, r) ==
  \A j \in 1..Len(q) :
    q[j].type = "ApplicationData" /\ q[j].key = K /\ q[j].seq > r =>
      \E i \in 1..(j - 1) : IsData(q[i], K, q[j].seq - 1)

\* What the peer sends next has its predecessor on the way, or received.
Continues(p, K, r) ==
  state[p] = "ESTABLISHED" /\ hmac_key[p] = K /\ send_seq[p] > r =>
    Has(wire[p], K, send_seq[p] - 1)

Flow(e) ==
  \A K \in Keys : Awaits(e, K) =>
    /\ Chained(wire[Peer(e)], K, recv_seq[e])
    /\ Continues(Peer(e), K, recv_seq[e])

Ordered(e) ==
  /\ Len(received[e]) = recv_seq[e]
  /\ \A i \in 1..Len(received[e]) : received[e][i] = i - 1

SessionInv == Typed /\ Stages /\ Sessions

IInv == SessionInv /\ \A e \in Ends : Flow(e) /\ Ordered(e)

-----------------------------------------------------------------------------
(* Wires: a frame is taken off or put on, and a reset drops frames.        *)

LEMMA TailFacts ==
  ASSUME NEW q \in Seq(Frame), q # <<>>
  PROVE  /\ Head(q) \in Frame /\ Head(q) = q[1]
         /\ Tail(q) \in Seq(Frame)
         /\ Len(q) \in Nat /\ Len(q) > 0 /\ Len(Tail(q)) = Len(q) - 1
         /\ \A i \in 1..Len(Tail(q)) : i + 1 \in 1..Len(q) /\ Tail(q)[i] = q[i + 1]
OBVIOUS

LEMMA AppendFacts ==
  ASSUME NEW q \in Seq(Frame), NEW m \in Frame
  PROVE  /\ Append(q, m) \in Seq(Frame)
         /\ Len(q) \in Nat /\ Len(Append(q, m)) = Len(q) + 1
         /\ \A i \in 1..Len(q) : Append(q, m)[i] = q[i]
         /\ Append(q, m)[Len(q) + 1] = m
OBVIOUS

LEMMA CutFacts ==
  ASSUME NEW q \in Seq(Frame), NEW k \in 0..Len(q), NEW n \in 0..Len(q)
  PROVE  /\ SubSeq(q, 1, k) \in Seq(Frame) /\ SubSeq(q, n + 1, Len(q)) \in Seq(Frame)
         /\ Len(q) \in Nat
         /\ Len(SubSeq(q, 1, k)) = k /\ Len(SubSeq(q, n + 1, Len(q))) = Len(q) - n
         /\ \A i \in 1..k : i \in 1..Len(q) /\ SubSeq(q, 1, k)[i] = q[i]
         /\ \A i \in 1..(Len(q) - n) :
              n + i \in 1..Len(q) /\ SubSeq(q, n + 1, Len(q))[i] = q[n + i]
OBVIOUS

\* Every frame put on a wire is one of these.
LEMMA FrameTypes ==
  /\ \A k \in Keys, cn \in Nonces : ClientHello(k, cn) \in Frame
  /\ \A k \in Keys, cn, sn \in Nonces, s \in Suites :
       ServerHello(k, cn, sn, s) \in Frame
  /\ \A k \in Keys, cn, sn \in Nonces : ClientAuth(k, cn, sn) \in Frame
  /\ \A k \in Keys, n \in 0..MaxData : Data(k, n) \in Frame
  /\ \A k \in Keys, l \in {"warning", "fatal"}, c \in Nat : Alert(k, l, c) \in Frame
BY DEF Frame, ClientHello, ServerHello, ClientAuth, Data, Alert

LEMMA FrameFields ==
  ASSUME NEW f \in Frame
  PROVE  /\ f.key \in Keys
         /\ f.type = "ClientHello" => f.cn \in Nonces
         /\ f.type \in {"ServerHello", "ClientAuth"} => f.cn \in Nonces /\ f.sn \in Nonces
         /\ f.type = "ApplicationData" => f.seq \in 0..MaxData
<1>1. CASE f \in [type : {"ClientHello"}, key : Keys, cn : Nonces]
  BY <1>1
<1>2. CASE f \in [type : {"ServerHello"}, key : Keys, cn : Nonces, sn : Nonces,
                  suite : Suites]
  BY <1>2
<1>3. CASE f \in [type : {"ClientAuth"}, key : Keys, cn : Nonces, sn : Nonces]
  BY <1>3
<1>4. CASE f \in [type : {"ApplicationData"}, key : Keys, seq : 0..MaxData]
  BY <1>4
<1>5. CASE f \in [type : {"Alert"}, key : Keys, level : {"warning", "fatal"},
                  code : Nat]
  BY <1>5
<1>. QED  BY <1>1, <1>2, <1>3, <1>4, <1>5 DEF Frame

LEMMA PeerFacts ==
  /\ Client \in Ends /\ Server \in Ends /\ Client # Server
  /\ \A e \in Ends : e = Client \/ e = Server
  /\ Peer(Client) = Server /\ Peer(Server) = Client
  /\ \A e \in Ends : Peer(e) \in Ends /\ Peer(e) # e /\ Peer(Peer(e)) = e
                     /\ Ends = {e, Peer(e)}
BY DEF Client, Server, Ends, Peer

\* The chain of a session's messages holds when a frame that is not one of
\* them, or is one that was received, is taken off.
LEMMA ChainedTail ==
  ASSUME NEW q \in Seq(Frame), q # <<>>, NEW K, NEW r \in Nat, NEW t \in Nat,
         r <= t, Chained(q, K, r),
         Head(q).type = "ApplicationData" /\ Head(q).key = K => Head(q).seq < t
  PROVE  /\ Chained(Tail(q), K, t)
         /\ \A n \in Nat : n >= t /\ Has(q, K, n) => Has(Tail(q), K, n)
<1>. USE TailFacts
<1>1. ASSUME NEW n \in Nat, n >= t, NEW i \in 1..Len(q), IsData(q[i], K, n)
      PROVE  i - 1 \in 1..Len(Tail(q)) /\ Tail(q)[i - 1] = q[i]
  <2>1. i # 1
    BY <1>1 DEF IsData
  <2>2. i - 1 \in 1..Len(Tail(q))
    BY <2>1
  <2>. QED  BY <2>2
<1>2. ASSUME NEW n \in Nat, n >= t, Has(q, K, n)
      PROVE  Has(Tail(q), K, n)
  BY <1>1, <1>2 DEF Has
<1>3. ASSUME NEW j \in 1..Len(Tail(q)), Tail(q)[j].type = "ApplicationData",
             Tail(q)[j].key = K, Tail(q)[j].seq > t
      PROVE  \E i \in 1..(j - 1) : IsData(Tail(q)[i], K, Tail(q)[j].seq - 1)
  <2>. DEFINE s == Tail(q)[j].seq
  <2>1. j + 1 \in 1..Len(q) /\ q[j + 1] = Tail(q)[j] /\ q[j + 1] \in Frame
    OBVIOUS
  <2>2. s \in Nat
    BY <1>3, <2>1, FrameFields
  <2>3. PICK i \in 1..j : IsData(q[i], K, s - 1)
    BY <1>3, <2>1, <2>2 DEF Chained
  <2>4. i \in 1..Len(q) /\ s - 1 \in Nat /\ s - 1 >= t
    BY <1>3, <2>1, <2>2
  <2>5. i - 1 \in 1..(j - 1) /\ Tail(q)[i - 1] = q[i]
    BY <1>1, <2>3, <2>4
  <2>. QED  BY <2>3, <2>5
<1>. QED  BY <1>2, <1>3 DEF Chained

\* ... when something else is put on ...
LEMMA ChainedOther ==
  ASSUME NEW q \in Seq(Frame), NEW m \in Frame, m.type # "ApplicationData",
         NEW K, NEW r, Chained(q, K, r)
  PROVE  /\ Chained(Append(q, m), K, r)
         /\ \A n : Has(q, K, n) => Has(Append(q, m), K, n)
<1>. USE AppendFacts
<1>1. \A i \in 1..Len(Append(q, m)) : i \in 1..Len(q) \/ i = Len(q) + 1
  OBVIOUS
<1>2. ASSUME NEW j \in 1..Len(q) PROVE 1..(j - 1) \subseteq 1..Len(q)
  OBVIOUS
<1>3. Chained(Append(q, m), K, r)
  BY <1>1, <1>2 DEF Chained
<1>. QED  BY <1>3 DEF Has

\* ... when the next message is put on ...
LEMMA ChainedNext ==
  ASSUME NEW q \in Seq(Frame), NEW J \in Keys, NEW n \in 0..MaxData, NEW K, NEW r \in Nat,
         Chained(q, K, r), J = K /\ n > r => Has(q, K, n - 1)
  PROVE  /\ Chained(Append(q, Data(J, n)), K, r)
         /\ Has(Append(q, Data(J, n)), J, n)
<1>. DEFINE m == Data(J, n)
            p == Append(q, m)
<1>1. /\ m \in Frame
      /\ m.type = "ApplicationData" /\ m.key = J /\ m.seq = n
  BY FrameTypes DEF Data
<1>. HIDE DEF m
<1>2. /\ Len(q) \in Nat /\ Len(p) = Len(q) + 1
      /\ \A i \in 1..Len(q) : p[i] = q[i]
      /\ p[Len(q) + 1] = m
  BY <1>1, AppendFacts
<1>. HIDE DEF p
<1>3. ASSUME NEW j \in 1..Len(p), p[j].type = "ApplicationData", p[j].key = K, p[j].seq > r
      PROVE  \E i \in 1..(j - 1) : IsData(p[i], K, p[j].seq - 1)
  <2>1. CASE j = Len(q) + 1
    <3>1. Has(q, K, n - 1)
      BY <1>1, <1>2, <1>3, <2>1
    <3>. QED  BY <1>1, <1>2, <2>1, <3>1 DEF Has
  <2>2. CASE j \in 1..Len(q)
    <3>1. PICK i \in 1..(j - 1) : IsData(q[i], K, q[j].seq - 1)
      BY <1>2, <1>3, <2>2 DEF Chained
    <3>. QED  BY <1>2, <2>2, <3>1
  <2>. QED  BY <1>2, <2>1, <2>2
<1>4. Has(p, J, n)
  BY <1>1, <1>2 DEF Has, IsData
<1>. QED  BY <1>3, <1>4 DEF Chained, m, p

\* ... and when the last frames are dropped.
LEMMA ChainedCut ==
  ASSUME NEW q \in Seq(Frame), NEW k \in 0..Len(q), NEW K, NEW r, Chained(q, K, r)
  PROVE  Chained(SubSeq(q, 1, k), K, r)
<1>1. \A j \in 1..k : j \in 1..Len(q) /\ \A i \in 1..(j - 1) : i \in 1..k
  BY CutFacts
<1>. QED  BY <1>1, CutFacts DEF Chained

-----------------------------------------------------------------------------
(* The flow of data to one end.                                            *)

\* It goes on when the end learns of no new session, its peer sends no data,
\* and what is taken off its wire is none of the session or was received.
LEMMA FlowKept ==
  ASSUME Typed, NEW e \in Ends, Flow(e), recv_seq'[e] = recv_seq[e],
         \A K \in Keys : Awaits(e, K)' => Awaits(e, K),
         \/ wire'[Peer(e)] = wire[Peer(e)]
         \/ \E m \in Frame : /\ m.type # "ApplicationData"
                             /\ wire'[Peer(e)] = Append(wire[Peer(e)], m)
         \/ /\ wire[Peer(e)] # <<>>
            /\ wire'[Peer(e)] = Tail(wire[Peer(e)])
            /\ \A K \in Keys :
                 /\ Awaits(e, K)'
                 /\ Head(wire[Peer(e)]).type = "ApplicationData"
                 /\ Head(wire[Peer(e)]).key = K
                 => Head(wire[Peer(e)]).seq < recv_seq[e]
         \/ /\ \E k \in 0..Len(wire[Peer(e)]) : wire'[Peer(e)] = SubSeq(wire[Peer(e)], 1, k)
            /\ state'[Peer(e)] # "ESTABLISHED",
         state'[Peer(e)] = "ESTABLISHED" =>
           \/ send_seq'[Peer(e)] = 0
           \/ /\ state[Peer(e)] = "ESTABLISHED"
              /\ hmac_key'[Peer(e)] = hmac_key[Peer(e)]
              /\ send_seq'[Peer(e)] = send_seq[Peer(e)]
  PROVE  Flow(e)'
<1>. DEFINE p == Peer(e)
            q == wire[p]
            r == recv_seq[e]
<1>1. p \in Ends
  BY PeerFacts
<1>2. q \in Seq(Frame) /\ r \in Nat /\ send_seq[p] \in Nat
  BY <1>1 DEF Typed, TypeOK
<1>. SUFFICES ASSUME NEW K \in Keys, Awaits(e, K)'
              PROVE  /\ Chained(wire'[p], K, r)
                     /\ state'[p] = "ESTABLISHED" /\ hmac_key'[p] = K /\ send_seq'[p] > r =>
                          Has(wire'[p], K, send_seq'[p] - 1)
  BY DEF Flow, Continues
<1>3. Chained(q, K, r) /\ Continues(p, K, r)
  BY DEF Flow
<1>. HIDE DEF p
<1>4. /\ Chained(wire'[p], K, r)
      /\ state'[p] = "ESTABLISHED" => \A n \in Nat : n >= r /\ Has(q, K, n) => Has(wire'[p], K, n)
  <2>1. CASE wire'[p] = q
    BY <1>3, <2>1
  <2>2. CASE \E m \in Frame : m.type # "ApplicationData" /\ wire'[p] = Append(q, m)
    BY <1>2, <1>3, <2>2, ChainedOther
  <2>3. CASE q # <<>> /\ wire'[p] = Tail(q)
             /\ (Head(q).type = "ApplicationData" /\ Head(q).key = K => Head(q).seq < r)
    <3>. HIDE DEF q, r
    <3>. QED  BY <1>2, <1>3, <2>3, ChainedTail
  <2>4. CASE (\E k \in 0..Len(q) : wire'[p] = SubSeq(q, 1, k)) /\ state'[p] # "ESTABLISHED"
    BY <1>2, <1>3, <2>4, ChainedCut
  <2>. QED  BY <2>1, <2>2, <2>3, <2>4 DEF p
<1>5. ASSUME state'[p] = "ESTABLISHED", hmac_key'[p] = K, send_seq'[p] > r
      PROVE  Has(wire'[p], K, send_seq'[p] - 1)
  <2>1. /\ state[p] = "ESTABLISHED" /\ hmac_key[p] = K
        /\ send_seq'[p] = send_seq[p]
    BY <1>2, <1>5 DEF p
  <2>2. Has(q, K, send_seq[p] - 1)
    BY <1>3, <1>5, <2>1 DEF Continues
  <2>. QED  BY <1>2, <1>4, <1>5, <2>1, <2>2
<1>. QED  BY <1>4, <1>5

\* An end that learns of a session of which there is no data yet.
LEMMA FlowFresh ==
  ASSUME NEW e \in Ends,
         \A K \in Keys : Awaits(e, K)' =>
           /\ \A i \in 1..Len(wire'[Peer(e)]) :
                ~ (wire'[Peer(e)][i].type = "ApplicationData" /\ wire'[Peer(e)][i].key = K)
           /\ state'[Peer(e)] = "ESTABLISHED" => hmac_key'[Peer(e)] # K
  PROVE  Flow(e)'
BY DEF Flow, Chained, Continues

\* An end that awaits no session.
LEMMA FlowIdle ==
  ASSUME NEW e \in Ends, state'[e] \notin {"ESTABLISHED", "HELLO_RECEIVED"}
  PROVE  Flow(e)'
BY DEF Flow, Awaits

-----------------------------------------------------------------------------
(* What every step needs of the wires.                                     *)

\* The frames of an end that keeps, gains or loses frames tell the truth, also
\* when more nonces are drawn and more sessions offered and completed.
LEMMA WiresTell ==
  ASSUME SessionInv, NEW e \in Ends, wire' \in [Ends -> Seq(Frame)],
         nonces'[Client] \in Nat, nonces[Client] <= nonces'[Client],
         offered \subseteq offered', completed \subseteq completed',
         \/ wire'[e] = wire[e]
         \/ \E m \in Frame : /\ Tells(m, nonces'[Client], offered', completed')
                             /\ wire'[e] = Append(wire[e], m)
         \/ wire[e] # <<>> /\ wire'[e] = Tail(wire[e])
         \/ \E k \in 0..Len(wire[e]) : wire'[e] = SubSeq(wire[e], 1, k)
         \/ \E n \in 0..Len(wire[e]) : wire'[e] = SubSeq(wire[e], n + 1, Len(wire[e]))
  PROVE  AllTell(wire'[e], nonces'[Client], offered', completed')
<1>. DEFINE q == wire[e]
            w == wire'[e]
            T(f) == Tells(f, nonces'[Client], offered', completed')
<1>1. /\ q \in Seq(Frame) /\ AllTell(q, nonces[Client], offered, completed)
      /\ nonces[Client] \in Nat
  BY PeerFacts DEF SessionInv, Typed, TypeOK, Sessions, Nonces
<1>. HIDE DEF q, w
<1>2. \A i \in 1..Len(q) : T(q[i])
  <2>. SUFFICES ASSUME NEW i \in 1..Len(q) PROVE T(q[i])
    OBVIOUS
  <2>1. q[i] \in Frame /\ Tells(q[i], nonces[Client], offered, completed)
    BY <1>1 DEF AllTell
  <2>2. q[i].type = "ClientHello" => q[i].cn \in Nat
    BY <2>1, FrameFields DEF Nonces
  <2>. QED  BY <1>1, <2>1, <2>2 DEF Tells
<1>. HIDE DEF T
<1>. SUFFICES \A i \in 1..Len(w) : T(w[i])
  BY DEF AllTell, T, w
<1>3. CASE w = q
  BY <1>2, <1>3
<1>4. ASSUME NEW m \in Frame, T(m), w = Append(q, m)
      PROVE  \A i \in 1..Len(w) : T(w[i])
  <2>1. \A i \in 1..Len(w) : (i \in 1..Len(q) /\ w[i] = q[i]) \/ w[i] = m
    BY <1>1, <1>4, AppendFacts
  <2>. QED  BY <1>2, <1>4, <2>1
<1>5. CASE q # <<>> /\ w = Tail(q)
  BY <1>1, <1>2, <1>5, TailFacts
<1>6. CASE \E k \in 0..Len(q) : w = SubSeq(q, 1, k)
  BY <1>1, <1>2, <1>6, CutFacts
<1>7. CASE \E n \in 0..Len(q) : w = SubSeq(q, n + 1, Len(q))
  <2>1. PICK n \in 0..Len(q) : w = SubSeq(q, n + 1, Len(q))
    BY <1>7
  <2>2. /\ Len(w) = Len(q) - n
        /\ \A i \in 1..(Len(q) - n) : n + i \in 1..Len(q) /\ w[i] = q[n + i]
    BY <1>1, <2>1, CutFacts
  <2>. QED  BY <1>2, <2>2
<1>. QED  BY <1>3, <1>4, <1>5, <1>6, <1>7 DEF q, w, T

\* A frame is taken off the peer's wire, and one or none is answered.
LEMMA ExchangedWire ==
  ASSUME Typed, NEW e \in Ends, wire[Peer(e)] # <<>>
  PROVE  /\ wire' = Exchanged(e, <<>>) =>
              /\ wire' \in [Ends -> Seq(Frame)]
              /\ wire'[Peer(e)] = Tail(wire[Peer(e)])
              /\ wire'[e] = wire[e]
         /\ \A m \in Frame : wire' = Exchanged(e, <<m>>) =>
              /\ wire' \in [Ends -> Seq(Frame)]
              /\ wire'[Peer(e)] = Tail(wire[Peer(e)])
              /\ wire'[e] = Append(wire[e], m)
<1>. DEFINE p == Peer(e)
<1>1. p \in Ends /\ p # e /\ Ends = {e, p}
  BY PeerFacts
<1>2. wire \in [Ends -> Seq(Frame)] /\ wire[e] \in Seq(Frame) /\ wire[p] \in Seq(Frame)
  BY <1>1 DEF Typed
<1>3. Tail(wire[p]) \in Seq(Frame)
  BY <1>2, TailFacts
<1>4. wire[e] \o <<>> = wire[e] /\ \A m \in Frame : wire[e] \o <<m>> = Append(wire[e], m)
  BY <1>2
<1>5. \A m \in Frame : Append(wire[e], m) \in Seq(Frame)
  BY <1>2, AppendFacts
<1>. HIDE DEF p
<1>6. \A s : Exchanged(e, s) = [wire EXCEPT ![p] = Tail(wire[p]), ![e] = wire[e] \o s]
  BY <1>1, <1>2 DEF Exchanged, p
<1>7. ASSUME wire' = Exchanged(e, <<>>)
      PROVE  wire' = [wire EXCEPT ![p] = Tail(wire[p])]
  <2>1. wire' = [wire EXCEPT ![p] = Tail(wire[p]), ![e] = wire[e]]
    BY <1>4, <1>6, <1>7
  <2>. QED  BY <1>1, <1>2, <2>1
<1>8. ASSUME NEW m \in Frame, wire' = Exchanged(e, <<m>>)
      PROVE  wire' = [wire EXCEPT ![p] = Tail(wire[p]), ![e] = Append(wire[e], m)]
  BY <1>4, <1>6, <1>8
<1>9. wire' = Exchanged(e, <<>>) =>
        /\ wire' \in [Ends -> Seq(Frame)]
        /\ wire'[p] = Tail(wire[p])
        /\ wire'[e] = wire[e]
  BY <1>1, <1>2, <1>3, <1>7
<1>10. ASSUME NEW m \in Frame, wire' = Exchanged(e, <<m>>)
       PROVE  /\ wire' \in [Ends -> Seq(Frame)]
              /\ wire'[p] = Tail(wire[p])
              /\ wire'[e] = Append(wire[e], m)
  BY <1>1, <1>2, <1>3, <1>5, <1>8, <1>10
<1>. QED  BY <1>9, <1>10 DEF p

-----------------------------------------------------------------------------
(* Negotiation.                                                            *)

States == {"IDLE", "HELLO_SENT", "HELLO_RECEIVED", "ESTABLISHED", "CLOSED", "ERROR"}

LEMMA StatesAre ==
  /\ DOMAIN VALID_TRANSITIONS \ Transient = States
  /\ \A x \in States : "ERROR" \in VALID_TRANSITIONS[x] <=> x \notin {"CLOSED", "ERROR"}
BY DEF VALID_TRANSITIONS, Transient, States

\* When no check of the hello fails, the terms are the strongest of both, and
\* the suite the server selects is the first of its own that the client has.
LEMMA Agreement ==
  ASSUME config \in [Ends -> Configs], AlertCode = 0
  PROVE  /\ config[Client].version = config[Server].version
         /\ PqCapable(config[Server].suites) => PqCapable(config[Client].suites)
         /\ SelectedSuite \in Common
         /\ SelectedSuite \in Suites
<1>. DEFINE q == config[Server].suites
            Good == {i \in DOMAIN q : q[i] \in Common}
<1>1. q \in Seq(Suites) /\ DOMAIN q \subseteq Nat /\ DOMAIN q = 1..Len(q) /\ Len(q) \in Nat
  BY ConnectionAssumption, PeerFacts
<1>2. /\ config[Client].version = config[Server].version
      /\ PqCapable(config[Server].suites) => PqCapable(config[Client].suites)
      /\ Common # {}
  BY DEF AlertCode
<1>3. Good # {} /\ Good \subseteq Nat
  BY <1>1, <1>2 DEF Common, ToSet
<1>4. PICK x \in Good : \A y \in Good : ~ (<<y, x>> \in OpToRel(<, Nat))
  <2>. HIDE DEF Good
  <2>. QED  BY <1>3, NatLessThanWellFounded, WFMin, Zenon
<1>5. \A j \in 1..(x - 1) : q[j] \notin Common
  <2>. SUFFICES ASSUME NEW j \in 1..(x - 1), q[j] \in Common PROVE FALSE
    OBVIOUS
  <2>1. x \in Nat /\ x \in 1..Len(q)
    BY <1>1, <1>3
  <2>2. j \in Good /\ j \in Nat /\ j < x
    BY <1>1, <2>1
  <2>3. <<j, x>> \in OpToRel(<, Nat)
    BY <2>1, <2>2, Zenon DEF OpToRel
  <2>. QED  BY <1>4, <2>2, <2>3, Zenon
<1>6. SelectedSuite \in Common
  <2>1. x \in DOMAIN q /\ q[x] \in Common
    BY <1>4, Zenon
  <2>. QED  BY <1>5, <2>1 DEF SelectedSuite
<1>7. Common \subseteq Suites
  BY <1>1 DEF Common, ToSet
<1>. QED  BY <1>2, <1>6, <1>7

-----------------------------------------------------------------------------
(* Steps that change no session.                                           *)

\* An end takes a frame it has no use for, or raises an alert, and stays where
\* it is, fails or closes.
LEMMA QuietStep ==
  ASSUME IInv, NEW e \in Ends,
         UNCHANGED <<config, calm, handshake, hmac_key, send_seq, recv_seq, nonces,
                     resets, offered, completed, received>>,
         retry_count' \in [Ends -> 0..max_retries],
         NEW s \in {state[e], "ERROR", "CLOSED"}, state' = [state EXCEPT ![e] = s],
         wire' \in [Ends -> Seq(Frame)],
         \/ wire'[e] = wire[e]
         \/ \E l \in {"warning", "fatal"}, c \in Nat :
              wire'[e] = Append(wire[e], Alert(hmac_key[e], l, c)),
         \/ wire'[Peer(e)] = wire[Peer(e)]
         \/ /\ wire[Peer(e)] # <<>>
            /\ wire'[Peer(e)] = Tail(wire[Peer(e)])
            /\ \A K \in Keys :
                 /\ Awaits(e, K)'
                 /\ Head(wire[Peer(e)]).type = "ApplicationData"
                 /\ Head(wire[Peer(e)]).key = K
                 => Head(wire[Peer(e)]).seq < recv_seq[e]
  PROVE  IInv'
<1>. DEFINE p == Peer(e)
<1>1. p \in Ends /\ p # e /\ Peer(p) = e /\ Ends = {e, p}
  BY PeerFacts
<1>2. Typed /\ SessionInv /\ Flow(e) /\ Flow(p) /\ Ordered(e) /\ Ordered(p)
  BY <1>1 DEF IInv, SessionInv
<1>3. state'[e] = s /\ state'[p] = state[p] /\ state' \in [Ends -> States]
  BY <1>1, <1>2, StatesAre DEF Typed, TypeOK, States
<1>4. Typed'
  BY <1>2, <1>3, StatesAre DEF Typed, TypeOK
<1>5. Stages'
  <2>1. \A x \in Ends : state'[x] = state[x] \/ state'[x] \in {"ERROR", "CLOSED"}
    BY <1>1, <1>3
  <2>. QED  BY <1>2, <2>1, PeerFacts DEF SessionInv, Stages, Unkeyed
<1>6. \/ wire'[e] = wire[e]
      \/ \E m \in Frame : /\ m.type = "Alert"
                          /\ wire'[e] = Append(wire[e], m)
  <2>1. \A l \in {"warning", "fatal"}, c \in Nat :
          Alert(hmac_key[e], l, c) \in Frame /\ Alert(hmac_key[e], l, c).type = "Alert"
    BY <1>2, FrameTypes DEF Typed, TypeOK, Alert
  <2>. QED  BY <2>1
<1>7. \A m : m.type = "Alert" => Tells(m, nonces'[Client], offered', completed')
  BY DEF Tells
<1>8. nonces'[Client] \in Nat /\ nonces[Client] <= nonces'[Client]
  BY <1>2, PeerFacts DEF Typed, TypeOK, Nonces
<1>9. AllTell(wire'[e], nonces'[Client], offered', completed')
  BY <1>2, <1>6, <1>7, <1>8, WiresTell
<1>10. AllTell(wire'[p], nonces'[Client], offered', completed')
  BY <1>1, <1>2, <1>8, WiresTell
<1>11. Sessions'
  <2>1. \A x \in Ends : AllTell(wire'[x], nonces'[Client], offered', completed')
    BY <1>1, <1>9, <1>10
  <2>2. AlertCode' = AlertCode
    BY DEF AlertCode, Common
  <2>. QED  BY <1>2, <2>1, <2>2 DEF SessionInv, Sessions, AllTell
<1>12. Flow(e)'
  <2>1. \A K \in Keys : Awaits(e, K)' => Awaits(e, K)
    BY <1>3 DEF Awaits
  <2>. QED  BY <1>1, <1>2, <1>3, <2>1, FlowKept
<1>13. Flow(p)'
  <2>1. \A K \in Keys : Awaits(p, K)' => Awaits(p, K)
    BY <1>3 DEF Awaits
  <2>2. state'[e] = "ESTABLISHED" => state[e] = "ESTABLISHED"
    BY <1>3
  <2>3. \/ wire'[e] = wire[e]
        \/ \E m \in Frame : m.type # "ApplicationData" /\ wire'[e] = Append(wire[e], m)
    BY <1>6
  <2>. QED  BY <1>1, <1>2, <2>1, <2>2, <2>3, FlowKept
<1>14. Ordered(e)' /\ Ordered(p)'
  BY <1>2 DEF Ordered
<1>. QED  BY <1>1, <1>4, <1>5, <1>11, <1>12, <1>13, <1>14 DEF IInv, SessionInv

LEMMA FailedMoves ==
  ASSUME Typed, NEW e \in Ends
  PROVE  \E s \in {state[e], "ERROR"} :
           /\ Failed(e) = [state EXCEPT ![e] = s]
           /\ s \notin {"ESTABLISHED", "HELLO_RECEIVED"}
<1>1. state \in [Ends -> States] /\ state[e] \in States
  BY StatesAre DEF Typed, TypeOK
<1>2. CASE state[e] \in {"CLOSED", "ERROR"}
  <2>1. Failed(e) = [state EXCEPT ![e] = state[e]]
    BY <1>1, <1>2, StatesAre DEF Failed
  <2>. QED  BY <1>2, <2>1
<1>3. CASE state[e] \notin {"CLOSED", "ERROR"}
  BY <1>1, <1>3, StatesAre DEF Failed
<1>. QED  BY <1>2, <1>3

\* A frame is taken that is no data the end waits for.
LEMMA TakeStep ==
  ASSUME IInv, NEW e \in Ends, wire[Peer(e)] # <<>>, wire' = Exchanged(e, <<>>),
         NEW s \in {state[e], "ERROR", "CLOSED"}, state' = [state EXCEPT ![e] = s],
         UNCHANGED <<config, calm, handshake, hmac_key, send_seq, recv_seq,
                     retry_count, nonces, resets, offered, completed, received>>,
         \A K \in Keys : /\ Awaits(e, K)'
                         /\ Head(wire[Peer(e)]).type = "ApplicationData"
                         /\ Head(wire[Peer(e)]).key = K
                         => Head(wire[Peer(e)]).seq < recv_seq[e]
  PROVE  IInv'
<1>1. Typed /\ retry_count' \in [Ends -> 0..max_retries]
  BY DEF IInv, SessionInv, Typed, TypeOK
<1>. QED  BY <1>1, ExchangedWire, QuietStep

LEMMA FailStep ==
  ASSUME IInv, NEW e \in Ends, wire[Peer(e)] # <<>>, NEW c \in Nat,
         FailHandshake(e, c)
  PROVE  IInv'
<1>1. Typed /\ retry_count' \in [Ends -> 0..max_retries] /\ state \in [Ends -> States]
  BY StatesAre DEF IInv, SessionInv, Typed, TypeOK, FailHandshake
<1>2. Alert(hmac_key[e], "fatal", c) \in Frame
  BY <1>1, FrameTypes DEF Typed, TypeOK
<1>3. state' = [state EXCEPT ![e] = "ERROR"] /\ state'[e] = "ERROR"
  BY <1>1 DEF FailHandshake
<1>4. \A K : ~ Awaits(e, K)'
  BY <1>3 DEF Awaits
<1>5. /\ wire' \in [Ends -> Seq(Frame)]
      /\ wire'[Peer(e)] = Tail(wire[Peer(e)])
      /\ wire'[e] = Append(wire[e], Alert(hmac_key[e], "fatal", c))
  BY <1>1, <1>2, ExchangedWire DEF FailHandshake
<1>6. UNCHANGED <<config, calm, handshake, hmac_key, send_seq, recv_seq, nonces,
                  resets, offered, completed, received>>
  BY DEF FailHandshake
<1>. QED  BY <1>1, <1>3, <1>4, <1>5, <1>6, QuietStep

\* The first frame of a wire.
LEMMA HeadTells ==
  ASSUME SessionInv, NEW p \in Ends, wire[p] # <<>>
  PROVE  /\ Head(wire[p]) \in Frame
         /\ Tells(Head(wire[p]), nonces[Client], offered, completed)
<1>1. wire[p] \in Seq(Frame)
  BY DEF SessionInv, Typed
<1>2. Head(wire[p]) \in Frame /\ Head(wire[p]) = wire[p][1] /\ 1 \in 1..Len(wire[p])
  BY <1>1, TailFacts
<1>. QED  BY <1>2 DEF SessionInv, Sessions, AllTell

\* No data comes under the key an end has before its session.
LEMMA DataIsKeyed ==
  ASSUME SessionInv, NEW e \in Ends, Takes(e, "ApplicationData")
  PROVE  state[e] \notin Unkeyed
<1>. DEFINE f == Head(wire[Peer(e)])
<1>1. f \in Frame /\ Tells(f, nonces[Client], offered, completed)
  BY PeerFacts, HeadTells DEF Takes
<1>2. hmac_key[e] \in offered
  BY <1>1 DEF Takes, Tells, SessionInv, Sessions
<1>3. hmac_key[e][1] \in 1..nonces[Client]
  BY <1>2 DEF SessionInv, Sessions
<1>4. hmac_key[e] # InitialKey
  BY <1>3 DEF InitialKey
<1>. QED  BY <1>4 DEF SessionInv, Stages

LEMMA RefuseDataStep ==
  ASSUME IInv, NEW e \in Ends, RefuseData(e)
  PROVE  IInv'
<1>1. SessionInv /\ Typed /\ state \in [Ends -> States]
  BY StatesAre DEF IInv, SessionInv, Typed, TypeOK
<1>2. /\ wire[Peer(e)] # <<>>
      /\ wire' = Exchanged(e, <<>>)
      /\ UNCHANGED <<config, calm, state, handshake, hmac_key, send_seq, recv_seq,
                     retry_count, nonces, resets, offered, completed, received>>
  BY DEF RefuseData, Takes, Ignore
<1>3. state' = [state EXCEPT ![e] = state[e]]
  BY <1>1, <1>2
<1>4. ASSUME NEW K, Awaits(e, K)'
      PROVE  Head(wire[Peer(e)]).seq < recv_seq[e]
  <2>1. Awaits(e, K)
    BY <1>2, <1>4 DEF Awaits
  <2>2. state[e] # "HELLO_RECEIVED"
    BY <1>1, DataIsKeyed DEF RefuseData, Unkeyed
  <2>. QED  BY <2>1, <2>2 DEF Awaits, RefuseData, Replay
<1>. QED  BY <1>2, <1>3, <1>4, TakeStep

LEMMA IgnoreStep ==
  ASSUME IInv, NEW e \in Ends, wire[Peer(e)] # <<>>,
         Head(wire[Peer(e)]).type # "ApplicationData", Ignore(e)
  PROVE  IInv'
<1>1. state' = [state EXCEPT ![e] = state[e]]
  BY DEF IInv, SessionInv, Typed, TypeOK, Ignore
<1>2. /\ wire' = Exchanged(e, <<>>)
      /\ UNCHANGED <<config, calm, handshake, hmac_key, send_seq, recv_seq,
                     retry_count, nonces, resets, offered, completed, received>>
  BY DEF Ignore
<1>. QED  BY <1>1, <1>2, TakeStep

LEMMA HandleAlertStep ==
  ASSUME IInv, NEW e \in Ends, HandleAlert(e)
  PROVE  IInv'
<1>1. Typed
  BY DEF IInv, SessionInv
<1>2. PICK s \in {state[e], "ERROR"} : state' = [state EXCEPT ![e] = s]
  <2>1. CASE state' = Failed(e)
    BY <1>1, <2>1, FailedMoves
  <2>2. CASE state' = state
    BY <1>1, <2>2 DEF Typed, TypeOK
  <2>. QED  BY <2>1, <2>2 DEF HandleAlert
<1>3. /\ wire[Peer(e)] # <<>> /\ Head(wire[Peer(e)]).type # "ApplicationData"
      /\ wire' = Exchanged(e, <<>>)
      /\ UNCHANGED <<config, calm, handshake, hmac_key, send_seq, recv_seq,
                     retry_count, nonces, resets, offered, completed, received>>
  BY DEF HandleAlert, Takes
<1>. QED  BY <1>2, <1>3, TakeStep

\* A frame under another key ends what the end is in.
LEMMA RejectFrameStep ==
  ASSUME IInv, NEW e \in Ends, RejectFrame(e)
  PROVE  IInv'
<1>1. Typed /\ state \in [Ends -> States]
  BY StatesAre DEF IInv, SessionInv, Typed, TypeOK
<1>2. PICK s \in {state[e], "ERROR"} : /\ state' = [state EXCEPT ![e] = s]
                                       /\ s \notin {"ESTABLISHED", "HELLO_RECEIVED"}
  BY <1>1, FailedMoves DEF RejectFrame
<1>3. \A K : ~ Awaits(e, K)'
  BY <1>1, <1>2 DEF Awaits
<1>4. /\ wire[Peer(e)] # <<>> /\ wire' = Exchanged(e, <<>>)
      /\ UNCHANGED <<config, calm, handshake, hmac_key, send_seq, recv_seq,
                     retry_count, nonces, resets, offered, completed, received>>
  BY DEF RejectFrame
<1>. QED  BY <1>2, <1>3, <1>4, TakeStep

LEMMA CloseStep ==
  ASSUME IInv, NEW e \in Ends, Close(e)
  PROVE  IInv'
<1>. DEFINE m == Alert(hmac_key[e], "warning", 0)
<1>1. Typed /\ retry_count' \in [Ends -> 0..max_retries]
  BY DEF IInv, SessionInv, Typed, TypeOK, Close
<1>2. wire \in [Ends -> Seq(Frame)] /\ m \in Frame
  BY <1>1, FrameTypes DEF Typed, TypeOK
<1>3. wire' = [wire EXCEPT ![e] = Append(wire[e], m)]
  BY DEF Close
<1>4. /\ wire' \in [Ends -> Seq(Frame)]
      /\ wire'[e] = Append(wire[e], m) /\ wire'[Peer(e)] = wire[Peer(e)]
  <2>. HIDE DEF m
  <2>. QED  BY <1>2, <1>3, PeerFacts, AppendFacts
<1>5. /\ state' = [state EXCEPT ![e] = "CLOSED"]
      /\ UNCHANGED <<config, calm, handshake, hmac_key, send_seq, recv_seq, nonces,
                     resets, offered, completed, received>>
  BY DEF Close
<1>. QED  BY <1>1, <1>4, <1>5, QuietStep

LEMMA HandleTimeoutStep ==
  ASSUME IInv, NEW e \in Ends, HandleTimeout(e)
  PROVE  IInv'
<1>1. Typed
  BY DEF IInv, SessionInv
<1>2. retry_count' \in [Ends -> 0..max_retries]
  <2>1. retry_count[e] < max_retries => retry_count[e] + 1 \in 0..max_retries
    BY <1>1, ConnectionAssumption DEF Typed, TypeOK
  <2>. QED  BY <1>1, <2>1 DEF Typed, TypeOK, HandleTimeout
<1>3. \E s \in {state[e], "ERROR"} : state' = [state EXCEPT ![e] = s]
  <2>1. CASE state' = state
    BY <1>1, <2>1 DEF Typed, TypeOK
  <2>. QED  BY <2>1 DEF HandleTimeout
<1>4. wire' \in [Ends -> Seq(Frame)] /\ wire' = wire
  BY <1>1 DEF Typed, HandleTimeout
<1>5. UNCHANGED <<config, calm, handshake, hmac_key, send_seq, recv_seq, nonces,
                  resets, offered, completed, received>>
  BY DEF HandleTimeout
<1>. QED  BY <1>2, <1>3, <1>4, <1>5, QuietStep

\* Every refused frame of the handshake.
LEMMA RefuseStep ==
  ASSUME IInv, RefuseClientHello \/ RefuseClientAuth \/ RefuseServerHello
  PROVE  IInv'
<1>1. CASE RefuseClientHello
  <2>1. /\ wire[Peer(Server)] # <<>>
        /\ Head(wire[Peer(Server)]).type # "ApplicationData"
    BY <1>1 DEF RefuseClientHello, Takes
  <2>2. Ignore(Server) \/ FailHandshake(Server, AlertCode) \/ FailHandshake(Server, 50)
    BY <1>1 DEF RefuseClientHello
  <2>3. AlertCode \in Nat
    BY DEF AlertCode
  <2>. QED  BY <2>1, <2>2, <2>3, PeerFacts, IgnoreStep, FailStep
<1>2. CASE RefuseClientAuth
  <2>1. /\ wire[Peer(Server)] # <<>>
        /\ Head(wire[Peer(Server)]).type # "ApplicationData"
    BY <1>2 DEF RefuseClientAuth, Takes
  <2>2. Ignore(Server) \/ FailHandshake(Server, 51)
    BY <1>2 DEF RefuseClientAuth
  <2>. QED  BY <2>1, <2>2, PeerFacts, IgnoreStep, FailStep
<1>3. CASE RefuseServerHello
  <2>1. /\ wire[Peer(Client)] # <<>>
        /\ Head(wire[Peer(Client)]).type # "ApplicationData"
    BY <1>3 DEF RefuseServerHello, Takes
  <2>2. Ignore(Client) \/ FailHandshake(Client, 51)
    BY <1>3 DEF RefuseServerHello
  <2>. QED  BY <2>1, <2>2, PeerFacts, IgnoreStep, FailStep
<1>. QED  BY <1>1, <1>2, <1>3

-----------------------------------------------------------------------------
(* The handshake.                                                          *)

LEMMA Counters ==
  ASSUME Typed, NEW e \in Ends
  PROVE  /\ send_seq[e] \in 0..MaxData /\ send_seq[e] \in Nat
         /\ recv_seq[e] \in 0..MaxData /\ recv_seq[e] \in Nat
         /\ resets[e] \in 0..MaxResets /\ resets[e] \in Nat
         /\ MaxData \in Nat /\ MaxResets \in Nat /\ max_retries \in Nat
         /\ hmac_key[e] \in Keys /\ wire[e] \in Seq(Frame)
<1>1. MaxData \in Nat /\ MaxResets \in Nat /\ max_retries \in Nat
  BY ConnectionAssumption
<1>2. send_seq[e] \in 0..MaxData /\ recv_seq[e] \in 0..MaxData /\ resets[e] \in 0..MaxResets
  BY DEF Typed, TypeOK
<1>3. hmac_key[e] \in Keys /\ wire[e] \in Seq(Frame)
  BY DEF Typed, TypeOK
<1>. QED  BY <1>1, <1>2, <1>3

\* The keys of completed sessions, and the data under them.
LEMMA DataOfCompleted ==
  ASSUME SessionInv, NEW p \in Ends
  PROVE  /\ \A i \in 1..Len(wire[p]) :
              wire[p][i].type = "ApplicationData" => wire[p][i].key \in completed
         /\ state[p] = "ESTABLISHED" => hmac_key[p] \in completed
         /\ \A k \in completed : /\ k[1] \in 1..nonces[Client]
                                 /\ k[2] \in 1..nonces[Server]
BY DEF SessionInv, Stages, Sessions, AllTell, Tells

\* The client draws a nonce that no session has.
LEMMA InitiateStep ==
  ASSUME IInv, InitiateHandshake
  PROVE  IInv'
<1>. DEFINE n == nonces[Client] + 1
            m == ClientHello(hmac_key[Client], n)
<1>1. /\ SessionInv /\ Typed /\ Stages /\ Sessions /\ Flow(Server)
      /\ Ordered(Client) /\ Ordered(Server)
      /\ state \in [Ends -> States]
  BY PeerFacts, StatesAre DEF IInv, SessionInv, Typed, TypeOK
<1>2. /\ nonces[Client] \in Nat /\ nonces[Client] <= resets[Client]
      /\ resets[Client] \in 0..MaxResets /\ MaxResets \in Nat
  BY <1>1, PeerFacts, ConnectionAssumption
     DEF Typed, TypeOK, Nonces, Stages, InitiateHandshake
<1>3. n \in Nonces /\ 0 \in Nonces
  BY <1>2 DEF Nonces
<1>4. m \in Frame /\ m.type = "ClientHello" /\ m.cn = n
  BY <1>1, <1>3, FrameTypes, PeerFacts DEF Typed, TypeOK, ClientHello
<1>. HIDE DEF m
<1>5. /\ wire' \in [Ends -> Seq(Frame)]
      /\ wire'[Client] = Append(wire[Client], m) /\ wire'[Server] = wire[Server]
  BY <1>1, <1>4, AppendFacts, PeerFacts DEF Typed, InitiateHandshake, m
<1>6. /\ state'[Client] = "HELLO_SENT" /\ state'[Server] = state[Server]
      /\ nonces'[Client] = n /\ nonces'[Server] = nonces[Server]
      /\ handshake'[Client] = [cn |-> n, sn |-> 0]
      /\ handshake'[Server] = handshake[Server]
      /\ UNCHANGED <<config, calm, hmac_key, send_seq, recv_seq, retry_count,
                     resets, offered, completed, received>>
  BY <1>1, PeerFacts DEF Typed, TypeOK, InitiateHandshake
<1>7. TypeOK'
  <2>1. state' \in [Ends -> (DOMAIN VALID_TRANSITIONS \ Transient)]
    BY <1>1, StatesAre DEF InitiateHandshake, States
  <2>2. nonces' \in [Ends -> Nonces]
    BY <1>1, <1>3 DEF Typed, TypeOK, InitiateHandshake
  <2>3. handshake' \in [Ends -> [cn : Nonces, sn : Nonces] \cup {None}]
    <3>1. [cn |-> n, sn |-> 0] \in [cn : Nonces, sn : Nonces] \cup {None}
      BY <1>3
    <3>. QED  BY <1>1, <3>1 DEF Typed, TypeOK, InitiateHandshake
  <2>. QED  BY <1>1, <1>6, <2>1, <2>2, <2>3 DEF Typed, TypeOK
<1>8. Stages'
  <2>1. \A e \in Ends : e = Client \/ e = Server
    BY PeerFacts
  <2>2. \A k \in completed : k[1] < n
    BY <1>1, <1>2, PeerFacts, DataOfCompleted
  <2>3. state[Client] \in Unkeyed /\ nonces'[Client] <= resets[Client] + 1
    BY <1>2, <1>6 DEF InitiateHandshake, Unkeyed
  <2>4. [cn |-> n, sn |-> 0] \in [cn : Nonces, sn : Nonces]
    BY <1>3
  <2>. QED  BY <1>1, <1>6, <2>1, <2>2, <2>3, <2>4, PeerFacts DEF Stages, Unkeyed
<1>9. nonces'[Client] \in Nat /\ nonces[Client] <= nonces'[Client]
  BY <1>2, <1>6
<1>10. Tells(m, nonces'[Client], offered', completed')
  BY <1>2, <1>4, <1>6 DEF Tells
<1>11. \A e \in Ends : AllTell(wire'[e], nonces'[Client], offered', completed')
  BY <1>1, <1>4, <1>5, <1>6, <1>9, <1>10, PeerFacts, WiresTell
<1>12. Sessions'
  <2>1. AlertCode' = AlertCode
    BY <1>6 DEF AlertCode, Common
  <2>2. \A k \in offered : k[1] \in 1..nonces'[Client] /\ k[2] \in 1..nonces'[Server]
    BY <1>1, <1>2, <1>6 DEF Sessions
  <2>. QED  BY <1>1, <1>6, <1>11, <2>1, <2>2 DEF Sessions
<1>13. Flow(Client)'
  BY <1>6, FlowIdle, PeerFacts
<1>14. Flow(Server)'
  <2>1. \A K \in Keys : Awaits(Server, K)' => Awaits(Server, K)
    BY <1>6 DEF Awaits
  <2>2. /\ m \in Frame /\ m.type # "ApplicationData"
        /\ wire'[Peer(Server)] = Append(wire[Peer(Server)], m)
    BY <1>4, <1>5, PeerFacts
  <2>3. state'[Peer(Server)] # "ESTABLISHED" /\ recv_seq'[Server] = recv_seq[Server]
    BY <1>6, PeerFacts
  <2>. QED  BY <1>1, <2>1, <2>2, <2>3, PeerFacts, FlowKept
<1>15. \A e \in Ends : Ordered(e)'
  BY <1>1, <1>6, PeerFacts DEF Ordered
<1>16. \A e \in Ends : Flow(e)'
  BY <1>13, <1>14, PeerFacts
<1>. QED  BY <1>5, <1>7, <1>8, <1>12, <1>15, <1>16 DEF IInv, SessionInv, Typed

\* The server draws a nonce that no session has.
LEMMA ClientHelloStep ==
  ASSUME IInv, HandleClientHello
  PROVE  IInv'
<1>. DEFINE n == nonces[Server] + 1
            f == Head(wire[Client])
            m == ServerHello(hmac_key[Server], f.cn, n, SelectedSuite)
<1>1. /\ SessionInv /\ Typed /\ Stages /\ Sessions /\ Flow(Client)
      /\ Ordered(Client) /\ Ordered(Server)
      /\ state \in [Ends -> States]
  BY PeerFacts, StatesAre DEF IInv, SessionInv, Typed, TypeOK
<1>2. /\ nonces[Server] \in Nat /\ nonces[Server] <= resets[Server]
      /\ resets[Server] \in 0..MaxResets /\ MaxResets \in Nat
      /\ nonces[Client] \in Nonces
  BY <1>1, PeerFacts, ConnectionAssumption
     DEF Typed, TypeOK, Nonces, Stages, HandleClientHello
<1>3. n \in Nonces /\ n \in 1..n
  BY <1>2 DEF Nonces
<1>4. /\ wire[Client] # <<>> /\ f.type = "ClientHello"
      /\ f.cn \in 1..nonces[Client] /\ f.cn \in Nonces
  <2>1. wire[Client] # <<>> /\ f.type = "ClientHello"
    BY PeerFacts DEF HandleClientHello, Takes
  <2>2. f.cn \in 1..nonces[Client]
    BY <1>1, <2>1, PeerFacts, HeadTells DEF Tells
  <2>. QED  BY <1>2, <2>1, <2>2 DEF Nonces
<1>5. AlertCode = 0 /\ SelectedSuite \in Suites
  BY <1>1, Agreement DEF HandleClientHello, Typed, TypeOK
<1>6. m \in Frame /\ m.type = "ServerHello" /\ m.cn = f.cn /\ m.sn = n
  BY <1>1, <1>3, <1>4, <1>5, FrameTypes, PeerFacts DEF Typed, TypeOK, ServerHello
<1>7. wire' = Exchanged(Server, <<m>>)
  BY DEF HandleClientHello
<1>. HIDE DEF m
<1>8. /\ wire' \in [Ends -> Seq(Frame)]
      /\ wire'[Client] = Tail(wire[Client]) /\ wire'[Server] = Append(wire[Server], m)
  BY <1>1, <1>4, <1>6, <1>7, ExchangedWire, PeerFacts
<1>9. /\ state'[Server] = "HELLO_RECEIVED" /\ state'[Client] = state[Client]
      /\ nonces'[Server] = n /\ nonces'[Client] = nonces[Client]
      /\ handshake'[Server] = [cn |-> f.cn, sn |-> n]
      /\ handshake'[Client] = handshake[Client]
      /\ offered' = offered \cup {<<f.cn, n>>}
      /\ UNCHANGED <<config, calm, hmac_key, send_seq, recv_seq, retry_count,
                     resets, completed, received>>
  BY <1>1, PeerFacts DEF Typed, TypeOK, HandleClientHello
<1>10. TypeOK'
  <2>1. state' \in [Ends -> (DOMAIN VALID_TRANSITIONS \ Transient)]
    BY <1>1, StatesAre DEF HandleClientHello, States
  <2>2. nonces' \in [Ends -> Nonces]
    BY <1>1, <1>3 DEF Typed, TypeOK, HandleClientHello
  <2>3. handshake' \in [Ends -> [cn : Nonces, sn : Nonces] \cup {None}]
    <3>1. [cn |-> f.cn, sn |-> n] \in [cn : Nonces, sn : Nonces] \cup {None}
      BY <1>3, <1>4
    <3>. QED  BY <1>1, <3>1 DEF Typed, TypeOK, HandleClientHello
  <2>4. offered' \subseteq Keys
    BY <1>1, <1>3, <1>4, <1>9 DEF Typed, TypeOK, Keys
  <2>. QED  BY <1>1, <1>9, <2>1, <2>2, <2>3, <2>4 DEF Typed, TypeOK
<1>11. Stages'
  <2>1. state[Server] \in Unkeyed /\ nonces'[Server] <= resets[Server] + 1
    BY <1>2, <1>9 DEF HandleClientHello, Unkeyed
  <2>2. [cn |-> f.cn, sn |-> n] \in [cn : Nonces, sn : Nonces]
    BY <1>3, <1>4
  <2>3. \A e \in Ends :
          /\ nonces'[e] <= resets'[e] + 1
          /\ state'[e] = "IDLE" => nonces'[e] <= resets'[e]
          /\ state'[e] \in Unkeyed =>
               hmac_key'[e] = InitialKey /\ send_seq'[e] = 0 /\ recv_seq'[e] = 0
          /\ state'[e] = "ESTABLISHED" => hmac_key'[e] \in completed'
    BY <1>1, <1>9, <2>1, PeerFacts DEF Stages, Unkeyed
  <2>. QED  BY <1>1, <1>9, <2>2, <2>3 DEF Stages
<1>12. nonces'[Client] \in Nat /\ nonces[Client] <= nonces'[Client]
  BY <1>2, <1>9 DEF Nonces
<1>13. Tells(m, nonces'[Client], offered', completed')
  BY <1>6, <1>9 DEF Tells
<1>14. \A e \in Ends : AllTell(wire'[e], nonces'[Client], offered', completed')
  BY <1>1, <1>4, <1>6, <1>8, <1>9, <1>12, <1>13, PeerFacts, WiresTell
<1>15. Sessions'
  <2>1. AlertCode' = AlertCode
    BY <1>9 DEF AlertCode, Common
  <2>2. \A k \in offered' : k[1] \in 1..nonces'[Client] /\ k[2] \in 1..nonces'[Server]
    BY <1>1, <1>2, <1>3, <1>4, <1>9 DEF Sessions
  <2>. QED  BY <1>1, <1>5, <1>9, <1>14, <2>1, <2>2 DEF Sessions
<1>16. Flow(Client)'
  <2>1. \A K \in Keys : Awaits(Client, K)' => Awaits(Client, K)
    BY <1>9, PeerFacts DEF Awaits
  <2>2. /\ m \in Frame /\ m.type # "ApplicationData"
        /\ wire'[Peer(Client)] = Append(wire[Peer(Client)], m)
    BY <1>6, <1>8, PeerFacts
  <2>3. state'[Peer(Client)] # "ESTABLISHED" /\ recv_seq'[Client] = recv_seq[Client]
    BY <1>9, PeerFacts
  <2>. QED  BY <1>1, <2>1, <2>2, <2>3, PeerFacts, FlowKept
<1>17. Flow(Server)'
  <2>. SUFFICES ASSUME NEW K \in Keys, Awaits(Server, K)'
                PROVE  /\ \A i \in 1..Len(wire'[Client]) :
                            ~ (wire'[Client][i].type = "ApplicationData"
                               /\ wire'[Client][i].key = K)
                       /\ state'[Client] = "ESTABLISHED" => hmac_key'[Client] # K
    BY PeerFacts, FlowFresh
  <2>1. K[2] = n
    BY <1>9 DEF Awaits
  <2>2. K \notin completed
    BY <1>1, <1>2, <2>1, PeerFacts, DataOfCompleted
  <2>3. \A i \in 1..Len(Tail(wire[Client])) :
          i + 1 \in 1..Len(wire[Client]) /\ Tail(wire[Client])[i] = wire[Client][i + 1]
    BY <1>1, <1>4, PeerFacts, TailFacts DEF Typed
  <2>. QED  BY <1>1, <1>8, <1>9, <2>2, <2>3, PeerFacts, DataOfCompleted
<1>18. \A e \in Ends : Ordered(e)'
  BY <1>1, <1>9, PeerFacts DEF Ordered
<1>19. \A e \in Ends : Flow(e)'
  BY <1>16, <1>17, PeerFacts
<1>. QED  BY <1>8, <1>10, <1>11, <1>15, <1>18, <1>19 DEF IInv, SessionInv, Typed

\* The client completes a session with the nonce it has last drawn; no session
\* it completed before has it.
LEMMA ServerHelloStep ==
  ASSUME IInv, HandleServerHello
  PROVE  IInv'
<1>. DEFINE f == Head(wire[Server])
            J == <<f.cn, f.sn>>
            m == ClientAuth(hmac_key[Client], f.cn, f.sn)
<1>1. /\ SessionInv /\ Typed /\ Stages /\ Sessions /\ Flow(Server)
      /\ Ordered(Client) /\ Ordered(Server)
      /\ state \in [Ends -> States]
  BY PeerFacts, StatesAre DEF IInv, SessionInv, Typed, TypeOK
<1>2. /\ wire[Server] # <<>> /\ f.type = "ServerHello"
      /\ J \in offered /\ f.cn \in Nonces /\ f.sn \in Nonces
  <2>1. wire[Server] # <<>> /\ f.type = "ServerHello"
    BY PeerFacts DEF HandleServerHello, Takes
  <2>2. f \in Frame /\ J \in offered
    BY <1>1, <2>1, PeerFacts, HeadTells DEF Tells
  <2>. QED  BY <2>1, <2>2, FrameFields
<1>3. /\ state[Client] = "HELLO_SENT" /\ f.cn = nonces[Client]
      /\ \A k \in completed : k[1] < nonces[Client]
      /\ nonces[Client] \in Nat
      /\ send_seq[Client] = 0 /\ recv_seq[Client] = 0
  BY <1>1, PeerFacts DEF HandleServerHello, Stages, Typed, TypeOK, Nonces, Unkeyed
<1>4. m \in Frame /\ m.type = "ClientAuth" /\ m.cn = f.cn /\ m.sn = f.sn
  BY <1>1, <1>2, FrameTypes, PeerFacts DEF Typed, TypeOK, ClientAuth
<1>5. wire' = Exchanged(Client, <<m>>)
  BY DEF HandleServerHello
<1>. HIDE DEF m
<1>6. /\ wire' \in [Ends -> Seq(Frame)]
      /\ wire'[Server] = Tail(wire[Server]) /\ wire'[Client] = Append(wire[Client], m)
  BY <1>1, <1>2, <1>4, <1>5, ExchangedWire, PeerFacts
<1>7. /\ state'[Client] = "ESTABLISHED" /\ state'[Server] = state[Server]
      /\ hmac_key'[Client] = J /\ hmac_key'[Server] = hmac_key[Server]
      /\ handshake'[Server] = handshake[Server]
      /\ completed' = completed \cup {J}
      /\ UNCHANGED <<config, calm, send_seq, recv_seq, retry_count, nonces,
                     resets, offered, received>>
  BY <1>1, PeerFacts DEF Typed, TypeOK, HandleServerHello, CompleteHandshake, SessionKey
<1>8. TypeOK'
  <2>1. state' \in [Ends -> (DOMAIN VALID_TRANSITIONS \ Transient)]
    BY <1>1, StatesAre DEF HandleServerHello, CompleteHandshake, States
  <2>2. J \in Keys /\ completed' \subseteq Keys
    BY <1>1, <1>2, <1>7 DEF Typed, TypeOK
  <2>3. handshake' \in [Ends -> [cn : Nonces, sn : Nonces] \cup {None}]
    BY <1>1 DEF Typed, TypeOK, HandleServerHello, CompleteHandshake
  <2>4. hmac_key' \in [Ends -> Keys]
    BY <1>1, <2>2 DEF Typed, TypeOK, HandleServerHello, CompleteHandshake, SessionKey
  <2>. QED  BY <1>1, <1>7, <2>1, <2>2, <2>3, <2>4 DEF Typed, TypeOK
<1>9. Stages'
  <2>1. \A e \in Ends :
          /\ nonces'[e] <= resets'[e] + 1
          /\ state'[e] = "IDLE" => nonces'[e] <= resets'[e]
          /\ state'[e] \in Unkeyed =>
               hmac_key'[e] = InitialKey /\ send_seq'[e] = 0 /\ recv_seq'[e] = 0
          /\ state'[e] = "ESTABLISHED" => hmac_key'[e] \in completed'
    BY <1>1, <1>7, PeerFacts DEF Stages, Unkeyed
  <2>. QED  BY <1>1, <1>7, <2>1 DEF Stages
<1>10. nonces'[Client] \in Nat /\ nonces[Client] <= nonces'[Client]
  BY <1>3, <1>7
<1>11. Tells(m, nonces'[Client], offered', completed')
  BY <1>4, <1>7 DEF Tells
<1>12. \A e \in Ends : AllTell(wire'[e], nonces'[Client], offered', completed')
  BY <1>1, <1>2, <1>4, <1>6, <1>7, <1>10, <1>11, PeerFacts, WiresTell
<1>13. Sessions'
  <2>1. AlertCode' = AlertCode
    BY <1>7 DEF AlertCode, Common
  <2>. QED  BY <1>1, <1>2, <1>7, <1>12, <2>1 DEF Sessions
<1>14. Flow(Server)'
  <2>1. \A K \in Keys : Awaits(Server, K)' => Awaits(Server, K)
    BY <1>7 DEF Awaits
  <2>2. /\ m \in Frame /\ m.type # "ApplicationData"
        /\ wire'[Peer(Server)] = Append(wire[Peer(Server)], m)
    BY <1>4, <1>6, PeerFacts
  <2>3. send_seq'[Peer(Server)] = 0 /\ recv_seq'[Server] = recv_seq[Server]
    BY <1>3, <1>7, PeerFacts
  <2>. QED  BY <1>1, <2>1, <2>2, <2>3, PeerFacts, FlowKept
<1>15. Flow(Client)'
  <2>. SUFFICES ASSUME NEW K \in Keys, Awaits(Client, K)'
                PROVE  /\ \A i \in 1..Len(wire'[Server]) :
                            ~ (wire'[Server][i].type = "ApplicationData"
                               /\ wire'[Server][i].key = K)
                       /\ state'[Server] = "ESTABLISHED" => hmac_key'[Server] # K
    BY PeerFacts, FlowFresh
  <2>1. K[1] = nonces[Client]
    BY <1>3, <1>7, PeerFacts DEF Awaits
  <2>2. K \notin completed
    BY <1>3, <2>1
  <2>3. \A i \in 1..Len(Tail(wire[Server])) :
          i + 1 \in 1..Len(wire[Server]) /\ Tail(wire[Server])[i] = wire[Server][i + 1]
    BY <1>1, <1>2, PeerFacts, TailFacts DEF Typed
  <2>. QED  BY <1>1, <1>6, <1>7, <2>2, <2>3, PeerFacts, DataOfCompleted
<1>16. \A e \in Ends : Ordered(e)'
  BY <1>1, <1>7, PeerFacts DEF Ordered
<1>17. \A e \in Ends : Flow(e)'
  BY <1>14, <1>15, PeerFacts
<1>. QED  BY <1>6, <1>8, <1>9, <1>13, <1>16, <1>17 DEF IInv, SessionInv, Typed

\* The server enters the session it awaited.
LEMMA ClientAuthStep ==
  ASSUME IInv, HandleClientAuth
  PROVE  IInv'
<1>. DEFINE f == Head(wire[Client])
            J == <<f.cn, f.sn>>
<1>1. /\ SessionInv /\ Typed /\ Stages /\ Sessions /\ Flow(Server) /\ Flow(Client)
      /\ Ordered(Client) /\ Ordered(Server)
      /\ state \in [Ends -> States]
  BY PeerFacts, StatesAre DEF IInv, SessionInv, Typed, TypeOK
<1>2. /\ wire[Client] # <<>> /\ f.type = "ClientAuth"
      /\ J \in completed /\ f.cn \in Nonces /\ f.sn \in Nonces
  <2>1. wire[Client] # <<>> /\ f.type = "ClientAuth"
    BY PeerFacts DEF HandleClientAuth, Takes
  <2>2. f \in Frame /\ J \in completed
    BY <1>1, <2>1, PeerFacts, HeadTells DEF Tells
  <2>. QED  BY <2>1, <2>2, FrameFields
<1>3. /\ state[Server] = "HELLO_RECEIVED"
      /\ handshake[Server] = [cn |-> f.cn, sn |-> f.sn]
      /\ send_seq[Server] = 0 /\ recv_seq[Server] = 0
  BY <1>1, PeerFacts DEF HandleClientAuth, Stages, Unkeyed
<1>4. wire' = Exchanged(Server, <<>>)
  BY DEF HandleClientAuth
<1>5. /\ wire' \in [Ends -> Seq(Frame)]
      /\ wire'[Client] = Tail(wire[Client]) /\ wire'[Server] = wire[Server]
  BY <1>1, <1>2, <1>4, ExchangedWire, PeerFacts
<1>6. /\ state'[Server] = "ESTABLISHED" /\ state'[Client] = state[Client]
      /\ hmac_key'[Server] = J /\ hmac_key'[Client] = hmac_key[Client]
      /\ handshake'[Client] = handshake[Client]
      /\ UNCHANGED <<config, calm, send_seq, recv_seq, retry_count, nonces,
                     resets, offered, completed, received>>
  BY <1>1, PeerFacts DEF Typed, TypeOK, HandleClientAuth, CompleteHandshake, SessionKey
<1>7. TypeOK'
  <2>1. state' \in [Ends -> (DOMAIN VALID_TRANSITIONS \ Transient)]
    BY <1>1, StatesAre DEF HandleClientAuth, CompleteHandshake, States
  <2>2. handshake' \in [Ends -> [cn : Nonces, sn : Nonces] \cup {None}]
    BY <1>1 DEF Typed, TypeOK, HandleClientAuth, CompleteHandshake
  <2>3. hmac_key' \in [Ends -> Keys]
    BY <1>1, <1>2 DEF Typed, TypeOK, HandleClientAuth, CompleteHandshake, SessionKey
  <2>. QED  BY <1>1, <1>6, <2>1, <2>2, <2>3 DEF Typed, TypeOK
<1>8. Stages'
  <2>1. \A e \in Ends :
          /\ nonces'[e] <= resets'[e] + 1
          /\ state'[e] = "IDLE" => nonces'[e] <= resets'[e]
          /\ state'[e] \in Unkeyed =>
               hmac_key'[e] = InitialKey /\ send_seq'[e] = 0 /\ recv_seq'[e] = 0
          /\ state'[e] = "ESTABLISHED" => hmac_key'[e] \in completed'
    BY <1>1, <1>2, <1>6, PeerFacts DEF Stages, Unkeyed
  <2>. QED  BY <1>1, <1>6, <2>1 DEF Stages
<1>9. nonces'[Client] \in Nat /\ nonces[Client] <= nonces'[Client]
  BY <1>1, <1>6, PeerFacts DEF Typed, TypeOK, Nonces
<1>10. \A e \in Ends : AllTell(wire'[e], nonces'[Client], offered', completed')
  BY <1>1, <1>2, <1>5, <1>6, <1>9, PeerFacts, WiresTell
<1>11. Sessions'
  <2>1. AlertCode' = AlertCode
    BY <1>6 DEF AlertCode, Common
  <2>. QED  BY <1>1, <1>6, <1>10, <2>1 DEF Sessions
<1>12. Flow(Server)'
  <2>1. ASSUME NEW K \in Keys, Awaits(Server, K)' PROVE Awaits(Server, K)
    BY <1>3, <1>6, <2>1, PeerFacts DEF Awaits
  <2>2. /\ wire[Peer(Server)] # <<>> /\ wire'[Peer(Server)] = Tail(wire[Peer(Server)])
        /\ Head(wire[Peer(Server)]).type # "ApplicationData"
    BY <1>2, <1>5, PeerFacts
  <2>3. /\ state'[Peer(Server)] = state[Peer(Server)]
        /\ hmac_key'[Peer(Server)] = hmac_key[Peer(Server)]
        /\ send_seq'[Peer(Server)] = send_seq[Peer(Server)]
        /\ recv_seq'[Server] = recv_seq[Server]
    BY <1>6, PeerFacts
  <2>. QED  BY <1>1, <2>1, <2>2, <2>3, PeerFacts, FlowKept
<1>13. Flow(Client)'
  <2>1. ASSUME NEW K \in Keys, Awaits(Client, K)' PROVE Awaits(Client, K)
    BY <1>6, <2>1, PeerFacts DEF Awaits
  <2>2. /\ wire'[Peer(Client)] = wire[Peer(Client)]
        /\ send_seq'[Peer(Client)] = 0 /\ recv_seq'[Client] = recv_seq[Client]
    BY <1>3, <1>5, <1>6, PeerFacts
  <2>. QED  BY <1>1, <2>1, <2>2, PeerFacts, FlowKept
<1>14. \A e \in Ends : Ordered(e)'
  BY <1>1, <1>6, PeerFacts DEF Ordered
<1>15. \A e \in Ends : Flow(e)'
  BY <1>12, <1>13, PeerFacts
<1>. QED  BY <1>5, <1>7, <1>8, <1>11, <1>14, <1>15 DEF IInv, SessionInv, Typed

-----------------------------------------------------------------------------
(* Data, and a reset.                                                      *)

\* Message n of a session follows message n - 1, which is on its way or has
\* been received.
LEMMA SendDataStep ==
  ASSUME IInv, NEW e \in Ends, SendData(e)
  PROVE  IInv'
<1>. DEFINE p == Peer(e)
            n == send_seq[e]
            J == hmac_key[e]
            m == Data(J, n)
<1>1. p \in Ends /\ p # e /\ Peer(p) = e /\ \A x \in Ends : x = e \/ x = p
  BY PeerFacts
<1>2. SessionInv /\ Typed /\ Stages /\ Sessions /\ Flow(e) /\ Flow(p)
  BY <1>1 DEF IInv, SessionInv
<1>3. /\ n \in 0..MaxData /\ n < MaxData /\ n + 1 \in 0..MaxData /\ n \in Nat
      /\ J \in Keys /\ J \in completed /\ state[e] = "ESTABLISHED"
      /\ wire[e] \in Seq(Frame) /\ recv_seq[p] \in Nat /\ MaxData \in Nat
  <2>1. n < MaxData /\ state[e] = "ESTABLISHED"
    BY DEF SendData
  <2>2. J \in completed
    BY <1>2, <2>1 DEF Stages
  <2>. QED  BY <1>1, <1>2, <2>1, <2>2, Counters
<1>4. m \in Frame /\ m.type = "ApplicationData" /\ m.key = J /\ m.seq = n
  BY <1>3, FrameTypes DEF Data
<1>5. /\ wire' \in [Ends -> Seq(Frame)]
      /\ wire'[e] = Append(wire[e], m) /\ wire'[p] = wire[p]
  <2>1. wire' = [wire EXCEPT ![e] = Append(wire[e], m)]
    BY DEF SendData
  <2>. HIDE DEF m
  <2>. QED  BY <1>1, <1>2, <1>3, <1>4, <2>1, AppendFacts DEF Typed
<1>6. /\ send_seq'[e] = n + 1 /\ send_seq'[p] = send_seq[p]
      /\ send_seq' \in [Ends -> 0..MaxData]
      /\ UNCHANGED <<config, calm, state, handshake, hmac_key, recv_seq,
                     retry_count, nonces, resets, offered, completed, received>>
  BY <1>1, <1>2, <1>3 DEF SendData, Typed, TypeOK
<1>7. TypeOK'
  BY <1>2, <1>6 DEF Typed, TypeOK
<1>8. Stages'
  <2>1. \A x \in Ends : state[x] \in Unkeyed => send_seq'[x] = send_seq[x]
    BY <1>1, <1>3, <1>6 DEF Unkeyed
  <2>. QED  BY <1>2, <1>6, <2>1 DEF Stages
<1>9. nonces'[Client] \in Nat /\ nonces[Client] <= nonces'[Client]
  BY <1>2, <1>6, PeerFacts DEF Typed, TypeOK, Nonces
<1>10. Tells(m, nonces'[Client], offered', completed')
  BY <1>3, <1>4, <1>6 DEF Tells
<1>11. \A x \in Ends : AllTell(wire'[x], nonces'[Client], offered', completed')
  BY <1>1, <1>2, <1>4, <1>5, <1>6, <1>9, <1>10, WiresTell
<1>12. Sessions'
  <2>1. AlertCode' = AlertCode
    BY <1>6 DEF AlertCode, Common
  <2>. QED  BY <1>2, <1>6, <1>11, <2>1 DEF Sessions
<1>. HIDE DEF m
<1>13. Flow(e)'
  <2>1. \A K \in Keys : Awaits(e, K)' => Awaits(e, K)
    BY <1>6 DEF Awaits
  <2>2. /\ wire'[Peer(e)] = wire[Peer(e)] /\ recv_seq'[e] = recv_seq[e]
        /\ state'[Peer(e)] = state[Peer(e)]
        /\ hmac_key'[Peer(e)] = hmac_key[Peer(e)]
        /\ send_seq'[Peer(e)] = send_seq[Peer(e)]
    BY <1>5, <1>6
  <2>. QED  BY <1>2, <2>1, <2>2, FlowKept
<1>14. Flow(p)'
  <2>. SUFFICES ASSUME NEW K \in Keys, Awaits(p, K)'
                PROVE  /\ Chained(wire'[e], K, recv_seq'[p])
                       /\ state'[e] = "ESTABLISHED" /\ hmac_key'[e] = K
                            /\ send_seq'[e] > recv_seq'[p] =>
                          Has(wire'[e], K, send_seq'[e] - 1)
    BY <1>1 DEF Flow, Continues
  <2>1. Awaits(p, K)
    BY <1>6 DEF Awaits
  <2>2. Chained(wire[e], K, recv_seq[p]) /\ Continues(e, K, recv_seq[p])
    BY <1>1, <1>2, <2>1 DEF Flow
  <2>3. J = K /\ n > recv_seq[p] => Has(wire[e], K, n - 1)
    BY <1>3, <2>2 DEF Continues
  <2>4. /\ Chained(Append(wire[e], Data(J, n)), K, recv_seq[p])
        /\ Has(Append(wire[e], Data(J, n)), J, n)
    BY <1>3, <2>2, <2>3, ChainedNext
  <2>5. Chained(wire'[e], K, recv_seq[p]) /\ Has(wire'[e], J, n)
    BY <1>5, <2>4 DEF m
  <2>6. send_seq'[e] - 1 = n
    BY <1>3, <1>6
  <2>. QED  BY <1>6, <2>5, <2>6
<1>15. \A x \in Ends : Ordered(x)'
  BY <1>6 DEF IInv, Ordered
<1>16. \A x \in Ends : Flow(x)'
  BY <1>1, <1>13, <1>14
<1>. QED  BY <1>5, <1>7, <1>8, <1>12, <1>15, <1>16 DEF IInv, SessionInv, Typed

\* The next data of the session is the one after the last received: a later one
\* would have it ahead of itself.
LEMMA NextInLine ==
  ASSUME IInv, NEW e \in Ends, HandleData(e)
  PROVE  Head(wire[Peer(e)]).seq = recv_seq[e]
<1>. DEFINE p == Peer(e)
            q == wire[p]
            f == Head(q)
            r == recv_seq[e]
<1>1. p \in Ends /\ q # <<>> /\ q \in Seq(Frame) /\ r \in Nat
      /\ SessionInv /\ Flow(e)
  <2>1. p \in Ends /\ SessionInv /\ Typed /\ Flow(e) /\ q # <<>>
    BY PeerFacts DEF IInv, SessionInv, HandleData, Takes
  <2>. QED  BY <2>1, Counters
<1>2. f = q[1] /\ 1 \in 1..Len(q) /\ f \in Frame
  BY <1>1, TailFacts
<1>3. /\ f.type = "ApplicationData" /\ f.key = hmac_key[e] /\ f.seq >= r
      /\ state[e] = "ESTABLISHED" /\ f.seq \in Nat
  <2>1. f.type = "ApplicationData" /\ f.key = hmac_key[e] /\ state[e] = "ESTABLISHED"
        /\ ~ (f.seq < r)
    BY DEF HandleData, Takes, Replay
  <2>2. f.seq \in Nat
    BY <1>2, <2>1, FrameFields, ConnectionAssumption
  <2>. QED  BY <1>1, <2>1, <2>2
<1>4. hmac_key[e] \in Keys /\ Awaits(e, hmac_key[e])
  BY <1>1, <1>3 DEF SessionInv, Typed, TypeOK, Awaits
<1>5. Chained(q, hmac_key[e], r)
  BY <1>1, <1>4 DEF Flow
<1>6. ~ (f.seq > r)
  <2>. SUFFICES ASSUME f.seq > r PROVE FALSE
    OBVIOUS
  <2>1. \E i \in 1..(1 - 1) : IsData(q[i], hmac_key[e], f.seq - 1)
    BY <1>2, <1>3, <1>5 DEF Chained
  <2>. QED  BY <2>1
<1>. QED  BY <1>1, <1>3, <1>6

LEMMA HandleDataStep ==
  ASSUME IInv, NEW e \in Ends, HandleData(e)
  PROVE  IInv'
<1>. DEFINE p == Peer(e)
            f == Head(wire[p])
            r == recv_seq[e]
<1>1. p \in Ends /\ p # e /\ Peer(p) = e /\ \A x \in Ends : x = e \/ x = p
  BY PeerFacts
<1>2. /\ SessionInv /\ Typed /\ Stages /\ Sessions /\ Flow(e) /\ Flow(p)
      /\ Ordered(e) /\ Ordered(p)
  BY <1>1 DEF IInv, SessionInv
<1>3. /\ wire[p] # <<>> /\ wire[p] \in Seq(Frame) /\ f.type = "ApplicationData"
      /\ f.key = hmac_key[e] /\ f.seq = r /\ state[e] = "ESTABLISHED"
  BY <1>1, <1>2, NextInLine DEF HandleData, Takes, Typed
<1>4. r \in 0..MaxData /\ r < MaxData /\ r + 1 \in 0..MaxData /\ r \in Nat
  <2>1. r < MaxData
    BY <1>1, <1>2, <1>3, HeadTells DEF Tells
  <2>. QED  BY <1>2, <2>1, ConnectionAssumption DEF Typed, TypeOK
<1>5. /\ wire' \in [Ends -> Seq(Frame)]
      /\ wire'[p] = Tail(wire[p]) /\ wire'[e] = wire[e]
  BY <1>2, <1>3, ExchangedWire DEF HandleData
<1>6. /\ recv_seq' = [recv_seq EXCEPT ![e] = r + 1]
      /\ received' = [received EXCEPT ![e] = Append(received[e], r)]
      /\ UNCHANGED <<config, calm, state, handshake, hmac_key, send_seq,
                     retry_count, nonces, resets, offered, completed>>
  BY <1>3 DEF HandleData
<1>7. /\ recv_seq \in [Ends -> 0..MaxData] /\ received \in [Ends -> Seq(0..MaxData)]
      /\ received[e] \in Seq(0..MaxData)
      /\ Append(received[e], r) \in Seq(0..MaxData)
  BY <1>2, <1>4 DEF Typed, TypeOK
<1>8. /\ recv_seq'[e] = r + 1 /\ recv_seq'[p] = recv_seq[p]
      /\ received'[e] = Append(received[e], r) /\ received'[p] = received[p]
      /\ recv_seq' \in [Ends -> 0..MaxData] /\ received' \in [Ends -> Seq(0..MaxData)]
  BY <1>1, <1>4, <1>6, <1>7
<1>9. TypeOK'
  BY <1>2, <1>6, <1>8 DEF Typed, TypeOK
<1>10. Stages'
  <2>1. \A x \in Ends : state[x] \in Unkeyed => recv_seq'[x] = recv_seq[x]
    BY <1>1, <1>3, <1>8 DEF Unkeyed
  <2>. QED  BY <1>2, <1>6, <2>1 DEF Stages
<1>11. nonces'[Client] \in Nat /\ nonces[Client] <= nonces'[Client]
  BY <1>2, <1>6, PeerFacts DEF Typed, TypeOK, Nonces
<1>12. \A x \in Ends : AllTell(wire'[x], nonces'[Client], offered', completed')
  BY <1>1, <1>2, <1>3, <1>5, <1>6, <1>11, WiresTell
<1>13. Sessions'
  <2>1. AlertCode' = AlertCode
    BY <1>6 DEF AlertCode, Common
  <2>. QED  BY <1>2, <1>6, <1>12, <2>1 DEF Sessions
<1>14. Flow(p)'
  <2>1. \A K \in Keys : Awaits(p, K)' => Awaits(p, K)
    BY <1>6 DEF Awaits
  <2>2. /\ wire'[Peer(p)] = wire[Peer(p)] /\ recv_seq'[p] = recv_seq[p]
        /\ state'[Peer(p)] = state[Peer(p)]
        /\ hmac_key'[Peer(p)] = hmac_key[Peer(p)]
        /\ send_seq'[Peer(p)] = send_seq[Peer(p)]
    BY <1>1, <1>5, <1>6, <1>8
  <2>. QED  BY <1>1, <1>2, <2>1, <2>2, FlowKept
<1>15. Flow(e)'
  <2>. SUFFICES ASSUME NEW K \in Keys, Awaits(e, K)'
                PROVE  /\ Chained(wire'[p], K, recv_seq'[e])
                       /\ state'[p] = "ESTABLISHED" /\ hmac_key'[p] = K
                            /\ send_seq'[p] > recv_seq'[e] =>
                          Has(wire'[p], K, send_seq'[p] - 1)
    BY <1>1 DEF Flow, Continues
  <2>1. Awaits(e, K)
    BY <1>6 DEF Awaits
  <2>2. Chained(wire[p], K, r) /\ Continues(p, K, r)
    BY <1>1, <1>2, <2>1 DEF Flow
  <2>3. /\ Chained(Tail(wire[p]), K, r + 1)
        /\ \A n \in Nat : n >= r + 1 /\ Has(wire[p], K, n) => Has(Tail(wire[p]), K, n)
    <3>1. r + 1 \in Nat /\ r <= r + 1 /\ f.seq < r + 1
      BY <1>3, <1>4
    <3>. QED  BY <1>3, <1>4, <2>2, <3>1, ChainedTail
  <2>4. ASSUME state[p] = "ESTABLISHED", hmac_key[p] = K, send_seq[p] > r + 1
        PROVE  Has(wire[p], K, send_seq[p] - 1) /\ send_seq[p] - 1 \in Nat
               /\ send_seq[p] - 1 >= r + 1
    <3>1. send_seq[p] \in Nat /\ send_seq[p] > r
      BY <1>1, <1>2, <1>4, <2>4 DEF Typed, TypeOK
    <3>. QED  BY <1>4, <2>2, <2>4, <3>1 DEF Continues
  <2>. QED  BY <1>5, <1>6, <1>8, <2>3, <2>4
<1>16. Ordered(e)'
  <2>1. Len(received[e]) = r /\ \A i \in 1..r : received[e][i] = i - 1
    BY <1>2 DEF Ordered
  <2>2. /\ Len(Append(received[e], r)) = r + 1
        /\ \A i \in 1..(r + 1) : Append(received[e], r)[i] = i - 1
    BY <1>4, <1>7, <2>1
  <2>. QED  BY <1>8, <2>2 DEF Ordered
<1>17. Ordered(p)'
  BY <1>2, <1>8 DEF Ordered
<1>18. \A x \in Ends : Flow(x)' /\ Ordered(x)'
  BY <1>1, <1>14, <1>15, <1>16, <1>17
<1>. QED  BY <1>5, <1>9, <1>10, <1>13, <1>18 DEF IInv, SessionInv, Typed

\* A reset leaves the nonces it has drawn behind it.
LEMMA ResetStep ==
  ASSUME IInv, NEW e \in Ends, Reset(e)
  PROVE  IInv'
<1>. DEFINE p == Peer(e)
<1>1. p \in Ends /\ p # e /\ Peer(p) = e /\ \A x \in Ends : x = e \/ x = p
  BY PeerFacts
<1>2. /\ SessionInv /\ Typed /\ Stages /\ Sessions /\ Flow(p) /\ Ordered(p)
      /\ state \in [Ends -> States]
  BY <1>1, StatesAre DEF IInv, SessionInv, Typed, TypeOK
<1>3. wire[e] \in Seq(Frame) /\ wire[p] \in Seq(Frame) /\ wire \in [Ends -> Seq(Frame)]
  BY <1>1, <1>2 DEF Typed
<1>4. PICK k \in 0..Len(wire[e]), n \in 0..Len(wire[p]) :
        wire' = [wire EXCEPT ![e] = SubSeq(wire[e], 1, k),
                             ![p] = SubSeq(wire[p], n + 1, Len(wire[p]))]
  BY <1>1 DEF Reset
<1>5. /\ wire' \in [Ends -> Seq(Frame)]
      /\ wire'[e] = SubSeq(wire[e], 1, k)
      /\ wire'[p] = SubSeq(wire[p], n + 1, Len(wire[p]))
  <2>1. SubSeq(wire[e], 1, k) \in Seq(Frame) /\ SubSeq(wire[p], n + 1, Len(wire[p])) \in Seq(Frame)
    BY <1>3, CutFacts
  <2>. QED  BY <1>1, <1>3, <1>4, <2>1
<1>6. /\ resets' = [resets EXCEPT ![e] = resets[e] + 1] /\ resets[e] < MaxResets
      /\ state' = [state EXCEPT ![e] = "IDLE"]
      /\ handshake' = [handshake EXCEPT ![e] = None]
      /\ hmac_key' = [hmac_key EXCEPT ![e] = InitialKey]
      /\ send_seq' = [send_seq EXCEPT ![e] = 0]
      /\ recv_seq' = [recv_seq EXCEPT ![e] = 0]
      /\ retry_count' = [retry_count EXCEPT ![e] = 0]
      /\ received' = [received EXCEPT ![e] = <<>>]
      /\ UNCHANGED <<config, calm, nonces, offered, completed>>
  BY DEF Reset
<1>7. /\ resets[e] \in Nat /\ resets[e] + 1 \in 0..MaxResets
      /\ 0 \in 0..MaxData /\ 0 \in 0..max_retries /\ InitialKey \in Keys
  <2>1. 0 \in Nonces
    BY ConnectionAssumption DEF Nonces
  <2>2. InitialKey \in Keys
    BY <2>1 DEF InitialKey, Keys
  <2>. QED  BY <1>2, <1>6, <2>2, Counters
<1>8. TypeOK'
  <2>1. state' \in [Ends -> (DOMAIN VALID_TRANSITIONS \ Transient)]
    BY <1>2, <1>6, StatesAre DEF States
  <2>2. handshake' \in [Ends -> [cn : Nonces, sn : Nonces] \cup {None}]
    BY <1>2, <1>6 DEF Typed, TypeOK
  <2>3. <<>> \in Seq(0..MaxData)
    OBVIOUS
  <2>. QED  BY <1>2, <1>6, <1>7, <2>1, <2>2, <2>3 DEF Typed, TypeOK
<1>9. /\ resets'[e] = resets[e] + 1 /\ resets'[p] = resets[p]
      /\ state'[e] = "IDLE" /\ state'[p] = state[p]
      /\ handshake'[p] = handshake[p]
      /\ hmac_key'[e] = InitialKey /\ hmac_key'[p] = hmac_key[p]
      /\ send_seq'[e] = 0 /\ send_seq'[p] = send_seq[p]
      /\ recv_seq'[e] = 0 /\ recv_seq'[p] = recv_seq[p]
      /\ received'[e] = <<>> /\ received'[p] = received[p]
  BY <1>1, <1>2, <1>6 DEF Typed, TypeOK
<1>10. Stages'
  <2>1. \A x \in Ends :
          /\ nonces'[x] <= resets'[x] + 1
          /\ state'[x] = "IDLE" => nonces'[x] <= resets'[x]
          /\ state'[x] \in Unkeyed =>
               hmac_key'[x] = InitialKey /\ send_seq'[x] = 0 /\ recv_seq'[x] = 0
          /\ state'[x] = "ESTABLISHED" => hmac_key'[x] \in completed'
    <3>1. nonces[e] \in Nat
      BY <1>2 DEF Typed, TypeOK, Nonces
    <3>. QED  BY <1>1, <1>2, <1>6, <1>7, <1>9, <3>1 DEF Stages
  <2>2. \A x \in Ends : state'[x] \in {"HELLO_SENT", "HELLO_RECEIVED"} =>
          state[x] = state'[x] /\ handshake'[x] = handshake[x]
    BY <1>1, <1>9
  <2>. QED  BY <1>2, <1>6, <2>1, <2>2, PeerFacts DEF Stages
<1>11. nonces'[Client] \in Nat /\ nonces[Client] <= nonces'[Client]
  BY <1>2, <1>6, PeerFacts DEF Typed, TypeOK, Nonces
<1>12. \A x \in Ends : AllTell(wire'[x], nonces'[Client], offered', completed')
  BY <1>1, <1>2, <1>5, <1>6, <1>11, WiresTell
<1>13. Sessions'
  <2>1. AlertCode' = AlertCode
    BY <1>6 DEF AlertCode, Common
  <2>. QED  BY <1>2, <1>6, <1>12, <2>1 DEF Sessions
<1>14. Flow(e)'
  BY <1>9, FlowIdle
<1>15. Flow(p)'
  <2>1. \A K \in Keys : Awaits(p, K)' => Awaits(p, K)
    BY <1>9 DEF Awaits
  <2>2. /\ wire'[Peer(p)] = SubSeq(wire[Peer(p)], 1, k) /\ k \in 0..Len(wire[Peer(p)])
        /\ state'[Peer(p)] # "ESTABLISHED" /\ recv_seq'[p] = recv_seq[p]
    BY <1>1, <1>5, <1>9
  <2>. QED  BY <1>1, <1>2, <2>1, <2>2, FlowKept
<1>16. Ordered(e)' /\ Ordered(p)'
  BY <1>2, <1>9 DEF Ordered
<1>17. \A x \in Ends : Flow(x)' /\ Ordered(x)'
  BY <1>1, <1>14, <1>15, <1>16
<1>. QED  BY <1>5, <1>8, <1>10, <1>13, <1>17 DEF IInv, SessionInv, Typed

-----------------------------------------------------------------------------
(* The invariant, and what follows from it.                                *)

LEMMA Initially == Init => IInv
<1>. SUFFICES ASSUME Init PROVE IInv
  OBVIOUS
<1>1. /\ 0 \in 0..MaxData /\ 0 \in 0..max_retries /\ 0 \in 0..MaxResets /\ 0 \in Nonces
      /\ InitialKey \in Keys
  BY ConnectionAssumption DEF InitialKey, Keys, Nonces
<1>2. Typed
  BY <1>1, StatesAre DEF Init, Typed, TypeOK, States
<1>3. Stages /\ Sessions
  BY <1>1, PeerFacts DEF Init, Stages, Unkeyed, Sessions, AllTell
<1>4. \A e \in Ends : Flow(e) /\ Ordered(e)
  BY DEF Init, Flow, Awaits, Ordered
<1>. QED  BY <1>2, <1>3, <1>4 DEF IInv, SessionInv

LEMMA ReceiveStep ==
  ASSUME IInv, NEW e \in Ends, Receive(e)
  PROVE  IInv'
BY HandleDataStep, RefuseDataStep, HandleAlertStep, RejectFrameStep, ClientHelloStep,
   RefuseStep, ClientAuthStep, ServerHelloStep DEF Receive

LEMMA StutterStep == IInv /\ UNCHANGED vars => IInv'
<1>. SUFFICES ASSUME IInv, UNCHANGED vars PROVE IInv'
  OBVIOUS
<1>1. UNCHANGED <<config, calm, state, handshake, hmac_key, send_seq, recv_seq,
                  retry_count, wire, nonces, resets, offered, completed, received>>
  BY DEF vars
<1>2. state' = [state EXCEPT ![Client] = state[Client]]
  BY <1>1, PeerFacts DEF IInv, SessionInv, Typed, TypeOK
<1>3. wire' \in [Ends -> Seq(Frame)] /\ retry_count' \in [Ends -> 0..max_retries]
  BY <1>1 DEF IInv, SessionInv, Typed, TypeOK
<1>. QED  BY <1>1, <1>2, <1>3, PeerFacts, QuietStep

LEMMA Inductive == IInv /\ [Next]_vars => IInv'
<1>. SUFFICES ASSUME IInv, [Next]_vars PROVE IInv'
  OBVIOUS
<1>1. CASE UNCHANGED vars
  BY <1>1, StutterStep
<1>2. CASE InitiateHandshake
  BY <1>2, InitiateStep
<1>3. ASSUME NEW e \in Ends,
             Receive(e) \/ SendData(e) \/ Close(e) \/ HandleTimeout(e) \/ Reset(e)
      PROVE  IInv'
  BY <1>3, ReceiveStep, SendDataStep, CloseStep, HandleTimeoutStep, ResetStep
<1>. QED  BY <1>1, <1>2, <1>3 DEF Next

LEMMA Invariance == Spec => []IInv
BY Initially, Inductive, PTL DEF Spec

\* Two ends never disagree on the session they are in, whatever an earlier
\* handshake left on the way, and what they agree on is the strongest terms
\* both know.
THEOREM SessionsAgree == Spec => []SessionAgreed
<1>1. IInv => SessionAgreed
  <2>. SUFFICES ASSUME IInv PROVE SessionAgreed
    OBVIOUS
  <2>1. Typed /\ Stages /\ Sessions
    BY DEF IInv, SessionInv
  <2>2. KeysAgreed
    BY <2>1, PeerFacts DEF Stages, Sessions, KeysAgreed
  <2>3. NoDowngrade
    BY <2>1, Agreement DEF Sessions, Typed, TypeOK, NoDowngrade
  <2>. QED  BY <2>1, <2>2, <2>3 DEF Typed, SessionAgreed
<1>. QED  BY <1>1, Invariance, PTL

\* The data of a session arrives whole and in order at either end, however often
\* the other closes, fails or resets.
THEOREM DataOrdered == Spec => []DataInOrder
<1>1. IInv => DataInOrder
  BY DEF IInv, Ordered, DataInOrder
<1>. QED  BY <1>1, Invariance, PTL

=============================================================================
