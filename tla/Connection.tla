------------------------------ MODULE Connection ------------------------------
(***************************************************************************)
(* Two QASPConnection objects (src/src/qasp/protocol/connection.py), a     *)
(* client and a server, with the Handshake of each, over a reliable byte   *)
(* stream in each direction.                                               *)
(*                                                                         *)
(* wire[e] holds the frames e encoded and its peer has not processed yet:  *)
(* the send buffer of e, the stream and the receive buffer of the peer.    *)
(* Cryptography is modelled by what it is computed from: a nonce is a      *)
(* number of its own, a session key is the pair of nonces, a signature     *)
(* verifies when the transcripts name the same nonces, a frame's HMAC when *)
(* the keys are equal.                                                     *)
(***************************************************************************)
EXTENDS Naturals, Sequences, SequencesExt

CONSTANTS
  Configs,      \* the HandshakeConfigs an endpoint may have
  max_retries,
  MaxResets,    \* bound: resets of an endpoint
  MaxData,      \* bound: messages an endpoint sends in a session
  None

Client == "client"
Server == "server"
Ends == {Client, Server}

Peer(e) == IF e = Client THEN Server ELSE Client

Suites == {"PQ-Strict", "Hybrid-Transition", "Classical-Compat"}
PQ_SUITE_IDS == {"PQ-Strict", "Hybrid-Transition"}

uses_hybrid_kem(suite) == suite = "Hybrid-Transition"

ASSUME ConnectionAssumption ==
  /\ Configs \subseteq [version : Nat, suites : Seq(Suites), hybrid : BOOLEAN]
  /\ max_retries \in Nat
  /\ MaxResets \in Nat
  /\ MaxData \in Nat

VARIABLES
  config,
  calm,         \* in this behaviour nobody reports a timeout, closes or resets
  state,
  handshake,    \* of each endpoint, or None
  hmac_key,
  send_seq,
  recv_seq,
  retry_count,
  wire,
  nonces,       \* nonces an endpoint has drawn
  resets,
  offered,      \* history: what the server answered to which hello
  completed,    \* history: the sessions the client completed
  received      \* sequence numbers of the DataReceived events of a session

vars == <<config, calm, state, handshake, hmac_key, send_seq, recv_seq,
          retry_count, wire, nonces, resets, offered, completed, received>>

InitialKey == <<0, 0>>

Init ==
  /\ config \in [Ends -> Configs]
  /\ calm \in BOOLEAN
  /\ state = [e \in Ends |-> "IDLE"]
  /\ handshake = [e \in Ends |-> None]
  /\ hmac_key = [e \in Ends |-> InitialKey]
  /\ send_seq = [e \in Ends |-> 0]
  /\ recv_seq = [e \in Ends |-> 0]
  /\ retry_count = [e \in Ends |-> 0]
  /\ wire = [e \in Ends |-> <<>>]
  /\ nonces = [e \in Ends |-> 0]
  /\ resets = [e \in Ends |-> 0]
  /\ offered = {}
  /\ completed = {}
  /\ received = [e \in Ends |-> <<>>]

-----------------------------------------------------------------------------
(* States and frames.                                                      *)

VALID_TRANSITIONS ==
  [IDLE           |-> {"HELLO_SENT", "HELLO_RECEIVED", "ERROR"},
   HELLO_SENT     |-> {"AUTHENTICATED", "ERROR", "CLOSED"},
   HELLO_RECEIVED |-> {"AUTHENTICATED", "ERROR", "CLOSED"},
   AUTHENTICATED  |-> {"ESTABLISHED", "ERROR", "CLOSED"},
   ESTABLISHED    |-> {"CLOSING", "ERROR", "CLOSED"},
   CLOSING        |-> {"CLOSED", "ERROR"},
   CLOSED         |-> {"IDLE"},
   ERROR          |-> {"CLOSED", "IDLE"}]

\* States a connection leaves in the call that enters them.
Transient == {"AUTHENTICATED", "CLOSING"}

\* _transition_to(ERROR): from CLOSED and ERROR it raises out of
\* receive_bytes and changes nothing.
Failed(e) ==
  IF "ERROR" \in VALID_TRANSITIONS[state[e]]
    THEN [state EXCEPT ![e] = "ERROR"] ELSE state

ClientHello(key, cn) == [type |-> "ClientHello", key |-> key, cn |-> cn]
ServerHello(key, cn, sn, suite) ==
  [type |-> "ServerHello", key |-> key, cn |-> cn, sn |-> sn, suite |-> suite]
ClientAuth(key, cn, sn) ==
  [type |-> "ClientAuth", key |-> key, cn |-> cn, sn |-> sn]
Data(key, seq) == [type |-> "ApplicationData", key |-> key, seq |-> seq]
Alert(key, level, code) ==
  [type |-> "Alert", key |-> key, level |-> level, code |-> code]

\* The next frame of the stream verifies and has this type.
Takes(e, type) ==
  /\ wire[Peer(e)] # <<>>
  /\ Head(wire[Peer(e)]).key = hmac_key[e]
  /\ Head(wire[Peer(e)]).type = type

\* e processes the next frame and answers with these.
Exchanged(e, frames) ==
  [wire EXCEPT ![Peer(e)] = Tail(@), ![e] = @ \o frames]

\* A frame that the state of e has no use for: an event, and no change.
Ignore(e) ==
  /\ wire' = Exchanged(e, <<>>)
  /\ UNCHANGED <<config, calm, state, handshake, hmac_key, send_seq, recv_seq,
                 retry_count, nonces, resets, offered, completed, received>>

\* _handle_handshake_failure: a fatal alert under the current key.
FailHandshake(e, code) ==
  /\ wire' = Exchanged(e, <<Alert(hmac_key[e], "fatal", code)>>)
  /\ state' = [state EXCEPT ![e] = "ERROR"]
  /\ UNCHANGED <<config, calm, handshake, hmac_key, send_seq, recv_seq,
                 retry_count, nonces, resets, offered, completed, received>>

-----------------------------------------------------------------------------
(* Negotiation.                                                            *)

PqCapable(suites) == \E i \in DOMAIN suites : suites[i] \in PQ_SUITE_IDS

Common == ToSet(config[Client].suites) \cap ToSet(config[Server].suites)

\* The checks of process_client_hello, in their order; 0 when all pass.
AlertCode ==
  IF config[Client].version # config[Server].version THEN 70
  ELSE IF Common = {} THEN 71
  ELSE IF PqCapable(config[Server].suites) /\ ~PqCapable(config[Client].suites)
    THEN 72
  ELSE 0

SelectedSuite ==
  config[Server].suites[CHOOSE i \in DOMAIN config[Server].suites :
    /\ config[Server].suites[i] \in Common
    /\ \A j \in 1..(i - 1) : config[Server].suites[j] \notin Common]

\* The client's KEM key has the format of enable_hybrid, whatever it offers.
EncapsulationFits == uses_hybrid_kem(SelectedSuite) = config[Client].hybrid

-----------------------------------------------------------------------------
(* The handshake.                                                          *)

\* The shared secrets go with the nonces.
SessionKey(cn, sn) == <<cn, sn>>

CompleteHandshake(e, key) ==
  /\ hmac_key' = [hmac_key EXCEPT ![e] = key]
  /\ state' = [state EXCEPT ![e] = "ESTABLISHED"]
  /\ handshake' = [handshake EXCEPT ![e] = None]

InitiateHandshake ==
  /\ state[Client] = "IDLE"
  /\ handshake' = [handshake EXCEPT
                     ![Client] = [cn |-> nonces[Client] + 1, sn |-> 0]]
  /\ nonces' = [nonces EXCEPT ![Client] = @ + 1]
  /\ wire' = [wire EXCEPT ![Client] =
                Append(@, ClientHello(hmac_key[Client], nonces[Client] + 1))]
  /\ state' = [state EXCEPT ![Client] = "HELLO_SENT"]
  /\ UNCHANGED <<config, calm, hmac_key, send_seq, recv_seq, retry_count,
                 resets, offered, completed, received>>

HandleClientHello ==
  LET f == Head(wire[Client])
      sn == nonces[Server] + 1
  IN  /\ Takes(Server, "ClientHello")
      /\ state[Server] = "IDLE"
      /\ AlertCode = 0
      /\ EncapsulationFits
      /\ handshake' = [handshake EXCEPT ![Server] = [cn |-> f.cn, sn |-> sn]]
      /\ nonces' = [nonces EXCEPT ![Server] = @ + 1]
      /\ wire' = Exchanged(Server, <<ServerHello(hmac_key[Server], f.cn, sn,
                                                 SelectedSuite)>>)
      /\ state' = [state EXCEPT ![Server] = "HELLO_RECEIVED"]
      /\ offered' = offered \cup {<<f.cn, sn>>}
      /\ UNCHANGED <<config, calm, hmac_key, send_seq, recv_seq, retry_count,
                     resets, completed, received>>

RefuseClientHello ==
  /\ Takes(Server, "ClientHello")
  /\ IF state[Server] # "IDLE" THEN Ignore(Server)
     ELSE IF AlertCode # 0 THEN FailHandshake(Server, AlertCode)
     ELSE ~EncapsulationFits /\ FailHandshake(Server, 50)

\* Mutants: the session key is in force before ClientAuth is encoded; the
\* server's signature is not verified.
HandleServerHelloEarlyKey ==
  LET f == Head(wire[Server])
  IN  /\ Takes(Client, "ServerHello")
      /\ state[Client] = "HELLO_SENT"
      /\ f.cn = handshake[Client].cn
      /\ wire' = Exchanged(Client, <<ClientAuth(<<f.cn, f.sn>>, f.cn, f.sn)>>)
      /\ CompleteHandshake(Client, SessionKey(f.cn, f.sn))
      /\ completed' = completed \cup {<<f.cn, f.sn>>}
      /\ UNCHANGED <<config, calm, send_seq, recv_seq, retry_count, nonces,
                     resets, offered, received>>

HandleServerHelloUnverified ==
  LET f == Head(wire[Server])
      key == SessionKey(handshake[Client].cn, f.sn)
  IN  /\ Takes(Client, "ServerHello")
      /\ state[Client] = "HELLO_SENT"
      /\ wire' = Exchanged(Client,
                           <<ClientAuth(hmac_key[Client], key[1], key[2])>>)
      /\ CompleteHandshake(Client, key)
      /\ completed' = completed \cup {key}
      /\ UNCHANGED <<config, calm, send_seq, recv_seq, retry_count, nonces,
                     resets, offered, received>>

\* ClientAuth goes out under the initial key; then the client is ESTABLISHED,
\* through AUTHENTICATED, before the server has verified it.
HandleServerHello ==
  LET f == Head(wire[Server])
  IN  /\ Takes(Client, "ServerHello")
      /\ state[Client] = "HELLO_SENT"
      /\ f.cn = handshake[Client].cn
      /\ wire' = Exchanged(Client,
                           <<ClientAuth(hmac_key[Client], f.cn, f.sn)>>)
      /\ CompleteHandshake(Client, SessionKey(f.cn, f.sn))
      /\ completed' = completed \cup {<<f.cn, f.sn>>}
      /\ UNCHANGED <<config, calm, send_seq, recv_seq, retry_count, nonces,
                     resets, offered, received>>

\* A signature over another transcript: the hello it answers is an old one.
RefuseServerHello ==
  /\ Takes(Client, "ServerHello")
  /\ IF state[Client] # "HELLO_SENT" THEN Ignore(Client)
     ELSE /\ Head(wire[Server]).cn # handshake[Client].cn
          /\ FailHandshake(Client, 51)

HandleClientAuth ==
  LET f == Head(wire[Client])
  IN  /\ Takes(Server, "ClientAuth")
      /\ state[Server] = "HELLO_RECEIVED"
      /\ [cn |-> f.cn, sn |-> f.sn] = handshake[Server]
      /\ wire' = Exchanged(Server, <<>>)
      /\ CompleteHandshake(Server, SessionKey(f.cn, f.sn))
      /\ UNCHANGED <<config, calm, send_seq, recv_seq, retry_count, nonces,
                     resets, offered, completed, received>>

RefuseClientAuth ==
  /\ Takes(Server, "ClientAuth")
  /\ IF state[Server] # "HELLO_RECEIVED" THEN Ignore(Server)
     ELSE /\ [cn |-> Head(wire[Client]).cn, sn |-> Head(wire[Client]).sn]
                # handshake[Server]
          /\ FailHandshake(Server, 51)

-----------------------------------------------------------------------------
(* Application data, alerts, and what the application does.                *)

SendData(e) ==
  /\ state[e] = "ESTABLISHED"
  /\ send_seq[e] < MaxData
  /\ send_seq' = [send_seq EXCEPT ![e] = @ + 1]
  /\ wire' = [wire EXCEPT ![e] = Append(@, Data(hmac_key[e], send_seq[e]))]
  /\ UNCHANGED <<config, calm, state, handshake, hmac_key, recv_seq,
                 retry_count, nonces, resets, offered, completed, received>>

Replay(e, seq) == seq < recv_seq[e]

HandleData(e) ==
  LET seq == Head(wire[Peer(e)]).seq
  IN  /\ Takes(e, "ApplicationData")
      /\ state[e] = "ESTABLISHED"
      /\ ~Replay(e, seq)
      /\ recv_seq' = [recv_seq EXCEPT ![e] = seq + 1]
      /\ received' = [received EXCEPT ![e] = Append(@, seq)]
      /\ wire' = Exchanged(e, <<>>)
      /\ UNCHANGED <<config, calm, state, handshake, hmac_key, send_seq,
                     retry_count, nonces, resets, offered, completed>>

\* Not ESTABLISHED, or a replay.
RefuseData(e) ==
  /\ Takes(e, "ApplicationData")
  /\ state[e] = "ESTABLISHED" => Replay(e, Head(wire[Peer(e)]).seq)
  /\ Ignore(e)

\* A close_notify is an event for the application and no change of state.
HandleAlert(e) ==
  /\ Takes(e, "Alert")
  /\ state' = IF Head(wire[Peer(e)]).level = "fatal" THEN Failed(e) ELSE state
  /\ wire' = Exchanged(e, <<>>)
  /\ UNCHANGED <<config, calm, handshake, hmac_key, send_seq, recv_seq,
                 retry_count, nonces, resets, offered, completed, received>>

\* FramingError: the frame is under another key than the endpoint's.
RejectFrame(e) ==
  /\ wire[Peer(e)] # <<>>
  /\ Head(wire[Peer(e)]).key # hmac_key[e]
  /\ state' = Failed(e)
  /\ wire' = Exchanged(e, <<>>)
  /\ UNCHANGED <<config, calm, handshake, hmac_key, send_seq, recv_seq,
                 retry_count, nonces, resets, offered, completed, received>>

\* From IDLE, HELLO_SENT and HELLO_RECEIVED the close is forced.
Close(e) ==
  /\ ~calm
  /\ state[e] \notin {"CLOSED", "ERROR"}
  /\ wire' = [wire EXCEPT ![e] = Append(@, Alert(hmac_key[e], "warning", 0))]
  /\ state' = [state EXCEPT ![e] = "CLOSED"]
  /\ UNCHANGED <<config, calm, handshake, hmac_key, send_seq, recv_seq,
                 retry_count, nonces, resets, offered, completed, received>>

\* The state is not looked at, and a retry sends nothing again.
HandleTimeout(e) ==
  /\ ~calm
  /\ IF retry_count[e] < max_retries
       THEN /\ retry_count' = [retry_count EXCEPT ![e] = @ + 1]
            /\ UNCHANGED state
       ELSE /\ state' = [state EXCEPT ![e] = "ERROR"]
            /\ UNCHANGED retry_count
  /\ UNCHANGED <<config, calm, handshake, hmac_key, send_seq, recv_seq, wire,
                 nonces, resets, offered, completed, received>>

\* Mutant: the receive counter survives.
ResetKeepsSeq(e) ==
  /\ ~calm
  /\ resets[e] < MaxResets
  /\ resets' = [resets EXCEPT ![e] = @ + 1]
  /\ state' = [state EXCEPT ![e] = "IDLE"]
  /\ handshake' = [handshake EXCEPT ![e] = None]
  /\ hmac_key' = [hmac_key EXCEPT ![e] = InitialKey]
  /\ send_seq' = [send_seq EXCEPT ![e] = 0]
  /\ retry_count' = [retry_count EXCEPT ![e] = 0]
  /\ received' = [received EXCEPT ![e] = <<>>]
  /\ \E k \in 0..Len(wire[e]), n \in 0..Len(wire[Peer(e)]) :
       /\ n > 0 => state[e] \in {"ERROR", "CLOSED"}
       /\ wire' = [wire EXCEPT ![e] = SubSeq(@, 1, k),
                               ![Peer(e)] = SubSeq(@, n + 1, Len(@))]
  /\ UNCHANGED <<config, calm, recv_seq, nonces, offered, completed>>

\* What reset() clears with its buffers: frames of e that are not sent yet
\* and, after an error, frames of the peer that were left in the receive
\* buffer.
Reset(e) ==
  /\ ~calm
  /\ resets[e] < MaxResets
  /\ resets' = [resets EXCEPT ![e] = @ + 1]
  /\ state' = [state EXCEPT ![e] = "IDLE"]
  /\ handshake' = [handshake EXCEPT ![e] = None]
  /\ hmac_key' = [hmac_key EXCEPT ![e] = InitialKey]
  /\ send_seq' = [send_seq EXCEPT ![e] = 0]
  /\ recv_seq' = [recv_seq EXCEPT ![e] = 0]
  /\ retry_count' = [retry_count EXCEPT ![e] = 0]
  /\ received' = [received EXCEPT ![e] = <<>>]
  /\ \E k \in 0..Len(wire[e]), n \in 0..Len(wire[Peer(e)]) :
       /\ n > 0 => state[e] \in {"ERROR", "CLOSED"}
       /\ wire' = [wire EXCEPT ![e] = SubSeq(@, 1, k),
                               ![Peer(e)] = SubSeq(@, n + 1, Len(@))]
  /\ UNCHANGED <<config, calm, nonces, offered, completed>>

-----------------------------------------------------------------------------
Receive(e) ==
  \/ HandleData(e) \/ RefuseData(e) \/ HandleAlert(e) \/ RejectFrame(e)
  \/ /\ e = Server
     /\ \/ HandleClientHello \/ RefuseClientHello
        \/ HandleClientAuth \/ RefuseClientAuth
  \/ e = Client /\ (HandleServerHello \/ RefuseServerHello)

Next ==
  \/ InitiateHandshake
  \/ \E e \in Ends :
       \/ Receive(e)
       \/ SendData(e) \/ Close(e) \/ HandleTimeout(e) \/ Reset(e)

Spec == Init /\ [][Next]_vars

InHandshake(e) == state[e] \in {"HELLO_SENT", "HELLO_RECEIVED"}

\* The stream delivers; an application that waits for its handshake reports
\* the timeouts.
Fairness ==
  \A e \in Ends :
    /\ WF_vars(Receive(e))
    /\ WF_vars(InHandshake(e) /\ HandleTimeout(e))

FairSpec == Spec /\ Fairness

-----------------------------------------------------------------------------
Nonces == 0..(MaxResets + 1)
Keys == Nonces \X Nonces

TypeOK ==
  /\ config \in [Ends -> Configs]
  /\ calm \in BOOLEAN
  /\ state \in [Ends -> (DOMAIN VALID_TRANSITIONS \ Transient)]
  /\ handshake \in [Ends -> [cn : Nonces, sn : Nonces] \cup {None}]
  /\ hmac_key \in [Ends -> Keys]
  /\ send_seq \in [Ends -> 0..MaxData]
  /\ recv_seq \in [Ends -> 0..MaxData]
  /\ retry_count \in [Ends -> 0..max_retries]
  /\ nonces \in [Ends -> Nonces]
  /\ resets \in [Ends -> 0..MaxResets]
  /\ offered \subseteq Keys
  /\ completed \subseteq Keys
  /\ received \in [Ends -> Seq(0..MaxData)]

\* Both ends of a session agree on its key, whatever frames of an earlier
\* handshake a reset left on the way: the server answered the very hello the
\* client sent, and the client completed the very answer the server gave.
KeysAgreed ==
  /\ state[Client] = "ESTABLISHED" => hmac_key[Client] \in offered
  /\ state[Server] = "ESTABLISHED" => hmac_key[Server] \in completed

\* The messages of a session arrive without gap, repetition or reordering,
\* from its first one on.
DataInOrder ==
  \A e \in Ends : \A i \in 1..Len(received[e]) : received[e][i] = i - 1

\* A server that knows a post-quantum suite agrees with no client that knows
\* none, and what is agreed is a suite of both.
NoDowngrade ==
  offered # {} =>
    /\ config[Client].version = config[Server].version
    /\ PqCapable(config[Server].suites) => PqCapable(config[Client].suites)
    /\ SelectedSuite \in Common

\* A session rests on one run of the handshake, and on the strongest terms
\* both ends know.
SessionAgreed == TypeOK /\ KeysAgreed /\ NoDowngrade

\* No handshake goes on for ever.
NoEndlessHandshake ==
  \A e \in Ends : InHandshake(e) ~> ~InHandshake(e)

\* If nobody reports a timeout, closes or resets, a handshake ends with a session
\* at both ends, or with the error known at both.
HandshakeDecided ==
  (calm /\ state[Client] = "HELLO_SENT") ~>
    \/ /\ state[Client] = "ESTABLISHED" /\ state[Server] = "ESTABLISHED"
       /\ hmac_key[Client] = hmac_key[Server]
    \/ state[Client] = "ERROR" /\ state[Server] = "ERROR"

\* A handshake ends at both ends: with timeouts, closes and resets sooner or
\* later, and without them in one decision.
HandshakeEnds == NoEndlessHandshake /\ HandshakeDecided

=============================================================================
