---------------------------- MODULE PaymentChannel ----------------------------
(***************************************************************************)
(* Two PaymentChannel objects (src/src/qasp/protocol/settlement.py), the   *)
(* agent's and the server's, and the messages between them in the order    *)
(* they were sent, as the protocol's connection delivers them.             *)
(*                                                                         *)
(* The methods are calls an application makes: any call may come at any    *)
(* time the code accepts it.  The end that pays makes the proposal.  A     *)
(* signature is not modelled: the objects verify none, and both ends are   *)
(* honest.  A hash is modelled by the number of the update it is of.       *)
(***************************************************************************)
EXTENDS Integers, Sequences

CONSTANTS
  AgentDeposit,
  ServerDeposit,
  Costs,        \* what a payment may be
  Awards,       \* what an auditor may award
  Receipts,     \* the hash of a receipt chain
  MaxUpdates,   \* bound: updates that are created
  MaxFlight     \* bound: messages in a direction

ASSUME ChannelAssumption ==
  /\ AgentDeposit \in Nat
  /\ ServerDeposit \in Nat
  /\ Costs \subseteq Nat
  /\ Awards \subseteq Nat
  /\ Receipts \notin Nat
  /\ MaxUpdates \in Nat
  /\ MaxFlight \in Nat

Agent == "agent"
Server == "server"
Ends == {Agent, Server}
Peer(e) == IF e = Agent THEN Server ELSE Agent

Balances == [agent : Nat, server : Nat]

NoBalance == [agent |-> 0, server |-> 0]

VARIABLES
  patient,     \* in this behaviour an end awaits the answer to its proposal
  opened,      \* create_channel_open was called
  state,
  balance,     \* _agent_balance and _server_balance of each end
  sequence,
  states,      \* _states
  in_window,   \* the time is before _challenge_deadline
  wire,        \* messages an end sent that its peer has not processed
  created      \* updates created so far

vars == <<patient, opened, state, balance, sequence, states, in_window, wire,
          created>>

Init ==
  /\ patient \in BOOLEAN
  /\ opened = FALSE
  /\ state = [e \in Ends |-> "OPENING"]
  /\ balance = [e \in Ends |-> NoBalance]
  /\ sequence = [e \in Ends |-> 0]
  /\ states = [e \in Ends |-> <<>>]
  /\ in_window = [e \in Ends |-> FALSE]
  /\ wire = [e \in Ends |-> <<>>]
  /\ created = 0

-----------------------------------------------------------------------------
(* Opening.                                                                *)

Receives(e, type) ==
  /\ wire[Peer(e)] # <<>>
  /\ Head(wire[Peer(e)]).type = type

Received(e) == Head(wire[Peer(e)])

Dropped(e) == [wire EXCEPT ![Peer(e)] = Tail(@)]

Answered(e, m) == [Dropped(e) EXCEPT ![e] = Append(@, m)]

Sent(e, m) == [wire EXCEPT ![e] = Append(@, m)]

\* An application opens a channel once.
CreateChannelOpen ==
  /\ state[Agent] = "OPENING"
  /\ ~opened
  /\ opened' = TRUE
  /\ balance' = [balance EXCEPT ![Agent].agent = AgentDeposit]
  /\ wire' = Sent(Agent, [type |-> "open", amount |-> AgentDeposit])
  /\ UNCHANGED <<patient, state, sequence, states, in_window, created>>

ProcessChannelOpen ==
  /\ Receives(Server, "open")
  /\ balance' = [balance EXCEPT ![Server] =
                   [agent |-> Received(Server).amount,
                    server |-> ServerDeposit]]
  /\ state' = [state EXCEPT ![Server] = "OPEN"]
  /\ wire' = Answered(Server, [type |-> "opened", amount |-> ServerDeposit])
  /\ UNCHANGED <<patient, opened, sequence, states, in_window, created>>

AcceptChannel ==
  /\ Receives(Agent, "opened")
  /\ balance' = [balance EXCEPT ![Agent].server = Received(Agent).amount]
  /\ state' = [state EXCEPT ![Agent] = "OPEN"]
  /\ wire' = Dropped(Agent)
  /\ UNCHANGED <<patient, opened, sequence, states, in_window, created>>

-----------------------------------------------------------------------------
(* State updates.                                                          *)

LastHash(e) == IF states[e] = <<>> THEN 0 ELSE states[e][Len(states[e])].id

Paid(e, cost) ==
  IF e = Agent
    THEN [agent |-> balance[e].agent - cost,
          server |-> balance[e].server + cost]
    ELSE [agent |-> balance[e].agent + cost,
          server |-> balance[e].server - cost]

\* Neither a proposal of e nor the answer to one is on its way.
Quiet(e) ==
  /\ \A i \in 1..Len(wire[e]) : wire[e][i].type # "proposal"
  /\ \A i \in 1..Len(wire[Peer(e)]) : wire[Peer(e)][i].type # "signed"

\* create_state_update raises the sequence number and leaves the balances for
\* apply_state_update.  prev is the hash of the receipt chain if
\* link_to_receipt_chain was called since the last update.
CreateStateUpdate(e, cost, prev) ==
  /\ state[e] = "OPEN"
  /\ patient => Quiet(e)
  /\ created < MaxUpdates
  /\ Len(wire[e]) < MaxFlight
  /\ Paid(e, cost).agent >= 0
  /\ Paid(e, cost).server >= 0
  /\ prev \in {LastHash(e), Receipts}
  /\ created' = created + 1
  /\ sequence' = [sequence EXCEPT ![e] = @ + 1]
  /\ wire' = Sent(e, [type |-> "proposal",
                      update |-> [id |-> created + 1,
                                  seq |-> sequence[e] + 1,
                                  balance |-> Paid(e, cost),
                                  prev |-> prev,
                                  award |-> FALSE]])
  /\ UNCHANGED <<patient, opened, state, balance, states, in_window>>

Adopt(e, u) ==
  /\ sequence' = [sequence EXCEPT ![e] = u.seq]
  /\ balance' = [balance EXCEPT ![e] = u.balance]
  /\ states' = [states EXCEPT ![e] = Append(@, u)]

\* Mutant: the balance of the end itself is all it takes from the update.
CountersignOwnBalance(e) ==
  LET u == Received(e).update
  IN  /\ Receives(e, "proposal")
      /\ u.seq = sequence[e] + 1
      /\ sequence' = [sequence EXCEPT ![e] = u.seq]
      /\ balance' = [balance EXCEPT ![e][e] = u.balance[e]]
      /\ states' = [states EXCEPT ![e] = Append(@, u)]
      /\ wire' = Answered(e, [type |-> "signed", update |-> u])
      /\ UNCHANGED <<patient, opened, state, in_window, created>>

\* countersign_state_update does not look at the state of the channel.
CountersignStateUpdate(e) ==
  /\ Receives(e, "proposal")
  /\ Received(e).update.seq = sequence[e] + 1
  /\ Adopt(e, Received(e).update)
  /\ wire' = Answered(e, [type |-> "signed", update |-> Received(e).update])
  /\ UNCHANGED <<patient, opened, state, in_window, created>>

RefuseStateUpdate(e) ==
  /\ Receives(e, "proposal")
  /\ Received(e).update.seq # sequence[e] + 1
  /\ wire' = Dropped(e)
  /\ UNCHANGED <<patient, opened, state, balance, sequence, states, in_window,
                 created>>

\* Mutant: only updates that are newer than the sequence number are applied.
ApplyNewerStateUpdate(e) ==
  /\ Receives(e, "signed")
  /\ IF Received(e).update.seq > sequence[e]
       THEN Adopt(e, Received(e).update)
       ELSE UNCHANGED <<sequence, balance, states>>
  /\ wire' = Dropped(e)
  /\ UNCHANGED <<patient, opened, state, in_window, created>>

ApplyStateUpdate(e) ==
  /\ Receives(e, "signed")
  /\ Adopt(e, Received(e).update)
  /\ wire' = Dropped(e)
  /\ UNCHANGED <<patient, opened, state, in_window, created>>

-----------------------------------------------------------------------------
(* Closing.  None of these methods looks at the state of the channel; an   *)
(* application calls them for a channel that was opened.                   *)

CreateChannelClose(e) ==
  /\ state[e] # "OPENING"
  /\ Len(wire[e]) < MaxFlight
  /\ wire' = Sent(e, [type |-> "close", final |-> balance[e]])
  /\ UNCHANGED <<patient, opened, state, balance, sequence, states, in_window,
                 created>>

\* The balances of the message are settled.  The signed close goes back to the
\* peer, whose object has no use for it.
CountersignClose(e) ==
  /\ Receives(e, "close")
  /\ state' = [state EXCEPT ![e] = "CLOSED"]
  /\ wire' = Dropped(e)
  /\ UNCHANGED <<patient, opened, balance, sequence, states, in_window,
                 created>>

\* The message announces the balances; PaymentChannel has no method that
\* processes it, and challenge is called on the object that closes.
CreateUnilateralClose(e) ==
  /\ state[e] # "OPENING"
  /\ state' = [state EXCEPT ![e] = "CLOSING"]
  /\ in_window' = [in_window EXCEPT ![e] = TRUE]
  /\ UNCHANGED <<patient, opened, balance, sequence, states, wire, created>>

\* CHALLENGE_PERIOD_SECONDS have passed.
WindowEnds(e) ==
  /\ in_window[e]
  /\ in_window' = [in_window EXCEPT ![e] = FALSE]
  /\ UNCHANGED <<patient, opened, state, balance, sequence, states, wire,
                 created>>

FinalizeClose(e) ==
  /\ state[e] # "OPENING"
  /\ ~in_window[e]
  /\ state' = [state EXCEPT ![e] = "CLOSED"]
  /\ UNCHANGED <<patient, opened, balance, sequence, states, in_window, wire,
                 created>>

\* The updates the peer of e holds: those both signed, and its proposals.
Evidence(e) ==
  LET p == Peer(e)
  IN  {states[p][i] : i \in 1..Len(states[p])} \cup
      {wire[p][i].update :
         i \in {j \in 1..Len(wire[p]) : wire[p][j].type = "proposal"}}

Challenge(e, u) ==
  /\ in_window[e]
  /\ u.seq > sequence[e]
  /\ state' = [state EXCEPT ![e] = "DISPUTED"]
  /\ sequence' = [sequence EXCEPT ![e] = u.seq]
  /\ balance' = [balance EXCEPT ![e] = u.balance]
  /\ UNCHANGED <<patient, opened, states, in_window, wire, created>>

\* Mutant: the award is not limited by what the server has.
AwardedUnclamped(b, award) ==
  [agent |-> b.agent + award, server |-> b.server - award]

Awarded(b, award) ==
  IF b.server - award < 0
    THEN [agent |-> b.agent + b.server, server |-> 0]
    ELSE [agent |-> b.agent + award, server |-> b.server - award]

\* The update a verdict makes is returned to the caller, and no code of the
\* repository sends it to the peer.
ApplyVerdict(e, award) ==
  LET b == Awarded(balance[e], award)
  IN  /\ state[e] = "DISPUTED"
      /\ created < MaxUpdates
      /\ created' = created + 1
      /\ state' = [state EXCEPT ![e] = "OPEN"]
      /\ Adopt(e, [id |-> created + 1, seq |-> sequence[e] + 1, balance |-> b,
                   prev |-> LastHash(e), award |-> TRUE])
      /\ UNCHANGED <<patient, opened, in_window, wire>>

-----------------------------------------------------------------------------
Next ==
  \/ CreateChannelOpen \/ ProcessChannelOpen \/ AcceptChannel
  \/ \E e \in Ends :
       \/ \E cost \in Costs, prev \in 0..MaxUpdates \cup {Receipts} :
            CreateStateUpdate(e, cost, prev)
       \/ CountersignStateUpdate(e) \/ RefuseStateUpdate(e)
       \/ ApplyStateUpdate(e)
       \/ CreateChannelClose(e) \/ CountersignClose(e)
       \/ CreateUnilateralClose(e) \/ WindowEnds(e) \/ FinalizeClose(e)
       \/ \E u \in Evidence(e) : Challenge(e, u)
       \/ \E award \in Awards : ApplyVerdict(e, award)

Spec == Init /\ [][Next]_vars

-----------------------------------------------------------------------------
Update ==
  [id : Nat, seq : Nat, balance : Balances, prev : Nat \cup {Receipts},
   award : BOOLEAN]

Message ==
  [type : {"open", "opened"}, amount : Nat]
    \cup [type : {"proposal", "signed"}, update : Update]
    \cup [type : {"close"}, final : Balances]

ChannelStates == {"OPENING", "OPEN", "CLOSING", "CLOSED", "DISPUTED"}

\* The types; in particular nobody pays, nor is awarded, what is not there.
TypeOK ==
  /\ patient \in BOOLEAN
  /\ opened \in BOOLEAN
  /\ state \in [Ends -> ChannelStates]
  /\ balance \in [Ends -> Balances]
  /\ sequence \in [Ends -> Nat]
  /\ states \in [Ends -> Seq(Update)]
  /\ in_window \in [Ends -> BOOLEAN]
  /\ wire \in [Ends -> Seq(Message)]
  /\ created \in Nat

Total(b) == b.agent + b.server

Deposit == AgentDeposit + ServerDeposit

\* The two balances of a channel that was opened, which finalize_close
\* settles, and those of a close on its way are the two deposits, whatever
\* payments, closes, challenges and verdicts cross.
DepositConserved ==
  \A e \in Ends :
    /\ state[e] # "OPENING" => Total(balance[e]) = Deposit
    /\ \A i \in 1..Len(wire[e]) :
         wire[e][i].type = "close" => Total(wire[e][i].final) = Deposit

AwardFree ==
  \A e \in Ends : \A i \in 1..Len(states[e]) : ~states[e][i].award

\* Ends that do not wait may part with different ledgers: apply_state_update
\* takes the sequence number back to that of the update, and the numbers in
\* between are given a second time.
Promised == patient /\ AwardFree

Longer == IF Len(states[Server]) > Len(states[Agent]) THEN Server ELSE Agent

Shared == INSTANCE SharedLedger WITH
  Start <- [agent |-> AgentDeposit, server |-> ServerDeposit],
  kept <- Promised,
  book <- IF Promised THEN states[Longer] ELSE <<>>,
  known <- [e \in Ends |-> IF Promised THEN Len(states[e]) ELSE 0],
  purse <- [e \in {f \in Ends : Promised /\ state[f] = "OPEN"} |-> balance[e]],
  idle <- Promised /\ wire[Agent] = <<>> /\ wire[Server] = <<>>

\* The channel of two ends that await the answers to their proposals, with
\* whatever closes and challenges intervene, implements one book: no payment is
\* lost, made twice or made out of balances the other end does not know, until
\* a verdict intervenes.
ImplementsLedger == Shared!Spec

-----------------------------------------------------------------------------
(* What the documentation says.                                            *)

\* Technical Reference: the counterparty "may submit a newer state (higher
\* sequence) during the challenge window".  An update both signed that is
\* newer than every one the closing end adopted is accepted as a challenge.
NewerStateChallenges ==
  \A e \in Ends : \A i \in 1..Len(states[Peer(e)]) :
    /\ state[e] = "CLOSING" /\ in_window[e]
    /\ \A j \in 1..Len(states[e]) :
         states[e][j].seq < states[Peer(e)][i].seq
    => states[Peer(e)][i].seq > sequence[e]
=============================================================================
