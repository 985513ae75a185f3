---------------------------- MODULE RelayProofs ----------------------------
(***************************************************************************)
(* Theorems about Relay, for every set of agents, every number of sessions *)
(* and every budget: its types and tables, budgets, capacity, who settles  *)
(* a debit, the receipt chain and the escrow it implements.                *)
(***************************************************************************)
EXTENDS Relay, FiniteSetTheorems, Sums, TLAPS

-----------------------------------------------------------------------------
(* What the helpers return.                                                *)

\* A teardown keeps the types of the four tables it touches.
LEMMA TeardownTypes ==
  ASSUME TypeOK, NEW sid \in SessionIds, Teardown(sid)
  PROVE  /\ sess' \in [SessionIds -> Session]
         /\ sessions' \subseteq SessionIds
         /\ sessions_by_agent' \in [Agents -> SUBSET SessionIds]
         /\ delivery_tasks' \subseteq SessionIds \X SeqNos
<1>1. CASE sid \in sessions
  <2>. DEFINE r == sess[sid]
  <2>1. r \in Session
    BY DEF TypeOK
  <2>. HIDE DEF r
  <2>a. [r EXCEPT !.state = "CLOSING"] \in Session
    BY <2>1 DEF Session
  <2>2. sess' = [sess EXCEPT ![sid] = [r EXCEPT !.state = "CLOSING"]]
    BY <1>1 DEF Teardown, r
  <2>3. sess' \in [SessionIds -> Session]
    BY <2>a, <2>2 DEF TypeOK
  <2>4. sessions_by_agent' \in [Agents -> SUBSET SessionIds]
    BY <1>1 DEF Teardown, TypeOK
  <2>. QED  BY <1>1, <2>3, <2>4 DEF Teardown, TypeOK
<1>2. CASE sid \notin sessions
  BY <1>2 DEF Teardown, TypeOK
<1>. QED  BY <1>1, <1>2

\* A new session is a session.
LEMMA NewSessionType ==
  ASSUME NEW a \in Agents, NEW b \in Agents, NEW p \in Params
  PROVE  NewSession(a, b, p) \in Session
BY ParamsAssumption, BoundsAssumption DEF NewSession, Session

\* The tables of debits and sessions, with one entry replaced.
LEMMA DebitUpdate ==
  ASSUME NEW D \in [SessionIds -> [SeqNos -> Debit]],
         NEW sid \in SessionIds, NEW s \in SeqNos, NEW d \in Debit
  PROVE  [D EXCEPT ![sid][s] = d] \in [SessionIds -> [SeqNos -> Debit]]
<1>1. [D[sid] EXCEPT ![s] = d] \in [SeqNos -> Debit]
  OBVIOUS
<1>. QED  BY <1>1

\* The status of one debit is replaced.
LEMMA DebitSettled ==
  ASSUME NEW d \in Debit, NEW st \in DebitStates
  PROVE  [d EXCEPT !.st = st] \in Debit
BY DEF Debit

\* Serving an acknowledgement keeps the type of debit.
LEMMA ConfirmedType ==
  ASSUME TypeOK, NEW sid \in SessionIds, NEW ack \in SeqNos \cup {NoAck}
  PROVE  Confirmed(sid, ack) \in [SessionIds -> [SeqNos -> Debit]]
<1>1. CASE ack # NoAck /\ debit[sid][ack].st = "pending"
  <2>. DEFINE d == [debit[sid][ack] EXCEPT !.st = "confirmed"]
  <2>1. ack \in SeqNos /\ debit[sid][ack] \in Debit
    BY <1>1 DEF TypeOK
  <2>2. d \in Debit
    BY <2>1, DebitSettled DEF DebitStates
  <2>3. Confirmed(sid, ack) = [debit EXCEPT ![sid][ack] = d]
    BY <1>1 DEF Confirmed
  <2>. HIDE DEF d
  <2>. QED  BY <2>1, <2>2, <2>3, DebitUpdate DEF TypeOK
<1>2. CASE ~(ack # NoAck /\ debit[sid][ack].st = "pending")
  BY <1>2 DEF Confirmed, TypeOK
<1>. QED  BY <1>1, <1>2

\* consume: the budgets of an affordable message stay natural numbers.
LEMMA ConsumeTypes ==
  ASSUME TypeOK, NEW sid \in SessionIds, NEW len \in PayloadLens,
         Affordable(sid, len), sess[sid].next_seq \in SeqNos
  PROVE  Consume(sid, len) \in [SessionIds -> Session]
<1>. DEFINE r == sess[sid]
            m == Debited(r.msg_remaining, 1)
            b == Debited(r.bytes_remaining, len)
            n == r.next_seq + 1
<1>1. r \in Session
  BY DEF TypeOK
<1>2. /\ n \in 1..(MaxSeq + 1)
      /\ m \in Nat \cup {NoLimit}
      /\ b \in Nat \cup {NoLimit}
  BY <1>1, ParamsAssumption, BoundsAssumption
     DEF Session, Affordable, Debited, SeqNos
<1>3. Consume(sid, len) =
        [sess EXCEPT ![sid] = [r EXCEPT !.next_seq = n, !.msg_remaining = m,
                                        !.bytes_remaining = b]]
  BY DEF Consume
<1>. HIDE DEF r, m, b, n
<1>4. [r EXCEPT !.next_seq = n, !.msg_remaining = m, !.bytes_remaining = b]
        \in Session
  BY <1>1, <1>2 DEF Session
<1>. QED  BY <1>3, <1>4 DEF TypeOK

\* A rollback keeps the types of the session and of its debits.
LEMMA RollbackTypes ==
  ASSUME TypeOK, NEW sid \in SessionIds, NEW s \in SeqNos,
         RollbackPending(sid, s)
  PROVE  /\ sess' \in [SessionIds -> Session]
         /\ debit' \in [SessionIds -> [SeqNos -> Debit]]
<1>1. CASE debit[sid][s].st = "pending"
  <2>. DEFINE r == sess[sid]
              m == Credited(r.msg_remaining, 1)
              b == Credited(r.bytes_remaining, debit[sid][s].len)
              d == [debit[sid][s] EXCEPT !.st = "refunded"]
  <2>1. r \in Session /\ debit[sid][s] \in Debit
    BY DEF TypeOK
  <2>2. m \in Nat \cup {NoLimit} /\ b \in Nat \cup {NoLimit}
    BY <2>1, ParamsAssumption DEF Session, Debit, Credited
  <2>3. d \in Debit
    BY <2>1, DebitSettled DEF DebitStates
  <2>4. /\ sess' = [sess EXCEPT ![sid] = [r EXCEPT !.msg_remaining = m,
                                                   !.bytes_remaining = b]]
        /\ debit' = [debit EXCEPT ![sid][s] = d]
    BY <1>1 DEF RollbackPending
  <2>. HIDE DEF r, m, b, d
  <2>5. [r EXCEPT !.msg_remaining = m, !.bytes_remaining = b] \in Session
    BY <2>1, <2>2 DEF Session
  <2>. QED  BY <2>3, <2>4, <2>5, DebitUpdate DEF TypeOK
<1>2. CASE debit[sid][s].st # "pending"
  BY <1>2 DEF RollbackPending, TypeOK
<1>. QED  BY <1>1, <1>2

\* The last receipt of a chain names a message, or there is none.
LEMMA TipType ==
  ASSUME TypeOK, NEW sid \in SessionIds
  PROVE  Tip(sid) \in SeqNos \cup {0}
<1>1. chain[sid] \in Seq(ReceiptType)
  BY DEF TypeOK
<1>2. chain[sid] # <<>> => chain[sid][Len(chain[sid])] \in ReceiptType
  BY <1>1
<1>. QED  BY <1>2 DEF Tip, ReceiptType

-----------------------------------------------------------------------------
(* Type correctness.  A receipt subtracts what remains of a budget from    *)
(* what was granted, so that the one is None exactly when the other is     *)
(* belongs to the induction.                                               *)

LimitsAgree ==
  \A sid \in SessionIds :
    /\ sess[sid].msg_remaining = NoLimit
         <=> sess[sid].params.max_messages = NoLimit
    /\ sess[sid].bytes_remaining = NoLimit
         <=> sess[sid].params.max_bytes = NoLimit

TypeInv == TypeOK /\ LimitsAgree

\* Each action keeps the types.
LEMMA TypeStep ==
  ASSUME TypeInv, [Next]_vars
  PROVE  TypeOK'
<1>. USE DEF TypeInv
<1>1. ASSUME NEW a \in Agents, Network(a)
      PROVE  TypeOK'
  <2>1. CASE Connect(a) \/ ConnectionLost(a) \/ LoopEnds(a)
    BY <2>1 DEF TypeOK, Connect, ConnectionLost, LoopEnds
  <2>2. CASE Deprovision(a) \/ DeprovisionSessions(a) \/ Unregister(a)
    BY <2>2 DEF TypeOK, Deprovision, DeprovisionSessions, Unregister,
                RemovalStages
  <2>. QED  BY <1>1, <2>1, <2>2 DEF Network
<1>2. ASSUME NEW a \in Agents, NEW b \in Agents, NEW sid \in SessionIds,
             NEW p \in Params, HandleRequest(a, b, sid, p)
      PROVE  TypeOK'
  BY <1>2, NewSessionType DEF HandleRequest, TypeOK
<1>3. ASSUME NEW b \in Agents, NEW sid \in SessionIds, AcceptSession(b, sid)
      PROVE  TypeOK'
  <2>. DEFINE r == sess[sid]
  <2>1. r \in Session
    BY DEF TypeOK
  <2>2. sess' = [sess EXCEPT ![sid] = [r EXCEPT !.state = "ACTIVE"]]
    BY <1>3 DEF AcceptSession
  <2>. HIDE DEF r
  <2>3. [r EXCEPT !.state = "ACTIVE"] \in Session
    BY <2>1 DEF Session
  <2>4. sess' \in [SessionIds -> Session]
    BY <2>2, <2>3 DEF TypeOK
  <2>5. sessions_by_agent' \in [Agents -> SUBSET SessionIds]
    BY <1>3 DEF AcceptSession, TypeOK
  <2>. QED  BY <1>3, <2>4, <2>5 DEF AcceptSession, TypeOK
<1>4. ASSUME NEW b \in Agents, NEW sid \in SessionIds, RefuseSession(b, sid)
      PROVE  TypeOK'
  BY <1>4 DEF RefuseSession, TypeOK
<1>5. ASSUME NEW a \in Agents, NEW sid \in SessionIds,
             HandleClose(a, sid) \/ CloseNext(a, sid)
      PROVE  TypeOK'
  <2>1. Teardown(sid)
    BY <1>5 DEF HandleClose, CloseNext
  <2>2. closing' \in [Agents -> SUBSET SessionIds]
    BY <1>5 DEF HandleClose, CloseNext, TypeOK
  <2>. QED  BY <1>5, <2>1, <2>2, TeardownTypes
            DEF HandleClose, CloseNext, TypeOK
<1>6. ASSUME NEW a \in Agents, NEW sid \in SessionIds,
             NEW ack \in SeqNos \cup {NoAck}, DropData(a, sid, ack)
      PROVE  TypeOK'
  BY <1>6, ConfirmedType DEF DropData, TypeOK
<1>7. ASSUME NEW a \in Agents, NEW sid \in SessionIds,
             NEW ack \in SeqNos \cup {NoAck}, NEW len \in PayloadLens,
             RejectData(a, sid, ack, len)
      PROVE  TypeOK'
  BY <1>7, TeardownTypes, ConfirmedType DEF RejectData, TypeOK
<1>8. ASSUME NEW a \in Agents, NEW sid \in SessionIds,
             NEW ack \in SeqNos \cup {NoAck}, NEW len \in PayloadLens,
             ForwardData(a, sid, ack, len)
      PROVE  TypeOK'
  <2>. DEFINE s == sess[sid].next_seq
              to == Peer(sid, a)
              d == [st |-> "pending", to |-> to, len |-> len]
              f == [sid |-> sid, seq |-> s, sender |-> a]
  <2>1. sess[sid] \in Session /\ s \in SeqNos
    BY <1>8 DEF ForwardData, TypeOK
  <2>2. to \in Agents \cup {NoAgent}
    BY <2>1 DEF Peer, Session
  <2>3. d \in Debit
    BY <2>2, BoundsAssumption DEF Debit, DebitStates
  <2>4. f \in Handler
    BY <2>1 DEF Handler
  <2>5. /\ debit' = [Confirmed(sid, ack) EXCEPT ![sid][s] = d]
        /\ inflight' = inflight \cup {f}
        /\ sess' \in [SessionIds -> Session]
    BY <1>8, <2>1, ConsumeTypes DEF ForwardData
  <2>. HIDE DEF s, to, d, f
  <2>6. debit' \in [SessionIds -> [SeqNos -> Debit]]
    BY <2>1, <2>3, <2>5, ConfirmedType, DebitUpdate
  <2>. QED  BY <1>8, <2>4, <2>5, <2>6 DEF ForwardData, TypeOK
<1>9. ASSUME NEW a \in Agents, NEW sid \in SessionIds,
             NEW ack \in SeqNos \cup {NoAck}, NEW len \in PayloadLens,
             BounceData(a, sid, ack, len)
      PROVE  TypeOK'
  <2>. DEFINE r == sess[sid]
              s == r.next_seq
              n == s + 1
              to == Peer(sid, a)
              d == [st |-> "refunded", to |-> to, len |-> len]
  <2>1. r \in Session /\ s \in SeqNos
    BY <1>9 DEF BounceData, TypeOK
  <2>2. to \in Agents \cup {NoAgent} /\ n \in 1..(MaxSeq + 1)
    <3>1. to \in Agents \cup {NoAgent}
      BY <2>1 DEF Peer, Session
    <3>. HIDE DEF to
    <3>2. n \in 1..(MaxSeq + 1)
      BY <2>1, BoundsAssumption DEF SeqNos
    <3>. QED  BY <3>1, <3>2
  <2>3. d \in Debit
    BY <2>2, BoundsAssumption DEF Debit, DebitStates
  <2>4. /\ debit' = [Confirmed(sid, ack) EXCEPT ![sid][s] = d]
        /\ sess' = [sess EXCEPT ![sid] = [r EXCEPT !.next_seq = n]]
    BY <1>9 DEF BounceData
  <2>. HIDE DEF r, s, n, to, d
  <2>5. [r EXCEPT !.next_seq = n] \in Session
    BY <2>1, <2>2 DEF Session
  <2>6. debit' \in [SessionIds -> [SeqNos -> Debit]]
    BY <2>1, <2>3, <2>4, ConfirmedType, DebitUpdate
  <2>7. sess' \in [SessionIds -> Session]
    BY <2>4, <2>5 DEF TypeOK
  <2>8. /\ delivery_tasks' \subseteq delivery_tasks
        /\ UNCHANGED <<online, connected, removal, chain, pending_notify,
                       sessions, sessions_by_agent, inflight, closing>>
    BY <1>9 DEF BounceData
  <2>. QED  BY <2>6, <2>7, <2>8 DEF TypeOK
<1>10. ASSUME NEW sid \in SessionIds, ClockPassesExpiry(sid)
       PROVE  TypeOK'
  <2>. DEFINE r == sess[sid]
  <2>1. r \in Session
    BY DEF TypeOK
  <2>2. sess' = [sess EXCEPT ![sid] = [r EXCEPT !.expired = TRUE]]
    BY <1>10 DEF ClockPassesExpiry
  <2>. HIDE DEF r
  <2>3. [r EXCEPT !.expired = TRUE] \in Session
    BY <2>1 DEF Session
  <2>. QED  BY <1>10, <2>2, <2>3 DEF ClockPassesExpiry, TypeOK
<1>11. ASSUME NEW f \in inflight, SendOk(f)
       PROVE  TypeOK'
  <2>1. f \in Handler /\ f.sid \in SessionIds /\ f.seq \in SeqNos
    BY DEF TypeOK, Handler
  <2>2. sess[f.sid] \in Session
    BY <2>1 DEF TypeOK
  <2>3. CumulativeMsgs(f.sid) \in Int
    BY <2>1, <2>2 DEF CumulativeMsgs, LimitsAgree, Session
  <2>4. Receipt(f.sid, f.seq) \in ReceiptType
    BY <2>1, <2>3, TipType DEF Receipt, ReceiptType
  <2>5. chain' \in [SessionIds -> Seq(ReceiptType)]
    BY <1>11, <2>1, <2>4 DEF SendOk, TypeOK
  <2>. QED  BY <1>11, <2>1, <2>5 DEF SendOk, TypeOK
<1>12. ASSUME NEW f \in inflight, SendFails(f)
       PROVE  TypeOK'
  <2>1. f.sid \in SessionIds /\ f.seq \in SeqNos
    BY DEF TypeOK, Handler
  <2>. QED  BY <1>12, <2>1, RollbackTypes DEF SendFails, TypeOK
<1>13. ASSUME NEW sid \in SessionIds, NEW s \in SeqNos,
              DeliveryTimeout(sid, s)
       PROVE  TypeOK'
  BY <1>13, RollbackTypes DEF DeliveryTimeout, TypeOK
<1>14. CASE UNCHANGED vars
  BY <1>14 DEF vars, TypeOK
<1>. QED
  BY <1>1, <1>2, <1>3, <1>4, <1>5, <1>6, <1>7, <1>8, <1>9, <1>10, <1>11,
     <1>12, <1>13, <1>14 DEF Next, SetUp, Data

\* What a step may do to the budgets of a session that keeps its terms.
BudgetMove(sid) ==
  /\ sess'[sid].params = sess[sid].params
  /\ \E n \in Int : sess'[sid].msg_remaining =
                      Credited(sess[sid].msg_remaining, n)
  /\ \E n \in Int : sess'[sid].bytes_remaining =
                      Credited(sess[sid].bytes_remaining, n)

\* A message given back leaves a budget that is unlimited unlimited.
LEMMA CreditedLimit ==
  ASSUME NEW b \in Nat \cup {NoLimit}, NEW n \in Int
  PROVE  Credited(b, n) = NoLimit <=> b = NoLimit
BY ParamsAssumption DEF Credited

\* A budget that moves by some amount stays limited or unlimited as it was.
LEMMA MoveKeepsLimits ==
  ASSUME TypeInv, NEW t \in SessionIds, BudgetMove(t),
         \A u \in SessionIds \ {t} : sess'[u] = sess[u]
  PROVE  LimitsAgree'
<1>1. PICK n \in Int : sess'[t].msg_remaining =
                         Credited(sess[t].msg_remaining, n)
  BY DEF BudgetMove
<1>2. PICK k \in Int : sess'[t].bytes_remaining =
                         Credited(sess[t].bytes_remaining, k)
  BY DEF BudgetMove
<1>3. sess[t] \in Session
  BY DEF TypeInv, TypeOK
<1>4. /\ sess[t].msg_remaining \in Nat \cup {NoLimit}
      /\ sess[t].bytes_remaining \in Nat \cup {NoLimit}
  BY <1>3 DEF Session
<1>5. /\ sess'[t].msg_remaining = NoLimit
           <=> sess[t].msg_remaining = NoLimit
      /\ sess'[t].bytes_remaining = NoLimit
           <=> sess[t].bytes_remaining = NoLimit
  BY <1>1, <1>2, <1>4, CreditedLimit
<1>6. SUFFICES ASSUME NEW u \in SessionIds
      PROVE  /\ sess'[u].msg_remaining = NoLimit
                  <=> sess'[u].params.max_messages = NoLimit
             /\ sess'[u].bytes_remaining = NoLimit
                  <=> sess'[u].params.max_bytes = NoLimit
  BY DEF LimitsAgree
<1>7. CASE u = t
  BY <1>5, <1>7 DEF BudgetMove, TypeInv, LimitsAgree
<1>8. CASE u # t
  BY <1>8 DEF TypeInv, LimitsAgree
<1>. QED  BY <1>7, <1>8

\* What an update of one session leaves as it was.
SameBudgets(r, q) ==
  /\ q.params = r.params
  /\ q.msg_remaining = r.msg_remaining
  /\ q.bytes_remaining = r.bytes_remaining

\* What one update of the table of sessions leaves alone.
LEMMA SessionUpdates ==
  ASSUME NEW r \in Session, NEW st, NEW x, NEW n
  PROVE  /\ SameBudgets(r, [r EXCEPT !.state = st])
         /\ SameBudgets(r, [r EXCEPT !.expired = x])
         /\ SameBudgets(r, [r EXCEPT !.next_seq = n])
BY DEF Session, SameBudgets

\* An update of the fields that are not budgets keeps the budgets in step.
LEMMA SameBudgetsMove ==
  ASSUME TypeInv, NEW t \in SessionIds, SameBudgets(sess[t], sess'[t])
  PROVE  BudgetMove(t)
<1>1. /\ sess[t].msg_remaining \in Nat \cup {NoLimit}
      /\ sess[t].bytes_remaining \in Nat \cup {NoLimit}
  BY DEF TypeInv, TypeOK, Session
<1>2. /\ sess[t].msg_remaining = Credited(sess[t].msg_remaining, 0)
      /\ sess[t].bytes_remaining = Credited(sess[t].bytes_remaining, 0)
  BY <1>1, ParamsAssumption DEF Credited
<1>. QED  BY <1>2 DEF BudgetMove, SameBudgets

\* One session is updated, and keeps its terms and what it has left.
LEMMA UpdateKeepsLimits ==
  ASSUME TypeInv, NEW t \in SessionIds, NEW q,
         SameBudgets(sess[t], q), sess' = [sess EXCEPT ![t] = q]
  PROVE  LimitsAgree'
<1>1. sess'[t] = q /\ \A u \in SessionIds \ {t} : sess'[u] = sess[u]
  BY DEF TypeInv, TypeOK
<1>. QED  BY <1>1, SameBudgetsMove, MoveKeepsLimits

\* Nothing is to be shown where no session changes.
LEMMA SameKeepsLimits ==
  ASSUME TypeInv, sess' = sess
  PROVE  LimitsAgree'
BY DEF TypeInv, LimitsAgree

\* A teardown changes the states of sessions only.
LEMMA TeardownKeepsLimits ==
  ASSUME TypeInv, NEW sid \in SessionIds, Teardown(sid)
  PROVE  LimitsAgree'
<1>1. sess[sid] \in Session
  BY DEF TypeInv, TypeOK
<1>2. CASE sid \in sessions
  <2>1. sess' = [sess EXCEPT ![sid] =
                   [sess[sid] EXCEPT !.state = "CLOSING"]]
    BY <1>2 DEF Teardown
  <2>. QED  BY <1>1, <2>1, SessionUpdates, UpdateKeepsLimits
<1>3. CASE sid \notin sessions
  BY <1>3, SameKeepsLimits DEF Teardown
<1>. QED  BY <1>2, <1>3

\* A rollback gives back to the budgets that are limited only.
LEMMA RollbackKeepsLimits ==
  ASSUME TypeInv, NEW sid \in SessionIds, NEW s \in SeqNos,
         RollbackPending(sid, s)
  PROVE  LimitsAgree'
<1>1. CASE debit[sid][s].st = "pending"
  <2>. DEFINE r == sess[sid]
              len == debit[sid][s].len
              q == [r EXCEPT !.msg_remaining = Credited(@, 1),
                             !.bytes_remaining = Credited(@, len)]
  <2>1. r \in Session /\ len \in Nat
    BY DEF TypeInv, TypeOK, Debit
  <2>2. sess' = [sess EXCEPT ![sid] = q]
    BY <1>1 DEF RollbackPending
  <2>3. /\ q.params = r.params
        /\ q.msg_remaining = Credited(r.msg_remaining, 1)
        /\ q.bytes_remaining = Credited(r.bytes_remaining, len)
    BY <2>1 DEF Session
  <2>4. sess'[sid] = q /\ \A u \in SessionIds \ {sid} : sess'[u] = sess[u]
    BY <2>2 DEF TypeInv, TypeOK
  <2>5. BudgetMove(sid)
    BY <2>1, <2>3, <2>4 DEF BudgetMove
  <2>. QED  BY <2>4, <2>5, MoveKeepsLimits
<1>2. CASE debit[sid][s].st # "pending"
  BY <1>2, SameKeepsLimits DEF RollbackPending
<1>. QED  BY <1>1, <1>2

\* consume takes from the budgets that are limited only.
LEMMA ConsumeKeepsLimits ==
  ASSUME TypeInv, NEW sid \in SessionIds, NEW len \in PayloadLens,
         sess' = Consume(sid, len)
  PROVE  LimitsAgree'
<1>. DEFINE r == sess[sid]
            q == [r EXCEPT !.next_seq = @ + 1,
                           !.msg_remaining = Debited(@, 1),
                           !.bytes_remaining = Debited(@, len)]
<1>1. r \in Session /\ len \in Nat
  BY BoundsAssumption DEF TypeInv, TypeOK
<1>2. /\ r.msg_remaining \in Nat \cup {NoLimit}
      /\ r.bytes_remaining \in Nat \cup {NoLimit}
  BY <1>1 DEF Session
<1>3. sess' = [sess EXCEPT ![sid] = q]
  BY DEF Consume
<1>4. /\ q.params = r.params
      /\ q.msg_remaining = Debited(r.msg_remaining, 1)
      /\ q.bytes_remaining = Debited(r.bytes_remaining, len)
  BY <1>1 DEF Session
<1>5. /\ -1 \in Int /\ Debited(r.msg_remaining, 1) =
                          Credited(r.msg_remaining, -1)
      /\ -len \in Int /\ Debited(r.bytes_remaining, len) =
                            Credited(r.bytes_remaining, -len)
  BY <1>1, <1>2, ParamsAssumption DEF Debited, Credited
<1>6. sess'[sid] = q /\ \A u \in SessionIds \ {sid} : sess'[u] = sess[u]
  BY <1>3 DEF TypeInv, TypeOK
<1>. HIDE DEF q
<1>7. BudgetMove(sid)
  BY <1>4, <1>5, <1>6 DEF BudgetMove
<1>. QED  BY <1>6, <1>7, MoveKeepsLimits

\* Each action keeps the budgets of a session in step with its terms.
LEMMA LimitsStep ==
  ASSUME TypeInv, [Next]_vars
  PROVE  LimitsAgree'
<1>1. ASSUME NEW a \in Agents, Network(a)
      PROVE  sess' = sess
  BY <1>1 DEF Network, Connect, ConnectionLost, LoopEnds, Deprovision,
              DeprovisionSessions, Unregister
<1>2. ASSUME NEW a \in Agents, NEW b \in Agents, NEW sid \in SessionIds,
             NEW p \in Params, HandleRequest(a, b, sid, p)
      PROVE  LimitsAgree'
  <2>1. sess' = [sess EXCEPT ![sid] = NewSession(a, b, p)]
    BY <1>2 DEF HandleRequest
  <2>. QED  BY <2>1 DEF NewSession, TypeInv, TypeOK, LimitsAgree
<1>3. ASSUME NEW b \in Agents, NEW sid \in SessionIds, AcceptSession(b, sid)
      PROVE  LimitsAgree'
  <2>1. sess' = [sess EXCEPT ![sid] = [sess[sid] EXCEPT !.state = "ACTIVE"]]
    BY <1>3 DEF AcceptSession
  <2>2. sess[sid] \in Session
    BY DEF TypeInv, TypeOK
  <2>. QED  BY <2>1, <2>2, SessionUpdates, UpdateKeepsLimits
<1>4. ASSUME NEW a \in Agents, NEW sid \in SessionIds,
             HandleClose(a, sid) \/ CloseNext(a, sid)
      PROVE  LimitsAgree'
  BY <1>4, TeardownKeepsLimits DEF HandleClose, CloseNext
<1>5. ASSUME NEW a \in Agents, NEW sid \in SessionIds,
             NEW ack \in SeqNos \cup {NoAck}, NEW len \in PayloadLens,
             RejectData(a, sid, ack, len)
      PROVE  LimitsAgree'
  BY <1>5, TeardownKeepsLimits DEF RejectData
<1>6. ASSUME NEW a \in Agents, NEW sid \in SessionIds,
             NEW ack \in SeqNos \cup {NoAck}, NEW len \in PayloadLens,
             ForwardData(a, sid, ack, len)
      PROVE  LimitsAgree'
  BY <1>6, ConsumeKeepsLimits DEF ForwardData
<1>7. ASSUME NEW a \in Agents, NEW sid \in SessionIds,
             NEW ack \in SeqNos \cup {NoAck}, NEW len \in PayloadLens,
             BounceData(a, sid, ack, len)
      PROVE  LimitsAgree'
  <2>1. sess' = [sess EXCEPT ![sid] =
                   [sess[sid] EXCEPT !.next_seq = sess[sid].next_seq + 1]]
    BY <1>7 DEF BounceData
  <2>2. sess[sid] \in Session
    BY DEF TypeInv, TypeOK
  <2>. QED  BY <2>1, <2>2, SessionUpdates, UpdateKeepsLimits
<1>8. ASSUME NEW sid \in SessionIds, ClockPassesExpiry(sid)
      PROVE  LimitsAgree'
  <2>1. sess' = [sess EXCEPT ![sid] = [sess[sid] EXCEPT !.expired = TRUE]]
    BY <1>8 DEF ClockPassesExpiry
  <2>2. sess[sid] \in Session
    BY DEF TypeInv, TypeOK
  <2>. QED  BY <2>1, <2>2, SessionUpdates, UpdateKeepsLimits
<1>9. ASSUME NEW f \in inflight, SendFails(f)
      PROVE  LimitsAgree'
  <2>1. f.sid \in SessionIds /\ f.seq \in SeqNos
    BY DEF TypeInv, TypeOK, Handler
  <2>. QED  BY <1>9, <2>1, RollbackKeepsLimits DEF SendFails
<1>10. ASSUME NEW sid \in SessionIds, NEW s \in SeqNos,
              DeliveryTimeout(sid, s)
       PROVE  LimitsAgree'
  BY <1>10, RollbackKeepsLimits, SameKeepsLimits DEF DeliveryTimeout
<1>11. ASSUME \/ \E b \in Agents, sid \in SessionIds : RefuseSession(b, sid)
              \/ \E a \in Agents, sid \in SessionIds,
                    ack \in SeqNos \cup {NoAck} : DropData(a, sid, ack)
              \/ \E f \in inflight : SendOk(f)
              \/ UNCHANGED vars
       PROVE  sess' = sess
  BY <1>11 DEF RefuseSession, DropData, SendOk, vars
<1>. QED
  BY <1>1, <1>2, <1>3, <1>4, <1>5, <1>6, <1>7, <1>8, <1>9, <1>10, <1>11,
     SameKeepsLimits DEF Next, SetUp, Data

\* The strengthened type invariant holds at first.
LEMMA TypeInvInit == Init => TypeInv
<1>1. Unused \in Session
  BY BoundsAssumption DEF Unused, Session
<1>2. NoDebit \in Debit
  BY DEF NoDebit, Debit, DebitStates
<1>3. Init => LimitsAgree
  BY DEF Init, LimitsAgree, Unused
<1>. QED  BY <1>1, <1>2, <1>3 DEF Init, TypeInv, TypeOK, RemovalStages

\* TypeOK together with the agreement of budgets and terms is invariant.
LEMMA TypeInvariant == Spec => []TypeInv
<1>1. TypeInv /\ [Next]_vars => TypeInv'
  BY TypeStep, LimitsStep DEF TypeInv
<1>. QED  BY TypeInvInit, <1>1, PTL DEF Spec

\* The relay's tables keep their types: in particular no interleaving of
\* data handlers, acks and timers takes a budget below zero.
THEOREM TypeCorrect == Spec => []TypeOK
<1>1. TypeInv => TypeOK
  BY DEF TypeInv
<1>. QED  BY TypeInvariant, <1>1, PTL

-----------------------------------------------------------------------------
(* The tables of sessions.                                                 *)

TablesInv == TypeInv /\ TablesAgree

SameParties(sid) ==
  /\ sess'[sid].initiator = sess[sid].initiator
  /\ sess'[sid].target = sess[sid].target

SameStanding(sid) == sess'[sid].state = sess[sid].state /\ SameParties(sid)

\* Steps that update one session and change neither its state nor its
\* parties.
LEMMA UpdateStanding ==
  ASSUME TypeOK, NEW t \in SessionIds, NEW q,
         sess' = [sess EXCEPT ![t] = q],
         q.state = sess[t].state,
         q.initiator = sess[t].initiator, q.target = sess[t].target
  PROVE  \A sid \in SessionIds : SameStanding(sid)
BY DEF TypeOK, SameStanding, SameParties

\* A rollback keeps the state and the parties of every session.
LEMMA RollbackStanding ==
  ASSUME TypeOK, NEW t \in SessionIds, NEW s \in SeqNos,
         RollbackPending(t, s)
  PROVE  \A sid \in SessionIds : SameStanding(sid)
<1>1. CASE debit[t][s].st = "pending"
  <2>. DEFINE r == sess[t]
              q == [r EXCEPT !.msg_remaining = Credited(@, 1),
                             !.bytes_remaining = Credited(@, debit[t][s].len)]
  <2>1. r \in Session
    BY DEF TypeOK
  <2>2. /\ q.state = r.state
        /\ q.initiator = r.initiator
        /\ q.target = r.target
    BY <2>1 DEF Session
  <2>3. sess' = [sess EXCEPT ![t] = q]
    BY <1>1 DEF RollbackPending
  <2>. HIDE DEF q
  <2>. QED  BY <2>2, <2>3, UpdateStanding
<1>2. CASE debit[t][s].st # "pending"
  BY <1>2 DEF RollbackPending, SameStanding, SameParties
<1>. QED  BY <1>1, <1>2

\* consume keeps the state and the parties of every session.
LEMMA ConsumeStanding ==
  ASSUME TypeOK, NEW t \in SessionIds, NEW len \in PayloadLens,
         sess' = Consume(t, len)
  PROVE  \A sid \in SessionIds : SameStanding(sid)
<1>. DEFINE r == sess[t]
            q == [r EXCEPT !.next_seq = @ + 1,
                           !.msg_remaining = Debited(@, 1),
                           !.bytes_remaining = Debited(@, len)]
<1>1. r \in Session
  BY DEF TypeOK
<1>2. /\ q.state = r.state
      /\ q.initiator = r.initiator
      /\ q.target = r.target
  BY <1>1 DEF Session
<1>3. sess' = [sess EXCEPT ![t] = q]
  BY DEF Consume
<1>. HIDE DEF q
<1>. QED  BY <1>2, <1>3, UpdateStanding

\* TablesAgree reads the states and the parties, not the budgets.
LEMMA StandingKeepsTables ==
  ASSUME TablesInv, \A sid \in SessionIds : SameStanding(sid),
         UNCHANGED <<pending_notify, sessions, sessions_by_agent>>
  PROVE  TablesAgree'
<1>1. \A sid \in SessionIds : Parties(sid)' = Parties(sid)
  BY DEF Parties, SameStanding, SameParties
<1>2. sessions \subseteq SessionIds /\ pending_notify \subseteq SessionIds
  BY DEF TablesInv, TypeInv, TypeOK
<1>3. \A a \in Agents : {sid \in sessions : a \in Parties(sid)}'
                         = {sid \in sessions : a \in Parties(sid)}
  BY <1>1, <1>2
<1>. QED  BY <1>2, <1>3 DEF TablesInv, TablesAgree, SameStanding

\* A teardown takes the session out of every table.
LEMMA TeardownKeepsTables ==
  ASSUME TablesInv, NEW t \in SessionIds, Teardown(t), UNCHANGED pending_notify
  PROVE  TablesAgree'
<1>. USE DEF TablesInv, TypeInv
<1>1. CASE t \in sessions
  <2>. DEFINE r == sess[t]
              q == [r EXCEPT !.state = "CLOSING"]
  <2>1. r \in Session
    BY DEF TypeOK
  <2>2. /\ q.state = "CLOSING"
        /\ q.initiator = r.initiator
        /\ q.target = r.target
    BY <2>1 DEF Session
  <2>3. /\ sess' = [sess EXCEPT ![t] = q]
        /\ sessions' = sessions \ {t}
        /\ sessions_by_agent' =
             [a \in Agents |-> sessions_by_agent[a] \ {t}]
    BY <1>1 DEF Teardown
  <2>. HIDE DEF q
  <2>4. /\ sess'[t] = q
        /\ \A sid \in SessionIds \ {t} : sess'[sid] = sess[sid]
    BY <2>3 DEF TypeOK
  <2>5. \A sid \in SessionIds : Parties(sid)' = Parties(sid)
    BY <2>2, <2>4 DEF Parties
  <2>6. \A sid \in SessionIds :
          sid \in sessions' <=> sess'[sid].state = "ACTIVE"
    BY <2>2, <2>3, <2>4 DEF TablesAgree
  <2>7. \A sid \in pending_notify' : sess'[sid].state = "NOTIFYING"
    BY <1>1, <2>4 DEF TablesAgree, TypeOK
  <2>8. \A a \in Agents : sessions_by_agent'[a] =
                           {sid \in sessions : a \in Parties(sid)}'
    BY <2>3, <2>5 DEF TablesAgree, TypeOK
  <2>. QED  BY <2>6, <2>7, <2>8 DEF TablesAgree
<1>2. CASE t \notin sessions
  BY <1>2, StandingKeepsTables DEF Teardown, SameStanding, SameParties
<1>. QED  BY <1>1, <1>2

\* Each action keeps the tables in agreement.
LEMMA TablesStep ==
  ASSUME TablesInv, [Next]_vars
  PROVE  TablesAgree'
<1>. USE DEF TablesInv, TypeInv
<1>1. ASSUME NEW a \in Agents, Network(a)
      PROVE  UNCHANGED <<sess, pending_notify, sessions, sessions_by_agent>>
  BY <1>1 DEF Network, Connect, ConnectionLost, LoopEnds, Deprovision,
              DeprovisionSessions, Unregister
<1>2. ASSUME NEW a \in Agents, NEW b \in Agents, NEW t \in SessionIds,
             NEW p \in Params, HandleRequest(a, b, t, p)
      PROVE  TablesAgree'
  <2>. DEFINE q == NewSession(a, b, p)
  <2>1. /\ sess[t].state = "IDLE"
        /\ sess'[t] = q /\ q.state = "NOTIFYING"
        /\ \A sid \in SessionIds \ {t} : sess'[sid] = sess[sid]
        /\ pending_notify' = pending_notify \cup {t}
        /\ UNCHANGED <<sessions, sessions_by_agent>>
    BY <1>2 DEF HandleRequest, TypeOK, NewSession
  <2>. HIDE DEF q
  <2>2. t \notin sessions
    BY <2>1 DEF TablesAgree
  <2>3. \A sid \in sessions : Parties(sid)' = Parties(sid)
    BY <2>1, <2>2 DEF Parties, TypeOK
  <2>4. \A c \in Agents : {sid \in sessions : c \in Parties(sid)}'
                            = {sid \in sessions : c \in Parties(sid)}
    BY <2>1, <2>3
  <2>5. \A sid \in SessionIds :
          sid \in sessions' <=> sess'[sid].state = "ACTIVE"
    BY <2>1, <2>2 DEF TablesAgree
  <2>6. \A sid \in pending_notify' : sess'[sid].state = "NOTIFYING"
    BY <2>1 DEF TablesAgree, TypeOK
  <2>. QED  BY <2>1, <2>4, <2>5, <2>6 DEF TablesAgree
<1>3. ASSUME NEW b \in Agents, NEW t \in SessionIds, AcceptSession(b, t)
      PROVE  TablesAgree'
  <2>. DEFINE r == sess[t]
              q == [r EXCEPT !.state = "ACTIVE"]
  <2>1. r \in Session
    BY DEF TypeOK
  <2>2. /\ q.state = "ACTIVE"
        /\ q.initiator = r.initiator
        /\ q.target = r.target
    BY <2>1 DEF Session
  <2>3. /\ sess' = [sess EXCEPT ![t] = q]
        /\ t \in pending_notify
        /\ pending_notify' = pending_notify \ {t}
        /\ sessions' = sessions \cup {t}
        /\ sessions_by_agent' =
             [a \in Agents |-> IF a \in Parties(t)
                                 THEN sessions_by_agent[a] \cup {t}
                                 ELSE sessions_by_agent[a]]
    BY <1>3 DEF AcceptSession
  <2>. HIDE DEF q
  <2>4. /\ sess'[t] = q
        /\ \A sid \in SessionIds \ {t} : sess'[sid] = sess[sid]
    BY <2>3 DEF TypeOK
  <2>5. \A sid \in SessionIds : Parties(sid)' = Parties(sid)
    BY <2>2, <2>4 DEF Parties
  <2>6. t \notin sessions
    BY <2>3 DEF TablesAgree
  <2>7. \A sid \in SessionIds :
          sid \in sessions' <=> sess'[sid].state = "ACTIVE"
    BY <2>2, <2>3, <2>4 DEF TablesAgree
  <2>8. \A sid \in pending_notify' : sess'[sid].state = "NOTIFYING"
    BY <2>3, <2>4 DEF TablesAgree, TypeOK
  <2>9. ASSUME NEW a \in Agents
        PROVE  sessions_by_agent'[a] = {sid \in sessions : a \in Parties(sid)}'
    <3>1. {sid \in sessions : a \in Parties(sid)}'
            = {sid \in sessions \cup {t} : a \in Parties(sid)}
      BY <2>3, <2>5 DEF TypeOK
    <3>. QED  BY <2>3, <3>1 DEF TablesAgree
  <2>. QED  BY <2>7, <2>8, <2>9 DEF TablesAgree
<1>4. ASSUME NEW b \in Agents, NEW t \in SessionIds, RefuseSession(b, t)
      PROVE  TablesAgree'
  <2>1. /\ UNCHANGED <<sess, sessions, sessions_by_agent>>
        /\ pending_notify' \subseteq pending_notify
    BY <1>4 DEF RefuseSession
  <2>. QED  BY <2>1 DEF TablesAgree, Parties
<1>5. ASSUME NEW a \in Agents, NEW t \in SessionIds,
             HandleClose(a, t) \/ CloseNext(a, t)
      PROVE  TablesAgree'
  BY <1>5, TeardownKeepsTables DEF HandleClose, CloseNext
<1>6. ASSUME NEW a \in Agents, NEW t \in SessionIds,
             NEW ack \in SeqNos \cup {NoAck}, NEW len \in PayloadLens,
             RejectData(a, t, ack, len)
      PROVE  TablesAgree'
  BY <1>6, TeardownKeepsTables DEF RejectData
<1>7. ASSUME NEW a \in Agents, NEW t \in SessionIds,
             NEW ack \in SeqNos \cup {NoAck}, NEW len \in PayloadLens,
             ForwardData(a, t, ack, len)
      PROVE  TablesAgree'
  BY <1>7, ConsumeStanding, StandingKeepsTables DEF ForwardData
<1>8. ASSUME NEW a \in Agents, NEW t \in SessionIds,
             NEW ack \in SeqNos \cup {NoAck}, NEW len \in PayloadLens,
             BounceData(a, t, ack, len)
      PROVE  TablesAgree'
  <2>. DEFINE r == sess[t]
              q == [r EXCEPT !.next_seq = r.next_seq + 1]
  <2>1. r \in Session
    BY DEF TypeOK
  <2>2. /\ q.state = r.state
        /\ q.initiator = r.initiator
        /\ q.target = r.target
    BY <2>1 DEF Session
  <2>3. sess' = [sess EXCEPT ![t] = q]
    BY <1>8 DEF BounceData
  <2>. HIDE DEF q
  <2>4. \A sid \in SessionIds : SameStanding(sid)
    BY <2>2, <2>3, UpdateStanding
  <2>. QED  BY <1>8, <2>4, StandingKeepsTables DEF BounceData
<1>9. ASSUME NEW t \in SessionIds, ClockPassesExpiry(t)
      PROVE  TablesAgree'
  <2>. DEFINE r == sess[t]
              q == [r EXCEPT !.expired = TRUE]
  <2>1. r \in Session
    BY DEF TypeOK
  <2>2. /\ q.state = r.state
        /\ q.initiator = r.initiator
        /\ q.target = r.target
    BY <2>1 DEF Session
  <2>3. sess' = [sess EXCEPT ![t] = q]
    BY <1>9 DEF ClockPassesExpiry
  <2>. HIDE DEF q
  <2>4. \A sid \in SessionIds : SameStanding(sid)
    BY <2>2, <2>3, UpdateStanding
  <2>. QED  BY <1>9, <2>4, StandingKeepsTables DEF ClockPassesExpiry
<1>10. ASSUME NEW f \in inflight, SendFails(f)
       PROVE  TablesAgree'
  <2>1. f.sid \in SessionIds /\ f.seq \in SeqNos
    BY DEF TypeOK, Handler
  <2>. QED  BY <1>10, <2>1, RollbackStanding, StandingKeepsTables
            DEF SendFails
<1>11. ASSUME NEW t \in SessionIds, NEW s \in SeqNos, DeliveryTimeout(t, s)
       PROVE  TablesAgree'
  <2>1. CASE t \in sessions
    BY <1>11, <2>1, RollbackStanding, StandingKeepsTables
       DEF DeliveryTimeout
  <2>2. CASE t \notin sessions
    BY <1>11, <2>2, StandingKeepsTables
       DEF DeliveryTimeout, SameStanding, SameParties
  <2>. QED  BY <2>1, <2>2
<1>12. ASSUME \/ \E a \in Agents, t \in SessionIds,
                    ack \in SeqNos \cup {NoAck} : DropData(a, t, ack)
              \/ \E f \in inflight : SendOk(f)
              \/ UNCHANGED vars
       PROVE  UNCHANGED <<sess, pending_notify, sessions, sessions_by_agent>>
  BY <1>12 DEF DropData, SendOk, vars
<1>13. ASSUME UNCHANGED <<sess, pending_notify, sessions, sessions_by_agent>>
       PROVE  TablesAgree'
  BY <1>13 DEF TablesAgree, Parties
<1>. QED
  BY <1>1, <1>2, <1>3, <1>4, <1>5, <1>6, <1>7, <1>8, <1>9, <1>10, <1>11,
     <1>12, <1>13 DEF Next, SetUp, Data

\* The relay never holds a session that is not ACTIVE, and its index by agent
\* is exact: consume never meets another state, and a disconnect finds every
\* session of the agent.
THEOREM TablesCorrect == Spec => []TablesAgree
<1>1. Init => TablesAgree
  BY DEF Init, TablesAgree, Unused
<1>2. TypeInv /\ TablesAgree /\ [Next]_vars => TablesAgree'
  BY TablesStep DEF TablesInv
<1>. QED  BY TypeInvariant, <1>1, <1>2, PTL DEF Spec

-----------------------------------------------------------------------------
(* What becomes of a debit.  A sequence number is given out once, so a new *)
(* debit never takes the place of another.                                 *)

FreshSeq ==
  \A sid \in SessionIds, s \in SeqNos :
    s >= sess[sid].next_seq => debit[sid][s].st = "none"

IdleIsFresh ==
  \A sid \in SessionIds : sess[sid].state = "IDLE" => sess[sid].next_seq = 1

DebitInv == TypeInv /\ TablesAgree /\ FreshSeq /\ IdleIsFresh

\* Serving an ack leaves every debit alone but a pending one.
LEMMA ConfirmedKeeps ==
  ASSUME TypeOK, NEW sid \in SessionIds, NEW ack \in SeqNos \cup {NoAck},
         NEW t \in SessionIds, NEW s \in SeqNos,
         debit[t][s].st # "pending"
  PROVE  Confirmed(sid, ack)[t][s] = debit[t][s]
<1>1. CASE ack # NoAck /\ debit[sid][ack].st = "pending"
  <2>. DEFINE d == [debit[sid][ack] EXCEPT !.st = "confirmed"]
  <2>1. Confirmed(sid, ack) = [debit EXCEPT ![sid][ack] = d]
    BY <1>1 DEF Confirmed
  <2>2. t # sid \/ s # ack
    BY <1>1
  <2>. HIDE DEF d
  <2>. QED  BY <2>1, <2>2 DEF TypeOK
<1>2. CASE ~(ack # NoAck /\ debit[sid][ack].st = "pending")
  BY <1>2 DEF Confirmed
<1>. QED  BY <1>1, <1>2

\* A rollback settles one pending debit and leaves the others alone.
LEMMA RollbackKeeps ==
  ASSUME TypeOK, NEW sid \in SessionIds, NEW ack \in SeqNos,
         RollbackPending(sid, ack),
         NEW t \in SessionIds, NEW s \in SeqNos,
         debit[t][s].st # "pending"
  PROVE  debit'[t][s] = debit[t][s]
<1>1. CASE debit[sid][ack].st = "pending"
  <2>. DEFINE d == [debit[sid][ack] EXCEPT !.st = "refunded"]
  <2>1. debit' = [debit EXCEPT ![sid][ack] = d]
    BY <1>1 DEF RollbackPending
  <2>2. t # sid \/ s # ack
    BY <1>1
  <2>. HIDE DEF d
  <2>. QED  BY <2>1, <2>2 DEF TypeOK
<1>2. CASE debit[sid][ack].st # "pending"
  BY <1>2 DEF RollbackPending
<1>. QED  BY <1>1, <1>2

\* Both ways to enter a debit spend the sequence number.
LEMMA SpentSeq ==
  ASSUME TypeOK, NEW t \in SessionIds
  PROVE  /\ \A len \in PayloadLens :
              sess' = Consume(t, len) =>
                /\ sess'[t].next_seq = sess[t].next_seq + 1
                /\ sess'[t].state = sess[t].state
                /\ \A u \in SessionIds \ {t} : sess'[u] = sess[u]
         /\ sess' = [sess EXCEPT ![t].next_seq = @ + 1] =>
              /\ sess'[t].next_seq = sess[t].next_seq + 1
              /\ sess'[t].state = sess[t].state
              /\ \A u \in SessionIds \ {t} : sess'[u] = sess[u]
<1>1. sess[t] \in Session
  BY DEF TypeOK
<1>2. ASSUME NEW len \in PayloadLens, sess' = Consume(t, len)
      PROVE  /\ sess'[t].next_seq = sess[t].next_seq + 1
             /\ sess'[t].state = sess[t].state
             /\ \A u \in SessionIds \ {t} : sess'[u] = sess[u]
  <2>. DEFINE q == [sess[t] EXCEPT !.next_seq = @ + 1,
                                   !.msg_remaining = Debited(@, 1),
                                   !.bytes_remaining = Debited(@, len)]
  <2>1. q.next_seq = sess[t].next_seq + 1 /\ q.state = sess[t].state
    BY <1>1 DEF Session
  <2>2. sess' = [sess EXCEPT ![t] = q]
    BY <1>2 DEF Consume
  <2>. HIDE DEF q
  <2>. QED  BY <2>1, <2>2 DEF TypeOK
<1>3. ASSUME sess' = [sess EXCEPT ![t].next_seq = @ + 1]
      PROVE  /\ sess'[t].next_seq = sess[t].next_seq + 1
             /\ sess'[t].state = sess[t].state
             /\ \A u \in SessionIds \ {t} : sess'[u] = sess[u]
  <2>. DEFINE q == [sess[t] EXCEPT !.next_seq = @ + 1]
  <2>1. q.next_seq = sess[t].next_seq + 1 /\ q.state = sess[t].state
    BY <1>1 DEF Session
  <2>2. sess' = [sess EXCEPT ![t] = q]
    BY <1>3
  <2>. HIDE DEF q
  <2>. QED  BY <2>1, <2>2 DEF TypeOK
<1>. QED  BY <1>2, <1>3

\* What a step does to a debit that is not pending: nothing, unless it is
\* entered, under the session's next sequence number, which is then spent.
LEMMA DebitStep ==
  ASSUME TypeOK, [Next]_vars,
         NEW t \in SessionIds, NEW s \in SeqNos, debit[t][s].st # "pending"
  PROVE  \/ debit'[t][s] = debit[t][s]
         \/ s = sess[t].next_seq /\ sess'[t].next_seq = s + 1
<1>1. ASSUME NEW sid \in SessionIds, NEW ack \in SeqNos \cup {NoAck},
             debit' = Confirmed(sid, ack)
      PROVE  debit'[t][s] = debit[t][s]
  BY <1>1, ConfirmedKeeps
<1>2. ASSUME NEW a \in Agents, NEW sid \in SessionIds,
             NEW ack \in SeqNos \cup {NoAck}, NEW len \in PayloadLens,
             ForwardData(a, sid, ack, len) \/ BounceData(a, sid, ack, len)
      PROVE  \/ debit'[t][s] = debit[t][s]
             \/ s = sess[t].next_seq /\ sess'[t].next_seq = s + 1
  <2>1. PICK d : debit' = [Confirmed(sid, ack) EXCEPT
                             ![sid][sess[sid].next_seq] = d]
    BY <1>2 DEF ForwardData, BounceData
  <2>2. sess[sid].next_seq \in SeqNos
    BY <1>2 DEF ForwardData, BounceData
  <2>. DEFINE k == sess[sid].next_seq
  <2>3. k \in SeqNos /\ debit' = [Confirmed(sid, ack) EXCEPT ![sid][k] = d]
    BY <2>1, <2>2
  <2>4. CASE t = sid /\ s = k
    BY <1>2, <2>4, SpentSeq DEF ForwardData, BounceData
  <2>5. CASE t # sid \/ s # k
    <3>. HIDE DEF k
    <3>1. debit'[t][s] = Confirmed(sid, ack)[t][s]
      BY <2>3, <2>5, ConfirmedType
    <3>. QED  BY <3>1, ConfirmedKeeps
  <2>. QED  BY <2>4, <2>5
<1>3. ASSUME NEW f \in inflight, SendFails(f)
      PROVE  debit'[t][s] = debit[t][s]
  <2>1. f.sid \in SessionIds /\ f.seq \in SeqNos
    BY DEF TypeOK, Handler
  <2>. QED  BY <1>3, <2>1, RollbackKeeps DEF SendFails
<1>4. ASSUME NEW sid \in SessionIds, NEW k \in SeqNos, DeliveryTimeout(sid, k)
      PROVE  debit'[t][s] = debit[t][s]
  BY <1>4, RollbackKeeps DEF DeliveryTimeout
<1>5. ASSUME NEW a \in Agents, NEW sid \in SessionIds,
             NEW ack \in SeqNos \cup {NoAck}, NEW len \in PayloadLens,
             DropData(a, sid, ack) \/ RejectData(a, sid, ack, len)
      PROVE  debit' = Confirmed(sid, ack)
  BY <1>5 DEF DropData, RejectData
<1>6. ASSUME NEW a \in Agents, NEW sid \in SessionIds,
             NEW ack \in SeqNos \cup {NoAck}, DropData(a, sid, ack)
      PROVE  debit' = Confirmed(sid, ack)
  BY <1>6 DEF DropData
<1>7. ASSUME NEW a \in Agents, Network(a)
      PROVE  debit' = debit
  BY <1>7 DEF Network, Connect, ConnectionLost, LoopEnds, Deprovision,
              DeprovisionSessions, Unregister
<1>8. ASSUME NEW a \in Agents, NEW sid \in SessionIds, SetUp(a, sid)
      PROVE  debit' = debit
  BY <1>8 DEF SetUp, HandleRequest, AcceptSession, RefuseSession,
              HandleClose, CloseNext
<1>9. ASSUME \/ \E sid \in SessionIds : ClockPassesExpiry(sid)
             \/ \E f \in inflight : SendOk(f)
             \/ UNCHANGED vars
      PROVE  debit' = debit
  BY <1>9 DEF ClockPassesExpiry, SendOk, vars
<1>. QED
  BY <1>1, <1>2, <1>3, <1>4, <1>5, <1>6, <1>7, <1>8, <1>9 DEF Next, Data

\* Sequence numbers only grow, and no session becomes IDLE again.
SeqGrows(t) ==
  /\ sess'[t].next_seq >= sess[t].next_seq
  /\ sess'[t].state = "IDLE" =>
       sess[t].state = "IDLE" /\ sess'[t].next_seq = sess[t].next_seq

\* No sequence number is taken back where no session changes.
LEMMA SameSeqGrows ==
  ASSUME TypeOK, NEW t \in SessionIds, sess'[t] = sess[t]
  PROVE  SeqGrows(t)
BY DEF TypeOK, Session, SeqGrows

\* An update of one session that keeps its number and does not make it IDLE.
LEMMA UpdateSeqGrows ==
  ASSUME TypeOK, NEW u \in SessionIds, NEW q,
         sess' = [sess EXCEPT ![u] = q], q.next_seq = sess[u].next_seq,
         q.state = "IDLE" => sess[u].state = "IDLE",
         NEW t \in SessionIds
  PROVE  SeqGrows(t)
BY DEF TypeOK, Session, SeqGrows

\* No action takes a sequence number back.
LEMMA SeqStep ==
  ASSUME DebitInv, [Next]_vars, NEW t \in SessionIds
  PROVE  SeqGrows(t)
<1>. USE DEF DebitInv, TypeInv
<1>1. ASSUME NEW a \in Agents, NEW b \in Agents, NEW u \in SessionIds,
             NEW p \in Params, HandleRequest(a, b, u, p)
      PROVE  SeqGrows(t)
  <2>1. sess' = [sess EXCEPT ![u] = NewSession(a, b, p)]
    BY <1>1 DEF HandleRequest
  <2>2. /\ sess[u].state = "IDLE" /\ sess[u].next_seq = 1
        /\ NewSession(a, b, p).next_seq = 1
        /\ NewSession(a, b, p).state = "NOTIFYING"
    BY <1>1 DEF HandleRequest, IdleIsFresh, NewSession
  <2>. QED  BY <2>1, <2>2, UpdateSeqGrows
<1>2. ASSUME NEW b \in Agents, NEW u \in SessionIds, AcceptSession(b, u)
      PROVE  SeqGrows(t)
  <2>. DEFINE q == [sess[u] EXCEPT !.state = "ACTIVE"]
  <2>1. sess' = [sess EXCEPT ![u] = q]
    BY <1>2 DEF AcceptSession
  <2>2. q.next_seq = sess[u].next_seq /\ q.state = "ACTIVE"
    BY DEF TypeOK, Session
  <2>. HIDE DEF q
  <2>. QED  BY <2>1, <2>2, UpdateSeqGrows
<1>3. ASSUME NEW u \in SessionIds, Teardown(u)
      PROVE  SeqGrows(t)
  <2>. DEFINE q == [sess[u] EXCEPT !.state = "CLOSING"]
  <2>1. sess' = sess \/ sess' = [sess EXCEPT ![u] = q]
    BY <1>3 DEF Teardown
  <2>2. q.next_seq = sess[u].next_seq /\ q.state = "CLOSING"
    BY DEF TypeOK, Session
  <2>. HIDE DEF q
  <2>. QED  BY <2>1, <2>2, UpdateSeqGrows, SameSeqGrows
<1>4. ASSUME NEW u \in SessionIds, ClockPassesExpiry(u)
      PROVE  SeqGrows(t)
  <2>. DEFINE q == [sess[u] EXCEPT !.expired = TRUE]
  <2>1. sess' = [sess EXCEPT ![u] = q]
    BY <1>4 DEF ClockPassesExpiry
  <2>2. q.next_seq = sess[u].next_seq /\ q.state = sess[u].state
    BY DEF TypeOK, Session
  <2>. HIDE DEF q
  <2>. QED  BY <2>1, <2>2, UpdateSeqGrows
<1>5. ASSUME NEW a \in Agents, NEW u \in SessionIds,
             NEW ack \in SeqNos \cup {NoAck}, NEW len \in PayloadLens,
             ForwardData(a, u, ack, len) \/ BounceData(a, u, ack, len)
      PROVE  SeqGrows(t)
  <2>1. sess[u].state = "ACTIVE"
    BY <1>5 DEF ForwardData, BounceData, Receives, TablesAgree
  <2>2. /\ sess'[u].next_seq = sess[u].next_seq + 1
        /\ sess'[u].state = sess[u].state
        /\ \A v \in SessionIds \ {u} : sess'[v] = sess[v]
    BY <1>5, SpentSeq DEF ForwardData, BounceData
  <2>3. sess[u].next_seq \in Int
    BY DEF TypeOK, Session
  <2>4. CASE t = u
    BY <2>1, <2>2, <2>3, <2>4 DEF SeqGrows
  <2>5. CASE t # u
    BY <2>2, <2>5, SameSeqGrows
  <2>. QED  BY <2>4, <2>5
<1>6. ASSUME NEW u \in SessionIds, NEW s \in SeqNos, RollbackPending(u, s)
      PROVE  SeqGrows(t)
  <2>. DEFINE q == [sess[u] EXCEPT
                      !.msg_remaining = Credited(@, 1),
                      !.bytes_remaining = Credited(@, debit[u][s].len)]
  <2>1. sess' = sess \/ sess' = [sess EXCEPT ![u] = q]
    BY <1>6 DEF RollbackPending
  <2>2. q.next_seq = sess[u].next_seq /\ q.state = sess[u].state
    BY DEF TypeOK, Session
  <2>. HIDE DEF q
  <2>. QED  BY <2>1, <2>2, UpdateSeqGrows, SameSeqGrows
<1>7. ASSUME NEW f \in inflight, SendFails(f)
      PROVE  SeqGrows(t)
  <2>1. f.sid \in SessionIds /\ f.seq \in SeqNos
    BY DEF TypeOK, Handler
  <2>. QED  BY <1>6, <1>7, <2>1 DEF SendFails
<1>8. ASSUME NEW u \in SessionIds, NEW s \in SeqNos, DeliveryTimeout(u, s)
      PROVE  SeqGrows(t)
  BY <1>6, <1>8, SameSeqGrows DEF DeliveryTimeout
<1>9. ASSUME NEW a \in Agents, NEW u \in SessionIds,
             \/ HandleClose(a, u) \/ CloseNext(a, u)
             \/ \E ack \in SeqNos \cup {NoAck}, len \in PayloadLens :
                  RejectData(a, u, ack, len)
      PROVE  SeqGrows(t)
  BY <1>3, <1>9 DEF HandleClose, CloseNext, RejectData
<1>10. ASSUME \/ \E a \in Agents : Network(a)
              \/ \E b \in Agents, u \in SessionIds : RefuseSession(b, u)
              \/ \E a \in Agents, u \in SessionIds,
                    ack \in SeqNos \cup {NoAck} : DropData(a, u, ack)
              \/ \E f \in inflight : SendOk(f)
              \/ UNCHANGED vars
       PROVE  SeqGrows(t)
  <2>1. sess' = sess
    BY <1>10 DEF Network, Connect, ConnectionLost, LoopEnds, Deprovision,
                 DeprovisionSessions, Unregister, RefuseSession, DropData,
                 SendOk, vars
  <2>. QED  BY <2>1, SameSeqGrows
<1>. QED
  BY <1>1, <1>2, <1>4, <1>5, <1>7, <1>8, <1>9, <1>10 DEF Next, SetUp, Data

\* No debit stands under a sequence number that is still to come.
LEMMA DebitInvariant == Spec => []DebitInv
<1>1. Init => DebitInv
  BY TypeInvInit DEF Init, DebitInv, FreshSeq, IdleIsFresh, TablesAgree,
     Unused, NoDebit
<1>2. ASSUME DebitInv, [Next]_vars
      PROVE  DebitInv'
  <2>. USE <1>2 DEF DebitInv, TypeInv
  <2>1. TypeInv' /\ TablesAgree'
    BY TypeStep, LimitsStep, TablesStep DEF TablesInv
  <2>2. ASSUME NEW t \in SessionIds, NEW s \in SeqNos,
               s >= sess'[t].next_seq
        PROVE  debit'[t][s].st = "none"
    <3>1. sess[t].next_seq \in Int /\ sess'[t].next_seq \in Int
          /\ s \in Int
      BY <2>1, BoundsAssumption DEF TypeOK, Session, SeqNos
    <3>2. s >= sess[t].next_seq
      BY <2>2, <3>1, SeqStep DEF SeqGrows
    <3>3. debit[t][s].st = "none"
      BY <3>2 DEF FreshSeq
    <3>4. debit'[t][s] = debit[t][s] \/ sess'[t].next_seq = s + 1
      BY <3>3, DebitStep
    <3>. QED  BY <2>2, <3>1, <3>3, <3>4
  <2>3. IdleIsFresh'
    BY SeqStep DEF SeqGrows, IdleIsFresh
  <2>. QED  BY <2>1, <2>2, <2>3 DEF FreshSeq
<1>. QED  BY <1>1, <1>2, PTL DEF Spec

\* A debit that was confirmed or refunded stays as it is: whatever order the
\* ack, the delivery timer and the end of the send come in, one of them
\* settles it and the others find nothing to settle.
THEOREM DebitSettledOnce == Spec => SettledOnce
<1>1. ASSUME DebitInv, [Next]_vars
      PROVE  \A sid \in SessionIds, s \in SeqNos :
               debit[sid][s].st \in {"confirmed", "refunded"} =>
                 debit'[sid][s] = debit[sid][s]
  <2>. SUFFICES ASSUME NEW t \in SessionIds, NEW s \in SeqNos,
                       debit[t][s].st \in {"confirmed", "refunded"}
                PROVE  debit'[t][s] = debit[t][s]
    OBVIOUS
  <2>1. /\ sess[t].next_seq \in Int /\ s \in Int
        /\ ~(s >= sess[t].next_seq)
    BY <1>1, BoundsAssumption
       DEF DebitInv, TypeInv, FreshSeq, TypeOK, Session, SeqNos
  <2>. QED  BY <1>1, <2>1, DebitStep DEF DebitInv, TypeInv
<1>. QED  BY <1>1, DebitInvariant, PTL DEF Spec, SettledOnce

-----------------------------------------------------------------------------
(* The message and the byte budget.                                        *)

MessagesAt(t) ==
  sess[t].params.max_messages # NoLimit =>
    sess[t].msg_remaining + Cardinality(Charged(t))
      = sess[t].params.max_messages

\* The bytes each sequence number of a session was charged.
Length(t) == [s \in SeqNos |-> debit[t][s].len]

BytesAt(t) ==
  sess[t].params.max_bytes # NoLimit =>
    sess[t].bytes_remaining + SumOver(Length(t), Charged(t))
      = sess[t].params.max_bytes

ConservedAt(t) == MessagesAt(t) /\ BytesAt(t)

\* The charged messages of a session are finitely many.
LEMMA ChargedFinite ==
  ASSUME NEW t \in SessionIds
  PROVE  IsFiniteSet(Charged(t)) /\ Cardinality(Charged(t)) \in Nat
<1>1. IsFiniteSet(SeqNos)
  BY BoundsAssumption, FS_Interval DEF SeqNos
<1>2. Charged(t) \subseteq SeqNos
  BY DEF Charged
<1>. QED  BY <1>1, <1>2, FS_Subset, FS_CardinalityType

\* Their lengths add up to a number, to the same one as long as none of them
\* changes.
LEMMA ChargedLength ==
  ASSUME TypeOK, NEW t \in SessionIds
  PROVE  SumOver(Length(t), Charged(t)) \in Nat
<1>1. \A s \in Charged(t) : Length(t)[s] \in Nat
  BY DEF TypeOK, Charged, Length, Debit
<1>. HIDE DEF Length
<1>. QED  BY <1>1, ChargedFinite, SumNat

\* Lengths that stay add up to the same.
LEMMA SameLength ==
  ASSUME NEW t \in SessionIds, NEW C \in SUBSET SeqNos, IsFiniteSet(C),
         \A s \in C : debit'[t][s].len = debit[t][s].len
  PROVE  SumOver(Length(t)', C) = SumOver(Length(t), C)
<1>1. \A s \in C : Length(t)'[s] = Length(t)[s]
  BY DEF Length
<1>. QED  BY <1>1, SumsAgree

\* Neither the budget nor what is charged changes.
LEMMA SameConserved ==
  ASSUME NEW t \in SessionIds, ConservedAt(t),
         SameBudgets(sess[t], sess'[t]), Charged(t)' = Charged(t),
         \A s \in Charged(t) : debit'[t][s].len = debit[t][s].len
  PROVE  ConservedAt(t)'
<1>1. MessagesAt(t)'
  BY DEF ConservedAt, MessagesAt, SameBudgets
<1>2. Charged(t) \in SUBSET SeqNos
  BY DEF Charged
<1>3. SumOver(Length(t)', Charged(t)) = SumOver(Length(t), Charged(t))
  BY <1>2, ChargedFinite, SameLength
<1>4. BytesAt(t)'
  BY <1>3 DEF ConservedAt, BytesAt, SameBudgets
<1>. QED  BY <1>1, <1>4 DEF ConservedAt

\* An ack turns a held charge into a spent one.
LEMMA ConfirmedCharged ==
  ASSUME TypeOK, NEW u \in SessionIds, NEW ack \in SeqNos \cup {NoAck},
         NEW t \in SessionIds, NEW s \in SeqNos
  PROVE  /\ Confirmed(u, ack)[t][s].st \in {"pending", "confirmed"}
              <=> s \in Charged(t)
         /\ Confirmed(u, ack)[t][s].len = debit[t][s].len
         /\ debit' = Confirmed(u, ack) => (s \in Charged(t)' <=> s \in Charged(t))
<1>1. CASE debit[t][s].st # "pending"
  BY <1>1, ConfirmedKeeps DEF Charged
<1>2. CASE debit[t][s].st = "pending"
  <2>. DEFINE d == [debit[u][ack] EXCEPT !.st = "confirmed"]
  <2>1. Confirmed(u, ack) = debit
          \/ /\ ack \in SeqNos /\ Confirmed(u, ack) = [debit EXCEPT ![u][ack] = d]
             /\ debit[u][ack] \in Debit
    BY DEF Confirmed, TypeOK
  <2>2. debit[u][ack] \in Debit =>
          d.st = "confirmed" /\ d.len = debit[u][ack].len
    BY DEF Debit
  <2>. DEFINE e == Confirmed(u, ack)
  <2>. HIDE DEF d, e
  <2>3. DOMAIN debit = SessionIds /\ DOMAIN debit[u] = SeqNos
    BY DEF TypeOK
  <2>4. e[t][s] = debit[t][s] \/ (e[t][s] = d /\ t = u /\ s = ack /\ debit[u][ack] \in Debit)
    <3>1. CASE e = debit
      BY <3>1
    <3>2. CASE /\ e = [debit EXCEPT ![u][ack] = d]
               /\ debit[u][ack] \in Debit
      BY <2>3, <3>2, Zenon
    <3>. QED  BY <2>1, <3>1, <3>2 DEF e
  <2>5. e[t][s].st \in {"pending", "confirmed"} /\ e[t][s].len = debit[t][s].len
    BY <1>2, <2>2, <2>4
  <2>6. s \in Charged(t)
    BY <1>2 DEF Charged
  <2>7. debit' = e => s \in Charged(t)'
    BY <2>5 DEF Charged
  <2>. QED  BY <2>5, <2>6, <2>7 DEF e
<1>. QED  BY <1>1, <1>2

\* A rollback gives one message back for one charge it takes out.
LEMMA RollbackConserved ==
  ASSUME TypeInv, NEW u \in SessionIds, NEW s \in SeqNos,
         RollbackPending(u, s), NEW t \in SessionIds, ConservedAt(t)
  PROVE  ConservedAt(t)'
<1>. USE DEF TypeInv
<1>1. CASE debit[u][s].st # "pending"
  BY <1>1, SameConserved DEF RollbackPending, SameBudgets, Charged
<1>2. CASE debit[u][s].st = "pending"
  <2>. DEFINE r == sess[u]
              len == debit[u][s].len
              d == [debit[u][s] EXCEPT !.st = "refunded"]
              q == [r EXCEPT !.msg_remaining = Credited(@, 1),
                             !.bytes_remaining = Credited(@, len)]
  <2>1. sess' = [sess EXCEPT ![u] = q] /\ debit' = [debit EXCEPT ![u][s] = d]
    BY <1>2 DEF RollbackPending
  <2>2. r \in Session /\ debit[u][s] \in Debit
    BY DEF TypeOK
  <2>3. /\ q.params = r.params
        /\ q.msg_remaining = Credited(r.msg_remaining, 1)
        /\ q.bytes_remaining = Credited(r.bytes_remaining, len)
        /\ d.st = "refunded"
    BY <2>2 DEF Session, Debit
  <2>. HIDE DEF q, d
  <2>4. CASE t # u
    <3>1. sess'[t] = sess[t] /\ debit'[t] = debit[t]
      BY <2>1, <2>4 DEF TypeOK
    <3>. QED  BY <3>1, SameConserved DEF SameBudgets, Charged
  <2>5. CASE t = u
    <3>1. sess'[t] = q /\ debit'[t] = [debit[t] EXCEPT ![s] = d]
      BY <2>1, <2>5 DEF TypeOK
    <3>2. s \in Charged(t) /\ Charged(t)' = Charged(t) \ {s}
      BY <1>2, <2>3, <2>5, <3>1 DEF Charged, TypeOK
    <3>3. Cardinality(Charged(t)') = Cardinality(Charged(t)) - 1
      BY <3>2, ChargedFinite, FS_RemoveElement
    <3>4. r.msg_remaining \in Nat \cup {NoLimit}
          /\ r.params.max_messages \in Nat \cup {NoLimit}
          /\ r.bytes_remaining \in Nat \cup {NoLimit}
          /\ r.params.max_bytes \in Nat \cup {NoLimit}
      BY <2>2 DEF Session
    <3>5. /\ r.msg_remaining = NoLimit <=> r.params.max_messages = NoLimit
          /\ r.bytes_remaining = NoLimit <=> r.params.max_bytes = NoLimit
      BY DEF LimitsAgree
    <3>6. MessagesAt(t)'
      BY <2>3, <2>5, <3>1, <3>3, <3>4, <3>5, ChargedFinite
         DEF ConservedAt, MessagesAt, Credited
    <3>7. SumOver(Length(t), Charged(t))
            = len + SumOver(Length(t), Charged(t) \ {s})
      <4>1. \A k \in Charged(t) : Length(t)[k] \in Int
        BY DEF TypeOK, Charged, Length, Debit
      <4>2. Length(t)[s] = len
        BY <2>5 DEF Length
      <4>. HIDE DEF len
      <4>. QED  BY <3>2, <4>1, <4>2, ChargedFinite, SumTakesOut
    <3>8. SumOver(Length(t)', Charged(t)') = SumOver(Length(t), Charged(t)')
      <4>1. Charged(t)' \in SUBSET SeqNos /\ IsFiniteSet(Charged(t)')
        <5>1. Charged(t) \in SUBSET SeqNos
          BY DEF Charged
        <5>2. IsFiniteSet(Charged(t) \ {s})
          BY ChargedFinite, FS_RemoveElement
        <5>. QED  BY <3>2, <5>1, <5>2
      <4>2. \A k \in Charged(t)' : debit'[t][k].len = debit[t][k].len
        BY <3>1, <3>2 DEF TypeOK, Charged
      <4>. QED  BY <4>1, <4>2, SameLength
    <3>9. len \in Nat /\ SumOver(Length(t), Charged(t)) \in Nat
      BY <2>2, ChargedLength DEF Debit
    <3>10. SumOver(Length(t)', Charged(t)')
             = SumOver(Length(t), Charged(t) \ {s})
      BY <3>2, <3>8
    <3>11. SumOver(Length(t), Charged(t) \ {s}) \in Nat
      <4>1. \A k \in Charged(t) \ {s} : Length(t)[k] \in Nat
        BY DEF TypeOK, Charged, Length, Debit
      <4>2. IsFiniteSet(Charged(t) \ {s})
        BY <3>2, ChargedFinite, FS_RemoveElement
      <4>. QED  BY <4>1, <4>2, SumNat
    <3>. HIDE DEF len
    <3>12. BytesAt(t)'
      BY <2>3, <2>5, <3>1, <3>4, <3>5, <3>7, <3>9, <3>10, <3>11
         DEF ConservedAt, BytesAt, Credited
    <3>. QED  BY <3>6, <3>12 DEF ConservedAt
  <2>. QED  BY <2>4, <2>5
<1>. QED  BY <1>1, <1>2

\* consume takes one message out of the budget for the charge it enters.
LEMMA ForwardConserved ==
  ASSUME DebitInv, NEW a \in Agents, NEW u \in SessionIds,
         NEW ack \in SeqNos \cup {NoAck}, NEW len \in PayloadLens,
         ForwardData(a, u, ack, len), NEW t \in SessionIds, ConservedAt(t)
  PROVE  ConservedAt(t)'
<1>. USE DEF DebitInv, TypeInv
<1>. DEFINE r == sess[u]
            s == r.next_seq
            d == [st |-> "pending", to |-> Peer(u, a), len |-> len]
            q == [r EXCEPT !.next_seq = @ + 1,
                           !.msg_remaining = Debited(@, 1),
                           !.bytes_remaining = Debited(@, len)]
<1>1. /\ sess' = [sess EXCEPT ![u] = q]
      /\ debit' = [Confirmed(u, ack) EXCEPT ![u][s] = d]
      /\ s \in SeqNos
      /\ d.st = "pending"
  BY DEF ForwardData, Consume
<1>2. r \in Session
  BY DEF TypeOK
<1>3. /\ q.params = r.params
      /\ q.msg_remaining = Debited(r.msg_remaining, 1)
      /\ q.bytes_remaining = Debited(r.bytes_remaining, len)
      /\ d.len = len
  BY <1>2 DEF Session
<1>4. debit[u][s].st = "none"
  BY <1>1, BoundsAssumption DEF FreshSeq, SeqNos
<1>5. r \in Session /\ Confirmed(u, ack) \in [SessionIds -> [SeqNos -> Debit]]
  BY <1>2, ConfirmedType
<1>. HIDE DEF q, d, s
<1>6. CASE t # u
  <2>1. sess'[t] = sess[t] /\ debit'[t] = Confirmed(u, ack)[t]
    BY <1>1, <1>5, <1>6 DEF TypeOK
  <2>2. Charged(t)' = Charged(t)
    BY <2>1, ConfirmedCharged DEF Charged
  <2>3. \A k \in Charged(t) : debit'[t][k].len = debit[t][k].len
    BY <2>1, ConfirmedCharged DEF Charged
  <2>. QED  BY <2>1, <2>2, <2>3, SameConserved DEF SameBudgets
<1>7. CASE t = u
  <2>1. sess'[t] = q /\ debit'[t] = [Confirmed(u, ack)[t] EXCEPT ![s] = d]
    BY <1>1, <1>5, <1>7 DEF TypeOK
  <2>2. s \notin Charged(t)
    BY <1>4, <1>7 DEF Charged
  <2>3. \A k \in SeqNos : k \in Charged(t)' <=> (k \in Charged(t) \/ k = s)
    <3>. SUFFICES ASSUME NEW k \in SeqNos
                  PROVE  debit'[t][k].st \in {"pending", "confirmed"}
                           <=> (k \in Charged(t) \/ k = s)
      BY DEF Charged
    <3>1. CASE k = s
      BY <1>1, <1>5, <2>1, <3>1
    <3>2. CASE k # s
      <4>1. debit'[t][k] = Confirmed(u, ack)[t][k]
        BY <1>5, <2>1, <3>2
      <4>. QED  BY <3>2, <4>1, ConfirmedCharged
    <3>. QED  BY <3>1, <3>2
  <2>4. Charged(t)' = Charged(t) \cup {s}
    BY <1>1, <2>3 DEF Charged
  <2>5. Cardinality(Charged(t)') = Cardinality(Charged(t)) + 1
    BY <2>2, <2>4, ChargedFinite, FS_AddElement
  <2>6. r.msg_remaining \in Nat \cup {NoLimit}
        /\ r.params.max_messages \in Nat \cup {NoLimit}
        /\ r.bytes_remaining \in Nat \cup {NoLimit}
        /\ r.params.max_bytes \in Nat \cup {NoLimit}
    BY <1>2 DEF Session
  <2>7. /\ r.msg_remaining = NoLimit <=> r.params.max_messages = NoLimit
        /\ r.bytes_remaining = NoLimit <=> r.params.max_bytes = NoLimit
    BY DEF LimitsAgree
  <2>8. MessagesAt(t)'
    BY <1>3, <1>7, <2>1, <2>5, <2>6, <2>7, ChargedFinite
       DEF ConservedAt, MessagesAt, Debited
  <2>9. SumOver(Length(t)', Charged(t)')
          = len + SumOver(Length(t)', Charged(t))
    <3>1. \A k \in Charged(t)' : Length(t)'[k] \in Int
      <4>1. \A k \in SeqNos : debit'[t][k].len \in Nat
        BY <1>3, <1>5, <2>1, BoundsAssumption DEF Debit
      <4>. QED  BY <4>1 DEF Charged, Length
    <3>2. Length(t)'[s] = len
      BY <1>1, <1>3, <1>5, <2>1 DEF Length
    <3>3. IsFiniteSet(Charged(t)') /\ s \in Charged(t)'
          /\ Charged(t)' \ {s} = Charged(t)
      BY <2>2, <2>4, ChargedFinite, FS_AddElement
    <3>4. SumOver(Length(t)', Charged(t)')
            = Length(t)'[s] + SumOver(Length(t)', Charged(t)' \ {s})
      BY <3>1, <3>3, SumTakesOut
    <3>. QED  BY <3>2, <3>3, <3>4
  <2>10. SumOver(Length(t)', Charged(t)) = SumOver(Length(t), Charged(t))
    <3>1. \A k \in Charged(t) : debit'[t][k].len = debit[t][k].len
      <4>. SUFFICES ASSUME NEW k \in Charged(t)
                    PROVE  debit'[t][k].len = debit[t][k].len
        OBVIOUS
      <4>1. k \in SeqNos /\ k # s
        BY <2>2 DEF Charged
      <4>2. debit'[t][k] = Confirmed(u, ack)[t][k]
        BY <1>5, <2>1, <4>1
      <4>. QED  BY <4>1, <4>2, ConfirmedCharged
    <3>2. Charged(t) \in SUBSET SeqNos
      BY DEF Charged
    <3>. QED  BY <3>1, <3>2, ChargedFinite, SameLength
  <2>11. len \in Nat /\ SumOver(Length(t), Charged(t)) \in Nat
    BY ChargedLength, BoundsAssumption
  <2>12. BytesAt(t)'
    BY <1>3, <1>7, <2>1, <2>6, <2>7, <2>9, <2>10, <2>11
       DEF ConservedAt, BytesAt, Debited
  <2>. QED  BY <2>8, <2>12 DEF ConservedAt
<1>. QED  BY <1>6, <1>7

\* A bounced message costs nothing.
LEMMA BounceConserved ==
  ASSUME DebitInv, NEW a \in Agents, NEW u \in SessionIds,
         NEW ack \in SeqNos \cup {NoAck}, NEW len \in PayloadLens,
         BounceData(a, u, ack, len), NEW t \in SessionIds, ConservedAt(t)
  PROVE  ConservedAt(t)'
<1>. USE DEF DebitInv, TypeInv
<1>. DEFINE r == sess[u]
            s == r.next_seq
            d == [st |-> "refunded", to |-> Peer(u, a), len |-> len]
            q == [r EXCEPT !.next_seq = r.next_seq + 1]
<1>1. /\ sess' = [sess EXCEPT ![u] = q]
      /\ debit' = [Confirmed(u, ack) EXCEPT ![u][s] = d]
      /\ s \in SeqNos
      /\ d.st = "refunded"
  BY DEF BounceData
<1>2. r \in Session
  BY DEF TypeOK
<1>3. SameBudgets(r, q)
  BY <1>2 DEF Session, SameBudgets
<1>4. debit[u][s].st = "none"
  BY <1>1, BoundsAssumption DEF FreshSeq, SeqNos
<1>5. Confirmed(u, ack) \in [SessionIds -> [SeqNos -> Debit]]
  BY ConfirmedType
<1>. HIDE DEF q, d, s
<1>6. SameBudgets(sess[t], sess'[t])
  BY <1>1, <1>3 DEF SameBudgets, TypeOK
<1>7. ASSUME NEW k \in SeqNos
      PROVE  k \in Charged(t)' <=> k \in Charged(t)
  <2>1. CASE t = u /\ k = s
    BY <1>1, <1>4, <1>5, <2>1 DEF Charged
  <2>2. CASE ~(t = u /\ k = s)
    <3>1. debit'[t][k] = Confirmed(u, ack)[t][k]
      BY <1>1, <1>5, <2>2
    <3>. QED  BY <3>1, ConfirmedCharged DEF Charged
  <2>. QED  BY <2>1, <2>2
<1>8. Charged(t)' = Charged(t)
  BY <1>7 DEF Charged
<1>9. ASSUME NEW k \in Charged(t)
      PROVE  debit'[t][k].len = debit[t][k].len
  <2>1. k \in SeqNos /\ ~(t = u /\ k = s)
    BY <1>4 DEF Charged
  <2>2. debit'[t][k] = Confirmed(u, ack)[t][k]
    BY <1>1, <1>5, <2>1
  <2>. QED  BY <2>1, <2>2, ConfirmedCharged
<1>. QED  BY <1>6, <1>8, <1>9, SameConserved

\* Each action keeps what is left and what is charged in balance.
LEMMA ConservedStep ==
  ASSUME DebitInv, [Next]_vars, NEW t \in SessionIds, ConservedAt(t)
  PROVE  ConservedAt(t)'
<1>. USE DEF DebitInv, TypeInv
<1>1. ASSUME SameBudgets(sess[t], sess'[t]), debit' = debit
      PROVE  ConservedAt(t)'
  BY <1>1, SameConserved DEF Charged
<1>2. ASSUME SameBudgets(sess[t], sess'[t]),
             NEW u \in SessionIds, NEW ack \in SeqNos \cup {NoAck},
             debit' = Confirmed(u, ack)
      PROVE  ConservedAt(t)'
  <2>1. Charged(t)' = Charged(t)
    BY <1>2, ConfirmedCharged DEF Charged
  <2>2. \A s \in Charged(t) : debit'[t][s].len = debit[t][s].len
    BY <1>2, ConfirmedCharged DEF Charged
  <2>. QED  BY <1>2, <2>1, <2>2, SameConserved
<1>3. ASSUME NEW u \in SessionIds, NEW q, SameBudgets(sess[u], q),
             sess' = [sess EXCEPT ![u] = q]
      PROVE  SameBudgets(sess[t], sess'[t])
  BY <1>3 DEF SameBudgets, TypeOK
<1>4. ASSUME NEW u \in SessionIds, Teardown(u)
      PROVE  SameBudgets(sess[t], sess'[t])
  <2>1. \/ sess' = sess
        \/ sess' = [sess EXCEPT ![u] = [sess[u] EXCEPT !.state = "CLOSING"]]
    BY <1>4 DEF Teardown
  <2>2. sess[u] \in Session
    BY DEF TypeOK
  <2>3. SameBudgets(sess[u], [sess[u] EXCEPT !.state = "CLOSING"])
    BY <2>2, SessionUpdates
  <2>. QED  BY <1>3, <2>1, <2>3 DEF SameBudgets
<1>5. ASSUME NEW a \in Agents, NEW b \in Agents, NEW u \in SessionIds,
             NEW p \in Params, HandleRequest(a, b, u, p)
      PROVE  ConservedAt(t)'
  <2>. DEFINE q == NewSession(a, b, p)
  <2>1. sess' = [sess EXCEPT ![u] = q] /\ debit' = debit
    BY <1>5 DEF HandleRequest
  <2>2. CASE t # u
    BY <1>1, <2>1, <2>2 DEF SameBudgets, TypeOK
  <2>3. CASE t = u
    <3>1. \A s \in SeqNos : debit[u][s].st = "none"
      BY <1>5, BoundsAssumption
         DEF HandleRequest, IdleIsFresh, FreshSeq, SeqNos
    <3>2. Charged(t)' = {}
      BY <2>1, <2>3, <3>1 DEF Charged
    <3>3. /\ Cardinality(Charged(t)') = 0
          /\ SumOver(Length(t)', Charged(t)') = 0
      BY <3>2, FS_EmptySet, SumStep
    <3>4. /\ sess'[t].msg_remaining = p.max_messages
          /\ sess'[t].bytes_remaining = p.max_bytes
          /\ sess'[t].params = p
      BY <2>1, <2>3 DEF NewSession, TypeOK
    <3>5. p.max_messages \in Nat \cup {NoLimit}
          /\ p.max_bytes \in Nat \cup {NoLimit}
      BY ParamsAssumption
    <3>6. MessagesAt(t)' /\ BytesAt(t)'
      BY <3>3, <3>4, <3>5 DEF MessagesAt, BytesAt
    <3>. QED  BY <3>6 DEF ConservedAt
  <2>. QED  BY <2>2, <2>3
<1>6. ASSUME NEW b \in Agents, NEW u \in SessionIds, AcceptSession(b, u)
      PROVE  ConservedAt(t)'
  <2>1. sess' = [sess EXCEPT ![u] = [sess[u] EXCEPT !.state = "ACTIVE"]]
        /\ debit' = debit
    BY <1>6 DEF AcceptSession
  <2>2. sess[u] \in Session
    BY DEF TypeOK
  <2>3. SameBudgets(sess[u], [sess[u] EXCEPT !.state = "ACTIVE"])
    BY <2>2, SessionUpdates
  <2>. QED  BY <1>1, <1>3, <2>1, <2>3
<1>7. ASSUME NEW a \in Agents, NEW u \in SessionIds,
             HandleClose(a, u) \/ CloseNext(a, u)
      PROVE  ConservedAt(t)'
  BY <1>1, <1>4, <1>7 DEF HandleClose, CloseNext
<1>8. ASSUME NEW u \in SessionIds, ClockPassesExpiry(u)
      PROVE  ConservedAt(t)'
  <2>1. sess' = [sess EXCEPT ![u] = [sess[u] EXCEPT !.expired = TRUE]]
        /\ debit' = debit
    BY <1>8 DEF ClockPassesExpiry
  <2>2. sess[u] \in Session
    BY DEF TypeOK
  <2>3. SameBudgets(sess[u], [sess[u] EXCEPT !.expired = TRUE])
    BY <2>2, SessionUpdates
  <2>. QED  BY <1>1, <1>3, <2>1, <2>3
<1>9. ASSUME NEW a \in Agents, NEW u \in SessionIds,
             NEW ack \in SeqNos \cup {NoAck}, DropData(a, u, ack)
      PROVE  ConservedAt(t)'
  BY <1>2, <1>9 DEF DropData, SameBudgets
<1>10. ASSUME NEW a \in Agents, NEW u \in SessionIds,
              NEW ack \in SeqNos \cup {NoAck}, NEW len \in PayloadLens,
              RejectData(a, u, ack, len)
       PROVE  ConservedAt(t)'
  BY <1>2, <1>4, <1>10 DEF RejectData
<1>11. ASSUME NEW f \in inflight, SendFails(f)
       PROVE  ConservedAt(t)'
  <2>1. f.sid \in SessionIds /\ f.seq \in SeqNos
    BY DEF TypeOK, Handler
  <2>. QED  BY <1>11, <2>1, RollbackConserved DEF SendFails
<1>12. ASSUME NEW u \in SessionIds, NEW s \in SeqNos, DeliveryTimeout(u, s)
       PROVE  ConservedAt(t)'
  BY <1>1, <1>12, RollbackConserved DEF DeliveryTimeout, SameBudgets
<1>13. ASSUME \/ \E a \in Agents : Network(a)
              \/ \E b \in Agents, u \in SessionIds : RefuseSession(b, u)
              \/ \E f \in inflight : SendOk(f)
              \/ UNCHANGED vars
       PROVE  ConservedAt(t)'
  <2>1. sess' = sess /\ debit' = debit
    BY <1>13 DEF Network, Connect, ConnectionLost, LoopEnds, Deprovision,
                 DeprovisionSessions, Unregister, RefuseSession, SendOk, vars
  <2>. QED  BY <1>1, <2>1 DEF SameBudgets
<1>. QED
  BY <1>5, <1>6, <1>7, <1>8, <1>9, <1>10, <1>11, <1>12, <1>13,
     ForwardConserved, BounceConserved DEF Next, SetUp, Data

\* What a session was granted is what it has left plus what it is charged,
\* for every grant and any number of messages in flight.
LEMMA ConservedAlways == Spec => [](TypeOK /\ \A t \in SessionIds : ConservedAt(t))
<1>. DEFINE Conserved == \A t \in SessionIds : ConservedAt(t)
<1>1. Init => Conserved
  BY DEF Init, Unused, ConservedAt, MessagesAt, BytesAt
<1>2. DebitInv /\ Conserved /\ [Next]_vars => Conserved'
  BY ConservedStep
<1>3. DebitInv => TypeOK
  BY DEF DebitInv, TypeInv
<1>. QED  BY <1>1, <1>2, <1>3, DebitInvariant, PTL DEF Spec

\* Messages: whatever acks, timeouts, failed sends and teardowns do, no
\* message of the budget is created or lost.
THEOREM BudgetConserved == Spec => []MessageBudgetConserved
<1>1. (\A t \in SessionIds : ConservedAt(t)) => MessageBudgetConserved
  BY DEF ConservedAt, MessagesAt, MessageBudgetConserved
<1>. QED  BY <1>1, ConservedAlways, PTL

\* Bytes: a rollback gives back the length that consume reserved, so no byte
\* of the budget is created or lost either.
THEOREM BytesConserved == Spec => []ByteBudgetConserved
<1>1. ASSUME NEW t \in SessionIds
      PROVE  MapThenSumSet(LAMBDA s : debit[t][s].len, Charged(t))
               = SumOver(Length(t), Charged(t))
  <2>. DEFINE S == Charged(t)
              Body(g) == [T \in SUBSET S |->
                            IF T = {} THEN 0
                            ELSE debit[t][First(T)].len + g[T \ {First(T)}]]
              h == CHOOSE g : g = Body(g)
  <2>1. ASSUME NEW g
        PROVE  Body(g) = [T \in SUBSET S |-> Folded(g, Length(t), T)]
    <3>1. ASSUME NEW T \in SUBSET S
          PROVE  Body(g)[T] = Folded(g, Length(t), T)
      <4>1. CASE T = {}
        BY <4>1 DEF Folded
      <4>2. CASE T # {}
        <5>1. First(T) \in SeqNos
          BY <4>2, FirstIn DEF Charged
        <5>. QED  BY <4>2, <5>1 DEF Folded, Length
      <4>. QED  BY <4>1, <4>2
    <3>. QED  BY <3>1
  <2>2. \A g : g = Body(g) <=> IsTable(g, Length(t), S)
    BY <2>1, Zenon DEF IsTable
  <2>3. \E g : g = Body(g)
    BY <2>2, ChargedFinite, TableExists, Zenon
  <2>4. IsTable(h, Length(t), S)
    BY <2>2, <2>3, Zenon
  <2>5. MapThenSumSet(LAMBDA s : debit[t][s].len, Charged(t)) = h[S]
    BY DEF MapThenSumSet, MapThenFoldSet, First
  <2>. HIDE DEF h, S
  <2>6. S = Charged(t)
    BY DEF S
  <2>. QED  BY <2>4, <2>5, <2>6, ChargedFinite, SumOfTable
<1>2. (\A t \in SessionIds : ConservedAt(t)) => ByteBudgetConserved
  BY <1>1 DEF ConservedAt, BytesAt, ByteBudgetConserved
<1>. QED  BY <1>2, ConservedAlways, PTL

-----------------------------------------------------------------------------
(* Capacity.                                                               *)

Held == sessions \cup pending_notify

\* A request adds one to what is held; no other step adds anything.
LEMMA HeldStep ==
  ASSUME TypeOK, [Next]_vars
  PROVE  \/ Held' \subseteq Held
         \/ Load < MAX_CONCURRENT_SESSIONS /\ \E t \in SessionIds : Held' = Held \cup {t}
<1>. USE DEF Held
<1>1. ASSUME NEW a \in Agents, NEW b \in Agents, NEW t \in SessionIds, NEW p \in Params,
             HandleRequest(a, b, t, p)
      PROVE  Load < MAX_CONCURRENT_SESSIONS /\ Held' = Held \cup {t}
  BY <1>1 DEF HandleRequest
<1>2. ASSUME NEW b \in Agents, NEW t \in SessionIds, AcceptSession(b, t) \/ RefuseSession(b, t)
      PROVE  Held' \subseteq Held
  BY <1>2 DEF AcceptSession, RefuseSession
<1>3. ASSUME NEW a \in Agents, NEW t \in SessionIds, HandleClose(a, t) \/ CloseNext(a, t)
      PROVE  Held' \subseteq Held
  BY <1>3 DEF HandleClose, CloseNext, Teardown
<1>4. ASSUME NEW a \in Agents, NEW t \in SessionIds, Data(a, t)
      PROVE  Held' \subseteq Held
  BY <1>4 DEF Data, DropData, RejectData, ForwardData, BounceData, Teardown
<1>5. ASSUME \/ \E a \in Agents : Network(a)
             \/ \E t \in SessionIds : ClockPassesExpiry(t)
             \/ \E f \in inflight : SendOk(f) \/ SendFails(f)
             \/ \E t \in SessionIds, s \in SeqNos : DeliveryTimeout(t, s)
             \/ UNCHANGED vars
      PROVE  Held' = Held
  BY <1>5 DEF Network, Connect, ConnectionLost, LoopEnds, Deprovision, DeprovisionSessions,
              Unregister, ClockPassesExpiry, SendOk, SendFails, DeliveryTimeout, vars
<1>. QED  BY <1>1, <1>2, <1>3, <1>4, <1>5 DEF Next, SetUp

\* Sessions that are open or wait for their target never exceed the relay's
\* capacity, however many requests are accepted at once.
THEOREM CapacityKept == Spec => []CapacityRespected
<1>1. Init => CapacityRespected
  <2>1. Init => sessions \cup pending_notify = {}
    BY DEF Init
  <2>. QED  BY <2>1, FS_EmptySet, BoundsAssumption DEF CapacityRespected
<1>2. ASSUME TypeInv, CapacityRespected, [Next]_vars
      PROVE  CapacityRespected'
  <2>1. IsFiniteSet(sessions) /\ IsFiniteSet(pending_notify) /\ IsFiniteSet(Held)
    BY <1>2, BoundsAssumption, FS_Subset DEF TypeInv, TypeOK, Held
  <2>2. CASE Held' \subseteq Held
    <3>1. Cardinality(Held') <= Cardinality(Held) /\ IsFiniteSet(Held')
      BY <2>1, <2>2, FS_Subset
    <3>2. Cardinality(Held') \in Nat /\ Cardinality(Held) \in Nat
      BY <2>1, <3>1, FS_CardinalityType
    <3>. QED  BY <1>2, <3>1, <3>2, BoundsAssumption DEF CapacityRespected, Held
  <2>3. ASSUME Load < MAX_CONCURRENT_SESSIONS, NEW t \in SessionIds, Held' = Held \cup {t}
        PROVE  CapacityRespected'
    <3>1. Cardinality(sessions) \in Nat /\ Cardinality(pending_notify) \in Nat
          /\ Cardinality(Held) \in Nat
      BY <2>1, FS_CardinalityType
    <3>2. Cardinality(Held) = Cardinality(sessions) + Cardinality(pending_notify)
                                - Cardinality(sessions \cap pending_notify)
          /\ Cardinality(sessions \cap pending_notify) \in Nat
      BY <2>1, FS_Union, FS_Intersection, FS_CardinalityType DEF Held
    <3>3. Cardinality(Held) < MAX_CONCURRENT_SESSIONS
      BY <2>3, <3>1, <3>2, BoundsAssumption DEF Load
    <3>4. ASSUME NEW H, IsFiniteSet(H), Cardinality(H) \in Nat
          PROVE  Cardinality(H \cup {t}) \in {Cardinality(H), Cardinality(H) + 1}
      BY <3>4, FS_AddElement
    <3>5. Cardinality(Held') \in {Cardinality(Held), Cardinality(Held) + 1}
      <4>. HIDE DEF Held
      <4>. QED  BY <2>1, <2>3, <3>1, <3>4, Zenon
    <3>. QED  BY <3>1, <3>3, <3>5, BoundsAssumption DEF CapacityRespected, Held
  <2>. QED  BY <1>2, <2>2, <2>3, HeldStep DEF TypeInv
<1>. QED  BY TypeInvariant, <1>1, <1>2, PTL DEF Spec

-----------------------------------------------------------------------------
(* Who settles a debit.                                                    *)

St(t, s) == debit[t][s].st
Timed(t, s) == <<t, s>> \in delivery_tasks
Sending(t, s) == \E f \in inflight : f.sid = t /\ f.seq = s
Receipted(t, s) == \E i \in 1..Len(chain[t]) : chain[t][i].seq = s

\* Where a message stands: nothing exists for a number that was not given
\* out, a message that is being sent is charged and has neither timer nor
\* receipt, and a pending one of a live session is being sent or timed.
Account(t, s) ==
  /\ St(t, s) = "none" => ~Timed(t, s) /\ ~Receipted(t, s)
  /\ Sending(t, s) => /\ St(t, s) \in {"pending", "confirmed"}
                      /\ ~Timed(t, s)
                      /\ ~Receipted(t, s)
  /\ t \in sessions /\ St(t, s) = "pending" => Timed(t, s) \/ Sending(t, s)
  /\ t \in pending_notify => St(t, s) = "none"

\* No message is sent by two handlers.
OneHandler ==
  \A f, g \in inflight : f.sid = g.sid /\ f.seq = g.seq => f = g

OwnInv ==
  /\ DebitInv
  /\ \A t \in SessionIds, s \in SeqNos : Account(t, s)
  /\ OneHandler
  /\ ReceiptChainVerifies

\* A step that neither sends nor writes a receipt keeps a message's account
\* when it settles at most a pending debit by an ack, takes away no timer of
\* a debit it leaves pending in a live session, and opens none that is used.
Calm(t, s) ==
  /\ UNCHANGED <<inflight, chain>>
  /\ \/ debit'[t][s].st = St(t, s)
     \/ St(t, s) = "pending" /\ debit'[t][s].st = "confirmed"
  /\ Timed(t, s)' => Timed(t, s)
  /\ t \in sessions' => t \in sessions \/ St(t, s) = "none"
  /\ t \in pending_notify' => t \in pending_notify \/ St(t, s) = "none"
  /\ t \in sessions' /\ debit'[t][s].st = "pending" /\ Timed(t, s) => Timed(t, s)'

\* An account that a step does not touch stays balanced.
LEMMA CalmStep ==
  ASSUME NEW t \in SessionIds, NEW s \in SeqNos, Account(t, s), Calm(t, s)
  PROVE  Account(t, s)'
<1>1. Sending(t, s)' = Sending(t, s) /\ Receipted(t, s)' = Receipted(t, s)
  BY DEF Calm, Sending, Receipted
<1>. HIDE DEF Timed
<1>. QED  BY <1>1 DEF Calm, Account, St

\* An ack settles a pending debit, and stops no other timer.
LEMMA ConfirmedSt ==
  ASSUME TypeOK, NEW u \in SessionIds, NEW ack \in SeqNos \cup {NoAck},
         NEW t \in SessionIds, NEW s \in SeqNos
  PROVE  /\ \/ Confirmed(u, ack)[t][s].st = St(t, s)
            \/ St(t, s) = "pending" /\ Confirmed(u, ack)[t][s].st = "confirmed"
         /\ Confirmed(u, ack)[t][s].st = "pending" => <<t, s>> # <<u, ack>>
<1>1. CASE ack # NoAck /\ debit[u][ack].st = "pending"
  <2>. DEFINE d == [debit[u][ack] EXCEPT !.st = "confirmed"]
  <2>1. ack \in SeqNos /\ Confirmed(u, ack) = [debit EXCEPT ![u][ack] = d]
    BY <1>1 DEF Confirmed
  <2>2. debit[u][ack] \in Debit
    BY <2>1 DEF TypeOK
  <2>3. d.st = "confirmed"
    BY <2>2 DEF Debit
  <2>. HIDE DEF d
  <2>4. CASE t = u /\ s = ack
    BY <1>1, <2>1, <2>3, <2>4 DEF TypeOK, St
  <2>5. CASE ~(t = u /\ s = ack)
    BY <2>1, <2>5 DEF TypeOK, St
  <2>. QED  BY <2>4, <2>5
<1>2. CASE ~(ack # NoAck /\ debit[u][ack].st = "pending")
  BY <1>2, BoundsAssumption DEF Confirmed, St, SeqNos
<1>. QED  BY <1>1, <1>2

\* A teardown takes the session's timers with it and no others.
LEMMA TeardownTimed ==
  ASSUME NEW u \in SessionIds, Teardown(u), NEW t \in SessionIds, NEW s \in SeqNos
  PROVE  /\ Timed(t, s)' => Timed(t, s)
         /\ sessions' \subseteq sessions
         /\ t \in sessions' /\ Timed(t, s) => Timed(t, s)'
BY DEF Teardown, TasksOf, Timed

\* Set-up, teardown, connections and the clock are calm.
LEMMA SetUpCalm ==
  ASSUME OwnInv, NEW t \in SessionIds, NEW s \in SeqNos,
         \/ \E a \in Agents : Network(a)
         \/ \E a \in Agents, u \in SessionIds : SetUp(a, u)
         \/ \E u \in SessionIds : ClockPassesExpiry(u)
         \/ UNCHANGED vars
  PROVE  Calm(t, s)
<1>. USE DEF OwnInv
<1>1. ASSUME NEW a \in Agents, NEW b \in Agents, NEW u \in SessionIds,
             NEW p \in Params, HandleRequest(a, b, u, p)
      PROVE  Calm(t, s)
  <2>1. t = u => St(t, s) = "none"
    <3>1. sess[u].state = "IDLE"
      BY <1>1 DEF HandleRequest
    <3>2. s >= 1
      BY BoundsAssumption DEF SeqNos
    <3>. QED  BY <3>1, <3>2 DEF DebitInv, IdleIsFresh, FreshSeq, St
  <2>. QED  BY <1>1, <2>1 DEF HandleRequest, Calm, St, Timed
<1>2. ASSUME NEW b \in Agents, NEW u \in SessionIds, AcceptSession(b, u)
      PROVE  Calm(t, s)
  <2>1. t = u => St(t, s) = "none"
    BY <1>2 DEF AcceptSession, Account
  <2>. QED  BY <1>2, <2>1 DEF AcceptSession, Calm, St, Timed
<1>3. ASSUME NEW b \in Agents, NEW u \in SessionIds, RefuseSession(b, u)
      PROVE  Calm(t, s)
  BY <1>3 DEF RefuseSession, Calm, St, Timed
<1>4. ASSUME NEW a \in Agents, NEW u \in SessionIds,
             HandleClose(a, u) \/ CloseNext(a, u)
      PROVE  Calm(t, s)
  <2>1. /\ Teardown(u)
        /\ UNCHANGED <<debit, chain, pending_notify, inflight>>
    BY <1>4 DEF HandleClose, CloseNext
  <2>. QED  BY <2>1, TeardownTimed DEF Calm, St
<1>5. ASSUME \/ \E a \in Agents : Network(a)
             \/ \E u \in SessionIds : ClockPassesExpiry(u)
             \/ UNCHANGED vars
      PROVE  Calm(t, s)
  <2>1. UNCHANGED <<debit, chain, pending_notify, sessions, delivery_tasks, inflight>>
    BY <1>5 DEF Network, Connect, ConnectionLost, LoopEnds, Deprovision,
                DeprovisionSessions, Unregister, ClockPassesExpiry, vars
  <2>. QED  BY <2>1 DEF Calm, St, Timed
<1>. QED  BY <1>1, <1>2, <1>3, <1>4, <1>5 DEF SetUp

\* So are the data frames that are not sent on.
LEMMA AckCalm ==
  ASSUME OwnInv, NEW t \in SessionIds, NEW s \in SeqNos,
         NEW a \in Agents, NEW u \in SessionIds, NEW ack \in SeqNos \cup {NoAck},
         DropData(a, u, ack)
           \/ \E len \in PayloadLens : RejectData(a, u, ack, len)
  PROVE  Calm(t, s)
<1>. USE DEF OwnInv, DebitInv, TypeInv
<1>1. /\ \/ Confirmed(u, ack)[t][s].st = St(t, s)
         \/ St(t, s) = "pending" /\ Confirmed(u, ack)[t][s].st = "confirmed"
      /\ Confirmed(u, ack)[t][s].st = "pending" => <<t, s>> # <<u, ack>>
  BY ConfirmedSt
<1>2. CASE DropData(a, u, ack)
  BY <1>1, <1>2 DEF DropData, Calm, Timed
<1>3. CASE \E len \in PayloadLens : RejectData(a, u, ack, len)
  <2>1. /\ Teardown(u)
        /\ debit' = Confirmed(u, ack)
        /\ UNCHANGED <<chain, pending_notify, inflight>>
    BY <1>3 DEF RejectData
  <2>. QED  BY <1>1, <2>1, TeardownTimed DEF Calm
<1>. QED  BY <1>2, <1>3

\* Both frames that take a number find no debit under it, and their handler
\* or their refund is the only trace of it.
LEMMA SpendStep ==
  ASSUME OwnInv, NEW t \in SessionIds, NEW s \in SeqNos,
         NEW a \in Agents, NEW u \in SessionIds, NEW ack \in SeqNos \cup {NoAck},
         NEW len \in PayloadLens,
         ForwardData(a, u, ack, len) \/ BounceData(a, u, ack, len)
  PROVE  Account(t, s)'
<1>. USE DEF OwnInv, DebitInv, TypeInv
<1>. DEFINE k == sess[u].next_seq
<1>1. /\ k \in SeqNos
      /\ u \in sessions
      /\ delivery_tasks' = delivery_tasks \ {<<u, ack>>}
      /\ UNCHANGED <<chain, pending_notify, sessions>>
  BY DEF ForwardData, BounceData, Receives
<1>2. St(u, k) = "none"
  BY <1>1, BoundsAssumption DEF FreshSeq, St, SeqNos
<1>3. PICK d, h : /\ d.st \in {"pending", "refunded"}
                  /\ debit' = [Confirmed(u, ack) EXCEPT ![u][k] = d]
                  /\ h.sid = u /\ h.seq = k
                  /\ d.st = "pending" => inflight' = inflight \cup {h}
                  /\ d.st = "refunded" => inflight' = inflight
  <2>. DEFINE new(st) == [st |-> st, to |-> Peer(u, a), len |-> len]
              sending == [sid |-> u, seq |-> k, sender |-> a]
  <2>1. new("pending").st = "pending" /\ new("refunded").st = "refunded"
        /\ sending.sid = u /\ sending.seq = k
    OBVIOUS
  <2>2. \/ /\ debit' = [Confirmed(u, ack) EXCEPT ![u][k] = new("pending")]
           /\ inflight' = inflight \cup {sending}
        \/ /\ debit' = [Confirmed(u, ack) EXCEPT ![u][k] = new("refunded")]
           /\ inflight' = inflight
    BY DEF ForwardData, BounceData
  <2>. HIDE DEF new, sending, k
  <2>. QED  BY <2>1, <2>2
<1>. HIDE DEF k
<1>4. CASE t = u /\ s = k
  <2>1. debit'[t][s] = d
    BY <1>1, <1>3, <1>4, ConfirmedType
  <2>2. ~Timed(t, s)' /\ ~Receipted(t, s)'
    BY <1>1, <1>2, <1>4 DEF Account, Timed, Receipted
  <2>3. ~Sending(t, s)
    BY <1>2, <1>4 DEF Account
  <2>4. d.st = "pending" => Sending(t, s)'
    BY <1>3, <1>4 DEF Sending
  <2>5. d.st = "refunded" => ~Sending(t, s)'
    BY <1>3, <2>3 DEF Sending
  <2>6. t \notin pending_notify'
    BY <1>1, <1>4 DEF TablesAgree
  <2>. QED  BY <1>3, <2>1, <2>2, <2>4, <2>5, <2>6 DEF Account, St
<1>5. CASE ~(t = u /\ s = k)
  <2>1. debit'[t][s] = Confirmed(u, ack)[t][s]
    BY <1>1, <1>3, <1>5, ConfirmedType
  <2>2. /\ \/ Confirmed(u, ack)[t][s].st = St(t, s)
           \/ St(t, s) = "pending" /\ Confirmed(u, ack)[t][s].st = "confirmed"
        /\ Confirmed(u, ack)[t][s].st = "pending" => <<t, s>> # <<u, ack>>
    BY ConfirmedSt
  <2>3. Sending(t, s)' = Sending(t, s)
    BY <1>3, <1>5 DEF Sending
  <2>4. Receipted(t, s)' = Receipted(t, s)
    BY <1>1 DEF Receipted
  <2>5. Timed(t, s)' = (Timed(t, s) /\ <<t, s>> # <<u, ack>>)
    BY <1>1 DEF Timed
  <2>. QED  BY <1>1, <2>1, <2>2, <2>3, <2>4, <2>5, Zenon DEF Account, St
<1>. QED  BY <1>4, <1>5

\* The end of a send starts the timer and writes the receipt of a message
\* that had neither.
LEMMA SendOkStep ==
  ASSUME OwnInv, NEW f \in inflight, SendOk(f)
  PROVE  /\ \A t \in SessionIds, s \in SeqNos : Account(t, s)'
         /\ ReceiptChainVerifies'
<1>. USE DEF OwnInv, DebitInv, TypeInv
<1>. DEFINE u == f.sid
            k == f.seq
            r == Receipt(u, k)
<1>1. u \in SessionIds /\ k \in SeqNos
  BY DEF TypeOK, Handler
<1>2. /\ inflight' = inflight \ {f}
      /\ delivery_tasks' = delivery_tasks \cup {<<u, k>>}
      /\ chain' = [chain EXCEPT ![u] = Append(@, r)]
      /\ UNCHANGED <<debit, pending_notify, sessions>>
  BY DEF SendOk
<1>3. Sending(u, k) /\ ~Receipted(u, k) /\ St(u, k) # "none"
  BY <1>1 DEF Sending, Account
<1>4. r.seq = k /\ r.prev = Tip(u)
  BY DEF Receipt
<1>5. \A t \in SessionIds : Len(chain[t]) \in Nat /\ DOMAIN chain[t] = 1..Len(chain[t])
  BY DEF TypeOK
<1>. HIDE DEF r, u, k
<1>6. /\ Len(chain'[u]) = Len(chain[u]) + 1
      /\ \A i \in 1..Len(chain[u]) : chain'[u][i] = chain[u][i]
      /\ chain'[u][Len(chain[u]) + 1] = r
      /\ \A t \in SessionIds : t # u => chain'[t] = chain[t]
  BY <1>1, <1>2 DEF TypeOK
<1>7. ASSUME NEW t \in SessionIds, NEW s \in SeqNos
      PROVE  Account(t, s)'
  <2>1. CASE t = u /\ s = k
    <3>1. ~Sending(t, s)'
      BY <1>2, <2>1 DEF OneHandler, Sending, u, k
    <3>2. Timed(t, s)'
      BY <1>2, <2>1 DEF Timed
    <3>3. St(t, s)' = St(t, s)
      BY <1>2 DEF St
    <3>4. Account(t, s)
      OBVIOUS
    <3>. QED  BY <1>2, <1>3, <2>1, <3>1, <3>2, <3>3, <3>4, Zenon DEF Account
  <2>2. CASE ~(t = u /\ s = k)
    <3>1. Sending(t, s)' = Sending(t, s)
      BY <1>2, <2>2 DEF Sending, u, k
    <3>2. Timed(t, s)' = Timed(t, s)
      BY <1>2, <2>2 DEF Timed
    <3>3. Receipted(t, s)' = Receipted(t, s)
      <4>1. CASE t # u
        BY <1>6, <4>1 DEF Receipted
      <4>2. CASE t = u
        <5>1. \A i \in 1..(Len(chain[u]) + 1) :
                i \in 1..Len(chain[u]) \/ i = Len(chain[u]) + 1
          BY <1>1, <1>5
        <5>2. r.seq # s
          BY <1>4, <2>2, <4>2
        <5>3. 1..Len(chain[u]) \subseteq 1..(Len(chain[u]) + 1)
          BY <1>1, <1>5
        <5>. HIDE DEF r
        <5>. QED  BY <1>6, <4>2, <5>1, <5>2, <5>3 DEF Receipted
      <4>. QED  BY <4>1, <4>2
    <3>4. Account(t, s) /\ St(t, s)' = St(t, s)
      BY <1>2 DEF St
    <3>. QED  BY <1>2, <3>1, <3>2, <3>3, <3>4, Zenon DEF Account
  <2>. QED  BY <2>1, <2>2
<1>8. ReceiptChainVerifies'
  <2>. SUFFICES ASSUME NEW t \in SessionIds, NEW i \in 1..Len(chain'[t])
                PROVE  /\ chain'[t][i].prev = IF i = 1 THEN 0 ELSE chain'[t][i - 1].seq
                       /\ \A j \in 1..(i - 1) : chain'[t][j].seq # chain'[t][i].seq
    BY DEF ReceiptChainVerifies
  <2>1. CASE t # u
    BY <1>6, <2>1 DEF ReceiptChainVerifies
  <2>2. CASE t = u /\ i <= Len(chain[u])
    <3>1. i \in 1..Len(chain[u]) /\ \A j \in 1..(i - 1) : j \in 1..Len(chain[u])
      BY <1>1, <1>5, <1>6, <2>2
    <3>2. i # 1 => i - 1 \in 1..(i - 1)
      OBVIOUS
    <3>3. chain'[u][i] = chain[u][i]
          /\ \A j \in 1..(i - 1) : chain'[u][j] = chain[u][j]
      BY <1>6, <3>1
    <3>4. /\ chain[u][i].prev = IF i = 1 THEN 0 ELSE chain[u][i - 1].seq
          /\ \A j \in 1..(i - 1) : chain[u][j].seq # chain[u][i].seq
      BY <1>1, <3>1 DEF ReceiptChainVerifies
    <3>. QED  BY <2>2, <3>2, <3>3, <3>4
  <2>3. CASE t = u /\ i = Len(chain[u]) + 1
    <3>1. chain'[t][i] = r /\ \A j \in 1..(i - 1) : j \in 1..Len(chain[u])
      BY <1>1, <1>5, <1>6, <2>3
    <3>2. \A j \in 1..(i - 1) : chain'[t][j].seq # k
      BY <1>3, <1>6, <2>3, <3>1 DEF Receipted
    <3>3. Tip(u) = IF i = 1 THEN 0 ELSE chain[u][i - 1].seq
      BY <1>1, <1>5, <2>3 DEF Tip, TypeOK
    <3>4. i # 1 => i - 1 \in 1..(i - 1)
      BY <1>1, <1>5, <2>3
    <3>. QED  BY <1>4, <1>6, <2>3, <3>1, <3>2, <3>3, <3>4
  <2>. QED  BY <1>1, <1>5, <1>6, <2>1, <2>2, <2>3
<1>. QED  BY <1>7, <1>8

\* A rollback refunds the debit it is for if that is pending.
LEMMA RollbackSt ==
  ASSUME TypeOK, NEW u \in SessionIds, NEW k \in SeqNos, RollbackPending(u, k),
         NEW t \in SessionIds, NEW s \in SeqNos
  PROVE  debit'[t][s].st = IF t = u /\ s = k /\ St(u, k) = "pending"
                             THEN "refunded" ELSE St(t, s)
<1>1. CASE St(u, k) = "pending"
  <2>. DEFINE d == [debit[u][k] EXCEPT !.st = "refunded"]
  <2>1. debit' = [debit EXCEPT ![u][k] = d]
    BY <1>1 DEF RollbackPending, St
  <2>2. d.st = "refunded"
    BY DEF TypeOK, Debit
  <2>. HIDE DEF d
  <2>. QED  BY <1>1, <2>1, <2>2 DEF TypeOK, St
<1>2. CASE St(u, k) # "pending"
  BY <1>2 DEF RollbackPending, St
<1>. QED  BY <1>1, <1>2

\* A send that fails and a timer that fires settle the debit they own.
LEMMA RefundStep ==
  ASSUME OwnInv, NEW t \in SessionIds, NEW s \in SeqNos,
         \/ \E f \in inflight : SendFails(f)
         \/ \E u \in SessionIds, k \in SeqNos : DeliveryTimeout(u, k)
  PROVE  Account(t, s)'
<1>. USE DEF OwnInv, DebitInv, TypeInv
<1>0. Account(t, s)
  OBVIOUS
<1>1. ASSUME NEW f \in inflight, SendFails(f)
      PROVE  Account(t, s)'
  <2>1. f.sid \in SessionIds /\ f.seq \in SeqNos
    BY DEF TypeOK, Handler
  <2>2. /\ inflight' = inflight \ {f}
        /\ RollbackPending(f.sid, f.seq)
        /\ UNCHANGED <<chain, pending_notify, sessions, delivery_tasks>>
    BY <1>1 DEF SendFails
  <2>3. debit'[t][s].st = IF t = f.sid /\ s = f.seq /\ St(f.sid, f.seq) = "pending"
                            THEN "refunded" ELSE St(t, s)
    BY <2>1, <2>2, RollbackSt
  <2>4. Timed(t, s)' = Timed(t, s) /\ Receipted(t, s)' = Receipted(t, s)
    BY <2>2 DEF Timed, Receipted
  <2>5. CASE t = f.sid /\ s = f.seq
    <3>1. ~Sending(t, s)' /\ Sending(t, s)
      BY <2>2, <2>5 DEF OneHandler, Sending
    <3>. QED  BY <1>0, <2>2, <2>3, <2>4, <2>5, <3>1, Zenon DEF Account, St
  <2>6. CASE ~(t = f.sid /\ s = f.seq)
    <3>1. Sending(t, s)' = Sending(t, s)
      BY <2>2, <2>6 DEF Sending
    <3>. QED  BY <1>0, <2>2, <2>3, <2>4, <2>6, <3>1, Zenon DEF Account, St
  <2>. QED  BY <2>5, <2>6
<1>2. ASSUME NEW u \in SessionIds, NEW k \in SeqNos, DeliveryTimeout(u, k)
      PROVE  Account(t, s)'
  <2>1. /\ Timed(u, k)
        /\ delivery_tasks' = delivery_tasks \ {<<u, k>>}
        /\ UNCHANGED <<chain, pending_notify, sessions, inflight>>
        /\ IF u \in sessions THEN RollbackPending(u, k) ELSE UNCHANGED debit
    BY <1>2 DEF DeliveryTimeout, Timed
  <2>2. debit'[t][s].st = IF u \in sessions /\ t = u /\ s = k /\ St(u, k) = "pending"
                            THEN "refunded" ELSE St(t, s)
    BY <2>1, RollbackSt DEF St
  <2>3. Sending(t, s)' = Sending(t, s) /\ Receipted(t, s)' = Receipted(t, s)
    BY <2>1 DEF Sending, Receipted
  <2>4. Timed(t, s)' = (Timed(t, s) /\ ~(t = u /\ s = k))
    BY <2>1 DEF Timed
  <2>. QED  BY <1>0, <2>1, <2>2, <2>3, <2>4, Zenon DEF Account, St
<1>. QED  BY <1>1, <1>2

\* Handlers are only added under a number that no other one sends.
LEMMA OneHandlerStep ==
  ASSUME OwnInv, [Next]_vars
  PROVE  OneHandler'
<1>. USE DEF OwnInv, DebitInv, TypeInv
<1>1. ASSUME NEW a \in Agents, NEW u \in SessionIds, NEW ack \in SeqNos \cup {NoAck},
             NEW len \in PayloadLens, ForwardData(a, u, ack, len)
      PROVE  OneHandler'
  <2>. DEFINE k == sess[u].next_seq
              h == [sid |-> u, seq |-> k, sender |-> a]
  <2>1. k \in SeqNos /\ inflight' = inflight \cup {h}
    BY <1>1 DEF ForwardData
  <2>2. St(u, k) = "none"
    BY <2>1, BoundsAssumption DEF FreshSeq, St, SeqNos
  <2>3. h.sid = u /\ h.seq = k
    OBVIOUS
  <2>. HIDE DEF k, h
  <2>4. ~Sending(u, k)
    BY <2>1, <2>2 DEF Account
  <2>. QED  BY <2>1, <2>3, <2>4 DEF OneHandler, Sending
<1>2. ASSUME inflight' \subseteq inflight
      PROVE  OneHandler'
  BY <1>2 DEF OneHandler
<1>3. ASSUME NEW a \in Agents, NEW u \in SessionIds, NEW ack \in SeqNos \cup {NoAck},
             NEW len \in PayloadLens,
             DropData(a, u, ack) \/ RejectData(a, u, ack, len) \/ BounceData(a, u, ack, len)
      PROVE  inflight' \subseteq inflight
  BY <1>3 DEF DropData, RejectData, BounceData
<1>4. ASSUME NEW a \in Agents, NEW u \in SessionIds, NEW ack \in SeqNos \cup {NoAck},
             DropData(a, u, ack)
      PROVE  inflight' \subseteq inflight
  BY <1>4 DEF DropData
<1>5. ASSUME \/ \E a \in Agents : Network(a)
             \/ \E a \in Agents, u \in SessionIds : SetUp(a, u)
             \/ \E u \in SessionIds : ClockPassesExpiry(u)
             \/ \E f \in inflight : SendOk(f) \/ SendFails(f)
             \/ \E u \in SessionIds, k \in SeqNos : DeliveryTimeout(u, k)
             \/ UNCHANGED vars
      PROVE  inflight' \subseteq inflight
  BY <1>5 DEF Network, Connect, ConnectionLost, LoopEnds, Deprovision,
              DeprovisionSessions, Unregister, SetUp, HandleRequest, AcceptSession,
              RefuseSession, HandleClose, CloseNext, ClockPassesExpiry, SendOk,
              SendFails, DeliveryTimeout, vars
<1>. QED  BY <1>1, <1>2, <1>3, <1>4, <1>5 DEF Next, Data

\* Every step keeps every account.
LEMMA AccountStep ==
  ASSUME OwnInv, [Next]_vars, NEW t \in SessionIds, NEW s \in SeqNos
  PROVE  Account(t, s)'
<1>0. Account(t, s)
  BY DEF OwnInv
<1>1. ASSUME \/ \E a \in Agents : Network(a)
             \/ \E a \in Agents, u \in SessionIds : SetUp(a, u)
             \/ \E u \in SessionIds : ClockPassesExpiry(u)
             \/ UNCHANGED vars
      PROVE  Account(t, s)'
  BY <1>0, <1>1, SetUpCalm, CalmStep
<1>2. ASSUME NEW a \in Agents, NEW u \in SessionIds, Data(a, u)
      PROVE  Account(t, s)'
  <2>1. PICK ack \in SeqNos \cup {NoAck} :
          \/ DropData(a, u, ack)
          \/ \E len \in PayloadLens :
               \/ RejectData(a, u, ack, len)
               \/ ForwardData(a, u, ack, len)
               \/ BounceData(a, u, ack, len)
    BY <1>2 DEF Data
  <2>2. CASE DropData(a, u, ack) \/ \E len \in PayloadLens : RejectData(a, u, ack, len)
    BY <1>0, <2>2, AckCalm, CalmStep
  <2>. QED  BY <2>1, <2>2, SpendStep
<1>3. ASSUME \/ \E f \in inflight : SendFails(f)
             \/ \E u \in SessionIds, k \in SeqNos : DeliveryTimeout(u, k)
      PROVE  Account(t, s)'
  BY <1>3, RefundStep
<1>4. ASSUME NEW f \in inflight, SendOk(f)
      PROVE  Account(t, s)'
  BY <1>4, SendOkStep
<1>. QED  BY <1>1, <1>2, <1>3, <1>4 DEF Next

\* Only the end of a send writes a receipt.
LEMMA ChainStep ==
  ASSUME OwnInv, [Next]_vars
  PROVE  ReceiptChainVerifies'
<1>0. ASSUME NEW a \in Agents, NEW u \in SessionIds, SetUp(a, u)
      PROVE  chain' = chain
  BY <1>0 DEF SetUp, HandleRequest, AcceptSession, RefuseSession, HandleClose, CloseNext
<1>1. ASSUME NEW a \in Agents, NEW u \in SessionIds, Data(a, u)
      PROVE  chain' = chain
  <2>1. PICK ack : DropData(a, u, ack) \/ \E len \in PayloadLens :
                     \/ RejectData(a, u, ack, len)
                     \/ ForwardData(a, u, ack, len)
                     \/ BounceData(a, u, ack, len)
    BY <1>1 DEF Data
  <2>. QED  BY <2>1 DEF DropData, RejectData, ForwardData, BounceData
<1>3. ASSUME \/ \E a \in Agents : Network(a)
             \/ \E u \in SessionIds : ClockPassesExpiry(u)
             \/ \E f \in inflight : SendFails(f)
             \/ \E u \in SessionIds, k \in SeqNos : DeliveryTimeout(u, k)
             \/ UNCHANGED vars
      PROVE  chain' = chain
  BY <1>3 DEF Network, Connect, ConnectionLost, LoopEnds, Deprovision,
              DeprovisionSessions, Unregister, ClockPassesExpiry, SendFails,
              DeliveryTimeout, vars
<1>2. chain' = chain => ReceiptChainVerifies'
  BY DEF OwnInv, ReceiptChainVerifies
<1>. QED  BY <1>0, <1>1, <1>2, <1>3, SendOkStep DEF Next

\* The invariant of the relay alone, over all runs.
LEMMA OwnInvariant == Spec => []OwnInv
<1>1. Init => OwnInv
  <2>. SUFFICES ASSUME Init PROVE OwnInv
    OBVIOUS
  <2>1. DebitInv
    BY TypeInvInit DEF Init, DebitInv, FreshSeq, IdleIsFresh, TablesAgree,
       Unused, NoDebit
  <2>2. ASSUME NEW t \in SessionIds, NEW s \in SeqNos
        PROVE  Account(t, s)
    <3>1. St(t, s) = "none"
      BY DEF Init, NoDebit, St
    <3>2. ~Timed(t, s) /\ ~Sending(t, s)
      BY DEF Init, Timed, Sending
    <3>3. chain[t] = <<>>
      BY DEF Init
    <3>4. ~Receipted(t, s)
      BY <3>3 DEF Receipted
    <3>. QED  BY <3>1, <3>2, <3>4 DEF Account
  <2>3. OneHandler /\ ReceiptChainVerifies
    BY DEF Init, OneHandler, ReceiptChainVerifies
  <2>. QED  BY <2>1, <2>2, <2>3 DEF OwnInv
<1>2. DebitInv' /\ OwnInv /\ [Next]_vars => OwnInv'
  BY AccountStep, OneHandlerStep, ChainStep DEF OwnInv
<1>. QED  BY DebitInvariant, <1>1, <1>2, PTL DEF Spec

\* However acks, timers, failing sends, teardowns and the frames of the two
\* directions interleave, a pending debit of a live session has somebody who
\* settles it, and nobody but its handler does while its message is sent.
THEOREM DebitOwned == Spec => []DebitsAreOwned
<1>1. OwnInv => DebitsAreOwned
  <2>. SUFFICES ASSUME OwnInv PROVE DebitsAreOwned
    OBVIOUS
  <2>1. TypeOK /\ \A t \in SessionIds, s \in SeqNos : Account(t, s)
    BY DEF OwnInv, DebitInv, TypeInv
  <2>2. PendingDebitHasOwner
    BY <2>1 DEF PendingDebitHasOwner, Account, St, Timed, Sending, TypeOK
  <2>3. ASSUME NEW f \in inflight
        PROVE  /\ f.seq \in Charged(f.sid)
               /\ <<f.sid, f.seq>> \notin delivery_tasks
               /\ \A i \in 1..Len(chain[f.sid]) : chain[f.sid][i].seq # f.seq
    <3>1. f.sid \in SessionIds /\ f.seq \in SeqNos
      BY <2>1 DEF TypeOK, Handler
    <3>2. Account(f.sid, f.seq) /\ Sending(f.sid, f.seq)
      BY <2>1, <3>1 DEF Sending
    <3>3. /\ St(f.sid, f.seq) \in {"pending", "confirmed"}
          /\ ~Timed(f.sid, f.seq)
          /\ ~Receipted(f.sid, f.seq)
      BY <3>2 DEF Account
    <3>. QED  BY <3>1, <3>3 DEF Charged, St, Timed, Receipted
  <2>. QED  BY <2>2, <2>3 DEF DebitsAreOwned, SendingIsCharged
<1>. QED  BY <1>1, OwnInvariant, PTL

\* The receipts of a session form one chain without repetition, in whatever
\* order its sends complete.
THEOREM ChainVerifies == Spec => []ReceiptChainVerifies
<1>1. OwnInv => ReceiptChainVerifies
  BY DEF OwnInv
<1>. QED  BY <1>1, OwnInvariant, PTL

-----------------------------------------------------------------------------
(* The relay implements the escrow.                                        *)

Phase(t) == EscrowPhase(sess[t].state)
Available(t) == sess[t].msg_remaining

\* The phase of a session in each of its states.
LEMMA Phases ==
  /\ EscrowPhase("IDLE") = "new"
  /\ EscrowPhase("NOTIFYING") = "asked"
  /\ EscrowPhase("ACTIVE") = "open"
  /\ EscrowPhase("CLOSING") = "closed"
BY DEF EscrowPhase

\* What the escrow sees of a session that a step leaves alone.
Unmoved(t) ==
  /\ Phase(t)' = Phase(t)
  /\ Available(t)' = Available(t)
  /\ \A s \in SeqNos : St(t, s)' = St(t, s)

\* A step the escrow does not see.
LEMMA EscrowStutters ==
  ASSUME \A t \in SessionIds : Unmoved(t)
  PROVE  UNCHANGED <<[sid \in SessionIds |-> EscrowPhase(sess[sid].state)],
                     [sid \in SessionIds |-> sess[sid].msg_remaining],
                     [sid \in SessionIds |-> [s \in SeqNos |-> debit[sid][s].st]]>>
BY DEF Unmoved, Phase, Available, St

Taken(u) == {s \in SeqNos : St(u, s) = "none" /\ St(u, s)' = "pending"}
Returned(u) == {s \in SeqNos : St(u, s) = "pending" /\ St(u, s)' = "refunded"}

\* A step that moves one session as the escrow allows.
Moved(u) ==
  /\ \A t \in SessionIds \ {u} : Unmoved(t)
  /\ \A s \in SeqNos : St(u, s)' \in Escrow!MayBecome(St(u, s))
  /\ Phase(u)' \in IF Phase(u) = "open" THEN {"open", "closed"} ELSE {Phase(u)}
  /\ Taken(u) # {} => Phase(u)' = "open"
  /\ Available(u) # NoLimit => Cardinality(Taken(u)) <= Available(u)
  /\ Available(u)' = IF Available(u) = NoLimit THEN NoLimit
                     ELSE Available(u) - Cardinality(Taken(u)) + Cardinality(Returned(u))

\* What moves between the accounts of a session is a move of the escrow.
LEMMA EscrowMoves ==
  ASSUME NEW u \in SessionIds, Moved(u)
  PROVE  Escrow!Move(u)
<1>. DEFINE P == [sid \in SessionIds |-> EscrowPhase(sess[sid].state)]
            A == [sid \in SessionIds |-> sess[sid].msg_remaining]
            H == [sid \in SessionIds |-> [s \in SeqNos |-> debit[sid][s].st]]
<1>1. P' = [P EXCEPT ![u] = P'[u]]
  BY DEF Moved, Unmoved, Phase
<1>2. A' = [A EXCEPT ![u] = A'[u]]
  BY DEF Moved, Unmoved, Available
<1>3. H' = [H EXCEPT ![u] = H'[u]]
  BY DEF Moved, Unmoved, St
<1>4. /\ P[u] = Phase(u) /\ P'[u] = Phase(u)'
      /\ A[u] = Available(u) /\ A'[u] = Available(u)'
      /\ \A s \in SeqNos : H[u][s] = St(u, s) /\ H'[u][s] = St(u, s)'
  BY DEF Phase, Available, St
<1>5. /\ {s \in SeqNos : H[u][s] = "none" /\ H'[u][s] = "pending"} = Taken(u)
      /\ {s \in SeqNos : H[u][s] = "pending" /\ H'[u][s] = "refunded"} = Returned(u)
  BY <1>4 DEF Taken, Returned
<1>. HIDE DEF P, A, H
<1>6. A' = [A EXCEPT ![u] = IF @ = NoLimit THEN NoLimit
                            ELSE @ - Cardinality(Taken(u)) + Cardinality(Returned(u))]
  BY <1>2, <1>4 DEF Moved
<1>7. \A S : Escrow!Cardinality(S) = Cardinality(S)
  BY DEF Cardinality, Escrow!Cardinality
<1>. QED
  <2>1. /\ \A h \in SeqNos : H'[u][h] \in Escrow!MayBecome(H[u][h])
        /\ P'[u] \in IF P[u] = "open" THEN {"open", "closed"} ELSE {P[u]}
        /\ Taken(u) # {} => P'[u] = "open"
        /\ A[u] # NoLimit => Cardinality(Taken(u)) <= A[u]
    BY <1>4 DEF Moved
  <2>. QED  BY <1>1, <1>3, <1>5, <1>6, <1>7, <2>1, Zenon DEF Escrow!Move, P, A, H

\* A step that takes nothing and returns nothing.
LEMMA KeptMoves ==
  ASSUME TypeOK, NEW u \in SessionIds,
         \A t \in SessionIds \ {u} : Unmoved(t),
         \A s \in SeqNos : \/ St(u, s)' = St(u, s)
                           \/ St(u, s) = "pending" /\ St(u, s)' = "confirmed"
                           \/ St(u, s) = "none" /\ St(u, s)' = "refunded",
         Phase(u)' \in IF Phase(u) = "open" THEN {"open", "closed"} ELSE {Phase(u)},
         Available(u)' = Available(u)
  PROVE  Moved(u)
<1>1. \A s \in SeqNos : St(u, s) \in DebitStates
  BY DEF TypeOK, Debit, St
<1>2. \A s \in SeqNos : St(u, s)' \in Escrow!MayBecome(St(u, s))
  BY <1>1 DEF Escrow!MayBecome, DebitStates
<1>3. Taken(u) = {} /\ Returned(u) = {}
  BY DEF Taken, Returned
<1>4. Cardinality(Taken(u)) = 0 /\ Cardinality(Returned(u)) = 0
  BY <1>3, FS_EmptySet
<1>5. Available(u) \in Nat \cup {NoLimit}
  BY DEF TypeOK, Session, Available
<1>. QED  BY <1>2, <1>3, <1>4, <1>5 DEF Moved

\* An ack reaches one session, and settles at most a pending debit.
LEMMA ConfirmedReach ==
  ASSUME TypeOK, NEW u \in SessionIds, NEW ack \in SeqNos \cup {NoAck},
         NEW t \in SessionIds, t # u
  PROVE  Confirmed(u, ack)[t] = debit[t]
BY DEF Confirmed, TypeOK

\* A teardown closes a session that is open, and touches no budget.
LEMMA TeardownReach ==
  ASSUME TypeOK, TablesAgree, NEW u \in SessionIds, Teardown(u)
  PROVE  /\ \A t \in SessionIds \ {u} : sess'[t] = sess[t]
         /\ Phase(u)' \in IF Phase(u) = "open" THEN {"open", "closed"} ELSE {Phase(u)}
         /\ Available(u)' = Available(u)
<1>1. CASE u \in sessions
  <2>. DEFINE q == [sess[u] EXCEPT !.state = "CLOSING"]
  <2>1. sess' = [sess EXCEPT ![u] = q] /\ sess[u].state = "ACTIVE"
    BY <1>1 DEF Teardown, TablesAgree
  <2>2. sess[u] \in Session
    BY DEF TypeOK
  <2>3. q.state = "CLOSING" /\ q.msg_remaining = sess[u].msg_remaining
    BY <2>2 DEF Session
  <2>. HIDE DEF q
  <2>4. sess'[u] = q /\ \A t \in SessionIds \ {u} : sess'[t] = sess[t]
    BY <2>1 DEF TypeOK
  <2>. QED  BY <2>1, <2>3, <2>4, Phases DEF Phase, Available
<1>2. CASE u \notin sessions
  BY <1>2 DEF Teardown, Phase, Available
<1>. QED  BY <1>1, <1>2

\* Teardown, with or without an ack, is a move of the escrow.
LEMMA TeardownMoves ==
  ASSUME OwnInv, NEW u \in SessionIds, NEW ack \in SeqNos \cup {NoAck},
         Teardown(u), debit' = debit \/ debit' = Confirmed(u, ack)
  PROVE  Moved(u)
<1>. USE DEF OwnInv, DebitInv, TypeInv
<1>1. \A t \in SessionIds \ {u} : Unmoved(t)
  <2>1. \A t \in SessionIds \ {u} : debit'[t] = debit[t] /\ sess'[t] = sess[t]
    BY TeardownReach, ConfirmedReach
  <2>. QED  BY <2>1 DEF Unmoved, Phase, Available, St
<1>2. \A s \in SeqNos : \/ St(u, s)' = St(u, s)
                        \/ St(u, s) = "pending" /\ St(u, s)' = "confirmed"
  BY ConfirmedSt DEF St
<1>. QED  BY <1>1, <1>2, TeardownReach, KeptMoves

\* So is an ack alone.
LEMMA AckMoves ==
  ASSUME OwnInv, NEW u \in SessionIds, NEW ack \in SeqNos \cup {NoAck},
         sess' = sess, debit' = Confirmed(u, ack)
  PROVE  Moved(u)
<1>. USE DEF OwnInv, DebitInv, TypeInv
<1>1. \A t \in SessionIds \ {u} : Unmoved(t)
  BY ConfirmedReach DEF Unmoved, Phase, Available, St
<1>2. \A s \in SeqNos : \/ St(u, s)' = St(u, s)
                        \/ St(u, s) = "pending" /\ St(u, s)' = "confirmed"
  BY ConfirmedSt DEF St
<1>3. /\ Phase(u)' \in IF Phase(u) = "open" THEN {"open", "closed"} ELSE {Phase(u)}
      /\ Available(u)' = Available(u)
  BY DEF Phase, Available
<1>. QED  BY <1>1, <1>2, <1>3, KeptMoves

\* A rollback returns one message, or nothing.
LEMMA RollbackMoves ==
  ASSUME TypeOK, NEW u \in SessionIds, NEW k \in SeqNos, RollbackPending(u, k)
  PROVE  Moved(u) \/ \A t \in SessionIds : Unmoved(t)
<1>1. CASE St(u, k) # "pending"
  BY <1>1 DEF RollbackPending, Unmoved, Phase, Available, St
<1>2. CASE St(u, k) = "pending"
  <2>. DEFINE r == sess[u]
              q == [r EXCEPT !.msg_remaining = Credited(@, 1),
                             !.bytes_remaining = Credited(@, debit[u][k].len)]
  <2>1. sess' = [sess EXCEPT ![u] = q]
    BY <1>2 DEF RollbackPending, St
  <2>2. r \in Session
    BY DEF TypeOK
  <2>3. q.state = r.state /\ q.msg_remaining = Credited(r.msg_remaining, 1)
    BY <2>2 DEF Session
  <2>. HIDE DEF q
  <2>4. sess'[u] = q /\ \A t \in SessionIds \ {u} : sess'[t] = sess[t]
    BY <2>1 DEF TypeOK
  <2>5. \A t \in SessionIds, s \in SeqNos :
          St(t, s)' = IF t = u /\ s = k THEN "refunded" ELSE St(t, s)
    BY <1>2, RollbackSt DEF St
  <2>6. \A t \in SessionIds \ {u} : Unmoved(t)
    BY <2>4, <2>5 DEF Unmoved, Phase, Available
  <2>7. \A s \in SeqNos : St(u, s)' \in Escrow!MayBecome(St(u, s))
    <3>1. \A s \in SeqNos : St(u, s) \in DebitStates
      BY DEF TypeOK, Debit, St
    <3>. QED  BY <1>2, <2>5, <3>1 DEF Escrow!MayBecome, DebitStates
  <2>8. Taken(u) = {} /\ Returned(u) = {k}
    BY <1>2, <2>5 DEF Taken, Returned
  <2>9. Cardinality(Taken(u)) = 0 /\ Cardinality(Returned(u)) = 1
    BY <2>8, FS_EmptySet, FS_Singleton
  <2>10. Available(u) \in Nat \cup {NoLimit}
         /\ Available(u)' = Credited(Available(u), 1)
         /\ Phase(u)' = Phase(u)
    BY <2>2, <2>3, <2>4 DEF Session, Available, Phase
  <2>. QED  BY <2>6, <2>7, <2>8, <2>9, <2>10 DEF Moved, Credited
<1>. QED  BY <1>1, <1>2

\* A frame that is sent on takes one message, a bounced one nothing, and the
\* ack it carries settles another.
LEMMA SpendMoves ==
  ASSUME OwnInv, NEW a \in Agents, NEW u \in SessionIds,
         NEW ack \in SeqNos \cup {NoAck}, NEW len \in PayloadLens,
         ForwardData(a, u, ack, len) \/ BounceData(a, u, ack, len)
  PROVE  Moved(u)
<1>. USE DEF OwnInv, DebitInv, TypeInv
<1>. DEFINE r == sess[u]
<1>0. PICK k \in SeqNos : k = r.next_seq
  BY DEF ForwardData, BounceData
<1>1. r \in Session /\ r.state = "ACTIVE" /\ Affordable(u, len)
  BY DEF ForwardData, BounceData, Receives, TablesAgree, TypeOK
<1>2. St(u, k) = "none"
  BY <1>0, BoundsAssumption DEF FreshSeq, St, SeqNos
<1>3. PICK d, n : /\ debit' = [Confirmed(u, ack) EXCEPT ![u][k] = d]
                  /\ \/ d.st = "pending" /\ n = Debited(r.msg_remaining, 1)
                     \/ d.st = "refunded" /\ n = r.msg_remaining
                  /\ sess'[u].state = r.state
                  /\ sess'[u].msg_remaining = n
                  /\ \A t \in SessionIds \ {u} : sess'[t] = sess[t]
  <2>1. CASE ForwardData(a, u, ack, len)
    <3>. DEFINE d == [st |-> "pending", to |-> Peer(u, a), len |-> len]
                q == [r EXCEPT !.next_seq = @ + 1,
                               !.msg_remaining = Debited(@, 1),
                               !.bytes_remaining = Debited(@, len)]
    <3>1. /\ debit' = [Confirmed(u, ack) EXCEPT ![u][k] = d]
          /\ sess' = [sess EXCEPT ![u] = q]
          /\ d.st = "pending"
      BY <1>0, <2>1 DEF ForwardData, Consume
    <3>2. q.state = r.state /\ q.msg_remaining = Debited(r.msg_remaining, 1)
      BY <1>1 DEF Session
    <3>. HIDE DEF d, q
    <3>3. sess'[u] = q /\ \A t \in SessionIds \ {u} : sess'[t] = sess[t]
      BY <3>1 DEF TypeOK
    <3>. QED  BY <3>1, <3>2, <3>3
  <2>2. CASE BounceData(a, u, ack, len)
    <3>. DEFINE d == [st |-> "refunded", to |-> Peer(u, a), len |-> len]
                q == [r EXCEPT !.next_seq = @ + 1]
    <3>1. /\ debit' = [Confirmed(u, ack) EXCEPT ![u][k] = d]
          /\ sess' = [sess EXCEPT ![u] = q]
          /\ d.st = "refunded"
      BY <1>0, <2>2 DEF BounceData
    <3>2. q.state = r.state /\ q.msg_remaining = r.msg_remaining
      BY <1>1 DEF Session
    <3>. HIDE DEF d, q
    <3>3. sess'[u] = q /\ \A t \in SessionIds \ {u} : sess'[t] = sess[t]
      BY <3>1 DEF TypeOK
    <3>. QED  BY <3>1, <3>2, <3>3
  <2>. QED  BY <2>1, <2>2
<1>4. debit'[u][k] = d /\ \A t \in SessionIds, s \in SeqNos :
                            t # u \/ s # k => debit'[t][s] = Confirmed(u, ack)[t][s]
  BY <1>1, <1>3, ConfirmedType
<1>5. \A t \in SessionIds \ {u} : Unmoved(t)
  BY <1>3, <1>4, ConfirmedReach DEF Unmoved, Phase, Available, St
<1>6. \A s \in SeqNos : s # k => \/ St(u, s)' = St(u, s)
                                 \/ St(u, s) = "pending" /\ St(u, s)' = "confirmed"
  BY <1>4, ConfirmedSt DEF St
<1>7. St(u, k)' = d.st /\ Phase(u)' = Phase(u) /\ Phase(u) = "open"
      /\ Available(u)' = n
  BY <1>1, <1>3, <1>4, Phases DEF St, Phase, Available
<1>8. CASE d.st = "refunded"
  <2>1. Available(u)' = Available(u)
    BY <1>3, <1>7, <1>8 DEF Available
  <2>. QED  BY <1>2, <1>5, <1>6, <1>7, <1>8, <2>1, KeptMoves
<1>9. CASE d.st = "pending"
  <2>1. Taken(u) = {k} /\ Returned(u) = {}
    BY <1>1, <1>2, <1>6, <1>7, <1>9 DEF Taken, Returned
  <2>2. Cardinality(Taken(u)) = 1 /\ Cardinality(Returned(u)) = 0
    BY <2>1, FS_EmptySet, FS_Singleton
  <2>3. \A s \in SeqNos : St(u, s)' \in Escrow!MayBecome(St(u, s))
    <3>1. \A s \in SeqNos : St(u, s) \in DebitStates
      BY DEF TypeOK, Debit, St
    <3>. QED  BY <1>2, <1>6, <1>7, <1>9, <3>1 DEF Escrow!MayBecome, DebitStates
  <2>4. Available(u) \in Nat \cup {NoLimit}
        /\ (Available(u) # NoLimit => 1 <= Available(u))
        /\ Available(u)' = Debited(Available(u), 1)
    BY <1>1, <1>3, <1>7, <1>9 DEF Session, Available, Affordable
  <2>. QED  BY <1>5, <1>7, <2>1, <2>2, <2>3, <2>4 DEF Moved, Debited
<1>. QED  BY <1>3, <1>8, <1>9

\* A request asks for a budget, an accept opens the session.
LEMMA RequestAsks ==
  ASSUME TypeOK, NEW a \in Agents, NEW b \in Agents, NEW u \in SessionIds,
         NEW p \in Params, HandleRequest(a, b, u, p)
  PROVE  Escrow!Ask(u)
<1>. DEFINE P == [sid \in SessionIds |-> EscrowPhase(sess[sid].state)]
            A == [sid \in SessionIds |-> sess[sid].msg_remaining]
            H == [sid \in SessionIds |-> [s \in SeqNos |-> debit[sid][s].st]]
<1>1. /\ sess' = [sess EXCEPT ![u] = NewSession(a, b, p)]
      /\ sess[u].state = "IDLE"
      /\ debit' = debit
  BY DEF HandleRequest
<1>2. /\ NewSession(a, b, p).state = "NOTIFYING"
      /\ NewSession(a, b, p).msg_remaining = p.max_messages
  BY DEF NewSession
<1>3. \A t \in SessionIds :
        sess'[t] = IF t = u THEN NewSession(a, b, p) ELSE sess[t]
  BY <1>1 DEF TypeOK
<1>4. P[u] = "new" /\ P' = [P EXCEPT ![u] = "asked"]
  <2>1. EscrowPhase(sess[u].state) = "new" /\ EscrowPhase(sess'[u].state) = "asked"
    BY <1>1, <1>2, <1>3, Phases
  <2>2. \A t \in SessionIds : t # u => EscrowPhase(sess'[t].state) = EscrowPhase(sess[t].state)
    BY <1>3
  <2>. QED  BY <2>1, <2>2
<1>5. A' = [A EXCEPT ![u] = p.max_messages]
  BY <1>2, <1>3
<1>6. H' = H
  BY <1>1
<1>. HIDE DEF P, A, H
<1>7. /\ P[u] = "new"
      /\ P' = [P EXCEPT ![u] = "asked"]
      /\ \E m \in {q.max_messages : q \in Params} : A' = [A EXCEPT ![u] = m]
      /\ UNCHANGED H
  BY <1>4, <1>5, <1>6
<1>. QED  BY <1>7, Zenon DEF Escrow!Ask, P, A, H

\* A session accepted opens its escrow.
LEMMA AcceptOpens ==
  ASSUME OwnInv, NEW b \in Agents, NEW u \in SessionIds, AcceptSession(b, u)
  PROVE  Escrow!Open(u)
<1>. USE DEF OwnInv, DebitInv, TypeInv
<1>. DEFINE P == [sid \in SessionIds |-> EscrowPhase(sess[sid].state)]
            A == [sid \in SessionIds |-> sess[sid].msg_remaining]
            H == [sid \in SessionIds |-> [s \in SeqNos |-> debit[sid][s].st]]
            q == [sess[u] EXCEPT !.state = "ACTIVE"]
<1>1. /\ sess' = [sess EXCEPT ![u] = q]
      /\ sess[u].state = "NOTIFYING"
      /\ debit' = debit
  BY DEF AcceptSession, TablesAgree
<1>2. q.state = "ACTIVE" /\ q.msg_remaining = sess[u].msg_remaining
  BY DEF TypeOK, Session
<1>. HIDE DEF q
<1>3. \A t \in SessionIds : sess'[t] = IF t = u THEN q ELSE sess[t]
  BY <1>1 DEF TypeOK
<1>4. P[u] = "asked" /\ P' = [P EXCEPT ![u] = "open"]
  <2>1. EscrowPhase(sess[u].state) = "asked" /\ EscrowPhase(sess'[u].state) = "open"
    BY <1>1, <1>2, <1>3, Phases
  <2>2. \A t \in SessionIds : t # u => EscrowPhase(sess'[t].state) = EscrowPhase(sess[t].state)
    BY <1>3
  <2>. QED  BY <2>1, <2>2
<1>5. A' = A
  BY <1>2, <1>3
<1>6. H' = H
  BY <1>1
<1>. HIDE DEF P, A, H
<1>. QED  BY <1>4, <1>5, <1>6, Zenon DEF Escrow!Open, P, A, H

\* Every other step moves one session, or none.
LEMMA OtherMoves ==
  ASSUME OwnInv, [Next]_vars
  PROVE  \/ \E u \in SessionIds : Moved(u) \/ Escrow!Ask(u) \/ Escrow!Open(u)
         \/ \A t \in SessionIds : Unmoved(t)
<1>. USE DEF OwnInv, DebitInv, TypeInv
<1>1. ASSUME \/ \E a \in Agents : Network(a)
             \/ \E b \in Agents, u \in SessionIds : RefuseSession(b, u)
             \/ \E f \in inflight : SendOk(f)
             \/ UNCHANGED vars
      PROVE  \A t \in SessionIds : Unmoved(t)
  <2>1. sess' = sess /\ debit' = debit
    BY <1>1 DEF Network, Connect, ConnectionLost, LoopEnds, Deprovision,
                DeprovisionSessions, Unregister, RefuseSession, SendOk, vars
  <2>. QED  BY <2>1 DEF Unmoved, Phase, Available, St
<1>2. ASSUME NEW u \in SessionIds, ClockPassesExpiry(u)
      PROVE  \A t \in SessionIds : Unmoved(t)
  <2>. DEFINE q == [sess[u] EXCEPT !.expired = TRUE]
  <2>1. sess' = [sess EXCEPT ![u] = q] /\ debit' = debit
    BY <1>2 DEF ClockPassesExpiry
  <2>2. q.state = sess[u].state /\ q.msg_remaining = sess[u].msg_remaining
    BY DEF TypeOK, Session
  <2>. HIDE DEF q
  <2>. QED  BY <2>1, <2>2 DEF Unmoved, Phase, Available, St, TypeOK
<1>3. ASSUME NEW a \in Agents, NEW u \in SessionIds,
             HandleClose(a, u) \/ CloseNext(a, u)
      PROVE  Moved(u)
  <2>1. Teardown(u) /\ debit' = debit
    BY <1>3 DEF HandleClose, CloseNext
  <2>. QED  BY <2>1, TeardownMoves
<1>4. ASSUME NEW a \in Agents, NEW u \in SessionIds, Data(a, u)
      PROVE  Moved(u)
  <2>1. PICK ack \in SeqNos \cup {NoAck} :
          \/ DropData(a, u, ack)
          \/ \E len \in PayloadLens :
               \/ RejectData(a, u, ack, len)
               \/ ForwardData(a, u, ack, len)
               \/ BounceData(a, u, ack, len)
    BY <1>4 DEF Data
  <2>2. CASE DropData(a, u, ack)
    <3>1. sess' = sess /\ debit' = Confirmed(u, ack)
      BY <2>2 DEF DropData
    <3>. QED  BY <3>1, AckMoves
  <2>3. CASE \E len \in PayloadLens : RejectData(a, u, ack, len)
    <3>1. Teardown(u) /\ debit' = Confirmed(u, ack)
      BY <2>3 DEF RejectData
    <3>. QED  BY <3>1, TeardownMoves
  <2>. QED  BY <2>1, <2>2, <2>3, SpendMoves
<1>5. ASSUME NEW f \in inflight, SendFails(f)
      PROVE  \E u \in SessionIds : Moved(u) \/ \A t \in SessionIds : Unmoved(t)
  <2>1. f.sid \in SessionIds /\ f.seq \in SeqNos /\ RollbackPending(f.sid, f.seq)
    BY <1>5 DEF TypeOK, Handler, SendFails
  <2>2. Moved(f.sid) \/ \A t \in SessionIds : Unmoved(t)
    <3>1. PICK u \in SessionIds, k \in SeqNos : u = f.sid /\ k = f.seq
      BY <2>1
    <3>. QED  BY <2>1, <3>1, RollbackMoves
  <2>. QED  BY <2>1, <2>2
<1>6. ASSUME NEW u \in SessionIds, NEW k \in SeqNos, DeliveryTimeout(u, k)
      PROVE  Moved(u) \/ \A t \in SessionIds : Unmoved(t)
  <2>1. RollbackPending(u, k) \/ (sess' = sess /\ debit' = debit)
    BY <1>6 DEF DeliveryTimeout
  <2>. QED  BY <2>1, RollbackMoves DEF Unmoved, Phase, Available, St
<1>7. ASSUME NEW a \in Agents, NEW u \in SessionIds, SetUp(a, u)
      PROVE  \/ Moved(u) \/ Escrow!Ask(u) \/ Escrow!Open(u)
             \/ \A t \in SessionIds : Unmoved(t)
  BY <1>1, <1>3, <1>7, RequestAsks, AcceptOpens DEF SetUp
<1>. QED  BY <1>1, <1>2, <1>4, <1>5, <1>6, <1>7 DEF Next

\* The metering of every session implements the escrow: whatever acks, timers,
\* failing sends and teardowns do, a message is charged before it is sent, and
\* its charge is confirmed or returned once.
THEOREM RelayImplementsEscrow == Spec => ImplementsEscrow
<1>1. Init => Escrow!Init
  <2>. SUFFICES ASSUME Init PROVE Escrow!Init
    OBVIOUS
  <2>1. \A t \in SessionIds : /\ EscrowPhase(sess[t].state) = "new"
                              /\ sess[t].msg_remaining = NoLimit
                              /\ \A s \in SeqNos : debit[t][s].st = "none"
    BY Phases DEF Init, Unused, NoDebit
  <2>. QED  BY <2>1 DEF Escrow!Init
<1>2. ASSUME OwnInv, [Next]_vars
      PROVE  \/ Escrow!Next
             \/ UNCHANGED <<[sid \in SessionIds |-> EscrowPhase(sess[sid].state)],
                            [sid \in SessionIds |-> sess[sid].msg_remaining],
                            [sid \in SessionIds |-> [s \in SeqNos |-> debit[sid][s].st]]>>
  <2>1. CASE \E u \in SessionIds : Moved(u) \/ Escrow!Ask(u) \/ Escrow!Open(u)
    BY <2>1, EscrowMoves DEF Escrow!Next
  <2>2. CASE \A t \in SessionIds : Unmoved(t)
    BY <2>2, EscrowStutters
  <2>. QED  BY <1>2, <2>1, <2>2, OtherMoves
<1>. QED  BY <1>1, <1>2, OwnInvariant, PTL DEF Spec, ImplementsEscrow, Escrow!Spec
=============================================================================
