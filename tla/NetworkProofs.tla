----------------------------- MODULE NetworkProofs -----------------------------
(***************************************************************************)
(* Theorems about how agents know and reach each other: the authority      *)
(* server, for every set of agents and tools and any number of tokens, of  *)
(* requests in progress and of restarts (AuthorityServer); documents,      *)
(* bindings and certificates, for any threads, chains and CAs (Identity,   *)
(* Certificates); the loop and relay calls of a client, for any sessions,  *)
(* callers and failures (Client); the streams of a transport, for any      *)
(* streams, frames, messages and cuts of the network (Transport); and what *)
(* an agent discovers, for any agents, offers, lifetimes and limits        *)
(* (Discovery).                                                            *)
(***************************************************************************)
EXTENDS AuthorityServer, Identity, Transport, Client, Discovery, Sums, FiniteSetTheorems, SequenceTheorems,
        WellFoundedInduction, TLAPS

-----------------------------------------------------------------------------
(* The types of the tables the theorems are about.                         *)

Uris == (Agents \X (Tools \cup {Messaging})) \cup (Agents \X {Messaging} \X Nat)
Token == [subject : Agents, audience : Agents, uri : Uris, key : Nat]
Conversation == [initiator : Agents, participant : Agents, status : {"ACTIVE", "CLOSED"}]
Statuses == {"none", "good", "revoked"}
Pending == [kind : {"answer"}, token : 1 .. MaxTokens, status : Statuses]

\* Where a withdrawal is suspended, and what it keeps meanwhile.
Rounds == {"loop", "invalidate", "notify"}
Removal == [kind : {"remove"}, at : Rounds \cup {"closing"}, agent : Agents,
            left : SUBSET Nat, scope : SUBSET Nat]
Reduction == [kind : {"tools"}, at : Rounds, agent : Agents,
              left : SUBSET Nat, scope : SUBSET Nat, new : SUBSET Tools]
Revoking == [kind : {"token"}, at : Rounds, left : SUBSET Nat, scope : SUBSET Nat]
Withdrawal == Removal \cup Reduction \cup Revoking
Relaying == [kind : {"call", "message"}, at : {"relay"}]
Job == {Idle} \cup Withdrawal \cup Relaying
Withdraws(h) == job[h] \in Withdrawal

TablesTyped ==
  /\ key \in Nat
  /\ registered \subseteq Agents
  /\ tools \in [Agents -> SUBSET Tools]
  /\ tokens \in Seq(Token)
  /\ Len(tokens) <= MaxTokens
  /\ convs \in Seq(Conversation)
HistoryTyped ==
  /\ crl \subseteq Ids
  /\ revoked \subseteq Ids
  /\ covered \subseteq Ids
ResponderTyped ==
  /\ cache \in [1 .. MaxTokens -> Statuses]
  /\ answering \in {NoAnswer} \cup Pending
JobsTyped ==
  /\ job \in [Handlers -> Job]
  /\ \A h \in Handlers : Withdraws(h) => job[h].left \subseteq Ids /\ job[h].scope \subseteq Ids
Typed == TablesTyped /\ HistoryTyped /\ ResponderTyped /\ JobsTyped

\* No token is signed with a key that is still to come.
KeysPast == \A t \in Ids : tokens[t].key <= key

\* What was revoked, and what a finished withdrawal concerned, is on the list
\* or was signed with a key that is gone.
Dead(t) == t \in crl \/ tokens[t].key < key
HistoryDead == \A t \in revoked \cup covered : Dead(t)

\* What a withdrawal concerns is still to be revoked or on the list; before the
\* snapshot, the snapshot would find it. What it has just revoked is listed.
Promise(j) ==
  /\ j.at = "closing" => j.scope \subseteq TokensForAgent(j.agent)
  /\ j.at # "closing" => j.scope \subseteq j.left \cup crl
  /\ j.at \in {"invalidate", "notify"} => Min(j.left) \in crl
AllPromised == \A h \in Handlers : Withdraws(h) => Promise(job[h])

IInv == Typed /\ KeysPast /\ HistoryDead /\ AllPromised /\ StatusFollowsRevocation

-----------------------------------------------------------------------------
(* Lemmas about tokens and about the rounds of a withdrawal.               *)

\* A set of ids that is not empty has a first.
LEMMA SmallestExists ==
  ASSUME NEW S \in SUBSET Nat, S # {}
  PROVE  Min(S) \in S
<1>1. \E x \in S : \A y \in S : ~ (<<y, x>> \in OpToRel(<, Nat))
  BY NatLessThanWellFounded, WFMin, Zenon
<1>2. PICK x \in S : \A y \in S : ~ (<<y, x>> \in OpToRel(<, Nat))
  BY <1>1
<1>3. ASSUME NEW y \in S PROVE x =< y
  <2>1. <<y, x>> \in Nat \X Nat
    OBVIOUS
  <2>2. ~ (y < x)
    BY <1>2, <2>1, Zenon DEF OpToRel
  <2>. QED  BY <2>2
<1>. QED  BY <1>3, Zenon DEF Min

\* Issuing a token keeps those before it.
LEMMA IssueAppends ==
  ASSUME Typed, NEW asker \in Agents, NEW target \in Agents, NEW uri \in Uris,
         Len(tokens) < MaxTokens, Issue(asker, target, uri)
  PROVE  /\ tokens' \in Seq(Token)
         /\ Len(tokens') <= MaxTokens
         /\ Ids \subseteq Ids'
         /\ Ids' = Ids \cup {Len(tokens) + 1}
         /\ \A t \in Ids : tokens'[t] = tokens[t]
         /\ tokens'[Len(tokens) + 1].key = key
<1>. DEFINE new == [subject |-> asker, audience |-> target, uri |-> uri, key |-> key]
<1>1. new \in Token
  BY DEF Typed, TablesTyped, Token
<1>2. tokens \in Seq(Token) /\ tokens' = Append(tokens, new)
  BY DEF Issue, Typed, TablesTyped
<1>3. new.key = key
  OBVIOUS
<1>. HIDE DEF new
<1>4. tokens' \in Seq(Token) /\ Len(tokens') = Len(tokens) + 1
  BY <1>1, <1>2
<1>5. Ids = 1 .. Len(tokens) /\ Ids' = 1 .. Len(tokens) + 1
  BY <1>2, <1>4 DEF Ids
<1>6. \A t \in 1 .. Len(tokens) : tokens'[t] = tokens[t]
  BY <1>1, <1>2
<1>7. tokens'[Len(tokens) + 1] = new
  BY <1>1, <1>2
<1>8. Len(tokens) \in Nat /\ MaxTokens \in Nat
  BY <1>2, TokenBound
<1>. QED  BY <1>3, <1>4, <1>5, <1>6, <1>7, <1>8

\* The next place of a withdrawal, and what is left of it.
LEMMA MovesTo ==
  ASSUME NEW j \in Withdrawal, NEW p \in Rounds
  PROVE  /\ [j EXCEPT !.at = p] \in Withdrawal
         /\ [j EXCEPT !.at = p].at = p
         /\ [j EXCEPT !.at = p].left = j.left
         /\ [j EXCEPT !.at = p].scope = j.scope
<1>1. CASE j \in Removal
  BY <1>1 DEF Withdrawal, Removal
<1>2. CASE j \in Reduction
  BY <1>2 DEF Withdrawal, Reduction
<1>3. CASE j \in Revoking
  BY <1>3 DEF Withdrawal, Revoking
<1>. QED  BY <1>1, <1>2, <1>3 DEF Withdrawal

LEMMA LeavesOver ==
  ASSUME NEW j \in Withdrawal, NEW rest \in SUBSET Nat
  PROVE  /\ [j EXCEPT !.left = rest] \in Withdrawal
         /\ [j EXCEPT !.left = rest].at = j.at
         /\ [j EXCEPT !.left = rest].left = rest
         /\ [j EXCEPT !.left = rest].scope = j.scope
<1>1. CASE j \in Removal
  BY <1>1 DEF Withdrawal, Removal
<1>2. CASE j \in Reduction
  BY <1>2 DEF Withdrawal, Reduction
<1>3. CASE j \in Revoking
  BY <1>3 DEF Withdrawal, Revoking
<1>. QED  BY <1>1, <1>2, <1>3 DEF Withdrawal

\* A withdrawal goes on with its loop.
Continues(j, rest) == [[j EXCEPT !.at = "loop"] EXCEPT !.left = rest]

LEMMA LoopsOver ==
  ASSUME NEW j \in Withdrawal, NEW rest \in SUBSET Nat
  PROVE  /\ Continues(j, rest) \in Withdrawal
         /\ Continues(j, rest).at = "loop"
         /\ Continues(j, rest).left = rest
         /\ Continues(j, rest).scope = j.scope
<1>1. PICK m : m = [j EXCEPT !.at = "loop"]
  OBVIOUS
<1>2. m \in Withdrawal /\ m.scope = j.scope /\ m.at = "loop"
  BY <1>1, MovesTo DEF Rounds
<1>3. PICK n : n = [m EXCEPT !.left = rest]
  OBVIOUS
<1>4. n \in Withdrawal /\ n.at = "loop" /\ n.left = rest /\ n.scope = m.scope
  BY <1>2, <1>3, LeavesOver
<1>5. n = Continues(j, rest)
  BY <1>1, <1>3 DEF Continues
<1>. QED  BY <1>2, <1>4, <1>5

\* A job that is in a round of a withdrawal is a withdrawal.
LEMMA RoundIsWithdrawal ==
  ASSUME NEW j \in Job, j.kind # "idle", j.at \in Rounds
  PROVE  j \in Withdrawal
  BY DEF Job, Idle, Relaying, Rounds

LEMMA WithdrawalFields ==
  ASSUME NEW j \in Withdrawal
  PROVE  /\ j.kind \in {"remove", "tools", "token"}
         /\ j.at \in Rounds \cup {"closing"}
         /\ j.left \in SUBSET Nat
         /\ j.scope \in SUBSET Nat
         /\ j # Idle
<1>1. j.kind \in {"remove", "tools", "token"}
  BY DEF Withdrawal, Removal, Reduction, Revoking
<1>2. j # Idle
  BY <1>1 DEF Idle
<1>. QED  BY <1>1, <1>2 DEF Withdrawal, Removal, Reduction, Revoking

-----------------------------------------------------------------------------
(* Steps that change one job only, and steps that change none.             *)

Records == <<key, tokens, crl, cache, answering, revoked, covered>>

\* Registration and the closing of a conversation.
LEMMA ElsewhereStep ==
  ASSUME IInv, UNCHANGED Records, UNCHANGED job, TablesTyped'
  PROVE  IInv'
<1>. USE DEF Records
<1>1. Ids' = Ids
  BY DEF Ids
<1>2. Typed'
  BY <1>1 DEF IInv, Typed, HistoryTyped, ResponderTyped, JobsTyped, Withdraws
<1>3. KeysPast' /\ HistoryDead'
  BY <1>1 DEF IInv, KeysPast, HistoryDead, Dead
<1>4. AllPromised'
  BY <1>1 DEF IInv, AllPromised, Withdraws, Promise, TokensForAgent
<1>5. StatusFollowsRevocation'
  BY <1>1 DEF IInv, StatusFollowsRevocation, Current
<1>. QED  BY <1>2, <1>3, <1>4, <1>5 DEF IInv

\* A handler that is not about to invalidate an answer takes up a job.
LEMMA OneJobStep ==
  ASSUME IInv, UNCHANGED Records, TablesTyped',
         NEW h \in Handlers, NEW j \in Job,
         job[h] # Idle => job[h].at # "invalidate",
         job' = [job EXCEPT ![h] = j],
         j \in Withdrawal => j.left \subseteq Ids /\ j.scope \subseteq Ids /\ Promise(j)
  PROVE  IInv'
<1>. USE DEF Records
<1>1. Ids' = Ids
  BY DEF Ids
<1>2. job \in [Handlers -> Job] /\ job' \in [Handlers -> Job]
      /\ job'[h] = j /\ \A g \in Handlers \ {h} : job'[g] = job[g]
  BY DEF IInv, Typed, JobsTyped
<1>3. Typed'
  BY <1>1, <1>2 DEF IInv, Typed, HistoryTyped, ResponderTyped, JobsTyped, Withdraws
<1>4. KeysPast' /\ HistoryDead'
  BY <1>1 DEF IInv, KeysPast, HistoryDead, Dead
<1>5. AllPromised'
  <2>. SUFFICES ASSUME NEW g \in Handlers, Withdraws(g)' PROVE Promise(job[g])'
    BY DEF AllPromised
  <2>1. Promise(job[g])' <=> Promise(job'[g])
    BY <1>1 DEF Promise, TokensForAgent
  <2>2. CASE g = h
    BY <1>2, <2>1, <2>2 DEF Withdraws
  <2>3. CASE g # h
    BY <1>2, <2>1, <2>3 DEF IInv, AllPromised, Withdraws
  <2>. QED  BY <2>2, <2>3
<1>6. StatusFollowsRevocation'
  <2>. SUFFICES ASSUME NEW t \in crl \cap {s \in Ids : tokens[s].key = key},
                       cache[t] = "good" \/ (answering # NoAnswer /\ answering.token = t
                                             /\ answering.status = "good")
                PROVE  \E g \in Handlers : job'[g].kind # "idle" /\ job'[g].at = "invalidate"
                                           /\ Min(job'[g].left) = t
    BY <1>1 DEF StatusFollowsRevocation, Current
  <2>1. PICK g \in Handlers : job[g].kind # "idle" /\ job[g].at = "invalidate"
                              /\ Min(job[g].left) = t
    BY DEF IInv, StatusFollowsRevocation, Current
  <2>2. g # h
    BY <2>1 DEF Idle
  <2>. QED  BY <1>2, <2>1, <2>2
<1>. QED  BY <1>3, <1>4, <1>5, <1>6 DEF IInv

LEMMA SameTables ==
  ASSUME Typed, UNCHANGED <<key, registered, tools, tokens, convs>>
  PROVE  TablesTyped'
  BY DEF Typed, TablesTyped

LEMMA JoiningStep == ASSUME IInv, Joining PROVE IInv'
<1>1. UNCHANGED <<key, tokens, convs, job>> /\ UNCHANGED Records
  BY DEF Joining, RegisterCheck, RegisterInsert, WsRegister, Rename, Joins, Records, identity
<1>2. registered' \subseteq Agents /\ tools' \in [Agents -> SUBSET Tools]
  BY DEF Joining, RegisterCheck, RegisterInsert, WsRegister, Rename, Joins,
         IInv, Typed, TablesTyped, identity
<1>3. TablesTyped'
  BY <1>1, <1>2 DEF IInv, Typed, TablesTyped
<1>. QED  BY <1>1, <1>3, ElsewhereStep

LEMMA CloseConversationStep ==
  ASSUME IInv, NEW a \in Agents, NEW c \in DOMAIN convs, CloseConversation(a, c)
  PROVE  IInv'
<1>1. UNCHANGED <<key, registered, tools, tokens, job>> /\ UNCHANGED Records
  BY DEF CloseConversation, Records, identity
<1>2. convs' \in Seq(Conversation)
  <2>. DEFINE closed == [convs[c] EXCEPT !.status = "CLOSED"]
  <2>1. convs \in Seq(Conversation) /\ convs[c] \in Conversation
    BY DEF IInv, Typed, TablesTyped
  <2>2. closed \in Conversation
    BY <2>1 DEF Conversation
  <2>3. convs' = [convs EXCEPT ![c] = closed]
    BY DEF CloseConversation
  <2>. HIDE DEF closed
  <2>. QED  BY <2>1, <2>2, <2>3
<1>3. TablesTyped'
  BY <1>1, <1>2 DEF IInv, Typed, TablesTyped
<1>. QED  BY <1>1, <1>3, ElsewhereStep

\* The requests that begin: a withdrawal that has revoked nothing yet, or a
\* call that is relayed.
LEMMA BeginStep ==
  ASSUME IInv, NEW h \in Handlers,
         \/ \E a \in Agents : Unregister(h, a)
         \/ \E a \in Agents, ts \in SUBSET Tools : UpdateTools(h, a, ts)
         \/ \E a \in Agents, t \in Ids : Revoke(h, a, t)
         \/ \E p \in Asks, t \in Ids : CallTool(h, p[1], p[2], p[3], t)
         \/ \E a \in Agents, c \in DOMAIN convs, t \in Ids : SendMessage(h, a, c, t)
  PROVE  IInv'
<1>. DEFINE starts(j) == UNCHANGED Records /\ job[h] = Idle /\ job' = [job EXCEPT ![h] = j]
<1>1. Ids \subseteq Nat
  BY DEF IInv, Typed, TablesTyped, Ids
<1>2. TablesTyped'
  BY SameTables
     DEF IInv, Unregister, UpdateTools, Revoke, CallTool, SendMessage, identity
<1>3. ASSUME NEW a \in Agents, Unregister(h, a)
      PROVE  IInv'
  <2>. DEFINE j == [kind |-> "remove", at |-> "closing", agent |-> a, left |-> {}, scope |-> Concerns(a)]
  <2>1. Concerns(a) = TokensForAgent(a) /\ Concerns(a) \subseteq Ids
    BY DEF Concerns, TokensForAgent
  <2>2. j \in Removal
    BY <1>1, <2>1 DEF Removal
  <2>3. Promise(j)
    BY <2>1 DEF Promise
  <2>4. starts(j)
    BY <1>3 DEF Unregister, Start, Records, identity
  <2>. QED  BY <1>2, <2>1, <2>2, <2>3, <2>4, OneJobStep DEF Job, Withdrawal
<1>4. ASSUME NEW a \in Agents, NEW ts \in SUBSET Tools, UpdateTools(h, a, ts)
      PROVE  IInv'
  <2>. DEFINE bound == TokensForTools(a, tools[a] \ ts)
              j == [kind |-> "tools", at |-> "loop", agent |-> a, left |-> bound,
                    scope |-> bound, new |-> ts]
  <2>1. bound \subseteq Ids
    BY DEF TokensForTools
  <2>4. starts(j)
    BY <1>4 DEF UpdateTools, Start, Records, identity
  <2>. HIDE DEF bound
  <2>2. j \in Reduction
    BY <1>1, <2>1 DEF Reduction, Rounds
  <2>3. Promise(j)
    BY DEF Promise
  <2>. QED  BY <1>2, <2>1, <2>2, <2>3, <2>4, OneJobStep DEF Job, Withdrawal
<1>5. ASSUME NEW a \in Agents, NEW t \in Ids, Revoke(h, a, t)
      PROVE  IInv'
  <2>. DEFINE j == [kind |-> "token", at |-> "loop", left |-> {t}, scope |-> {t}]
  <2>1. j \in Revoking
    BY <1>1 DEF Revoking, Rounds
  <2>2. Promise(j)
    BY DEF Promise
  <2>3. starts(j)
    BY <1>5 DEF Revoke, Start, Records, identity
  <2>. QED  BY <1>2, <2>1, <2>2, <2>3, OneJobStep DEF Job, Withdrawal
<1>6. ASSUME NEW kind \in {"call", "message"}, starts([kind |-> kind, at |-> "relay"])
      PROVE  IInv'
  <2>. DEFINE j == [kind |-> kind, at |-> "relay"]
  <2>1. j \in Job /\ j \notin Withdrawal
    BY WithdrawalFields DEF Job, Relaying
  <2>. QED  BY <1>2, <1>6, <2>1, OneJobStep
<1>7. ASSUME NEW p \in Asks, NEW t \in Ids, CallTool(h, p[1], p[2], p[3], t)
      PROVE  IInv'
  BY <1>6, <1>7 DEF CallTool, Start, Records, identity
<1>8. ASSUME NEW a \in Agents, NEW c \in DOMAIN convs, NEW t \in Ids, SendMessage(h, a, c, t)
      PROVE  IInv'
  BY <1>6, <1>8 DEF SendMessage, Start, Records, identity
<1>. QED  BY <1>3, <1>4, <1>5, <1>7, <1>8

LEMMA RelayReturnsStep ==
  ASSUME IInv, NEW h \in Handlers, RelayReturns(h)
  PROVE  IInv'
<1>1. UNCHANGED Records /\ job' = [job EXCEPT ![h] = Idle] /\ job[h].at # "invalidate"
  BY DEF RelayReturns, Ends, LoopFree, Records, Idle
<1>2. TablesTyped'
  BY SameTables DEF IInv, RelayReturns, identity
<1>3. Idle \in Job /\ Idle \notin Withdrawal
  BY WithdrawalFields DEF Job
<1>. QED  BY <1>1, <1>2, <1>3, OneJobStep

-----------------------------------------------------------------------------
(* The rounds of a withdrawal.                                             *)

LEMMA InWithdrawal ==
  ASSUME IInv, NEW h \in Handlers, job[h].kind # "idle", job[h].at \in Rounds
  PROVE  /\ job[h] \in Withdrawal
         /\ Promise(job[h])
         /\ job[h].left \subseteq Ids /\ job[h].scope \subseteq Ids
         /\ job[h].left \in SUBSET Nat
<1>1. job[h] \in Job
  BY DEF IInv, Typed, JobsTyped
<1>2. job[h] \in Withdrawal
  BY <1>1, RoundIsWithdrawal
<1>. QED  BY <1>2, WithdrawalFields DEF IInv, AllPromised, Withdraws, Typed, JobsTyped

LEMMA SnapshotStep ==
  ASSUME IInv, NEW h \in Handlers, Snapshot(h)
  PROVE  IInv'
<1>. DEFINE issued == TokensForAgent(job[h].agent)
            j == Continues(job[h], issued)
<1>1. job[h] \in Withdrawal
  <2>1. job[h].kind = "remove" /\ job[h] \in Job
    BY DEF Snapshot, At, IInv, Typed, JobsTyped
  <2>. QED  BY <2>1 DEF Job, Idle, Relaying
<1>2. issued \subseteq Ids /\ issued \in SUBSET Nat
  BY DEF TokensForAgent, IInv, Typed, TablesTyped, Ids
<1>3. job[h].scope \subseteq issued
  BY <1>1 DEF IInv, AllPromised, Withdraws, Promise, Snapshot, At
<1>4. job' = [job EXCEPT ![h] = j]
  BY DEF Snapshot, IInv, Typed, JobsTyped, Continues
<1>5. TablesTyped' /\ UNCHANGED Records /\ job[h].at # "invalidate"
  BY SameTables DEF IInv, Snapshot, At, Records, identity
<1>. HIDE DEF issued
<1>6. j \in Withdrawal /\ j.at = "loop" /\ j.left = issued /\ j.scope = job[h].scope
  BY <1>1, <1>2, LoopsOver
<1>. HIDE DEF j
<1>7. Promise(j) /\ j.scope \subseteq Ids
  BY <1>2, <1>3, <1>6 DEF Promise
<1>. QED  BY <1>2, <1>4, <1>5, <1>6, <1>7, OneJobStep DEF Job

\* The token is on the list by now, whoever put it there.
LEMMA DropListed ==
  ASSUME IInv, NEW h \in Handlers, UNCHANGED Records, TablesTyped',
         job[h].kind # "idle", job[h].at \in {"loop", "notify"}, Current(h) \in crl,
         job' = [job EXCEPT ![h].at = "loop", ![h].left = @ \ {Current(h)}]
  PROVE  IInv'
<1>. DEFINE rest == job[h].left \ {Current(h)}
            j == Continues(job[h], rest)
<1>1. job[h] \in Withdrawal /\ Promise(job[h]) /\ job[h].left \subseteq Ids
      /\ job[h].scope \subseteq Ids /\ job[h].left \in SUBSET Nat
  BY InWithdrawal DEF Rounds
<1>2. job' = [job EXCEPT ![h] = j]
  BY DEF IInv, Typed, JobsTyped, Continues
<1>3. rest \in SUBSET Nat /\ rest \subseteq Ids /\ job[h].left \subseteq rest \cup crl
  BY <1>1
<1>. HIDE DEF rest
<1>4. j \in Withdrawal /\ j.at = "loop" /\ j.left = rest /\ j.scope = job[h].scope
  BY <1>1, <1>3, LoopsOver
<1>. HIDE DEF j
<1>5. Promise(j)
  BY <1>1, <1>3, <1>4 DEF Promise
<1>. QED  BY <1>1, <1>2, <1>3, <1>4, <1>5, OneJobStep DEF Job

LEMMA NotifiedStep ==
  ASSUME IInv, NEW h \in Handlers, Notified(h)
  PROVE  IInv'
<1>1. TablesTyped' /\ UNCHANGED Records
  BY SameTables DEF IInv, Notified, Records, identity
<1>2. Current(h) \in crl
  BY InWithdrawal DEF Notified, Promise, Current, Rounds
<1>. QED  BY <1>1, <1>2, DropListed DEF Notified

LEMMA RevokeNextStep ==
  ASSUME IInv, NEW h \in Handlers, RevokeNext(h)
  PROVE  IInv'
<1>1. job[h].kind # "idle" /\ job[h].at = "loop" /\ TablesTyped'
      /\ UNCHANGED <<key, tokens, cache, answering, covered>>
  BY SameTables DEF IInv, RevokeNext, identity
<1>2. job[h] \in Withdrawal /\ Promise(job[h]) /\ job[h].left \subseteq Ids
      /\ job[h].scope \subseteq Ids /\ job[h].left \in SUBSET Nat
  BY <1>1, InWithdrawal DEF Rounds
<1>3. job \in [Handlers -> Job]
  BY DEF IInv, Typed, JobsTyped
<1>4. CASE Current(h) \in crl
  <2>1. job' = [job EXCEPT ![h].left = @ \ {Current(h)}] /\ UNCHANGED Records
    BY <1>4 DEF RevokeNext, Records
  <2>2. job[h] = [job[h] EXCEPT !.at = "loop"]
    BY <1>1, <1>2 DEF Withdrawal, Removal, Reduction, Revoking
  <2>3. job' = [job EXCEPT ![h].at = "loop", ![h].left = @ \ {Current(h)}]
    BY <1>3, <2>1, <2>2
  <2>. QED  BY <1>1, <1>4, <2>1, <2>3, DropListed
<1>5. CASE Current(h) \notin crl
  <2>. DEFINE j == [job[h] EXCEPT !.at = "invalidate"]
  <2>1. crl' = crl \cup {Current(h)} /\ revoked' = revoked \cup {Current(h)}
        /\ job' = [job EXCEPT ![h] = j]
    BY <1>3, <1>5 DEF RevokeNext
  <2>2. Current(h) \in Ids
    BY <1>2, SmallestExists DEF RevokeNext, Current
  <2>3. j \in Withdrawal /\ j.at = "invalidate" /\ j.left = job[h].left /\ j.scope = job[h].scope
    BY <1>2, MovesTo DEF Rounds
  <2>. HIDE DEF j
  <2>4. j.kind # "idle"
    BY <2>3, WithdrawalFields
  <2>5. job'[h] = j /\ \A g \in Handlers \ {h} : job'[g] = job[g]
    BY <1>3, <2>1
  <2>6. Ids' = Ids
    BY <1>1 DEF Ids
  <2>7. Typed'
    <3>1. HistoryTyped' /\ ResponderTyped'
      BY <1>1, <2>1, <2>2, <2>6 DEF IInv, Typed, HistoryTyped, ResponderTyped
    <3>2. JobsTyped'
      BY <1>2, <1>3, <2>1, <2>3, <2>5, <2>6 DEF IInv, Typed, JobsTyped, Withdraws, Job
    <3>. QED  BY <1>1, <3>1, <3>2 DEF Typed
  <2>8. KeysPast' /\ HistoryDead'
    BY <1>1, <2>1, <2>6 DEF IInv, KeysPast, HistoryDead, Dead
  <2>9. AllPromised'
    <3>. SUFFICES ASSUME NEW g \in Handlers, Withdraws(g)' PROVE Promise(job[g])'
      BY DEF AllPromised
    <3>1. CASE g = h
      BY <1>1, <1>2, <2>1, <2>3, <2>5, <3>1 DEF Promise, Current
    <3>2. CASE g # h
      <4>1. job'[g] = job[g] /\ Promise(job[g])
        BY <2>5, <3>2 DEF IInv, AllPromised, Withdraws
      <4>. QED  BY <1>1, <2>1, <2>6, <4>1 DEF Promise, TokensForAgent
    <3>. QED  BY <3>1, <3>2
  <2>10. StatusFollowsRevocation'
    <3>. SUFFICES ASSUME NEW t \in crl' \cap {s \in Ids : tokens[s].key = key},
                         cache[t] = "good" \/ (answering # NoAnswer /\ answering.token = t
                                               /\ answering.status = "good")
                  PROVE  \E g \in Handlers : job'[g].kind # "idle" /\ job'[g].at = "invalidate"
                                             /\ Min(job'[g].left) = t
      BY <1>1, <2>6 DEF StatusFollowsRevocation, Current
    <3>1. CASE t = Current(h)
      BY <2>3, <2>4, <2>5, <3>1 DEF Current
    <3>2. CASE t # Current(h)
      <4>1. PICK g \in Handlers : job[g].kind # "idle" /\ job[g].at = "invalidate"
                                  /\ Min(job[g].left) = t
        BY <2>1, <3>2 DEF IInv, StatusFollowsRevocation, Current
      <4>2. g # h
        BY <1>1, <4>1
      <4>. QED  BY <2>5, <4>1, <4>2
    <3>. QED  BY <3>1, <3>2
  <2>. QED  BY <2>7, <2>8, <2>9, <2>10 DEF IInv
<1>. QED  BY <1>4, <1>5

LEMMA InvalidateStep ==
  ASSUME IInv, NEW h \in Handlers, Invalidate(h)
  PROVE  IInv'
<1>. DEFINE j == [job[h] EXCEPT !.at = "notify"]
<1>1. job[h].kind # "idle" /\ job[h].at = "invalidate" /\ answering = NoAnswer /\ TablesTyped'
      /\ UNCHANGED <<key, tokens, crl, answering, revoked, covered>>
      /\ cache' = [cache EXCEPT ![Current(h)] = "none"]
  BY SameTables DEF IInv, Invalidate, InvalidateReady, identity
<1>2. job[h] \in Withdrawal /\ Promise(job[h]) /\ job[h].left \subseteq Ids
      /\ job[h].scope \subseteq Ids
  BY <1>1, InWithdrawal DEF Rounds
<1>3. job \in [Handlers -> Job] /\ job' = [job EXCEPT ![h] = j]
  BY DEF IInv, Typed, JobsTyped, Invalidate
<1>4. j \in Withdrawal /\ j.at = "notify" /\ j.left = job[h].left /\ j.scope = job[h].scope
  BY <1>2, MovesTo DEF Rounds
<1>. HIDE DEF j
<1>5. job'[h] = j /\ \A g \in Handlers \ {h} : job'[g] = job[g]
  BY <1>3
<1>6. Ids' = Ids
  BY <1>1 DEF Ids
<1>7. Typed'
  <2>1. HistoryTyped' /\ ResponderTyped'
    BY <1>1, <1>6 DEF IInv, Typed, HistoryTyped, ResponderTyped, Statuses
  <2>2. JobsTyped'
    BY <1>2, <1>3, <1>4, <1>5, <1>6 DEF IInv, Typed, JobsTyped, Withdraws, Job
  <2>. QED  BY <1>1, <2>1, <2>2 DEF Typed
<1>8. KeysPast' /\ HistoryDead'
  BY <1>1, <1>6 DEF IInv, KeysPast, HistoryDead, Dead
<1>9. AllPromised'
  <2>. SUFFICES ASSUME NEW g \in Handlers, Withdraws(g)' PROVE Promise(job[g])'
    BY DEF AllPromised
  <2>1. CASE g = h
    BY <1>1, <1>2, <1>4, <1>5, <2>1 DEF Promise
  <2>2. CASE g # h
    <3>1. job'[g] = job[g] /\ Promise(job[g])
      BY <1>5, <2>2 DEF IInv, AllPromised, Withdraws
    <3>. QED  BY <1>1, <1>6, <3>1 DEF Promise, TokensForAgent
  <2>. QED  BY <2>1, <2>2
<1>10. StatusFollowsRevocation'
  <2>. SUFFICES ASSUME NEW t \in crl \cap {s \in Ids : tokens[s].key = key}, cache'[t] = "good"
                PROVE  \E g \in Handlers : job'[g].kind # "idle" /\ job'[g].at = "invalidate"
                                           /\ Min(job'[g].left) = t
    BY <1>1, <1>6 DEF StatusFollowsRevocation, Current
  <2>1. t \in 1 .. MaxTokens
    BY TokenBound DEF IInv, Typed, TablesTyped, Ids
  <2>2. t # Current(h) /\ cache[t] = "good"
    BY <1>1, <2>1 DEF IInv, Typed, ResponderTyped
  <2>3. PICK g \in Handlers : job[g].kind # "idle" /\ job[g].at = "invalidate"
                              /\ Min(job[g].left) = t
    BY <2>2 DEF IInv, StatusFollowsRevocation, Current
  <2>4. g # h
    BY <2>2, <2>3 DEF Current
  <2>. QED  BY <1>5, <2>3, <2>4
<1>. QED  BY <1>7, <1>8, <1>9, <1>10 DEF IInv

\* The end of a withdrawal: all it concerned is on the list.
LEMMA FinishStep ==
  ASSUME IInv, NEW h \in Handlers, FinishRemoval(h) \/ FinishTools(h) \/ FinishRevoke(h)
  PROVE  IInv'
<1>1. job[h].kind # "idle" /\ job[h].at = "loop" /\ job[h].left = {}
      /\ job' = [job EXCEPT ![h] = Idle] /\ covered' = covered \cup job[h].scope
      /\ UNCHANGED <<key, tokens, convs, crl, cache, answering, revoked>>
  BY DEF FinishRemoval, FinishTools, FinishRevoke, Withdrawn, Ends, identity
<1>2. job[h] \in Withdrawal /\ Promise(job[h]) /\ job[h].scope \subseteq Ids
  BY <1>1, InWithdrawal DEF Rounds
<1>3. job[h].scope \subseteq crl
  BY <1>1, <1>2 DEF Promise
<1>4. registered' \subseteq Agents /\ tools' \in [Agents -> SUBSET Tools]
  <2>1. registered \subseteq Agents /\ tools \in [Agents -> SUBSET Tools]
    BY DEF IInv, Typed, TablesTyped
  <2>2. job[h].kind = "tools" => job[h].new \in SUBSET Tools
    BY <1>2 DEF Withdrawal, Removal, Reduction, Revoking
  <2>. QED  BY <2>1, <2>2 DEF FinishRemoval, FinishTools, FinishRevoke, identity
<1>5. TablesTyped'
  BY <1>1, <1>4 DEF IInv, Typed, TablesTyped
<1>6. job \in [Handlers -> Job] /\ Idle \in Job /\ Idle \notin Withdrawal
  BY WithdrawalFields DEF IInv, Typed, JobsTyped, Job
<1>7. job'[h] = Idle /\ \A g \in Handlers \ {h} : job'[g] = job[g]
  BY <1>1, <1>6
<1>8. Ids' = Ids
  BY <1>1 DEF Ids
<1>9. Typed'
  <2>1. HistoryTyped' /\ ResponderTyped'
    BY <1>1, <1>2, <1>8 DEF IInv, Typed, HistoryTyped, ResponderTyped
  <2>2. JobsTyped'
    BY <1>1, <1>6, <1>7, <1>8 DEF IInv, Typed, JobsTyped, Withdraws
  <2>. QED  BY <1>5, <2>1, <2>2 DEF Typed
<1>10. KeysPast' /\ HistoryDead'
  BY <1>1, <1>3, <1>8 DEF IInv, KeysPast, HistoryDead, Dead
<1>11. AllPromised'
  <2>. SUFFICES ASSUME NEW g \in Handlers, Withdraws(g)' PROVE Promise(job[g])'
    BY DEF AllPromised
  <2>1. job'[g] = job[g] /\ Promise(job[g])
    BY <1>6, <1>7 DEF IInv, AllPromised, Withdraws
  <2>. QED  BY <1>1, <1>8, <2>1 DEF Promise, TokensForAgent
<1>12. StatusFollowsRevocation'
  <2>. SUFFICES ASSUME NEW t \in crl \cap {s \in Ids : tokens[s].key = key},
                       cache[t] = "good" \/ (answering # NoAnswer /\ answering.token = t
                                             /\ answering.status = "good")
                PROVE  \E g \in Handlers : job'[g].kind # "idle" /\ job'[g].at = "invalidate"
                                           /\ Min(job'[g].left) = t
    BY <1>1, <1>8 DEF StatusFollowsRevocation, Current
  <2>1. PICK g \in Handlers : job[g].kind # "idle" /\ job[g].at = "invalidate"
                              /\ Min(job[g].left) = t
    BY DEF IInv, StatusFollowsRevocation, Current
  <2>2. g # h
    BY <1>1, <2>1
  <2>. QED  BY <1>7, <2>1, <2>2
<1>. QED  BY <1>9, <1>10, <1>11, <1>12 DEF IInv

-----------------------------------------------------------------------------
(* Issuing, answering and starting again.                                  *)

LEMMA IssueStep ==
  ASSUME IInv, NEW asker \in Agents, NEW target \in Agents, NEW uri \in Uris,
         Len(tokens) < MaxTokens, Issue(asker, target, uri),
         registered' \subseteq Agents, convs' \in Seq(Conversation),
         UNCHANGED <<key, tools, crl, cache, answering, job, revoked, covered>>
  PROVE  IInv'
<1>1. /\ tokens' \in Seq(Token) /\ Len(tokens') <= MaxTokens
      /\ Ids \subseteq Ids' /\ Ids' = Ids \cup {Len(tokens) + 1}
      /\ \A t \in Ids : tokens'[t] = tokens[t]
      /\ tokens'[Len(tokens) + 1].key = key
  BY IssueAppends DEF IInv
<1>2. Typed'
  <2>1. TablesTyped'
    BY <1>1 DEF IInv, Typed, TablesTyped
  <2>2. HistoryTyped' /\ ResponderTyped'
    BY <1>1 DEF IInv, Typed, HistoryTyped, ResponderTyped
  <2>3. JobsTyped'
    BY <1>1 DEF IInv, Typed, JobsTyped, Withdraws
  <2>. QED  BY <2>1, <2>2, <2>3 DEF Typed
<1>3. KeysPast'
  BY <1>1 DEF IInv, KeysPast, Typed, TablesTyped
<1>4. HistoryDead'
  BY <1>1 DEF IInv, HistoryDead, Dead, Typed, HistoryTyped
<1>5. AllPromised'
  <2>. SUFFICES ASSUME NEW g \in Handlers, Withdraws(g) PROVE Promise(job[g])'
    BY DEF AllPromised, Withdraws
  <2>1. Promise(job[g])
    BY DEF IInv, AllPromised
  <2>2. TokensForAgent(job[g].agent) \subseteq TokensForAgent(job[g].agent)'
    BY <1>1 DEF TokensForAgent
  <2>. QED  BY <2>1, <2>2 DEF Promise
<1>6. StatusFollowsRevocation'
  BY <1>1 DEF IInv, StatusFollowsRevocation, Current, Typed, HistoryTyped
<1>. QED  BY <1>2, <1>3, <1>4, <1>5, <1>6 DEF IInv

LEMMA RequestTokenStep ==
  ASSUME IInv, NEW asker, NEW target, NEW tool, RequestToken(asker, target, tool)
  PROVE  IInv'
<1>1. asker \in Agents /\ target \in Agents /\ tool \in Tools \cup {Messaging}
  BY DEF RequestToken, IInv, Typed, TablesTyped
<1>2. ToolUri(target, tool) \in Uris
  BY <1>1 DEF ToolUri, Uris
<1>. QED  BY <1>1, <1>2, IssueStep DEF RequestToken, identity, IInv, Typed, TablesTyped

LEMMA OpenConversationStep ==
  ASSUME IInv, NEW asker, NEW target, OpenConversation(asker, target)
  PROVE  IInv'
<1>. DEFINE c == [initiator |-> asker, participant |-> target, status |-> "ACTIVE"]
<1>1. asker \in Agents /\ target \in Agents
  BY DEF OpenConversation, IInv, Typed, TablesTyped
<1>2. convs \in Seq(Conversation)
  BY DEF IInv, Typed, TablesTyped
<1>3. MessagesUri(target, Len(convs) + 1) \in Uris
  BY <1>1, <1>2 DEF MessagesUri, Uris
<1>4. c \in Conversation /\ convs' = Append(convs, c)
  BY <1>1 DEF Conversation, OpenConversation
<1>. HIDE DEF c
<1>5. convs' \in Seq(Conversation)
  BY <1>2, <1>4
<1>. QED  BY <1>1, <1>3, <1>5, IssueStep DEF OpenConversation, identity, IInv, Typed, TablesTyped

\* An answer is computed from the list under the lock and stored under it.
LEMMA TokenStatusStep ==
  ASSUME IInv, NEW t \in Ids, TokenStatus(t)
  PROVE  IInv'
<1>1. UNCHANGED <<key, registered, tools, tokens, convs, crl, cache, job, revoked, covered>>
      /\ answering' = [kind |-> "answer", token |-> t, status |-> Status(t)] /\ TablesTyped'
  BY SameTables DEF IInv, TokenStatus, identity
<1>2. Ids' = Ids /\ t \in 1 .. MaxTokens
  BY <1>1, TokenBound DEF Ids, IInv, Typed, TablesTyped
<1>3. answering' \in Pending /\ answering' # NoAnswer
  BY <1>1, <1>2 DEF Pending, Statuses, Status, NoAnswer
<1>4. Typed'
  BY <1>1, <1>2, <1>3 DEF IInv, Typed, HistoryTyped, ResponderTyped, JobsTyped, Withdraws
<1>5. KeysPast' /\ HistoryDead'
  BY <1>1, <1>2 DEF IInv, KeysPast, HistoryDead, Dead
<1>6. AllPromised'
  BY <1>1, <1>2 DEF IInv, AllPromised, Withdraws, Promise, TokensForAgent
<1>7. StatusFollowsRevocation'
  BY <1>1, <1>2 DEF IInv, StatusFollowsRevocation, Current, Status
<1>. QED  BY <1>4, <1>5, <1>6, <1>7 DEF IInv

LEMMA StoreAnswerStep ==
  ASSUME IInv, StoreAnswer
  PROVE  IInv'
<1>1. UNCHANGED <<key, registered, tools, tokens, convs, crl, job, revoked, covered>>
      /\ answering # NoAnswer /\ answering' = NoAnswer /\ TablesTyped'
      /\ cache' = [cache EXCEPT ![answering.token] = answering.status]
  BY SameTables DEF IInv, StoreAnswer, identity
<1>2. Ids' = Ids
  BY <1>1 DEF Ids
<1>3. answering \in Pending /\ cache \in [1 .. MaxTokens -> Statuses]
  BY <1>1 DEF IInv, Typed, ResponderTyped
<1>4. answering.token \in 1 .. MaxTokens /\ answering.status \in Statuses
  BY <1>3 DEF Pending
<1>5. Typed'
  BY <1>1, <1>2, <1>3, <1>4
     DEF IInv, Typed, HistoryTyped, ResponderTyped, JobsTyped, Withdraws
<1>6. KeysPast' /\ HistoryDead'
  BY <1>1, <1>2 DEF IInv, KeysPast, HistoryDead, Dead
<1>7. AllPromised'
  BY <1>1, <1>2 DEF IInv, AllPromised, Withdraws, Promise, TokensForAgent
<1>8. ASSUME NEW t \in Ids, cache'[t] = "good"
      PROVE  cache[t] = "good" \/ (answering.token = t /\ answering.status = "good")
  <2>1. t \in 1 .. MaxTokens
    BY TokenBound DEF IInv, Typed, TablesTyped, Ids
  <2>. QED  BY <1>1, <1>3, <1>8, <2>1
<1>9. StatusFollowsRevocation'
  BY <1>1, <1>2, <1>8 DEF IInv, StatusFollowsRevocation, Current
<1>. QED  BY <1>5, <1>6, <1>7, <1>9 DEF IInv

\* The list is lost, and with it the key of every token on it.
LEMMA RestartStep ==
  ASSUME IInv, Restart
  PROVE  IInv'
<1>1. UNCHANGED <<tools, tokens, convs, revoked, covered>> /\ key' = key + 1
      /\ registered' = {} /\ crl' = {} /\ answering' = NoAnswer
      /\ cache' = [t \in 1 .. MaxTokens |-> "none"] /\ job' = [h \in Handlers |-> Idle]
  BY DEF Restart, NewKey
<1>2. Ids' = Ids
  BY <1>1 DEF Ids
<1>3. Idle \in Job /\ Idle \notin Withdrawal
  BY WithdrawalFields DEF Job
<1>4. Typed'
  <2>1. TablesTyped' /\ HistoryTyped'
    BY <1>1, <1>2 DEF IInv, Typed, TablesTyped, HistoryTyped
  <2>2. ResponderTyped' /\ JobsTyped'
    BY <1>1, <1>3 DEF ResponderTyped, Statuses, JobsTyped, Withdraws
  <2>. QED  BY <2>1, <2>2 DEF Typed
<1>5. ASSUME NEW t \in Ids
      PROVE  tokens'[t].key < key'
  <2>1. tokens[t] \in Token /\ key \in Nat
    BY DEF IInv, Typed, TablesTyped, Ids
  <2>. QED  BY <1>1, <2>1 DEF IInv, KeysPast, Token
<1>6. KeysPast'
  <2>1. ASSUME NEW t \in Ids
        PROVE  tokens[t].key <= key + 1
    <3>1. tokens[t] \in Token /\ key \in Nat
      BY DEF IInv, Typed, TablesTyped, Ids
    <3>. QED  BY <3>1 DEF IInv, KeysPast, Token
  <2>. QED  BY <1>1, <1>2, <2>1 DEF KeysPast
<1>7. HistoryDead'
  BY <1>1, <1>5 DEF HistoryDead, Dead, IInv, Typed, HistoryTyped
<1>8. AllPromised'
  BY <1>1, <1>3 DEF AllPromised, Withdraws
<1>9. StatusFollowsRevocation'
  BY <1>1 DEF StatusFollowsRevocation
<1>. QED  BY <1>4, <1>6, <1>7, <1>8, <1>9 DEF IInv

-----------------------------------------------------------------------------
(* The theorems.                                                           *)

LEMMA Initially == Init => IInv
<1>. SUFFICES ASSUME Init PROVE IInv
  OBVIOUS
<1>1. Ids = {}
  BY DEF Init, Fresh, Ids
<1>2. Idle \in Job /\ Idle \notin Withdrawal
  BY WithdrawalFields DEF Job
<1>3. Typed
  <2>1. TablesTyped
    BY TokenBound DEF Init, Fresh, NoAgents, TablesTyped
  <2>2. HistoryTyped /\ ResponderTyped
    BY DEF Init, Fresh, HistoryTyped, ResponderTyped, Statuses
  <2>3. JobsTyped
    BY <1>2 DEF Init, Fresh, JobsTyped, Withdraws
  <2>. QED  BY <2>1, <2>2, <2>3 DEF Typed
<1>4. AllPromised
  BY <1>2 DEF Init, Fresh, AllPromised, Withdraws
<1>. QED  BY <1>1, <1>3, <1>4 DEF IInv, KeysPast, HistoryDead, StatusFollowsRevocation, Init, Fresh

LEMMA Inductive == IInv /\ [Next]_vars => IInv'
<1>. SUFFICES ASSUME IInv, [Next]_vars PROVE IInv'
  OBVIOUS
<1>1. CASE UNCHANGED vars
  <2>1. TablesTyped' /\ UNCHANGED Records /\ UNCHANGED job
    BY <1>1, SameTables DEF IInv, vars, Records
  <2>. QED  BY <2>1, ElsewhereStep
<1>2. CASE Joining
  BY <1>2, JoiningStep
<1>3. CASE Withdrawing
  <2>1. ASSUME NEW h \in Handlers, NEW a \in Agents, Unregister(h, a) PROVE IInv'
    BY <2>1, BeginStep
  <2>2. ASSUME NEW h \in Handlers, NEW a \in Agents, NEW ts \in SUBSET Tools,
               UpdateTools(h, a, ts)
        PROVE  IInv'
    BY <2>2, BeginStep
  <2>3. ASSUME NEW h \in Handlers, NEW a \in Agents, NEW t \in Ids, Revoke(h, a, t) PROVE IInv'
    BY <2>3, BeginStep
  <2>. QED  BY <1>3, <2>1, <2>2, <2>3, SnapshotStep, RevokeNextStep, InvalidateStep,
               NotifiedStep, FinishStep DEF Withdrawing
<1>4. CASE Using
  <2>1. ASSUME NEW h \in Handlers, NEW p \in Asks, NEW t \in Ids,
               CallTool(h, p[1], p[2], p[3], t)
        PROVE  IInv'
    BY <2>1, BeginStep
  <2>2. ASSUME NEW h \in Handlers, NEW a \in Agents, NEW c \in DOMAIN convs, NEW t \in Ids,
               SendMessage(h, a, c, t)
        PROVE  IInv'
    BY <2>2, BeginStep
  <2>. QED  BY <1>4, <2>1, <2>2, RequestTokenStep, OpenConversationStep, RelayReturnsStep,
               CloseConversationStep, TokenStatusStep, StoreAnswerStep DEF Using
<1>5. CASE Restart
  BY <1>5, RestartStep
<1>. QED  BY <1>1, <1>2, <1>3, <1>4, <1>5 DEF Next

LEMMA Invariance == Spec => []IInv
  BY Initially, Inductive, PTL DEF Spec

LEMMA DeadIsRefused ==
  ASSUME IInv, NEW t \in revoked \cup covered
  PROVE  ~ Verifies(t)
<1>1. t \in Ids
  BY DEF IInv, Typed, HistoryTyped
<1>2. tokens[t] \in Token /\ key \in Nat
  BY <1>1 DEF IInv, Typed, TablesTyped, Ids
<1>3. tokens[t].key \in Nat
  BY <1>2 DEF Token
<1>4. t \in crl \/ tokens[t].key < key
  BY DEF IInv, HistoryDead, Dead
<1>. QED  BY <1>2, <1>3, <1>4 DEF Verifies

\* A token that was ever revoked is never accepted again, however many times
\* the server restarts and whatever is issued and withdrawn meanwhile.
THEOREM RevokedForGood == Spec => []RevokedStaysRevoked
<1>1. IInv => RevokedStaysRevoked
  BY DeadIsRefused DEF RevokedStaysRevoked
<1>. QED  BY Invariance, <1>1, PTL

\* Any number of withdrawals running at once, between the calls, messages and
\* registrations of others, reach every token each of them concerns, and no
\* answer of the responder outlives the revocation it does not know of.
THEOREM WithdrawalComplete == Spec => []WithdrawalRevokes
<1>1. IInv => WithdrawalRevokes
  BY DeadIsRefused DEF WithdrawalRevokes, CoveredAreRefused, IInv
<1>. QED  BY Invariance, <1>1, PTL

-------------------------------------------------------------------------------
(* What a resolver answers.                                                   *)

\* In the stores D and B, or out of them, by the history R, no earlier than then.
Had(D, B, R, d, then) ==
  \/ d \in D \cup DocumentsOf(B)
  \/ \E r \in R : r.document = d /\ then =< r.until

\* A cache entry was in a store when it was put; what a resolver is about to put
\* was in a store this hour.
Lately ==
  /\ hour \in Int
  /\ \A r \in replaced : r.until \in Int
  /\ \A e \in resolverCache :
       e.at \in Int /\ e.at =< hour /\ Had(documents, backend, replaced, e.document, e.at)
  /\ DOMAIN fetched = Resolvers
  /\ \A r \in Resolvers :
       fetched[r].at = "put" => Had(documents, backend, replaced, fetched[r].document, hour)

\* What leaves a store is remembered.
LEMMA Remembered ==
  ASSUME NEW D, NEW B, NEW R, NEW today \in Int, NEW E, NEW C, NEW gone,
         NEW d, NEW then \in Int, then =< today, Had(D, B, R, d, then),
         d \in D \cup DocumentsOf(B) => d \in (E \cup DocumentsOf(C)) \cup gone
  PROVE  Had(E, C, {r \in R : r.document \notin gone} \cup [document : gone, until : {today}], d, then)
<1>1. CASE d \in gone
  <2>1. [document |-> d, until |-> today] \in [document : gone, until : {today}]
    BY <1>1
  <2>. QED  BY <2>1 DEF Had
<1>2. CASE d \notin gone
  BY <1>2 DEF Had
<1>. QED  BY <1>1, <1>2

\* A step that changes the stores and neither the cache nor what is fetched.
LEMMA StoresMove ==
  ASSUME Lately, NEW gone, replaced' = Replace(gone), UNCHANGED <<hour, fetched>>,
         \A d \in documents \cup DocumentsOf(backend) :
           d \in (documents' \cup DocumentsOf(backend)') \cup gone,
         \/ resolverCache' = resolverCache
         \/ \E d \in documents' \cup DocumentsOf(backend)' :
              resolverCache' = {[document |-> d, at |-> hour]}
  PROVE  Lately'
<1>1. hour \in Int /\ hour' = hour
  BY DEF Lately
<1>2. replaced' = {r \in replaced : r.document \notin gone} \cup [document : gone, until : {hour}]
  BY DEF Replace
<1>3. \A r \in replaced' : r.until \in Int
  BY <1>1, <1>2 DEF Lately
<1>4. ASSUME NEW d, NEW then \in Int, then =< hour, Had(documents, backend, replaced, d, then)
      PROVE  Had(documents', backend', replaced', d, then)
  BY <1>1, <1>2, <1>4, Remembered DEF DocumentsOf
<1>5. \A e \in resolverCache' :
        e.at \in Int /\ e.at =< hour /\ Had(documents', backend', replaced', e.document, e.at)
  <2>1. CASE resolverCache' = resolverCache
    BY <1>4, <2>1 DEF Lately
  <2>2. ASSUME NEW d \in documents' \cup DocumentsOf(backend)',
               resolverCache' = {[document |-> d, at |-> hour]}
        PROVE  \A e \in resolverCache' :
                 e.at \in Int /\ e.at =< hour /\ Had(documents', backend', replaced', e.document, e.at)
    BY <1>1, <2>2 DEF Had, DocumentsOf
  <2>. QED  BY <2>1, <2>2
<1>6. ASSUME NEW r \in Resolvers, fetched'[r].at = "put"
      PROVE  Had(documents', backend', replaced', fetched'[r].document, hour')
  BY <1>1, <1>4, <1>6 DEF Lately
<1>. QED  BY <1>1, <1>3, <1>5, <1>6 DEF Lately

\* Every step of the documents keeps that.
LEMMA LatelyStep ==
  ASSUME Lately, DocumentNext
  PROVE  Lately'
<1>1. ASSUME NEW document, RegisterDocument(document) PROVE Lately'
  BY <1>1, StoresMove DEF RegisterDocument, DocumentsOf
<1>2. CASE RemoveDocument
  BY <1>2, StoresMove DEF RemoveDocument, DocumentsOf
<1>3. CASE Unpublish
  BY <1>3, StoresMove DEF Unpublish, DocumentsOf
<1>4. ASSUME NEW entry, Store(entry), resolverCache' = Cached(entry.document) PROVE Lately'
  <2>1. backend' = {entry} /\ replaced' = Replace(DocumentsOf(backend) \ {entry.document})
        /\ UNCHANGED <<hour, documents, fetched>>
    BY <1>4 DEF Store
  <2>2. DocumentsOf(backend)' = {entry.document}
    BY <2>1 DEF DocumentsOf
  <2>3. resolverCache' = {[document |-> entry.document, at |-> hour]}
    BY <1>4 DEF Cached
  <2>. QED  BY <2>1, <2>2, <2>3, StoresMove
<1>5. CASE Publish
  <2>1. PICK document : Store(DhtEntry(document, NextVersion)) /\ resolverCache' = Cached(document)
    BY <1>5 DEF Publish
  <2>2. DhtEntry(document, NextVersion).document = document
    BY DEF DhtEntry
  <2>. QED  BY <1>4, <2>1, <2>2
<1>6. ASSUME NEW entry \in entries, PublishEntry(entry) PROVE Lately'
  BY <1>4, <1>6 DEF PublishEntry
<1>7. ASSUME UNCHANGED <<hour, documents, backend, replaced>>,
             DOMAIN fetched' = Resolvers,
             \A r \in Resolvers : fetched'[r].at = "put"
                => \/ fetched'[r] = fetched[r]
                   \/ fetched'[r].document \in documents \cup DocumentsOf(backend),
             \A e \in resolverCache' :
                \/ e \in resolverCache
                \/ \E r \in Resolvers : /\ fetched[r].at = "put"
                                        /\ e = [document |-> fetched[r].document, at |-> hour]
      PROVE  Lately'
  <2>1. \A r \in Resolvers :
          fetched'[r].at = "put" => Had(documents, backend, replaced, fetched'[r].document, hour)
    BY <1>7 DEF Lately, Had
  <2>2. \A e \in resolverCache' :
          e.at \in Int /\ e.at =< hour /\ Had(documents, backend, replaced, e.document, e.at)
    BY <1>7 DEF Lately
  <2>. QED  BY <1>7, <2>1, <2>2 DEF Lately
<1>8. DOMAIN fetched = Resolvers
  BY DEF Lately
<1>9. ASSUME NEW r \in Resolvers, Resolve(r) PROVE Lately'
  <2>1. UNCHANGED <<hour, documents, backend, replaced>> /\ Resolved # {}
    BY <1>9 DEF Resolve
  <2>2. CASE UNCHANGED <<resolverCache, fetched>>
    BY <1>7, <1>8, <2>1, <2>2
  <2>3. CASE /\ FreshEntries = {} /\ resolverCache' = {}
             /\ fetched' = [fetched EXCEPT ![r] = [at |-> "put", document |-> CHOOSE d \in Resolved : TRUE]]
    <3>1. Resolved \subseteq documents \cup DocumentsOf(backend)
      BY <2>3 DEF Resolved
    <3>2. (CHOOSE d \in Resolved : TRUE) \in Resolved
      BY <2>1
    <3>. QED  BY <1>7, <1>8, <2>1, <2>3, <3>1, <3>2
  <2>. QED  BY <1>9, <2>2, <2>3 DEF Resolve
<1>10. ASSUME NEW r \in Resolvers, PutInCache(r) PROVE Lately'
  <2>1. /\ UNCHANGED <<hour, documents, backend, replaced>> /\ fetched[r].at = "put"
        /\ resolverCache' = {[document |-> fetched[r].document, at |-> hour]}
        /\ fetched' = [fetched EXCEPT ![r] = [at |-> "none"]]
    BY <1>10 DEF PutInCache, Cached, Nothing
  <2>. QED  BY <1>7, <1>8, <2>1
<1>11. CASE InvalidateCache
  BY <1>7, <1>8, <1>11 DEF InvalidateCache
<1>12. CASE CreateRotationProof \/ \E version \in 1 .. MaxVersions : CreateDhtEntry(version)
  BY <1>7, <1>8, <1>12 DEF CreateRotationProof, CreateDhtEntry
<1>13. CASE ITick
  <2>1. \A r \in Resolvers : fetched[r].at # "put"
    BY <1>13 DEF ITick, Nothing
  <2>. QED  BY <1>13, <2>1 DEF ITick, Lately
<1>14. CASE Create \/ RotateKey \/ \E k \in Keys : CommitNextKey(k)
  BY <1>1, <1>14 DEF Create, RotateKey, CommitNextKey
<1>. QED
  BY <1>2, <1>3, <1>5, <1>6, <1>9, <1>10, <1>11, <1>12, <1>13, <1>14 DEF DocumentNext

\* A fresh cache entry was in a store at most CacheTtl ago.
LEMMA LatelyResolved ==
  Lately => ResolvedIsRecent
<1>. SUFFICES ASSUME Lately, NEW d \in Resolved,
                     d \notin documents \cup DocumentsOf(backend)
              PROVE  \E r \in replaced : r.document = d /\ hour - r.until <= CacheTtl
  BY DEF ResolvedIsRecent
<1>1. PICK e \in resolverCache : e.document = d /\ hour - e.at <= CacheTtl
  BY DEF Resolved, FreshEntries, DocumentsOf
<1>2. e.at \in Int /\ hour \in Int /\ Had(documents, backend, replaced, e.document, e.at)
  BY DEF Lately
<1>3. PICK r \in replaced : r.document = d /\ e.at =< r.until
  BY <1>1, <1>2 DEF Had
<1>4. r.until \in Int /\ CacheTtl \in Int
  BY IdentityAssumption DEF Lately
<1>. QED  BY <1>1, <1>2, <1>3, <1>4
-------------------------------------------------------------------------------
(* A chain of bindings.                                                       *)

Granted == Permissions \cup {All}
Binding == [agent : Nat, permissions : SUBSET Granted, expiry : Int, depth : Nat]

\* Whoever is further down a chain is as many agents and delegations further,
\* may do no more, and for no longer.
Under(a, b, links) ==
  /\ b.agent = a.agent + links
  /\ b.depth = a.depth - links
  /\ b.expiry =< a.expiry
  /\ \A p \in Granted : HasPermission(b, p) => HasPermission(a, p)

Passed ==
  /\ hour \in Int
  /\ chain \in Seq(Binding)
  /\ \A i, j \in DOMAIN chain : i =< j => Under(chain[i], chain[j], j - i)

\* A binding attenuated from the last one is under all of them.
LEMMA UnderAll ==
  ASSUME NEW a \in Binding, NEW b \in Binding, NEW links \in Nat, Under(a, b, links),
         NEW c \in Binding, Under(b, c, 1)
  PROVE  Under(a, c, links + 1)
BY DEF Under, Binding

\* Attenuation adds such a binding.
LEMMA AttenuateStep ==
  ASSUME Passed, NEW reduced \in SUBSET Granted, NEW validity \in 0 .. MaxHours,
         AttenuateBinding(reduced, validity)
  PROVE  Passed'
<1>. DEFINE n == Len(chain)
            b == Last(chain)
            c == Attenuated(b, reduced, validity)
<1>1. n \in Nat /\ n >= 1 /\ DOMAIN chain = 1 .. n /\ b = chain[n] /\ n \in 1 .. n
  BY DEF Passed, AttenuateBinding, Last
<1>2. b \in Binding /\ hour \in Int /\ chain \in Seq(Binding)
  BY <1>1 DEF Passed
<1>3. validity \in Int /\ b.depth > 0 /\ WithinPermissions(reduced, b) /\ validity <= b.expiry - hour
      /\ chain' = Append(chain, c) /\ hour' = hour
  BY IdentityAssumption DEF AttenuateBinding
<1>4. c \in Binding /\ Under(b, c, 1)
  <2>1. c = [agent |-> b.agent + 1, permissions |-> reduced, expiry |-> hour + validity, depth |-> b.depth - 1]
    BY DEF Attenuated
  <2>2. b.agent \in Nat /\ b.expiry \in Int /\ b.depth \in Nat
    BY <1>2 DEF Binding
  <2>3. c \in Binding
    BY <1>2, <1>3, <2>1, <2>2 DEF Binding
  <2>4. \A p \in Granted : HasPermission(c, p) => HasPermission(b, p)
    BY <1>3, <2>1 DEF HasPermission, WithinPermissions
  <2>. QED  BY <1>2, <1>3, <2>1, <2>2, <2>3, <2>4 DEF Under
<1>. HIDE DEF c, b
<1>5. /\ chain' \in Seq(Binding) /\ DOMAIN chain' = 1 .. (n + 1) /\ chain'[n + 1] = c
      /\ \A i \in 1 .. n : chain'[i] = chain[i]
  BY <1>2, <1>3, <1>4
<1>6. \A i \in 1 .. n : chain[i] \in Binding /\ Under(chain[i], b, n - i)
  BY <1>1, <1>2 DEF Passed
<1>7. Under(c, c, 0)
  BY <1>4 DEF Under, Binding
<1>8. ASSUME NEW i \in 1 .. (n + 1), NEW j \in 1 .. (n + 1), i =< j
      PROVE  Under(chain'[i], chain'[j], j - i)
  <2>1. CASE j \in 1 .. n
    <3>1. i \in 1 .. n
      BY <1>1, <1>8, <2>1
    <3>. QED  BY <1>1, <1>5, <1>8, <2>1, <3>1 DEF Passed
  <2>2. CASE j = n + 1 /\ i \in 1 .. n
    <3>1. n - i \in Nat /\ (n - i) + 1 = j - i
      BY <1>1, <2>2
    <3>2. Under(chain[i], c, (n - i) + 1)
      BY <1>2, <1>4, <1>6, <2>2, <3>1, UnderAll
    <3>. QED  BY <1>5, <2>2, <3>1, <3>2
  <2>3. CASE j = n + 1 /\ i = n + 1
    <3>1. j - i = 0
      BY <1>1, <2>3
    <3>. QED  BY <1>5, <1>7, <2>3, <3>1
  <2>. QED  BY <1>1, <2>1, <2>2, <2>3
<1>. HIDE DEF n
<1>. QED  BY <1>2, <1>3, <1>5, <1>8 DEF Passed

\* Every step of the bindings keeps that.
LEMMA PassedStep ==
  ASSUME Passed, BindingNext
  PROVE  Passed'
<1>1. ASSUME NEW root \in RootBindings, CreateOwnerBinding(root) PROVE Passed'
  <2>1. root \in Binding
    BY IdentityAssumption DEF Binding, Granted
  <2>2. chain' = <<root>> /\ hour' = hour
    BY <1>1 DEF CreateOwnerBinding
  <2>3. chain' \in Seq(Binding) /\ DOMAIN chain' = {1} /\ chain'[1] = root
    BY <2>1, <2>2
  <2>4. Under(root, root, 1 - 1)
    BY <2>1 DEF Under, Binding
  <2>. QED  BY <2>2, <2>3, <2>4 DEF Passed
<1>2. ASSUME NEW reduced \in SUBSET Granted, NEW validity \in 0 .. MaxHours,
             AttenuateBinding(reduced, validity)
      PROVE  Passed'
  BY <1>2, AttenuateStep
<1>3. CASE DropChain
  BY <1>3 DEF DropChain, Passed
<1>4. CASE ITick
  BY <1>4 DEF ITick, Passed
<1>. QED  BY <1>1, <1>2, <1>3, <1>4 DEF BindingNext, Granted

\* What is passed on narrows, and verifies while its last binding lasts.
LEMMA PassedNarrows ==
  Passed => ChainNarrows
<1>. SUFFICES ASSUME Passed, chain # << >> PROVE ChainNarrows
  BY DEF ChainNarrows
<1>. DEFINE n == Len(chain)
<1>1. n \in Nat /\ n >= 1 /\ DOMAIN chain = 1 .. n /\ Last(chain) = chain[n] /\ hour \in Int
      /\ 1 \in 1 .. n /\ n \in 1 .. n
  BY DEF Passed, Last
<1>2. \A i \in 1 .. n : chain[i] \in Binding
  BY <1>1 DEF Passed
<1>3. \A i, j \in 1 .. n : i =< j => Under(chain[i], chain[j], j - i)
  BY <1>1 DEF Passed
<1>. HIDE DEF n
<1>4. n <= chain[1].depth + 1
  BY <1>1, <1>2, <1>3 DEF Under, Binding
<1>5. \A i \in 1 .. n : chain[n].expiry =< chain[i].expiry /\ chain[n].expiry \in Int /\ chain[i].expiry \in Int
  BY <1>1, <1>2, <1>3 DEF Under, Binding
<1>6. ASSUME NEW i \in 2 .. n
      PROVE  /\ chain[i].agent = chain[i - 1].agent + 1
             /\ chain[i].depth = chain[i - 1].depth - 1
             /\ WithinPermissions(chain[i].permissions, chain[i - 1])
             /\ chain[i].expiry <= chain[i - 1].expiry
  <2>1. i - 1 \in 1 .. n /\ i \in 1 .. n /\ i - 1 =< i /\ i - (i - 1) = 1
    BY <1>1
  <2>2. Under(chain[i - 1], chain[i], 1)
    BY <1>3, <2>1
  <2>3. chain[i].permissions \subseteq Granted
    BY <1>2, <2>1 DEF Binding
  <2>. QED  BY <2>2, <2>3 DEF Under, WithinPermissions, HasPermission
<1>7. BindingsVerify(chain) <=> ~ BindingExpired(chain[n])
  <2>1. (\A i \in 1 .. n : ~ BindingExpired(chain[i])) <=> ~ BindingExpired(chain[n])
    BY <1>1, <1>5 DEF BindingExpired
  <2>. QED  BY <1>1, <1>6, <2>1 DEF BindingsVerify, n
<1>8. ASSUME NEW i \in 1 .. n, NEW j \in 1 .. n, i < j
      PROVE  /\ \A p \in Permissions \cup {All} : HasPermission(chain[j], p) => HasPermission(chain[i], p)
             /\ chain[j].expiry <= chain[i].expiry
  <2>1. Under(chain[i], chain[j], j - i)
    BY <1>1, <1>3, <1>8
  <2>. QED  BY <2>1 DEF Under, Granted
<1>. QED  BY <1>1, <1>4, <1>7, <1>8 DEF ChainNarrows, n

-------------------------------------------------------------------------------
(* Certificates.                                                              *)

Requests(f) == {r[f] : r \in Requested}
Cert == [subject : Subjects, issuer : Subjects, signer : Subjects, under : Nat,
         ca : BOOLEAN, classes : Requests("classes"), depth : Int \cup {NoLimit},
         spending : Int \cup {NoLimit}, not_before : Int, not_after : Int]

\* What CreateSelfSigned and CreateIssuedCertificate see to.
WellIssued(s, c) ==
  LET cert == s[c] ca == s[s[c].under]
  IN  /\ cert.signer = cert.issuer
      /\ cert.under \in 0 .. (c - 1)
      /\ cert.under = 0 => cert.issuer = cert.subject
      /\ cert.under # 0 => /\ cert.issuer = ca.subject
                           /\ ca.ca
                           /\ Narrows(ca, cert)
                           /\ ca.depth # NoLimit => /\ ca.depth > 0
                                                    /\ cert.depth # NoLimit /\ cert.depth < ca.depth

AllIssued ==
  /\ day \in Int
  /\ certs \in Seq(Cert)
  /\ \A c \in DOMAIN certs : WellIssued(certs, c)

\* A certificate that is well issued keeps the others so.
LEMMA CertAdded ==
  ASSUME AllIssued, day' = day, NEW cert \in Cert, certs' = Append(certs, cert),
         WellIssued(certs', Len(certs) + 1)
  PROVE  AllIssued'
<1>. DEFINE n == Len(certs)
<1>1. n \in Nat /\ DOMAIN certs = 1 .. n /\ certs \in Seq(Cert)
  BY DEF AllIssued
<1>2. /\ certs' \in Seq(Cert) /\ DOMAIN certs' = 1 .. (n + 1)
      /\ \A i \in 1 .. n : certs'[i] = certs[i]
  BY <1>1
<1>. HIDE DEF n
<1>3. ASSUME NEW c \in 1 .. n PROVE WellIssued(certs', c)
  <2>1. WellIssued(certs, c)
    BY <1>1 DEF AllIssued
  <2>2. certs[c].under = 0 \/ certs[c].under \in 1 .. n
    BY <1>1, <2>1 DEF WellIssued
  <2>. QED  BY <1>2, <2>1, <2>2 DEF WellIssued
<1>4. \A c \in 1 .. (n + 1) : WellIssued(certs', c)
  BY <1>1, <1>3 DEF n
<1>. QED  BY <1>2, <1>4 DEF AllIssued

\* Every step of the CAs keeps that.
LEMMA CertStep ==
  ASSUME AllIssued, CertNext
  PROVE  AllIssued'
<1>. DEFINE n == Len(certs)
<1>1. n \in Nat /\ DOMAIN certs = 1 .. n /\ certs \in Seq(Cert) /\ day \in Int
  BY DEF AllIssued
<1>. HIDE DEF n
<1>2. ASSUME NEW subject \in Subjects, NEW issuer \in Subjects, NEW under \in Nat,
             NEW request \in Requested, NEW depth \in Int \cup {NoLimit}
      PROVE  Certificate(subject, issuer, under, request, depth) \in Cert
  <2>1. request.ca \in BOOLEAN /\ request.spending \in Int \cup {NoLimit} /\ day + request.days \in Int
        /\ request.classes \in Requests("classes")
    BY <1>1, CertificateAssumption DEF Requests
  <2>. QED  BY <1>1, <2>1 DEF Certificate, Cert
<1>3. ASSUME NEW subject \in Subjects, NEW request \in Requested, CreateSelfSigned(subject, request)
      PROVE  AllIssued'
  <2>. DEFINE cert == Certificate(subject, subject, 0, request, request.depth)
  <2>1. cert \in Cert
    BY <1>2, CertificateAssumption
  <2>2. certs' = Append(certs, cert) /\ day' = day
    BY <1>3 DEF CreateSelfSigned
  <2>3. cert.signer = subject /\ cert.issuer = subject /\ cert.subject = subject /\ cert.under = 0
    BY DEF Certificate
  <2>. HIDE DEF cert
  <2>4. certs'[n + 1] = cert
    BY <1>1, <2>1, <2>2 DEF n
  <2>5. WellIssued(certs', n + 1)
    BY <1>1, <2>3, <2>4 DEF WellIssued
  <2>. QED  BY <2>1, <2>2, <2>5, CertAdded DEF n
<1>4. ASSUME NEW subject \in Subjects, NEW request \in Requested, NEW under \in 1 .. n,
             CreateIssuedCertificate(subject, under, request)
      PROVE  AllIssued'
  <2>. DEFINE ca == certs[under]
              depth == IssuedDepth(ca, request)
              cert == Certificate(subject, ca.subject, under, request, depth)
  <2>1. ca \in Cert /\ MayIssue(ca, request) /\ certs' = Append(certs, cert) /\ day' = day
    BY <1>1, <1>4 DEF CreateIssuedCertificate
  <2>. HIDE DEF ca
  <2>2. /\ ca.subject \in Subjects /\ ca.depth \in Int \cup {NoLimit} /\ ca.ca \in BOOLEAN
        /\ ca.spending \in Int \cup {NoLimit}
    BY <2>1 DEF Cert
  <2>3. request.depth \in Int \cup {NoLimit} /\ request.spending \in Int \cup {NoLimit}
    BY CertificateAssumption
  <2>4. /\ depth \in Int \cup {NoLimit}
        /\ ca.depth # NoLimit => ca.depth > 0 /\ depth # NoLimit /\ depth < ca.depth
    BY <2>1, <2>2, <2>3, NoLimitIsNone DEF IssuedDepth, MayIssue, Limited
  <2>. HIDE DEF depth
  <2>5. cert \in Cert
    BY <1>1, <1>2, <2>2, <2>4
  <2>6. /\ cert.signer = ca.subject /\ cert.issuer = ca.subject /\ cert.under = under
        /\ cert.classes = request.classes /\ cert.depth = depth /\ cert.spending = request.spending
    BY DEF Certificate
  <2>. HIDE DEF cert
  <2>7. Narrows(ca, cert)
    BY <2>1, <2>4, <2>6 DEF Narrows, MayIssue, Limited
  <2>8. certs'[n + 1] = cert /\ certs'[under] = ca /\ under \in 0 .. n /\ under # 0
    BY <1>1, <2>1, <2>5 DEF n, ca
  <2>9. ca.ca
    BY <2>1 DEF MayIssue
  <2>10. WellIssued(certs', n + 1)
    BY <1>1, <2>4, <2>6, <2>7, <2>8, <2>9 DEF WellIssued
  <2>. QED  BY <2>1, <2>5, <2>10, CertAdded DEF n
<1>5. CASE CertTick
  BY <1>1, <1>5 DEF CertTick, AllIssued
<1>. QED  BY <1>1, <1>3, <1>4, <1>5 DEF CertNext

\* Along certificates issued one under the other each delegation costs a level.
LEMMA LevelsUsed ==
  ASSUME AllIssued, NEW length \in Nat, NEW path \in [1 .. length -> DOMAIN certs],
         \A i \in 2 .. length : certs[path[i]].under = path[i - 1],
         certs[path[1]].depth # NoLimit
  PROVE  \A i \in 1 .. length : /\ certs[path[i]].depth # NoLimit
                                /\ certs[path[i]].depth + (i - 1) =< certs[path[1]].depth
<1>. DEFINE Good(i) == /\ certs[path[i]].depth # NoLimit
                       /\ certs[path[i]].depth + (i - 1) =< certs[path[1]].depth
            C == {i \in 1 .. length : ~ Good(i)}
<1>1. SUFFICES ASSUME C # {} PROVE FALSE
  OBVIOUS
<1>2. PICK k \in C : \A m \in C : k =< m
  <2>1. C \in SUBSET Nat
    OBVIOUS
  <2>. HIDE DEF C
  <2>. QED  BY <1>1, <2>1, LeastExists
<1>3. /\ \A i \in 1 .. length : path[i] \in DOMAIN certs /\ certs[path[i]] \in Cert
                                /\ certs[path[i]].depth \in Int \cup {NoLimit}
  <2>1. \A i \in 1 .. length : path[i] \in DOMAIN certs /\ certs[path[i]] \in Cert
    BY DEF AllIssued
  <2>. QED  BY <2>1 DEF Cert
<1>4. k # 1
  <2>1. 1 \in 1 .. length => Good(1)
    BY <1>3, NoLimitIsNone
  <2>. QED  BY <1>2, <2>1
<1>5. k \in 2 .. length /\ k - 1 \in 1 .. length /\ k \in 1 .. length
  BY <1>2, <1>4
<1>6. Good(k - 1)
  BY <1>2, <1>5
<1>7. WellIssued(certs, path[k]) /\ certs[path[k]].under = path[k - 1] /\ path[k - 1] # 0
  <2>1. \A c \in DOMAIN certs : c # 0
    BY DEF AllIssued
  <2>. QED  BY <1>3, <1>5, <2>1 DEF AllIssued
<1>8. certs[path[k]].depth # NoLimit /\ certs[path[k]].depth < certs[path[k - 1]].depth
  BY <1>6, <1>7 DEF WellIssued
<1>9. 1 \in 1 .. length
  BY <1>5
<1>10. Good(k)
  <2>. DEFINE x == certs[path[k]].depth
              y == certs[path[k - 1]].depth
              z == certs[path[1]].depth
  <2>1. x \in Int /\ y \in Int /\ z \in Int
    BY <1>3, <1>5, <1>6, <1>8, <1>9
  <2>2. x < y /\ y + ((k - 1) - 1) =< z /\ x # NoLimit /\ k \in Int
    BY <1>5, <1>6, <1>8
  <2>. HIDE DEF x, y, z
  <2>3. x + (k - 1) =< z
    BY <2>1, <2>2
  <2>. QED  BY <2>2, <2>3 DEF x, z
<1>. QED  BY <1>2, <1>10

\* A subject certified once has one certificate.
LEMMA TheOnlyOne ==
  ASSUME AllIssued, NEW a \in DOMAIN certs, NEW b \in DOMAIN certs,
         certs[a].subject = certs[b].subject, CertifiedOnce(certs[a].subject)
  PROVE  a = b
<1>. DEFINE S == {c \in DOMAIN certs : certs[c].subject = certs[a].subject}
<1>1. IsFiniteSet(DOMAIN certs)
  BY FS_Interval DEF AllIssued
<1>2. IsFiniteSet(S)
  BY <1>1, FS_Subset
<1>3. Cardinality(S) = 1
  BY DEF CertifiedOnce
<1>4. a \in S /\ b \in S
  OBVIOUS
<1>. HIDE DEF S
<1>5. PICK x : S = {x}
  BY <1>2, <1>3, FS_Singleton
<1>. QED  BY <1>4, <1>5

\* Certificates well issued agree with verify_certificate_chain both ways.
LEMMA IssuedHold ==
  AllIssued => CertificatesHold
<1>. SUFFICES ASSUME AllIssued, NEW length \in 2 .. Len(certs), NEW path \in [1 .. length -> DOMAIN certs]
     PROVE  /\ IssuedAlong(path) =>
                 /\ certs[Head(path)].depth # NoLimit => length - 1 <= certs[Head(path)].depth
                 /\ VerifyCertificateChain(path) <=>
                      /\ certs[Head(path)].subject \in TrustedRoots
                      /\ \A i \in 1 .. length : IsValid(certs[path[i]])
            /\ /\ VerifyCertificateChain(path) /\ IsInjective(path)
               /\ \A i \in 1 .. length : CertifiedOnce(certs[path[i]].subject)
               => IssuedAlong(path)
  BY DEF CertificatesHold
<1>1. /\ length \in Nat /\ length >= 2 /\ path \in Seq(DOMAIN certs) /\ Len(path) = length
      /\ Head(path) = path[1] /\ path # << >> /\ DOMAIN path = 1 .. length
  <2>1. length \in Nat /\ length >= 2
    BY DEF AllIssued
  <2>2. path \in Seq(DOMAIN certs)
    BY <2>1, SeqDef
  <2>3. Len(path) = length
    BY <2>1, <2>2, LenProperties
  <2>. QED  BY <2>1, <2>2, <2>3
<1>2. \A i \in 1 .. length : /\ path[i] \in DOMAIN certs /\ certs[path[i]] \in Cert
                             /\ WellIssued(certs, path[i]) /\ path[i] # 0
  <2>1. \A c \in DOMAIN certs : certs[c] \in Cert /\ WellIssued(certs, c) /\ c # 0
    BY DEF AllIssued
  <2>. QED  BY <2>1
<1>3. ToSet(path) = {path[i] : i \in 1 .. length}
  BY <1>1 DEF ToSet
<1>4. ToSet(Front(path)) = {path[i] : i \in 1 .. (length - 1)}
  <2>1. Front(path) = [i \in 1 .. (length - 1) |-> path[i]]
    BY <1>1 DEF Front
  <2>. QED  BY <1>1, <2>1 DEF ToSet
<1>5. 1 \in 1 .. length /\ length \in 1 .. length /\ \A i \in 2 .. length : i \in 1 .. length /\ i - 1 \in 1 .. length
  BY <1>1
<1>6. VerifyCertificateChain(path) <=>
        /\ certs[path[1]].subject \in TrustedRoots
        /\ IsSelfSigned(certs[path[1]]) /\ VerifyCertificate(certs[path[1]], certs[path[1]].subject)
        /\ \A i \in 1 .. length : IsValid(certs[path[i]])
        /\ \A i \in 1 .. (length - 1) : certs[path[i]].ca
        /\ \A i \in 2 .. length :
             /\ VerifyCertificate(certs[path[i]], certs[path[i - 1]].subject)
             /\ Narrows(certs[path[i - 1]], certs[path[i]])
  BY <1>1, <1>3, <1>4 DEF VerifyCertificateChain
<1>7. ASSUME IssuedAlong(path)
      PROVE  /\ certs[path[1]].depth # NoLimit => length - 1 <= certs[path[1]].depth
             /\ VerifyCertificateChain(path) <=>
                  /\ certs[path[1]].subject \in TrustedRoots
                  /\ \A i \in 1 .. length : IsValid(certs[path[i]])
  <2>1. certs[path[1]].under = 0 /\ \A i \in 2 .. length : certs[path[i]].under = path[i - 1]
    BY <1>1, <1>7 DEF IssuedAlong
  <2>2. ASSUME certs[path[1]].depth # NoLimit
        PROVE  length - 1 <= certs[path[1]].depth
    <3>. DEFINE k == length - 1
    <3>1. k \in 1 .. length /\ length \in 2 .. length /\ k \in Int
      BY <1>1
    <3>2. certs[path[k]].depth # NoLimit /\ certs[path[k]].depth + (k - 1) =< certs[path[1]].depth
      <4>1. \A i \in 1 .. length : /\ certs[path[i]].depth # NoLimit
                                    /\ certs[path[i]].depth + (i - 1) =< certs[path[1]].depth
        BY <1>1, <2>1, <2>2, LevelsUsed
      <4>. HIDE DEF k
      <4>. QED  BY <3>1, <4>1
    <3>3. certs[path[length]].under = path[k] /\ path[k] # 0
      BY <1>2, <2>1, <3>1
    <3>4. certs[path[k]].depth > 0
      BY <1>2, <1>5, <3>2, <3>3 DEF WellIssued
    <3>5. certs[path[k]].depth \in Int /\ certs[path[1]].depth \in Int
      BY <1>2, <1>5, <2>2, <3>1, <3>2 DEF Cert
    <3>6. ASSUME NEW low \in Int, NEW top \in Int, low > 0, low + (k - 1) =< top
          PROVE  k =< top
      <4>. HIDE DEF k
      <4>. QED  BY <3>1, <3>6
    <3>. QED  BY <3>2, <3>4, <3>5, <3>6
  <2>3. IsSelfSigned(certs[path[1]]) /\ VerifyCertificate(certs[path[1]], certs[path[1]].subject)
    BY <1>2, <1>5, <2>1 DEF WellIssued, IsSelfSigned, VerifyCertificate
  <2>4. \A i \in 2 .. length : /\ VerifyCertificate(certs[path[i]], certs[path[i - 1]].subject)
                               /\ Narrows(certs[path[i - 1]], certs[path[i]])
                               /\ certs[path[i - 1]].ca
    <3>1. ASSUME NEW i \in 2 .. length
          PROVE  /\ VerifyCertificate(certs[path[i]], certs[path[i - 1]].subject)
                 /\ Narrows(certs[path[i - 1]], certs[path[i]])
                 /\ certs[path[i - 1]].ca
      <4>1. certs[path[i]].under = path[i - 1] /\ path[i - 1] # 0 /\ WellIssued(certs, path[i])
        BY <1>2, <1>5, <2>1
      <4>. QED  BY <4>1 DEF WellIssued, VerifyCertificate
    <3>. QED  BY <3>1
  <2>5. \A i \in 1 .. (length - 1) : certs[path[i]].ca
    <3>1. \A i \in 1 .. (length - 1) : i + 1 \in 2 .. length /\ (i + 1) - 1 = i
      BY <1>1
    <3>. QED  BY <2>4, <3>1
  <2>. QED  BY <1>6, <2>2, <2>3, <2>4, <2>5
<1>8. ASSUME VerifyCertificateChain(path), IsInjective(path),
             \A i \in 1 .. length : CertifiedOnce(certs[path[i]].subject)
      PROVE  IssuedAlong(path)
  <2>1. \A i, j \in 1 .. length : path[i] = path[j] => i = j
    BY <1>1, <1>8 DEF IsInjective
  <2>2. /\ certs[path[1]].issuer = certs[path[1]].subject
        /\ \A i \in 2 .. length : certs[path[i]].signer = certs[path[i - 1]].subject
    BY <1>6, <1>8 DEF IsSelfSigned, VerifyCertificate
  <2>3. ASSUME NEW i \in 1 .. length, certs[path[i]].under # 0
        PROVE  /\ certs[path[i]].under \in DOMAIN certs /\ certs[path[i]].under < path[i]
               /\ certs[path[i]].signer = certs[certs[path[i]].under].subject
    <3>1. DOMAIN certs = 1 .. Len(certs) /\ Len(certs) \in Nat
      BY DEF AllIssued
    <3>. QED  BY <1>2, <2>3, <3>1 DEF WellIssued
  <2>4. certs[path[1]].under = 0
    <3>1. SUFFICES ASSUME certs[path[1]].under # 0 PROVE FALSE
      OBVIOUS
    <3>. DEFINE u == certs[path[1]].under
    <3>2. u \in DOMAIN certs /\ u < path[1] /\ certs[u].subject = certs[path[1]].subject
      BY <1>2, <1>5, <2>2, <2>3, <3>1 DEF WellIssued
    <3>3. path[1] = u
      BY <1>2, <1>5, <1>8, <3>2, TheOnlyOne
    <3>4. path[1] \in Int
      BY <1>2, <1>5 DEF AllIssued
    <3>. QED  BY <3>2, <3>3, <3>4
  <2>5. ASSUME NEW i \in 2 .. length
        PROVE  certs[path[i]].under = path[i - 1]
    <3>1. i \in 1 .. length /\ i - 1 \in 1 .. length /\ i # i - 1
      BY <1>1
    <3>2. certs[path[i]].under # 0
      <4>1. SUFFICES ASSUME certs[path[i]].under = 0 PROVE FALSE
        OBVIOUS
      <4>2. certs[path[i - 1]].subject = certs[path[i]].subject
        BY <1>2, <2>2, <3>1, <4>1 DEF WellIssued
      <4>3. path[i - 1] = path[i]
        BY <1>2, <1>8, <3>1, <4>2, TheOnlyOne
      <4>. QED  BY <2>1, <3>1, <4>3
    <3>. DEFINE u == certs[path[i]].under
    <3>3. u \in DOMAIN certs /\ certs[path[i - 1]].subject = certs[u].subject
      BY <2>2, <2>3, <3>1, <3>2
    <3>. HIDE DEF u
    <3>4. path[i - 1] = u
      BY <1>2, <1>8, <3>1, <3>3, TheOnlyOne
    <3>. QED  BY <3>4 DEF u
  <2>. QED  BY <1>1, <2>4, <2>5 DEF IssuedAlong
<1>. QED  BY <1>1, <1>7, <1>8

-------------------------------------------------------------------------------

\* What stands for an identity is one it has, or lately had, whatever threads
\* resolve, publish and rotate, however long the chains of bindings get and
\* whichever certificates CAs issue (did.py, rotation.py, resolver.py, binding.py,
\* certificates.py).
THEOREM IdentityAlwaysHolds == ISpec => []IdentityHolds
<1>. DEFINE IdentityInv == Lately /\ Passed /\ AllIssued
<1>1. IInit /\ CertInit => IdentityInv
  <2>. SUFFICES ASSUME IInit, CertInit PROVE IdentityInv
    OBVIOUS
  <2>1. Lately
    BY DEF IInit, Lately, Nothing
  <2>2. Passed
    BY DEF IInit, Passed
  <2>3. AllIssued
    BY DEF CertInit, AllIssued
  <2>. QED  BY <2>1, <2>2, <2>3
<1>2. IdentityInv /\ [\/ (DocumentNext \/ BindingNext) /\ UNCHANGED certvars
                      \/ CertNext /\ UNCHANGED ivars]_<<ivars, certvars>> => IdentityInv'
  <2>1. ASSUME Lately, UNCHANGED <<hour, documents, backend, resolverCache, fetched, replaced>>
        PROVE  Lately'
    BY <2>1 DEF Lately, Had, DocumentsOf
  <2>2. ASSUME Passed, UNCHANGED <<hour, chain>> PROVE Passed'
    BY <2>2 DEF Passed
  <2>3. ASSUME AllIssued, UNCHANGED certvars PROVE AllIssued'
    BY <2>3 DEF AllIssued, certvars, WellIssued
  <2>4. DocumentNext => ITick \/ UNCHANGED <<hour, chain>>
    BY DEF DocumentNext, Create, CreateRotationProof, RotateKey, RemoveDocument, CommitNextKey,
           RegisterDocument, Publish, Unpublish, InvalidateCache, CreateDhtEntry, PublishEntry,
           Store, Resolve, PutInCache
  <2>5. BindingNext =>
          ITick \/ UNCHANGED <<hour, documents, backend, resolverCache, fetched, replaced>>
    BY DEF BindingNext, CreateOwnerBinding, AttenuateBinding, DropChain
  <2>6. ITick => DocumentNext /\ BindingNext
    BY DEF DocumentNext, BindingNext
  <2>7. UNCHANGED ivars =>
          UNCHANGED <<hour, documents, backend, resolverCache, fetched, replaced, chain>>
    BY DEF ivars
  <2>. QED
    BY <2>1, <2>2, <2>3, <2>4, <2>5, <2>6, <2>7, LatelyStep, PassedStep, CertStep
<1>3. IdentityInv => IdentityHolds
  BY LatelyResolved, PassedNarrows, IssuedHold DEF IdentityHolds
<1>. QED  BY <1>1, <1>2, <1>3, PTL DEF ISpec

-------------------------------------------------------------------------------
(* The pause before the next attempt. The powers are the values of a          *)
(* recursive function.                                                        *)

Powers(g, n) == [i \in 0 .. n |-> IF i = 0 THEN 1 ELSE 2 * g[i - 1]]

\* A table of powers exists: no least k is without one.
LEMMA PowersExist ==
  ASSUME NEW n \in Nat
  PROVE  \E g : g = Powers(g, n)
<1>. DEFINE C == {k \in 0 .. n : ~ \E g : g = Powers(g, k)}
<1>1. SUFFICES ASSUME C # {} PROVE FALSE
  OBVIOUS
<1>2. PICK k \in C : \A m \in C : k =< m
  <2>1. C \in SUBSET Nat
    OBVIOUS
  <2>. HIDE DEF C
  <2>. QED  BY <1>1, <2>1, LeastExists
<1>3. CASE k = 0
  <2>. DEFINE g == [i \in 0 .. 0 |-> 1]
  <2>1. g = Powers(g, 0)
    BY DEF Powers
  <2>. QED  BY <1>2, <1>3, <2>1
<1>4. CASE k # 0
  <2>1. k - 1 \in 0 .. n /\ k - 1 \notin C
    BY <1>2, <1>4
  <2>2. PICK g : g = Powers(g, k - 1)
    BY <2>1
  <2>. DEFINE h == [i \in 0 .. k |-> IF i = k THEN 2 * g[k - 1] ELSE g[i]]
  <2>3. ASSUME NEW i \in 0 .. k
        PROVE  h[i] = Powers(h, k)[i]
    <3>1. CASE i = 0
      <4>1. g[0] = 1
        BY <1>4, <2>1, <2>2 DEF Powers
      <4>. QED  BY <1>4, <3>1, <4>1 DEF Powers
    <3>2. CASE i # 0
      <4>1. i - 1 \in 0 .. k /\ i - 1 # k
        BY <1>2, <3>2
      <4>2. h[i - 1] = g[i - 1]
        BY <4>1
      <4>3. h[i] = 2 * g[i - 1]
        <5>1. CASE i = k
          BY <5>1
        <5>2. CASE i # k
          <6>1. i \in 0 .. (k - 1)
            BY <1>2, <5>2
          <6>2. g[i] = 2 * g[i - 1]
            BY <2>2, <3>2, <6>1 DEF Powers
          <6>. QED  BY <5>2, <6>2
        <5>. QED  BY <5>1, <5>2
      <4>. HIDE DEF h
      <4>. QED  BY <3>2, <4>2, <4>3 DEF Powers
    <3>. QED  BY <3>1, <3>2
  <2>4. h = Powers(h, k)
    <3>1. h = [i \in 0 .. k |-> h[i]]
      OBVIOUS
    <3>2. Powers(h, k) = [i \in 0 .. k |-> Powers(h, k)[i]]
      BY DEF Powers
    <3>. HIDE DEF h
    <3>. QED  BY <2>3, <3>1, <3>2
  <2>. QED  BY <1>2, <2>4
<1>. QED  BY <1>3, <1>4

\* The powers start at 1 and double.
LEMMA PowersDouble ==
  /\ PowerOf2[0] = 1
  /\ \A i \in 1 .. MaxFails : PowerOf2[i] = 2 * PowerOf2[i - 1]
<1>1. MaxFails \in Nat
  BY ClientAssumption
<1>2. PowerOf2 = CHOOSE g : g = Powers(g, MaxFails)
  BY DEF PowerOf2, Powers
<1>3. PowerOf2 = Powers(PowerOf2, MaxFails)
  <2>1. \E g : g = Powers(g, MaxFails)
    BY <1>1, PowersExist
  <2>. QED  BY <1>2, <2>1, Zenon
<1>4. \A i \in 0 .. MaxFails : Powers(PowerOf2, MaxFails)[i] = IF i = 0 THEN 1 ELSE 2 * PowerOf2[i - 1]
  BY DEF Powers
<1>5. \A i \in 0 .. MaxFails : PowerOf2[i] = IF i = 0 THEN 1 ELSE 2 * PowerOf2[i - 1]
  BY <1>3, <1>4, Zenon
<1>6. 0 \in 0 .. MaxFails /\ \A i \in 1 .. MaxFails : i \in 0 .. MaxFails /\ i # 0
  BY <1>1
<1>. QED  BY <1>5, <1>6, Zenon

\* They are integers.
LEMMA PowersTyped ==
  \A i \in 0 .. MaxFails : PowerOf2[i] \in Int
<1>. DEFINE C == {k \in 0 .. MaxFails : PowerOf2[k] \notin Int}
<1>1. SUFFICES ASSUME C # {} PROVE FALSE
  OBVIOUS
<1>2. PICK k \in C : \A m \in C : k =< m
  <2>1. C \in SUBSET Nat
    OBVIOUS
  <2>. HIDE DEF C
  <2>. QED  BY <1>1, <2>1, LeastExists
<1>3. k # 0
  BY <1>2, PowersDouble
<1>4. k \in 1 .. MaxFails /\ k - 1 \in 0 .. MaxFails /\ k - 1 \notin C
  BY <1>2, <1>3, ClientAssumption
<1>. QED  BY <1>2, <1>4, PowersDouble

\* The least of two numbers.
LEMMA LeastOfTwo ==
  ASSUME NEW a \in Int, NEW b \in Int
  PROVE  Min({a, b}) = IF a < b THEN a ELSE b
<1>. DEFINE m == IF a < b THEN a ELSE b
<1>1. m \in {a, b} /\ \A y \in {a, b} : m =< y
  OBVIOUS
<1>. HIDE DEF m
<1>2. \E x \in {a, b} : \A y \in {a, b} : x =< y
  BY <1>1
<1>3. Min({a, b}) \in {a, b} /\ \A y \in {a, b} : Min({a, b}) =< y
  BY <1>2, Zenon DEF Min
<1>4. Min({a, b}) =< m /\ m =< Min({a, b}) /\ Min({a, b}) \in Int /\ m \in Int
  BY <1>1, <1>3
<1>5. Min({a, b}) = m
  BY <1>4
<1>. QED  BY <1>5 DEF m

Pause(n) == IF BaseDelay * PowerOf2[n] < MaxDelay THEN BaseDelay * PowerOf2[n] ELSE MaxDelay

\* A pause doubles up to the longest.
LEMMA PauseGrows ==
  /\ Pause(0) = BaseDelay
  /\ \A n \in 1 .. MaxFails :
       /\ Pause(n - 1) \in Int
       /\ Pause(n) = IF 2 * Pause(n - 1) < MaxDelay THEN 2 * Pause(n - 1) ELSE MaxDelay
       /\ Pause(n - 1) = Min({BaseDelay * PowerOf2[n - 1], MaxDelay})
<1>1. Pause(0) = BaseDelay
  BY PowersDouble, ClientAssumption DEF Pause
<1>2. ASSUME NEW n \in 1 .. MaxFails
      PROVE  /\ Pause(n - 1) \in Int
             /\ Pause(n) = IF 2 * Pause(n - 1) < MaxDelay THEN 2 * Pause(n - 1) ELSE MaxDelay
             /\ Pause(n - 1) = Min({BaseDelay * PowerOf2[n - 1], MaxDelay})
  <2>. DEFINE x == PowerOf2[n - 1]
              y == BaseDelay * x
  <2>1. n - 1 \in 0 .. MaxFails /\ PowerOf2[n] = 2 * x
    BY PowersDouble, ClientAssumption
  <2>2. x \in Int /\ BaseDelay \in Int /\ MaxDelay \in Nat
    BY <2>1, PowersTyped, ClientAssumption
  <2>. HIDE DEF x
  <2>3. y \in Int
    BY <2>2
  <2>4. BaseDelay * PowerOf2[n] = 2 * y
    <3>1. BaseDelay * (2 * x) = 2 * (BaseDelay * x)
      BY <2>2
    <3>. QED  BY <2>1, <3>1
  <2>. HIDE DEF y
  <2>5. Pause(n - 1) = IF y < MaxDelay THEN y ELSE MaxDelay
    BY DEF Pause, y, x
  <2>6. Pause(n) = IF 2 * y < MaxDelay THEN 2 * y ELSE MaxDelay
    BY <2>4 DEF Pause
  <2>7. Min({y, MaxDelay}) = IF y < MaxDelay THEN y ELSE MaxDelay
    BY <2>2, <2>3, LeastOfTwo
  <2>8. Pause(n - 1) = Min({BaseDelay * PowerOf2[n - 1], MaxDelay})
    BY <2>5, <2>7 DEF y, x
  <2>9. Pause(n - 1) \in Int
        /\ Pause(n) = IF 2 * Pause(n - 1) < MaxDelay THEN 2 * Pause(n - 1) ELSE MaxDelay
    BY <2>2, <2>3, <2>5, <2>6
  <2>. QED  BY <2>8, <2>9
<1>. QED  BY <1>1, <1>2

-------------------------------------------------------------------------------
(* The loop.                                                                  *)

\* The pause that follows the failures there were; before a failure the delay is
\* the one it will take.
Paced ==
  /\ fails \in 0 .. MaxFails
  /\ loop \in {"idle", "connecting", "reading", "asleep", "returned"}
  /\ loop = "idle" => fails = 0
  /\ loop = "reading" => fails = 0
  /\ loop \in {"connecting", "reading"} => delay = Pause(fails)
  /\ loop = "asleep" => fails # 0 /\ delay = Pause(fails - 1)
  /\ StopHolds

\* Every step keeps that.
LEMMA PacedStep ==
  ASSUME Paced, LoopNext \/ RelayNext
  PROVE  Paced'
<1>1. MaxFails \in Nat
  BY ClientAssumption
<1>2. ASSUME UNCHANGED loopVars PROVE Paced'
  BY <1>2 DEF Paced, loopVars, StopHolds
<1>3. CASE Run
  BY <1>1, <1>3, PauseGrows DEF Run, Paced, StopHolds
<1>4. CASE Connected
  BY <1>1, <1>4, PauseGrows DEF Connected, Paced, StopHolds
<1>5. CASE ConnectionFails
  <2>1. /\ fails' = fails + 1 /\ fails < MaxFails /\ fails \in 0 .. MaxFails /\ delay = Pause(fails)
        /\ loop' \in {"asleep", "returned"} /\ UNCHANGED <<running, delay, stoppedIn>>
    BY <1>5 DEF ConnectionFails, Paced
  <2>2. fails' \in 0 .. MaxFails /\ fails' # 0 /\ fails' - 1 = fails
    BY <1>1, <2>1
  <2>. QED  BY <2>1, <2>2 DEF Paced, StopHolds
<1>6. CASE ConnectionEnds
  BY <1>6 DEF ConnectionEnds, Paced, StopHolds
<1>7. CASE Wake
  <2>1. fails \in 1 .. MaxFails /\ delay = Pause(fails - 1)
    BY <1>1, <1>7 DEF Wake, Paced
  <2>2. Doubled = Pause(fails)
    <3>1. Pause(fails) = IF 2 * Pause(fails - 1) < MaxDelay THEN 2 * Pause(fails - 1) ELSE MaxDelay
      BY <2>1, PauseGrows
    <3>. QED  BY <2>1, <3>1 DEF Doubled
  <2>. QED  BY <1>7, <2>1, <2>2 DEF Wake, LoopTest, Paced, StopHolds
<1>8. CASE Stop
  BY <1>8 DEF Stop, Paced, StopHolds
<1>. QED
  BY <1>2, <1>3, <1>4, <1>5, <1>6, <1>7, <1>8
     DEF LoopNext, RelayNext, ServerNotifies, ServerGrants, ServerRelays, ServerEnds, HandleRelayBytes,
         OpenRelaySession, AwaitRelayNotify, AwaitRelay, AwaitTimesOut, CloseReturns, SendRelayData,
         CloseRelaySession
-------------------------------------------------------------------------------
(* The sessions and their frames.                                             *)

FrameType == [kind : {"notify", "grant", "data", "close"}, session : Sessions]
SentType == [session : Sessions, seq : Int]

\* Sessions that have had what they waited for, and those that are over.
Ready == opened \ waiting
Over == Ready \ alive

\* The grants of a sequence of frames are of sessions in R.
GrantsIn(q, R) == \A i \in DOMAIN q : q[i].kind = "grant" => q[i].session \in R

\* Whoever learns of a grant, or closes a session, knows one that does not wait.
SessionsKnown ==
  /\ opened \subseteq Sessions /\ waiting \subseteq opened /\ alive \subseteq Ready
  /\ granted \subseteq Ready
  /\ inbound \in Seq(FrameType) /\ GrantsIn(inbound, Ready)
  /\ relayFrames \in Seq(FrameType) /\ GrantsIn(relayFrames, Ready)
  /\ DOMAIN caller = Callers
  /\ \A c \in Callers : caller[c].await = "closed" => caller[c].session \in Over

\* Frames went to sessions that do not wait, with smaller numbers than the next.
Numbered ==
  /\ DOMAIN nextSeq \subseteq Sessions /\ \A s \in DOMAIN nextSeq : nextSeq[s] \in Int
  /\ sent \in Seq(SentType)
  /\ \A i \in DOMAIN sent :
       /\ sent[i].session \in Ready
       /\ sent[i].session \in alive => sent[i].seq < Number(sent[i].session)
  /\ NumbersGoUp

\* A frame at the end of a sequence, and one taken from its head.
LEMMA FrameAdded ==
  ASSUME NEW q \in Seq(FrameType), NEW f \in FrameType, NEW R, NEW S, R \subseteq S,
         GrantsIn(q, R), f.kind = "grant" => f.session \in S
  PROVE  Append(q, f) \in Seq(FrameType) /\ GrantsIn(Append(q, f), S)
<1>. DEFINE n == Len(q)
            r == Append(q, f)
<1>1. n \in Nat /\ DOMAIN q = 1 .. n /\ r \in Seq(FrameType) /\ DOMAIN r = 1 .. (n + 1)
      /\ r[n + 1] = f /\ \A i \in 1 .. n : r[i] = q[i]
  OBVIOUS
<1>. HIDE DEF n, r
<1>2. \A i \in 1 .. (n + 1) : i \in 1 .. n \/ i = n + 1
  BY <1>1
<1>3. GrantsIn(r, S)
  BY <1>1, <1>2 DEF GrantsIn
<1>. QED  BY <1>1, <1>3 DEF r

LEMMA FrameTaken ==
  ASSUME NEW q \in Seq(FrameType), q # << >>, NEW R, GrantsIn(q, R)
  PROVE  /\ Tail(q) \in Seq(FrameType) /\ GrantsIn(Tail(q), R)
         /\ Head(q) \in FrameType /\ (Head(q).kind = "grant" => Head(q).session \in R)
<1>1. /\ Tail(q) \in Seq(FrameType) /\ Head(q) \in FrameType /\ Head(q) = q[1] /\ 1 \in DOMAIN q
      /\ \A i \in DOMAIN Tail(q) : i + 1 \in DOMAIN q /\ Tail(q)[i] = q[i + 1]
  OBVIOUS
<1>. QED  BY <1>1 DEF GrantsIn

\* The session that is given out is a new one.
LEMMA NewIsNew ==
  ASSUME opened \subseteq Sessions, opened # Sessions
  PROVE  NewSession \in Sessions /\ NewSession \notin opened
BY DEF NewSession

\* What is known stays so while sessions only stop waiting and only end.
LEMMA KnownStays ==
  ASSUME SessionsKnown, Ready \subseteq Ready', Over \subseteq Over',
         opened' \subseteq Sessions, waiting' \subseteq opened', alive' \subseteq Ready',
         granted' \subseteq Ready',
         inbound' \in Seq(FrameType), GrantsIn(inbound', Ready'),
         relayFrames' \in Seq(FrameType), GrantsIn(relayFrames', Ready'),
         DOMAIN caller' = Callers,
         \A c \in Callers : \/ caller'[c] = caller[c]
                            \/ caller'[c].await # "closed"
                            \/ caller'[c].session \in Over'
  PROVE  SessionsKnown'
<1>1. \A c \in Callers : caller'[c].await = "closed" => caller'[c].session \in Over'
  BY DEF SessionsKnown
<1>. QED  BY <1>1 DEF SessionsKnown

\* So do the numbers while those of the sessions that were ready go up.
LEMMA NumberedStays ==
  ASSUME Numbered, Ready \subseteq Ready', Over \subseteq Over', sent' = sent,
         DOMAIN nextSeq' \subseteq Sessions, \A s \in DOMAIN nextSeq' : nextSeq'[s] \in Int,
         \A s \in alive \cap alive' : Number(s) =< Number(s)'
  PROVE  Numbered'
<1>1. \A s : Number(s) \in Int /\ Number(s)' \in Int
  BY DEF Number, Numbered
<1>2. ASSUME NEW i \in DOMAIN sent, sent[i].session \in alive'
      PROVE  sent[i].seq < Number(sent[i].session)'
  <2>. DEFINE s == sent[i].session
  <2>1. PICK t : t = sent[i].session
    OBVIOUS
  <2>2. t \in Ready /\ t \in Ready' /\ t \in alive'
    BY <1>2, <2>1 DEF Numbered
  <2>3. t \in alive
    BY <2>2 DEF Over
  <2>4. sent[i].seq \in Int
    <3>1. sent[i] \in SentType
      BY DEF Numbered
    <3>. QED  BY <3>1 DEF SentType
  <2>5. sent[i].seq < Number(t) /\ Number(t) =< Number(t)'
    BY <2>1, <2>2, <2>3 DEF Numbered
  <2>6. sent[i].seq < Number(t)'
    BY <1>1, <2>4, <2>5
  <2>. QED  BY <2>1, <2>6 DEF Number
<1>. QED  BY <1>2 DEF Numbered, NumbersGoUp

\* A connection that ends takes its sessions and what is on its way with it.
LEMMA GoneStep ==
  ASSUME SessionsKnown, Numbered, Gone, UNCHANGED <<relayFrames, granted, nextSeq, caller, opened, sent>>
  PROVE  SessionsKnown' /\ Numbered'
<1>1. inbound' = << >> /\ alive' = {} /\ waiting' = {}
  BY DEF Gone
<1>2. Ready \subseteq Ready' /\ Over \subseteq Over' /\ Ready' = opened /\ Over' = opened
  BY <1>1 DEF Ready, Over, SessionsKnown
<1>3. SessionsKnown'
  <2>1. opened' \subseteq Sessions /\ waiting' \subseteq opened' /\ alive' \subseteq Ready' /\ granted' \subseteq Ready'
    BY <1>1, <1>2 DEF SessionsKnown
  <2>2. inbound' \in Seq(FrameType) /\ GrantsIn(inbound', Ready')
    BY <1>1 DEF GrantsIn
  <2>3. relayFrames' \in Seq(FrameType) /\ GrantsIn(relayFrames', Ready')
    BY <1>2 DEF GrantsIn, SessionsKnown
  <2>4. DOMAIN caller' = Callers /\ caller' = caller
    BY DEF SessionsKnown
  <2>. QED  BY <1>2, <2>1, <2>2, <2>3, <2>4, KnownStays
<1>4. Numbered'
  <2>1. DOMAIN nextSeq' \subseteq Sessions /\ \A s \in DOMAIN nextSeq' : nextSeq'[s] \in Int
    BY DEF Numbered
  <2>2. alive \cap alive' = {}
    BY <1>1
  <2>. QED  BY <1>2, <2>1, <2>2, NumberedStays
<1>. QED  BY <1>3, <1>4

\* The server opens, grants, uses and ends sessions, and pushes a frame or,
\* when it is asked for a session, none.
LEMMA ServerStep ==
  ASSUME SessionsKnown, Numbered,
         \/ /\ \/ ServerNotifies
               \/ \E s \in Sessions : ServerGrants(s) \/ ServerRelays(s) \/ ServerEnds(s)
         \/ \E c \in Callers : OpenRelaySession(c)
  PROVE  SessionsKnown' /\ Numbered'
<1>. DEFINE Pushes(kind, s) == inbound' = Append(inbound, Frame(kind, s))
<1>1. UNCHANGED <<relayFrames, granted, nextSeq, sent>>
  BY DEF ServerNotifies, ServerGrants, ServerRelays, ServerEnds, OpenRelaySession
<1>2. DOMAIN caller' = Callers
      /\ \A c \in Callers : caller'[c] = caller[c] \/ caller'[c].await # "closed"
  <2>1. CASE UNCHANGED caller
    BY <2>1 DEF SessionsKnown
  <2>2. ASSUME NEW c \in Callers, OpenRelaySession(c)
        PROVE  DOMAIN caller' = Callers
               /\ \A d \in Callers : caller'[d] = caller[d] \/ caller'[d].await # "closed"
    BY <2>2 DEF SessionsKnown, OpenRelaySession
  <2>. QED
    BY <2>1, <2>2 DEF ServerNotifies, ServerGrants, ServerRelays, ServerEnds
<1>3. opened \subseteq Sessions /\ waiting \subseteq opened /\ alive \subseteq opened \ waiting
  BY DEF SessionsKnown, Ready
<1>4. /\ opened' \subseteq Sessions /\ waiting' \subseteq opened' /\ alive' \subseteq Ready'
      /\ Ready \subseteq Ready' /\ Over \subseteq Over'
  <2>1. ASSUME opened # Sessions, opened' = opened \cup {NewSession},
               waiting' = waiting \cup {NewSession}, alive' = alive
        PROVE  /\ opened' \subseteq Sessions /\ waiting' \subseteq opened' /\ alive' \subseteq Ready'
               /\ Ready \subseteq Ready' /\ Over \subseteq Over'
    <3>1. NewSession \in Sessions /\ NewSession \notin opened
      BY <1>3, <2>1, NewIsNew
    <3>. HIDE DEF NewSession
    <3>. QED  BY <1>3, <2>1, <3>1 DEF Ready, Over
  <2>2. ASSUME NEW s \in Sessions, ServerGrants(s)
        PROVE  /\ opened' \subseteq Sessions /\ waiting' \subseteq opened' /\ alive' \subseteq Ready'
               /\ Ready \subseteq Ready' /\ Over \subseteq Over'
    BY <1>3, <2>2 DEF ServerGrants, Ready, Over
  <2>3. ASSUME NEW s \in Sessions, ServerRelays(s) \/ ServerEnds(s)
        PROVE  /\ opened' \subseteq Sessions /\ waiting' \subseteq opened' /\ alive' \subseteq Ready'
               /\ Ready \subseteq Ready' /\ Over \subseteq Over'
    BY <1>3, <2>3 DEF ServerRelays, ServerEnds, Ready, Over
  <2>. QED  BY <2>1, <2>2, <2>3 DEF ServerNotifies, OpenRelaySession
<1>5. inbound' \in Seq(FrameType) /\ GrantsIn(inbound', Ready')
  <2>1. inbound \in Seq(FrameType) /\ GrantsIn(inbound, Ready)
    BY DEF SessionsKnown
  <2>2. ASSUME NEW kind \in {"notify", "grant", "data", "close"}, NEW s \in Sessions,
               inbound' = Append(inbound, Frame(kind, s)), kind = "grant" => s \in Ready'
        PROVE  inbound' \in Seq(FrameType) /\ GrantsIn(inbound', Ready')
    <3>1. Frame(kind, s) \in FrameType /\ Frame(kind, s).kind = kind /\ Frame(kind, s).session = s
      BY DEF Frame, FrameType
    <3>. QED  BY <1>4, <2>1, <2>2, <3>1, FrameAdded
  <2>3. CASE ServerNotifies
    <3>1. inbound' = Append(inbound, Frame("notify", NewSession)) /\ NewSession \in Sessions
      BY <1>3, <2>3, NewIsNew DEF ServerNotifies, Push
    <3>. QED  BY <2>2, <3>1
  <2>4. ASSUME NEW s \in Sessions, ServerGrants(s)
        PROVE  inbound' \in Seq(FrameType) /\ GrantsIn(inbound', Ready')
    <3>1. inbound' = Append(inbound, Frame("grant", s)) /\ s \in Ready'
      BY <1>3, <2>4 DEF ServerGrants, Push, Ready
    <3>. QED  BY <2>2, <3>1
  <2>5. ASSUME NEW s \in Sessions, ServerRelays(s)
        PROVE  inbound' \in Seq(FrameType) /\ GrantsIn(inbound', Ready')
    <3>1. inbound' = Append(inbound, Frame("data", s))
      BY <2>5 DEF ServerRelays, Push
    <3>. QED  BY <2>2, <3>1
  <2>6. ASSUME NEW s \in Sessions, ServerEnds(s)
        PROVE  inbound' \in Seq(FrameType) /\ GrantsIn(inbound', Ready')
    <3>1. inbound' = Append(inbound, Frame("close", s))
      BY <2>6 DEF ServerEnds, Push
    <3>. QED  BY <2>2, <3>1
  <2>7. ASSUME NEW c \in Callers, OpenRelaySession(c)
        PROVE  inbound' \in Seq(FrameType) /\ GrantsIn(inbound', Ready')
    BY <1>4, <2>1, <2>7 DEF OpenRelaySession, GrantsIn
  <2>. QED  BY <2>3, <2>4, <2>5, <2>6, <2>7
<1>6. granted' \subseteq Ready' /\ relayFrames' \in Seq(FrameType) /\ GrantsIn(relayFrames', Ready')
  BY <1>1, <1>4 DEF SessionsKnown, GrantsIn
<1>7. SessionsKnown'
  BY <1>2, <1>4, <1>5, <1>6, KnownStays
<1>8. Numbered'
  <2>1. DOMAIN nextSeq' \subseteq Sessions /\ \A s \in DOMAIN nextSeq' : nextSeq'[s] \in Int
    BY <1>1 DEF Numbered
  <2>2. \A s : Number(s)' = Number(s) /\ Number(s) \in Int
    BY <1>1 DEF Number, Numbered
  <2>. QED  BY <1>1, <1>4, <2>1, <2>2, NumberedStays
<1>. QED  BY <1>7, <1>8

\* The listener and the callers that wait take frames off their queues.
LEMMA QueueStep ==
  ASSUME SessionsKnown, Numbered,
         \/ HandleRelayBytes
         \/ \E c \in Callers : AwaitRelayNotify(c) \/ AwaitRelay(c) \/ AwaitTimesOut(c)
  PROVE  SessionsKnown' /\ Numbered'
<1>1. UNCHANGED <<opened, alive, waiting, sent>>
  BY DEF HandleRelayBytes, AwaitRelayNotify, AwaitRelay, AwaitTimesOut
<1>2. Ready' = Ready /\ Over' = Over
  BY <1>1 DEF Ready, Over
<1>3. /\ opened' \subseteq Sessions /\ waiting' \subseteq opened' /\ alive' \subseteq Ready'
      /\ DOMAIN caller = Callers /\ granted \subseteq Ready
  BY <1>1, <1>2 DEF SessionsKnown
<1>4. /\ inbound \in Seq(FrameType) /\ GrantsIn(inbound, Ready)
      /\ relayFrames \in Seq(FrameType) /\ GrantsIn(relayFrames, Ready)
  BY DEF SessionsKnown
<1>5. DOMAIN nextSeq \subseteq Sessions /\ \A s \in DOMAIN nextSeq : nextSeq[s] \in Int
  BY DEF Numbered
<1>6. \A s : Number(s) \in Int
  BY <1>5 DEF Number
<1>7. CASE HandleRelayBytes
  <2>1. /\ inbound # << >> /\ inbound' = Tail(inbound) /\ UNCHANGED <<nextSeq, caller>>
        /\ relayFrames' = IF Head(inbound).kind = "data" THEN relayFrames
                          ELSE Append(relayFrames, Head(inbound))
        /\ granted' = IF Head(inbound).kind = "grant" THEN granted \cup {Head(inbound).session}
                      ELSE granted
    BY <1>7 DEF HandleRelayBytes
  <2>2. /\ Tail(inbound) \in Seq(FrameType) /\ GrantsIn(Tail(inbound), Ready)
        /\ Head(inbound) \in FrameType
        /\ Head(inbound).kind = "grant" => Head(inbound).session \in Ready
    BY <1>4, <2>1, FrameTaken
  <2>3. /\ Append(relayFrames, Head(inbound)) \in Seq(FrameType)
        /\ GrantsIn(Append(relayFrames, Head(inbound)), Ready)
    BY <1>4, <2>2, FrameAdded
  <2>4. relayFrames' \in Seq(FrameType) /\ GrantsIn(relayFrames', Ready') /\ granted' \subseteq Ready'
    BY <1>2, <1>3, <1>4, <2>1, <2>2, <2>3
  <2>5. SessionsKnown'
    BY <1>2, <1>3, <2>1, <2>2, <2>4, KnownStays
  <2>6. \A s : Number(s)' = Number(s)
    BY <2>1 DEF Number
  <2>7. Numbered'
    BY <1>1, <1>2, <1>5, <1>6, <2>1, <2>6, NumberedStays
  <2>. QED  BY <2>5, <2>7
<1>8. ASSUME NEW c \in Callers, AwaitRelayNotify(c) \/ AwaitTimesOut(c)
      PROVE  SessionsKnown' /\ Numbered'
  <2>1. UNCHANGED <<inbound, relayFrames, granted, nextSeq>>
    BY <1>8 DEF AwaitRelayNotify, AwaitTimesOut
  <2>2. DOMAIN caller' = Callers
        /\ \A d \in Callers : caller'[d] = caller[d] \/ caller'[d].await # "closed"
    BY <1>3, <1>8 DEF AwaitRelayNotify, AwaitTimesOut, Free
  <2>3. SessionsKnown'
    BY <1>1, <1>2, <1>3, <1>4, <2>1, <2>2, KnownStays
  <2>4. \A s : Number(s)' = Number(s)
    BY <2>1 DEF Number
  <2>5. Numbered'
    BY <1>1, <1>2, <1>5, <1>6, <2>1, <2>4, NumberedStays
  <2>. QED  BY <2>3, <2>5
<1>9. ASSUME NEW c \in Callers, AwaitRelay(c)
      PROVE  SessionsKnown' /\ Numbered'
  <2>. DEFINE f == Head(relayFrames)
  <2>1. /\ relayFrames # << >> /\ relayFrames' = Tail(relayFrames) /\ inbound' = inbound
        /\ \/ UNCHANGED <<caller, granted, nextSeq>>
           \/ /\ caller' = [caller EXCEPT ![c] = Free]
              /\ granted' = IF f.kind = "grant" THEN granted \cup {f.session} ELSE granted
              /\ nextSeq' = IF f.kind = "grant" THEN SetDefault(f.session) ELSE nextSeq
    BY <1>9 DEF AwaitRelay
  <2>2. /\ Tail(relayFrames) \in Seq(FrameType) /\ GrantsIn(Tail(relayFrames), Ready)
        /\ f \in FrameType /\ (f.kind = "grant" => f.session \in Ready)
    BY <1>4, <2>1, FrameTaken
  <2>3. f.session \in Sessions
    BY <2>2 DEF FrameType
  <2>. HIDE DEF f
  <2>4. DOMAIN caller' = Callers
        /\ \A d \in Callers : caller'[d] = caller[d] \/ caller'[d].await # "closed"
    BY <1>3, <2>1 DEF Free
  <2>5. granted' \subseteq Ready'
    BY <1>2, <1>3, <2>1, <2>2
  <2>6. SessionsKnown'
    BY <1>1, <1>2, <1>3, <1>4, <2>1, <2>2, <2>4, <2>5, KnownStays
  <2>7. \/ nextSeq' = nextSeq
        \/ f.session \notin DOMAIN nextSeq /\ nextSeq' = WithNumber(f.session, 1)
    BY <2>1 DEF SetDefault
  <2>8. /\ DOMAIN nextSeq' \subseteq Sessions /\ \A s \in DOMAIN nextSeq' : nextSeq'[s] \in Int
        /\ \A s : Number(s)' = Number(s)
    <3>1. CASE nextSeq' = nextSeq
      BY <1>5, <3>1 DEF Number
    <3>2. CASE f.session \notin DOMAIN nextSeq /\ nextSeq' = WithNumber(f.session, 1)
      BY <1>5, <2>3, <3>2 DEF Number, WithNumber
    <3>. QED  BY <2>7, <3>1, <3>2
  <2>9. Numbered'
    BY <1>1, <1>2, <1>6, <2>8, NumberedStays
  <2>. QED  BY <2>6, <2>9
<1>. QED  BY <1>7, <1>8, <1>9

\* A session is forgotten only when it is over, whether it had a number or not.
LEMMA CloseStep ==
  ASSUME SessionsKnown, Numbered, NEW c \in Callers,
         CloseReturns(c) \/ \E s \in Sessions : CloseRelaySession(c, s)
  PROVE  SessionsKnown' /\ Numbered'
<1>1. UNCHANGED <<inbound, relayFrames, opened, waiting, sent>>
  BY DEF CloseReturns, CloseRelaySession
<1>2. Ready' = Ready /\ DOMAIN caller = Callers /\ opened \subseteq Sessions
      /\ waiting \subseteq opened /\ alive \subseteq Ready /\ granted \subseteq Ready
  BY <1>1 DEF Ready, SessionsKnown
<1>3. /\ inbound \in Seq(FrameType) /\ GrantsIn(inbound, Ready)
      /\ relayFrames \in Seq(FrameType) /\ GrantsIn(relayFrames, Ready)
  BY DEF SessionsKnown
<1>4. DOMAIN nextSeq \subseteq Sessions /\ \A s \in DOMAIN nextSeq : nextSeq[s] \in Int
  BY DEF Numbered
<1>5. \A s : Number(s) \in Int
  BY <1>4 DEF Number
<1>6. CASE CloseReturns(c)
  <2>. DEFINE gone == caller[c].session
  <2>1. /\ caller[c].await = "closed" /\ granted' = granted \ {gone} /\ alive' = alive
        /\ nextSeq' = [t \in DOMAIN nextSeq \ {gone} |-> nextSeq[t]]
        /\ caller' = [caller EXCEPT ![c] = Free]
    BY <1>6 DEF CloseReturns, Restrict
  <2>2. gone \in Over
    BY <2>1 DEF SessionsKnown
  <2>. HIDE DEF gone
  <2>3. DOMAIN caller' = Callers
        /\ \A d \in Callers : caller'[d] = caller[d] \/ caller'[d].await # "closed"
    BY <1>2, <2>1 DEF Free
  <2>4. Over' = Over
    BY <1>2, <2>1 DEF Over
  <2>5. SessionsKnown'
    BY <1>1, <1>2, <1>3, <2>1, <2>3, <2>4, KnownStays
  <2>6. \A s \in alive : Number(s)' = Number(s)
    BY <2>1, <2>2 DEF Number, Over
  <2>7. DOMAIN nextSeq' \subseteq Sessions /\ \A s \in DOMAIN nextSeq' : nextSeq'[s] \in Int
    BY <1>4, <2>1
  <2>8. Numbered'
    BY <1>1, <1>2, <1>5, <2>4, <2>6, <2>7, NumberedStays
  <2>. QED  BY <2>5, <2>8
<1>7. ASSUME NEW s \in Sessions, CloseRelaySession(c, s)
      PROVE  SessionsKnown' /\ Numbered'
  <2>1. /\ s \in granted /\ alive' = alive \ {s} /\ UNCHANGED <<granted, nextSeq>>
        /\ caller' = [caller EXCEPT ![c] = [await |-> "closed", session |-> s]]
    BY <1>7 DEF CloseRelaySession
  <2>2. s \in Over' /\ Over \subseteq Over' /\ alive' \subseteq Ready'
    BY <1>2, <2>1 DEF Over
  <2>3. DOMAIN caller' = Callers
        /\ \A d \in Callers : caller'[d] = caller[d] \/ caller'[d].session \in Over'
    BY <1>2, <2>1, <2>2
  <2>4. SessionsKnown'
    BY <1>1, <1>2, <1>3, <2>1, <2>2, <2>3, KnownStays
  <2>5. \A t : Number(t)' = Number(t)
    BY <2>1 DEF Number
  <2>6. Numbered'
    BY <1>1, <1>2, <1>4, <1>5, <2>1, <2>2, <2>5, NumberedStays
  <2>. QED  BY <2>4, <2>6
<1>. QED  BY <1>6, <1>7

\* A frame is sent with a number above all those before.
LEMMA SendStep ==
  ASSUME SessionsKnown, Numbered, NEW c \in Callers, NEW s \in Sessions, SendRelayData(c, s)
  PROVE  SessionsKnown' /\ Numbered'
<1>1. /\ UNCHANGED <<inbound, relayFrames, opened, waiting, alive, granted, caller>>
      /\ s \in granted /\ nextSeq' = WithNumber(s, Number(s) + 1)
      /\ \/ sent' = sent
         \/ s \in alive /\ sent' = Append(sent, [session |-> s, seq |-> Number(s)])
  BY DEF SendRelayData
<1>2. Ready' = Ready /\ Over' = Over /\ s \in Ready
  BY <1>1 DEF Ready, Over, SessionsKnown
<1>3. SessionsKnown'
  BY <1>1, <1>2 DEF SessionsKnown
<1>4. DOMAIN nextSeq \subseteq Sessions /\ \A t \in DOMAIN nextSeq : nextSeq[t] \in Int
  BY DEF Numbered
<1>5. \A t : Number(t) \in Int
  BY <1>4 DEF Number
<1>6. DOMAIN nextSeq' \subseteq Sessions /\ \A t \in DOMAIN nextSeq' : nextSeq'[t] \in Int
  BY <1>1, <1>4, <1>5 DEF WithNumber
<1>7. Number(s)' = Number(s) + 1 /\ \A t : t # s => Number(t)' = Number(t)
  BY <1>1 DEF WithNumber, Number
<1>8. \A t : Number(t) =< Number(t)'
  BY <1>5, <1>7
<1>9. CASE sent' = sent
  BY <1>2, <1>3, <1>6, <1>8, <1>9, NumberedStays
<1>10. CASE s \in alive /\ sent' = Append(sent, [session |-> s, seq |-> Number(s)])
  <2>. DEFINE n == Len(sent)
              x == [session |-> s, seq |-> Number(s)]
  <2>1. x \in SentType /\ x.session = s /\ x.seq = Number(s)
    BY <1>5 DEF SentType
  <2>2. n \in Nat /\ DOMAIN sent = 1 .. n /\ sent \in Seq(SentType)
    BY DEF Numbered
  <2>3. sent' = Append(sent, x)
    BY <1>10
  <2>. HIDE DEF x
  <2>4. /\ sent' \in Seq(SentType) /\ DOMAIN sent' = 1 .. (n + 1) /\ sent'[n + 1] = x
        /\ \A i \in 1 .. n : sent'[i] = sent[i]
    BY <2>1, <2>2, <2>3
  <2>. HIDE DEF n
  <2>5. \A i \in 1 .. n : /\ sent[i].session \in Ready /\ sent[i].seq \in Int
                          /\ sent[i].session \in alive => sent[i].seq < Number(sent[i].session)
    <3>1. \A i \in 1 .. n : sent[i] \in SentType
      BY <2>2
    <3>. QED  BY <2>2, <3>1 DEF Numbered, SentType
  <2>6. \A i, j \in 1 .. n : i < j /\ sent[i].session = sent[j].session => sent[i].seq < sent[j].seq
    BY <2>2 DEF Numbered, NumbersGoUp
  <2>7. \A i \in 1 .. (n + 1) : i \in 1 .. n \/ i = n + 1
    BY <2>2
  <2>8. ASSUME NEW i \in 1 .. (n + 1)
        PROVE  /\ sent'[i].session \in Ready'
               /\ sent'[i].session \in alive' => sent'[i].seq < Number(sent[i].session)'
    <3>1. CASE i = n + 1
      <4>1. sent'[i].session = s /\ sent'[i].seq = Number(s) /\ Number(s) \in Int
        BY <1>5, <2>1, <2>4, <3>1
      <4>2. Number(s) < Number(s)'
        BY <1>7, <4>1
      <4>3. Number(sent[i].session)' = Number(s)'
        BY <4>1 DEF Number
      <4>. QED  BY <1>2, <4>1, <4>2, <4>3
    <3>2. CASE i \in 1 .. n
      <4>1. PICK t : t = sent[i].session
        OBVIOUS
      <4>2. sent'[i] = sent[i] /\ t \in Ready /\ (t \in alive => sent[i].seq < Number(t))
        BY <2>4, <2>5, <3>2, <4>1
      <4>3. t \in alive => sent[i].seq < Number(t)'
        <5>1. Number(t) \in Int /\ Number(t)' \in Int /\ Number(t) =< Number(t)' /\ sent[i].seq \in Int
          BY <1>5, <1>7, <1>8, <2>5, <3>2
        <5>. QED  BY <4>2, <5>1
      <4>4. Number(sent[i].session)' = Number(t)'
        BY <4>1, <4>2 DEF Number
      <4>. QED  BY <1>1, <1>2, <4>1, <4>2, <4>3, <4>4
    <3>. QED  BY <2>7, <3>1, <3>2
  <2>9. ASSUME NEW i \in 1 .. (n + 1), NEW j \in 1 .. (n + 1), i < j,
               sent'[i].session = sent'[j].session
        PROVE  sent'[i].seq < sent'[j].seq
    <3>1. i \in 1 .. n /\ sent'[i] = sent[i]
      BY <2>2, <2>4, <2>7, <2>9
    <3>2. CASE j \in 1 .. n
      BY <2>4, <2>6, <2>9, <3>1, <3>2
    <3>3. CASE j = n + 1
      <4>1. sent[i].session = s /\ sent'[j].seq = Number(s)
        BY <2>1, <2>4, <2>9, <3>1, <3>3
      <4>. QED  BY <1>10, <2>5, <3>1, <4>1
    <3>. QED  BY <2>7, <3>2, <3>3
  <2>10. Numbered'
    BY <1>6, <2>4, <2>8, <2>9 DEF Numbered, NumbersGoUp
  <2>. QED  BY <1>3, <2>10
<1>. QED  BY <1>1, <1>9, <1>10

\* An active session gets its frames numbered upwards, stop() ends the loop but
\* while it connects, and the pause doubles (scripts/qasp_client.py), for any
\* number of sessions, callers, frames and failures in a row.
THEOREM ClientAlwaysKeepsOrder == ClSpec => []ClientKeepsOrder
<1>. DEFINE ClientInv == Paced /\ SessionsKnown /\ Numbered
<1>1. ClInit => ClientInv
  <2>. SUFFICES ASSUME ClInit PROVE ClientInv
    OBVIOUS
  <2>1. Paced
    BY ClientAssumption DEF ClInit, Paced, StopHolds
  <2>2. SessionsKnown
    BY DEF ClInit, SessionsKnown, Ready, Over, GrantsIn, Free
  <2>3. Numbered
    BY DEF ClInit, Numbered, NumbersGoUp
  <2>. QED  BY <2>1, <2>2, <2>3
<1>2. ClientInv /\ [LoopNext \/ RelayNext]_clvars => ClientInv'
  <2>. SUFFICES ASSUME ClientInv, [LoopNext \/ RelayNext]_clvars PROVE ClientInv'
    OBVIOUS
  <2>1. CASE UNCHANGED clvars
    <3>1. Paced'
      BY <2>1 DEF clvars, Paced, StopHolds
    <3>2. SessionsKnown'
      BY <2>1 DEF clvars, SessionsKnown, Ready, Over, GrantsIn
    <3>3. Numbered'
      BY <2>1 DEF clvars, Numbered, NumbersGoUp, Number, Ready
    <3>. QED  BY <3>1, <3>2, <3>3
  <2>2. CASE LoopNext \/ RelayNext
    <3>1. Paced'
      BY <2>2, PacedStep
    <3>2. ASSUME UNCHANGED relayVars PROVE SessionsKnown' /\ Numbered'
      BY <3>2 DEF relayVars, SessionsKnown, Ready, Over, GrantsIn, Numbered, NumbersGoUp, Number
    <3>3. CASE Run \/ Connected \/ Wake \/ Stop
      BY <3>1, <3>2, <3>3 DEF Run, Connected, Wake, Stop
    <3>4. CASE ConnectionFails \/ ConnectionEnds
      BY <3>1, <3>4, GoneStep DEF ConnectionFails, ConnectionEnds
    <3>. QED
      BY <2>2, <3>1, <3>3, <3>4, ServerStep, QueueStep, CloseStep, SendStep DEF LoopNext, RelayNext
  <2>. QED  BY <2>1, <2>2
<1>3. ClientInv => ClientKeepsOrder
  <2>. SUFFICES ASSUME ClientInv PROVE ClientKeepsOrder
    OBVIOUS
  <2>1. ASSUME loop = "asleep"
        PROVE  delay = Min({BaseDelay * PowerOf2[fails - 1], MaxDelay})
    <3>1. fails \in 1 .. MaxFails /\ delay = Pause(fails - 1)
      BY <2>1, ClientAssumption DEF Paced
    <3>. QED  BY <3>1, PauseGrows
  <2>. QED  BY <2>1 DEF Paced, Numbered, ClientKeepsOrder, PauseDoubles
<1>. QED  BY <1>1, <1>2, <1>3, PTL DEF ClSpec

-------------------------------------------------------------------------------
(* The streams of a transport.                                                *)

States == {"none", "open", "half_closed_remote", "half_closed_local", "closed"}
StreamFrame == [id : StreamIds, number : Nat, end : BOOLEAN]
Prefix == [length : 1 .. MaxMessage]
Unit == StreamFrame \cup Prefix
On(unit, s) == unit \in StreamFrame /\ unit.id = s

\* What a piece of the way from one end to the other has of stream s: its frames
\* a + 1 to b, in order.
Carries(q, s, a, b) ==
  /\ a \in Nat /\ b \in Nat /\ a =< b
  /\ \A i \in 1 .. Len(q) : On(q[i], s) => q[i].number \in (a + 1) .. b
  /\ \A i, j \in 1 .. Len(q) : i < j /\ On(q[i], s) /\ On(q[j], s) => q[i].number < q[j].number
  /\ \A n \in (a + 1) .. b : \E i \in 1 .. Len(q) : On(q[i], s) /\ q[i].number = n

\* A prefix is not a frame.
LEMMA PrefixIsNoFrame ==
  /\ \A u \in Prefix : u \notin StreamFrame /\ ~ IsFrame(u) /\ "length" \in DOMAIN u
  /\ \A u \in StreamFrame : IsFrame(u)
BY DEF Prefix, StreamFrame, IsFrame

\* Two pieces that follow one another are one.
LEMMA CarriesJoin ==
  ASSUME NEW q \in Seq(Unit), NEW r \in Seq(Unit), NEW s, NEW a, NEW b, NEW c,
         Carries(q, s, a, b), Carries(r, s, b, c)
  PROVE  Carries(q \o r, s, a, c)
<1>. DEFINE w == q \o r
<1>1. /\ Len(w) = Len(q) + Len(r) /\ Len(q) \in Nat /\ Len(r) \in Nat
      /\ \A i \in 1 .. Len(q) : w[i] = q[i]
      /\ \A i \in 1 .. Len(r) : w[Len(q) + i] = r[i]
      /\ \A i \in 1 .. Len(w) : i \in 1 .. Len(q) \/ \E k \in 1 .. Len(r) : i = Len(q) + k
  <2>1. Len(w) = Len(q) + Len(r) /\ Len(q) \in Nat /\ Len(r) \in Nat
    OBVIOUS
  <2>2. \A i \in 1 .. Len(q) : w[i] = q[i]
    BY <2>1
  <2>3. \A i \in 1 .. Len(r) : w[Len(q) + i] = r[i]
    BY <2>1
  <2>4. \A i \in 1 .. Len(w) : i \in 1 .. Len(q) \/ (i - Len(q) \in 1 .. Len(r) /\ i = Len(q) + (i - Len(q)))
    BY <2>1
  <2>. QED  BY <2>1, <2>2, <2>3, <2>4
<1>. HIDE DEF w
<1>2. a \in Nat /\ b \in Nat /\ c \in Nat /\ a =< b /\ b =< c
  BY DEF Carries
<1>3. ASSUME NEW i \in 1 .. Len(w), On(w[i], s)
      PROVE  /\ w[i].number \in (a + 1) .. c
             /\ i \in 1 .. Len(q) => w[i].number =< b
             /\ i \notin 1 .. Len(q) => w[i].number > b
  <2>1. CASE i \in 1 .. Len(q)
    <3>1. q[i].number \in (a + 1) .. b
      BY <1>1, <1>3, <2>1 DEF Carries
    <3>. QED  BY <1>1, <1>2, <2>1, <3>1
  <2>2. CASE i \notin 1 .. Len(q)
    <3>1. PICK k \in 1 .. Len(r) : i = Len(q) + k
      BY <1>1, <2>2
    <3>2. w[i] = r[k] /\ r[k].number \in (b + 1) .. c
      BY <1>1, <1>3, <3>1 DEF Carries
    <3>3. w[i].number \in (a + 1) .. c /\ w[i].number > b
      BY <1>2, <3>2
    <3>. QED  BY <2>2, <3>3
  <2>. QED  BY <2>1, <2>2
<1>4. ASSUME NEW i \in 1 .. Len(w), NEW j \in 1 .. Len(w), i < j, On(w[i], s), On(w[j], s)
      PROVE  w[i].number < w[j].number
  <2>1. CASE j \in 1 .. Len(q)
    <3>1. i \in 1 .. Len(q)
      BY <1>1, <1>4, <2>1
    <3>. QED  BY <1>1, <1>4, <2>1, <3>1 DEF Carries
  <2>2. CASE i \in 1 .. Len(q) /\ j \notin 1 .. Len(q)
    <3>1. /\ w[i].number \in (a + 1) .. c /\ w[i].number =< b
          /\ w[j].number \in (a + 1) .. c /\ w[j].number > b
      BY <1>3, <1>4, <2>2
    <3>. QED  BY <1>2, <3>1
  <2>3. CASE i \notin 1 .. Len(q) /\ j \notin 1 .. Len(q)
    <3>1. PICK k \in 1 .. Len(r) : i = Len(q) + k
      BY <1>1, <2>3
    <3>2. PICK l \in 1 .. Len(r) : j = Len(q) + l
      BY <1>1, <2>3
    <3>3. k < l
      BY <1>1, <1>4, <3>1, <3>2
    <3>. QED  BY <1>1, <1>4, <3>1, <3>2, <3>3 DEF Carries
  <2>. QED  BY <1>1, <1>4, <2>1, <2>2, <2>3
<1>5. ASSUME NEW n \in (a + 1) .. c
      PROVE  \E i \in 1 .. Len(w) : On(w[i], s) /\ w[i].number = n
  <2>1. CASE n =< b
    <3>1. PICK i \in 1 .. Len(q) : On(q[i], s) /\ q[i].number = n
      BY <1>2, <1>5, <2>1 DEF Carries
    <3>2. i \in 1 .. Len(w)
      BY <1>1
    <3>. QED  BY <1>1, <3>1, <3>2
  <2>2. CASE ~ (n =< b)
    <3>1. n \in (b + 1) .. c
      BY <1>2, <2>2
    <3>2. PICK k \in 1 .. Len(r) : On(r[k], s) /\ r[k].number = n
      BY <3>1 DEF Carries
    <3>3. Len(q) + k \in 1 .. Len(w)
      BY <1>1
    <3>. QED  BY <1>1, <3>2, <3>3
  <2>. QED  BY <2>1, <2>2
<1>6. Carries(w, s, a, c)
  BY <1>2, <1>3, <1>4, <1>5 DEF Carries
<1>. QED  BY <1>6 DEF w
\* A piece can be cut anywhere.
LEMMA CarriesSplit ==
  ASSUME NEW q \in Seq(Unit), NEW n \in 0 .. Len(q), NEW s, NEW a, NEW c, Carries(q, s, a, c)
  PROVE  \E b : /\ Carries(SubSeq(q, 1, n), s, a, b)
                /\ Carries(SubSeq(q, n + 1, Len(q)), s, b, c)
<1>. DEFINE T == {i \in 1 .. n : On(q[i], s)}
            b == IF T = {} THEN a ELSE q[Max(T)].number
            x == SubSeq(q, 1, n)
            y == SubSeq(q, n + 1, Len(q))
<1>1. /\ Len(q) \in Nat /\ n \in Nat /\ n =< Len(q)
      /\ Len(x) = n /\ \A i \in 1 .. n : x[i] = q[i]
      /\ Len(y) = Len(q) - n /\ \A i \in 1 .. (Len(q) - n) : y[i] = q[n + i]
  OBVIOUS
<1>2. a \in Nat /\ c \in Nat /\ a =< c
  BY DEF Carries
<1>3. /\ b \in a .. c
      /\ \A i \in 1 .. Len(q) : On(q[i], s) => (q[i].number =< b <=> i =< n)
  <2>1. CASE T = {}
    <3>1. ASSUME NEW i \in 1 .. Len(q), On(q[i], s) PROVE q[i].number > a /\ ~ (i =< n)
      <4>1. q[i].number \in (a + 1) .. c
        BY <3>1 DEF Carries
      <4>. QED  BY <1>1, <1>2, <2>1, <3>1, <4>1
    <3>. HIDE DEF T
    <3>2. b = a
      BY <2>1
    <3>3. ASSUME NEW i \in 1 .. Len(q), On(q[i], s) PROVE ~ (q[i].number =< b)
      <4>1. q[i].number \in (a + 1) .. c
        BY <3>3 DEF Carries
      <4>. QED  BY <1>2, <3>2, <4>1
    <3>. QED  BY <1>2, <3>1, <3>2, <3>3
  <2>2. CASE T # {}
    <3>1. Max(T) \in T /\ \A i \in T : i =< Max(T)
      <4>1. T \in SUBSET (1 .. n)
        OBVIOUS
      <4>. HIDE DEF T
      <4>. QED  BY <1>1, <2>2, <4>1, LastExists
    <3>. DEFINE m == Max(T)
    <3>2. m \in 1 .. n /\ On(q[m], s) /\ m \in 1 .. Len(q)
      BY <1>1, <3>1
    <3>3. \A i \in 1 .. n : On(q[i], s) => i =< m
      BY <3>1
    <3>4. b = q[m].number
      BY <2>2
    <3>. HIDE DEF T, m, b
    <3>5. q[m].number \in (a + 1) .. c
      BY <3>2 DEF Carries
    <3>6. ASSUME NEW i \in 1 .. Len(q), On(q[i], s)
          PROVE  q[i].number =< b <=> i =< n
      <4>1. q[i].number \in (a + 1) .. c
        BY <3>6 DEF Carries
      <4>2. i < m => q[i].number < q[m].number
        BY <3>2, <3>6 DEF Carries
      <4>3. m < i => q[m].number < q[i].number
        BY <3>2, <3>6 DEF Carries
      <4>4. i =< n <=> i =< m
        BY <1>1, <3>2, <3>3, <3>6
      <4>5. i = m => q[i].number = q[m].number
        OBVIOUS
      <4>. QED  BY <1>1, <1>2, <3>2, <3>4, <3>5, <4>1, <4>2, <4>3, <4>4, <4>5
    <3>. QED  BY <1>2, <3>4, <3>5, <3>6
  <2>. QED  BY <2>1, <2>2
<1>. HIDE DEF T, b, x, y
<1>4. Carries(x, s, a, b)
  <2>1. ASSUME NEW i \in 1 .. Len(x), On(x[i], s) PROVE x[i].number \in (a + 1) .. b
    <3>1. x[i] = q[i] /\ i \in 1 .. Len(q) /\ i =< n
      BY <1>1
    <3>2. q[i].number \in (a + 1) .. c /\ q[i].number =< b
      BY <1>3, <2>1, <3>1 DEF Carries
    <3>. QED  BY <1>2, <1>3, <3>1, <3>2
  <2>2. ASSUME NEW i \in 1 .. Len(x), NEW j \in 1 .. Len(x), i < j, On(x[i], s), On(x[j], s)
        PROVE  x[i].number < x[j].number
    <3>1. x[i] = q[i] /\ i \in 1 .. Len(q) /\ x[j] = q[j] /\ j \in 1 .. Len(q)
      BY <1>1
    <3>. QED  BY <2>2, <3>1 DEF Carries
  <2>3. ASSUME NEW k \in (a + 1) .. b
        PROVE  \E i \in 1 .. Len(x) : On(x[i], s) /\ x[i].number = k
    <3>1. k \in (a + 1) .. c
      BY <1>2, <1>3
    <3>2. PICK i \in 1 .. Len(q) : On(q[i], s) /\ q[i].number = k
      BY <3>1 DEF Carries
    <3>3. i =< n
      BY <1>2, <1>3, <2>3, <3>2
    <3>. QED  BY <1>1, <3>2, <3>3
  <2>. QED  BY <1>2, <1>3, <2>1, <2>2, <2>3 DEF Carries
<1>5. Carries(y, s, b, c)
  <2>1. ASSUME NEW i \in 1 .. Len(y), On(y[i], s) PROVE y[i].number \in (b + 1) .. c
    <3>1. y[i] = q[n + i] /\ n + i \in 1 .. Len(q) /\ ~ (n + i =< n)
      BY <1>1
    <3>2. q[n + i].number \in (a + 1) .. c /\ ~ (q[n + i].number =< b)
      BY <1>3, <2>1, <3>1 DEF Carries
    <3>. QED  BY <1>2, <1>3, <3>1, <3>2
  <2>2. ASSUME NEW i \in 1 .. Len(y), NEW j \in 1 .. Len(y), i < j, On(y[i], s), On(y[j], s)
        PROVE  y[i].number < y[j].number
    <3>1. /\ y[i] = q[n + i] /\ n + i \in 1 .. Len(q) /\ y[j] = q[n + j] /\ n + j \in 1 .. Len(q)
          /\ n + i < n + j
      BY <1>1, <2>2
    <3>. QED  BY <2>2, <3>1 DEF Carries
  <2>3. ASSUME NEW k \in (b + 1) .. c
        PROVE  \E i \in 1 .. Len(y) : On(y[i], s) /\ y[i].number = k
    <3>1. k \in (a + 1) .. c
      BY <1>2, <1>3
    <3>2. PICK i \in 1 .. Len(q) : On(q[i], s) /\ q[i].number = k
      BY <3>1 DEF Carries
    <3>3. ~ (i =< n)
      BY <1>2, <1>3, <2>3, <3>2
    <3>4. i - n \in 1 .. Len(y) /\ y[i - n] = q[n + (i - n)] /\ n + (i - n) = i
      BY <1>1, <3>2, <3>3
    <3>. QED  BY <3>2, <3>4
  <2>. QED  BY <1>2, <1>3, <2>1, <2>2, <2>3 DEF Carries
<1>. QED  BY <1>4, <1>5 DEF x, y

\* A piece without frames of s carries nothing of it, and one frame the next.
LEMMA CarriesNothing ==
  ASSUME NEW q \in Seq(Unit), NEW s, NEW a, NEW b, \A i \in 1 .. Len(q) : ~ On(q[i], s)
  PROVE  Carries(q, s, a, b) <=> a \in Nat /\ b = a
<1>1. Len(q) \in Nat
  OBVIOUS
<1>2. ASSUME a \in Nat, b = a PROVE Carries(q, s, a, b)
  BY <1>1, <1>2 DEF Carries
<1>3. ASSUME Carries(q, s, a, b) PROVE a \in Nat /\ b = a
  <2>1. a \in Nat /\ b \in Nat /\ a =< b
    BY <1>3 DEF Carries
  <2>2. (a + 1) \notin (a + 1) .. b
    BY <1>3 DEF Carries
  <2>. QED  BY <2>1, <2>2
<1>. QED  BY <1>2, <1>3

LEMMA CarriesOne ==
  ASSUME NEW q \in Seq(StreamFrame), Len(q) = 1, NEW a, NEW b
  PROVE  Carries(q, q[1].id, a, b) <=> a \in Nat /\ b = a + 1 /\ q[1].number = a + 1
<1>. DEFINE s == q[1].id
<1>1. On(q[1], s) /\ q[1].number \in Nat
  <2>1. q[1] \in StreamFrame
    OBVIOUS
  <2>. QED  BY <2>1 DEF On, StreamFrame
<1>. HIDE DEF s
<1>2. ASSUME a \in Nat, b = a + 1, q[1].number = a + 1
      PROVE  Carries(q, s, a, b)
  <2>1. \A i \in 1 .. 1 : i = 1
    OBVIOUS
  <2>. QED  BY <1>1, <1>2, <2>1 DEF Carries
<1>3. ASSUME Carries(q, s, a, b)
      PROVE  a \in Nat /\ b = a + 1 /\ q[1].number = a + 1
  <2>1. a \in Nat /\ b \in Nat /\ a =< b /\ q[1].number \in (a + 1) .. b
    BY <1>1, <1>3 DEF Carries
  <2>2. \A k \in (a + 1) .. b : q[1].number = k
    <3>1. \A i \in 1 .. Len(q) : i = 1
      OBVIOUS
    <3>. QED  BY <1>1, <1>3, <3>1 DEF Carries
  <2>3. a + 1 \in (a + 1) .. b /\ b \in (a + 1) .. b
    BY <2>1
  <2>. QED  BY <2>1, <2>2, <2>3
<1>. QED  BY <1>2, <1>3 DEF s

-------------------------------------------------------------------------------
(* A message is processed frame by frame.                                     *)

OneFrame(seen, data, i) == IF \A j \in 1 .. i : IsFrame(data[j]) THEN Process(seen, data[i]) ELSE seen
Processed(g, first, data, n) == [i \in 0 .. n |-> IF i = 0 THEN first ELSE OneFrame(g[i - 1], data, i)]

\* A table of what has been processed exists: no least k is without one.
LEMMA ProcessedExists ==
  ASSUME NEW n \in Nat, NEW first, NEW data
  PROVE  \E g : g = Processed(g, first, data, n)
<1>. DEFINE C == {k \in 0 .. n : ~ \E g : g = Processed(g, first, data, k)}
<1>1. SUFFICES ASSUME C # {} PROVE FALSE
  OBVIOUS
<1>2. PICK k \in C : \A m \in C : k =< m
  <2>1. C \in SUBSET Nat
    OBVIOUS
  <2>. HIDE DEF C
  <2>. QED  BY <1>1, <2>1, LeastExists
<1>3. CASE k = 0
  <2>. DEFINE g == [i \in 0 .. 0 |-> first]
  <2>1. g = Processed(g, first, data, 0)
    BY DEF Processed
  <2>. QED  BY <1>2, <1>3, <2>1
<1>4. CASE k # 0
  <2>1. k - 1 \in 0 .. n /\ k - 1 \notin C
    BY <1>2, <1>4
  <2>2. PICK g : g = Processed(g, first, data, k - 1)
    BY <2>1
  <2>. DEFINE h == [i \in 0 .. k |-> IF i = k THEN OneFrame(g[k - 1], data, k) ELSE g[i]]
  <2>3. ASSUME NEW i \in 0 .. k
        PROVE  h[i] = Processed(h, first, data, k)[i]
    <3>1. CASE i = 0
      <4>1. g[0] = first
        BY <1>4, <2>1, <2>2 DEF Processed
      <4>. QED  BY <1>4, <3>1, <4>1 DEF Processed
    <3>2. CASE i # 0
      <4>1. i - 1 \in 0 .. k /\ i - 1 # k
        BY <1>2, <3>2
      <4>2. h[i - 1] = g[i - 1]
        BY <4>1
      <4>3. h[i] = OneFrame(g[i - 1], data, i)
        <5>1. CASE i = k
          BY <5>1
        <5>2. CASE i # k
          <6>1. i \in 0 .. (k - 1)
            BY <1>2, <5>2
          <6>2. g[i] = OneFrame(g[i - 1], data, i)
            BY <2>2, <3>2, <6>1 DEF Processed
          <6>. QED  BY <5>2, <6>2
        <5>. QED  BY <5>1, <5>2
      <4>. HIDE DEF h
      <4>. QED  BY <3>2, <4>2, <4>3 DEF Processed
    <3>. QED  BY <3>1, <3>2
  <2>4. h = Processed(h, first, data, k)
    <3>1. h = [i \in 0 .. k |-> h[i]]
      OBVIOUS
    <3>2. Processed(h, first, data, k) = [i \in 0 .. k |-> Processed(h, first, data, k)[i]]
      BY DEF Processed
    <3>. HIDE DEF h
    <3>. QED  BY <2>3, <3>1, <3>2
  <2>. QED  BY <1>2, <2>4
<1>. QED  BY <1>3, <1>4

\* What process_received_data returns for frames is the last entry of a table
\* that takes them one by one.
LEMMA FramesProcessed ==
  ASSUME NEW e \in Sides, NEW data \in Seq(StreamFrame)
  PROVE  \E g : /\ g[0] = [stream |-> stream[e], results |-> got[e]]
                /\ \A i \in 1 .. Len(data) : g[i] = Process(g[i - 1], data[i])
                /\ ProcessReceivedData(e, data) = g[Len(data)]
<1>. DEFINE first == [stream |-> stream[e], results |-> got[e]]
            n == Len(data)
            t == CHOOSE g : g = Processed(g, first, data, n)
<1>1. n \in Nat /\ \A i \in 1 .. n : data[i] \in StreamFrame
  OBVIOUS
<1>2. ProcessReceivedData(e, data) = t[n]
  BY DEF ProcessReceivedData, Processed, OneFrame
<1>3. t = Processed(t, first, data, n)
  <2>1. \E g : g = Processed(g, first, data, n)
    BY <1>1, ProcessedExists
  <2>. QED  BY <2>1, Zenon
<1>. HIDE DEF t, first, n
<1>4. \A i \in 0 .. n : Processed(t, first, data, n)[i] = IF i = 0 THEN first ELSE OneFrame(t[i - 1], data, i)
  BY DEF Processed
<1>5. \A i \in 0 .. n : t[i] = IF i = 0 THEN first ELSE OneFrame(t[i - 1], data, i)
  BY <1>3, <1>4, Zenon
<1>6. t[0] = first
  BY <1>1, <1>5
<1>7. ASSUME NEW i \in 1 .. n PROVE t[i] = Process(t[i - 1], data[i])
  <2>1. t[i] = OneFrame(t[i - 1], data, i)
    <3>1. i \in 0 .. n /\ i # 0
      BY <1>1
    <3>. QED  BY <1>5, <3>1, Zenon
  <2>2. \A j \in 1 .. i : IsFrame(data[j])
    <3>1. \A j \in 1 .. i : j \in 1 .. n
      BY <1>1
    <3>. QED  BY <1>1, <3>1, PrefixIsNoFrame
  <2>. QED  BY <2>1, <2>2, Zenon DEF OneFrame
<1>. QED  BY <1>2, <1>6, <1>7, Zenon DEF first, n

Shut(x) == x \in {"half_closed_remote", "closed"}
Ended(x) == x \in {"half_closed_local", "closed"}

\* What was delivered and what is left of a piece go on up to b; a stream is shut
\* when all of it was delivered.
Good(st, res, rest, b, total) ==
  \A s \in StreamIds :
    \E a : /\ Carries(res, s, 0, a)
           /\ Carries(rest, s, a, b[s])
           /\ Shut(st[s]) => a = total[s]

\* To append an element is to join it as a piece.
LEMMA AppendOne ==
  ASSUME NEW S, NEW q \in Seq(S), NEW r \in Seq(S), Len(r) = 1
  PROVE  Append(q, r[1]) = q \o r
<1>. DEFINE w == Append(q, r[1])
            v == q \o r
<1>1. r[1] \in S /\ Len(q) \in Nat
  OBVIOUS
<1>2. /\ w \in Seq(S) /\ Len(w) = Len(q) + 1
      /\ \A i \in 1 .. Len(q) : w[i] = q[i]
      /\ w[Len(q) + 1] = r[1]
  BY <1>1, AppendProperties
<1>3. /\ v \in Seq(S) /\ Len(v) = Len(q) + 1
      /\ \A i \in 1 .. Len(q) + 1 : v[i] = IF i =< Len(q) THEN q[i] ELSE r[i - Len(q)]
  <2>1. Len(v) = Len(q) + Len(r) /\ v \in Seq(S)
    BY ConcatProperties
  <2>2. \A i \in 1 .. Len(q) + Len(r) : v[i] = IF i =< Len(q) THEN q[i] ELSE r[i - Len(q)]
    BY ConcatProperties
  <2>. QED  BY <2>1, <2>2
<1>. HIDE DEF w, v
<1>4. ASSUME NEW i \in 1 .. Len(w) PROVE w[i] = v[i]
  <2>1. i \in 1 .. Len(q) + 1
    BY <1>2
  <2>2. CASE i =< Len(q)
    BY <1>1, <1>2, <1>3, <2>1, <2>2
  <2>3. CASE i = Len(q) + 1
    BY <1>1, <1>2, <1>3, <2>1, <2>3
  <2>. QED  BY <1>1, <2>1, <2>2, <2>3
<1>5. w = v
  BY <1>2, <1>3, <1>4, SeqEqual
<1>. QED  BY <1>5 DEF w, v

\* A state of the streams from which seen follows when the frame is taken.
Taken(st, frame, seen, left, b, total) ==
  /\ seen = [stream |-> seen.stream, results |-> seen.results]
  /\ seen.stream \in [StreamIds -> States]
  /\ seen.results \in Seq(StreamFrame)
  /\ Good(seen.stream, seen.results, left, b, total)
  /\ \A s \in StreamIds :
       /\ Ended(st[s]) => Ended(seen.stream[s])
       /\ Shut(seen.stream[s]) => (Shut(st[s]) \/ (frame.end /\ frame.id = s))

\* One frame is delivered, in order, and shuts its stream if it is the last.
LEMMA ProcessStep ==
  ASSUME NEW st \in [StreamIds -> States], NEW res \in Seq(StreamFrame), NEW rest \in Seq(StreamFrame), rest # << >>,
         NEW b \in [StreamIds -> Nat], NEW total \in [StreamIds -> Nat],
         \A s \in StreamIds : b[s] =< total[s],
         Good(st, res, rest, b, total),
         Head(rest).end => Head(rest).number = total[Head(rest).id],
         NEW seen, seen = Process([stream |-> st, results |-> res], Head(rest))
  PROVE  Taken(st, Head(rest), seen, Tail(rest), b, total)
<1>. DEFINE u == Head(rest)
            one == SubSeq(rest, 1, 1)
            x == IF st[u.id] = "none" THEN "open" ELSE st[u.id]
            y == IF u.end THEN RemoteEnd(x) ELSE x
            after == [st EXCEPT ![u.id] = y]
<1>1. /\ u \in StreamFrame /\ u.id \in StreamIds /\ u.number \in Nat /\ u.end \in BOOLEAN
      /\ Tail(rest) \in Seq(StreamFrame) /\ Len(rest) \in Nat /\ Len(rest) >= 1
      /\ one \in Seq(StreamFrame) /\ Len(one) = 1 /\ one[1] = u
      /\ SubSeq(rest, 2, Len(rest)) = Tail(rest)
  <2>1. u \in StreamFrame /\ Tail(rest) \in Seq(StreamFrame) /\ Len(rest) \in Nat /\ Len(rest) >= 1
    OBVIOUS
  <2>2. one \in Seq(StreamFrame) /\ Len(one) = 1 /\ one[1] = u
    BY <2>1
  <2>3. SubSeq(rest, 2, Len(rest)) = Tail(rest)
    OBVIOUS
  <2>. QED  BY <2>1, <2>2, <2>3 DEF StreamFrame
<1>2. rest \in Seq(Unit) /\ one \in Seq(Unit) /\ res \in Seq(Unit) /\ Tail(rest) \in Seq(Unit)
  <2>1. \A q : q \in Seq(StreamFrame) => q \in Seq(Unit)
    BY DEF Unit
  <2>. QED  BY <1>1, <2>1
<1>. HIDE DEF one
\* Where a stream stands when the first frame is taken.
<1>3. ASSUME NEW s \in StreamIds
      PROVE  \E a, c : /\ Carries(res, s, 0, a)
                       /\ Carries(one, s, a, c)
                       /\ Carries(Tail(rest), s, c, b[s])
                       /\ Shut(st[s]) => a = total[s]
  <2>1. PICK a : Carries(res, s, 0, a) /\ Carries(rest, s, a, b[s]) /\ (Shut(st[s]) => a = total[s])
    BY <1>3, Zenon DEF Good
  <2>2. PICK c : Carries(one, s, a, c) /\ Carries(SubSeq(rest, 2, Len(rest)), s, c, b[s])
    <3>1. 1 \in 0 .. Len(rest) /\ 1 + 1 = 2
      BY <1>1
    <3>. QED  BY <1>2, <2>1, <3>1, CarriesSplit DEF one
  <2>. QED  BY <1>1, <2>1, <2>2
<1>4. ~ Shut(st[u.id])
  <2>1. PICK a, c : /\ Carries(one, u.id, a, c) /\ Carries(Tail(rest), u.id, c, b[u.id])
                    /\ Shut(st[u.id]) => a = total[u.id]
    BY <1>1, <1>3
  <2>2. a \in Nat /\ c = a + 1
    BY <1>1, <2>1, CarriesOne
  <2>3. c =< b[u.id] /\ b[u.id] =< total[u.id] /\ b[u.id] \in Nat /\ total[u.id] \in Nat
    BY <1>1, <2>1 DEF Carries
  <2>. QED  BY <2>1, <2>2, <2>3
<1>5. /\ IsReadable(x) /\ y \in States
      /\ Ended(st[u.id]) => Ended(y)
      /\ Shut(y) <=> u.end
  BY <1>1, <1>4 DEF IsReadable, RemoteEnd, Shut, Ended, States
<1>6. seen = [stream |-> after, results |-> Append(res, u)]
  BY <1>5 DEF Process
<1>. HIDE DEF u, x, y, after
<1>7. /\ seen.stream = after
      /\ seen.results = Append(res, u)
      /\ seen.results = res \o one
  <2>1. Append(res, u) = res \o one
    BY <1>1, AppendOne
  <2>2. seen.stream = after
    BY <1>6
  <2>3. seen.results = Append(res, u)
    BY <1>6
  <2>. QED  BY <2>1, <2>2, <2>3
<1>8. /\ seen.stream[u.id] = y
      /\ \A s \in StreamIds : s # u.id => seen.stream[s] = st[s]
  BY <1>1, <1>7 DEF after
<1>9. ASSUME NEW s \in StreamIds
      PROVE  \E a : /\ Carries(seen.results, s, 0, a)
                    /\ Carries(Tail(rest), s, a, b[s])
                    /\ Shut(seen.stream[s]) => a = total[s]
  <2>1. PICK a, c : /\ Carries(res, s, 0, a) /\ Carries(one, s, a, c) /\ Carries(Tail(rest), s, c, b[s])
                    /\ Shut(st[s]) => a = total[s]
    BY <1>3, <1>9
  <2>2. Carries(seen.results, s, 0, c)
    <3>1. Carries(res \o one, s, 0, c)
      BY <1>2, <2>1, CarriesJoin
    <3>. QED  BY <1>7, <3>1
  <2>3. Shut(seen.stream[s]) => c = total[s]
    <3>1. CASE s = u.id
      <4>1. Carries(one, one[1].id, a, c)
        BY <1>1, <2>1, <3>1
      <4>2. c = a + 1 /\ u.number = a + 1
        BY <1>1, <4>1, CarriesOne
      <4>3. u.end => u.number = total[u.id]
        BY DEF u
      <4>. QED  BY <1>5, <1>8, <3>1, <4>2, <4>3
    <3>2. CASE s # u.id
      <4>1. \A i \in 1 .. Len(one) : ~ On(one[i], s)
        BY <1>1, <3>2 DEF On
      <4>2. c = a
        BY <1>2, <2>1, <4>1, CarriesNothing
      <4>. QED  BY <1>8, <2>1, <3>2, <4>2
    <3>. QED  BY <3>1, <3>2
  <2>. QED  BY <2>1, <2>2, <2>3
<1>10. ASSUME NEW s \in StreamIds
       PROVE  /\ Ended(st[s]) => Ended(seen.stream[s])
              /\ Shut(seen.stream[s]) => (Shut(st[s]) \/ (u.end /\ u.id = s))
  BY <1>5, <1>8
<1>11. seen.stream \in [StreamIds -> States] /\ seen.results \in Seq(StreamFrame)
  <2>1. after \in [StreamIds -> States]
    BY <1>1, <1>5 DEF after
  <2>2. Append(res, u) \in Seq(StreamFrame)
    BY <1>1, AppendProperties
  <2>. QED  BY <1>7, <2>1, <2>2
<1>12. seen = [stream |-> seen.stream, results |-> seen.results]
  BY <1>6
<1>. QED  BY <1>9, <1>10, <1>11, <1>12 DEF Good, Taken, u

\* All of a message is delivered.
AllTaken(st, data, after, results, b, total) ==
  /\ after \in [StreamIds -> States]
  /\ results \in Seq(StreamFrame)
  /\ Good(after, results, << >>, b, total)
  /\ \A s \in StreamIds :
       /\ Ended(st[s]) => Ended(after[s])
       /\ Shut(after[s]) =>
            (Shut(st[s]) \/ \E i \in 1 .. Len(data) : data[i].end /\ data[i].id = s)

LEMMA MessageProcessed ==
  ASSUME NEW e \in Sides, stream[e] \in [StreamIds -> States], got[e] \in Seq(StreamFrame),
         NEW data \in Seq(StreamFrame),
         NEW b \in [StreamIds -> Nat], NEW total \in [StreamIds -> Nat],
         \A s \in StreamIds : b[s] =< total[s],
         Good(stream[e], got[e], data, b, total),
         \A i \in 1 .. Len(data) : data[i].end => data[i].number = total[data[i].id]
  PROVE  AllTaken(stream[e], data, ProcessReceivedData(e, data).stream,
                  ProcessReceivedData(e, data).results, b, total)
<1>1. PICK g : /\ g[0] = [stream |-> stream[e], results |-> got[e]]
               /\ \A i \in 1 .. Len(data) : g[i] = Process(g[i - 1], data[i])
               /\ ProcessReceivedData(e, data) = g[Len(data)]
  BY FramesProcessed
<1>. DEFINE rest(i) == SubSeq(data, i + 1, Len(data))
            P(i) == /\ g[i] = [stream |-> g[i].stream, results |-> g[i].results]
                    /\ g[i].stream \in [StreamIds -> States]
                    /\ g[i].results \in Seq(StreamFrame)
                    /\ Good(g[i].stream, g[i].results, rest(i), b, total)
                    /\ \A s \in StreamIds :
                         /\ Ended(stream[e][s]) => Ended(g[i].stream[s])
                         /\ Shut(g[i].stream[s]) =>
                              (Shut(stream[e][s]) \/ \E j \in 1 .. Len(data) : data[j].end /\ data[j].id = s)
            C == {k \in 0 .. Len(data) : ~ P(k)}
<1>2. Len(data) \in Nat
  OBVIOUS
<1>3. P(0)
  <2>1. rest(0) = data
    BY SubSeqFull
  <2>2. g[0].stream = stream[e] /\ g[0].results = got[e]
    BY <1>1
  <2>. HIDE DEF rest
  <2>3. g[0] = [stream |-> g[0].stream, results |-> g[0].results]
    BY <1>1, <2>2
  <2>. QED  BY <2>1, <2>2, <2>3
<1>4. ASSUME NEW k \in 1 .. Len(data), P(k - 1) PROVE P(k)
  <2>. DEFINE i == k - 1
              st == g[i].stream
              res == g[i].results
  <2>1. i \in Nat /\ i + 1 = k /\ k \in Nat /\ k =< Len(data)
    BY <1>2
  <2>2. /\ rest(i) \in Seq(StreamFrame) /\ rest(i) # << >>
        /\ Head(rest(i)) = data[k] /\ Tail(rest(i)) = rest(k)
    <3>1. rest(i) = SubSeq(data, k, Len(data)) /\ rest(k) = SubSeq(data, k + 1, Len(data))
      BY <2>1
    <3>2. Head(SubSeq(data, k, Len(data))) = data[k] /\ Tail(SubSeq(data, k, Len(data))) = SubSeq(data, k + 1, Len(data))
      <4>1. Len(data) \in k .. Len(data)
        BY <1>2, <2>1
      <4>. QED  BY <4>1, HeadTailOfSubSeq
    <3>3. rest(i) \in Seq(StreamFrame) /\ Len(rest(i)) >= 1
      BY <1>2, <2>1
    <3>4. rest(i) # << >>
      <4>. DEFINE x == rest(i)
      <4>1. Len(x) >= 1
        BY <3>3
      <4>. HIDE DEF x
      <4>2. x # << >>
        BY <4>1
      <4>. QED  BY <4>2 DEF x
    <3>. HIDE DEF rest
    <3>. QED  BY <3>1, <3>2, <3>3, <3>4
  <2>3. g[k] = Process([stream |-> st, results |-> res], data[k])
    BY <1>1, <1>4
  <2>4. data[k].end => data[k].number = total[data[k].id]
    OBVIOUS
  <2>5. /\ st \in [StreamIds -> States] /\ res \in Seq(StreamFrame)
        /\ Good(st, res, rest(i), b, total)
        /\ \A s \in StreamIds :
             /\ Ended(stream[e][s]) => Ended(st[s])
             /\ Shut(st[s]) =>
                  (Shut(stream[e][s]) \/ \E j \in 1 .. Len(data) : data[j].end /\ data[j].id = s)
    BY <1>4
  <2>. HIDE DEF rest, st, res
  <2>6. /\ g[k] = [stream |-> g[k].stream, results |-> g[k].results]
        /\ g[k].stream \in [StreamIds -> States]
        /\ g[k].results \in Seq(StreamFrame)
        /\ Good(g[k].stream, g[k].results, rest(k), b, total)
        /\ \A s \in StreamIds :
              /\ Ended(st[s]) => Ended(g[k].stream[s])
              /\ Shut(g[k].stream[s]) => (Shut(st[s]) \/ (data[k].end /\ data[k].id = s))
    <3>. DEFINE x == rest(i)
    <3>1. x \in Seq(StreamFrame) /\ x # << >> /\ Good(st, res, x, b, total)
      BY <2>2, <2>5
    <3>2. /\ Head(x).end => Head(x).number = total[Head(x).id]
          /\ g[k] = Process([stream |-> st, results |-> res], Head(x))
      BY <2>2, <2>3, <2>4
    <3>. HIDE DEF x
    <3>3. Taken(st, Head(x), g[k], Tail(x), b, total)
      BY <2>5, <3>1, <3>2, ProcessStep
    <3>4. Taken(st, data[k], g[k], rest(k), b, total)
      BY <2>2, <3>3 DEF x
    <3>. QED  BY <3>4 DEF Taken
  <2>. QED  BY <2>5, <2>6
<1>. HIDE DEF P
<1>5. C = {}
  <2>1. SUFFICES ASSUME C # {} PROVE FALSE
    OBVIOUS
  <2>2. PICK k \in C : \A m \in C : k =< m
    <3>1. C \in SUBSET Nat
      OBVIOUS
    <3>. HIDE DEF C
    <3>. QED  BY <2>1, <3>1, LeastExists
  <2>3. k # 0
    BY <1>3, <2>2
  <2>4. k \in 1 .. Len(data) /\ k - 1 \in 0 .. Len(data) /\ k - 1 \notin C
    BY <1>2, <2>2, <2>3
  <2>. QED  BY <1>4, <2>2, <2>4
<1>6. P(Len(data))
  <2>1. Len(data) \in 0 .. Len(data)
    BY <1>2
  <2>. QED  BY <1>5, <2>1, Zenon
<1>7. rest(Len(data)) = << >>
  BY <1>2, SubSeqEmpty
<1>. HIDE DEF rest
<1>. QED  BY <1>1, <1>6, <1>7 DEF P, AllTaken

-------------------------------------------------------------------------------
(* What is between the ends.                                                  *)

Suspended == [at : {"read"}, prefix : BOOLEAN, units : Nat \ {0}]

StreamsTyped ==
  /\ connected \in [Sides -> BOOLEAN]
  /\ stream \in [Sides -> [StreamIds -> States]]
  /\ frames \in [Sides -> [StreamIds -> Nat]]
  /\ pending \in [Sides -> Seq(StreamFrame)]
  /\ wire \in [Sides -> Seq(Unit)]
  /\ buffer \in [Sides -> Seq(Unit)]
  /\ got \in [Sides -> Seq(StreamFrame)]
  /\ expects \in [Sides -> {NotReceiving} \cup Suspended]
  /\ \A e \in Sides : Receiving(e, "read") =>
       connected[e] /\ (expects[e].prefix => expects[e].units = 1)

\* After the k units of a payload there is prefix after prefix, each with as many
\* frames behind it as it says.
Framed(q, k) ==
  /\ k \in 0 .. Len(q)
  /\ \A i \in 1 .. k : q[i] \in StreamFrame
  /\ k < Len(q) => q[k + 1] \in Prefix
  /\ \A i \in (k + 1) .. Len(q) : q[i] \in Prefix =>
       /\ i + q[i].length =< Len(q)
       /\ \A j \in (i + 1) .. (i + q[i].length) : q[j] \in StreamFrame
       /\ i + q[i].length < Len(q) => q[i + q[i].length + 1] \in Prefix

\* A frame with the end flag is the last its sender sends.
EndsRight(q, y, f) ==
  \A i \in 1 .. Len(q) : q[i] \in StreamFrame /\ q[i].end =>
    q[i].number = f[q[i].id] /\ Ended(y[q[i].id])

\* From a sender to a receiver: res was delivered, the receiver has the streams x
\* and b in its buffer, of which the first k are awaited; w is on the wire, the
\* sender has p pending, the streams y and has sent f. All that was sent on a
\* stream is on its way in this order; a stream is shut when all of it was delivered.
OnWay(res, x, up, b, f, w, p, s) ==
  \E m : /\ Carries(res, s, 0, m)
         /\ Shut(x[s]) => m = f[s]
         /\ up => \E n, o : Carries(b, s, m, n) /\ Carries(w, s, n, o) /\ Carries(p, s, o, f[s])
Direction(res, x, up, b, k, y, f, w, p) ==
  /\ \A s \in StreamIds : OnWay(res, x, up, b, f, w, p, s) /\ (Shut(x[s]) => Ended(y[s]))
  /\ up => Framed(b \o w, k)
  /\ EndsRight(b, y, f) /\ EndsRight(w, y, f) /\ EndsRight(p, y, f)

Awaited(e) == IF Receiving(e, "read") /\ ~ expects[e].prefix THEN expects[e].units ELSE 0
Going(e) == Direction(got[e], stream[e], connected[e], buffer[e], Awaited(e),
                      stream[Far(e)], frames[Far(e)], wire[Far(e)], pending[Far(e)])

StreamInv == StreamsTyped /\ \A e \in Sides : Going(e)

-------------------------------------------------------------------------------
(* The framing.                                                               *)

\* Frames and prefixes are units; a concatenation, element by element.
LEMMA SeqUnits == \A q : q \in Seq(StreamFrame) \/ q \in Seq(Prefix) => q \in Seq(Unit)
<1>1. \A q : q \in Seq(StreamFrame) => q \in Seq(Unit)
  BY DEF Unit
<1>2. \A q : q \in Seq(Prefix) => q \in Seq(Unit)
  BY DEF Unit
<1>. QED  BY <1>1, <1>2

InTurn(w, q, r) ==
  /\ Len(q) \in Nat /\ Len(r) \in Nat /\ Len(w) = Len(q) + Len(r)
  /\ \A i \in 1 .. Len(q) : w[i] = q[i]
  /\ \A i \in 1 .. Len(r) : w[Len(q) + i] = r[i]

LEMMA Joined ==
  ASSUME NEW q \in Seq(Unit), NEW r \in Seq(Unit)
  PROVE  q \o r \in Seq(Unit) /\ InTurn(q \o r, q, r)
<1>. DEFINE w == q \o r
<1>1. w \in Seq(Unit) /\ Len(w) = Len(q) + Len(r)
  BY ConcatProperties
<1>2. \A i \in 1 .. (Len(q) + Len(r)) : w[i] = IF i =< Len(q) THEN q[i] ELSE r[i - Len(q)]
  BY ConcatProperties
<1>. HIDE DEF w
<1>3. Len(q) \in Nat /\ Len(r) \in Nat
  OBVIOUS
<1>4. ASSUME NEW i \in 1 .. Len(q) PROVE w[i] = q[i]
  <2>1. i \in 1 .. (Len(q) + Len(r)) /\ i =< Len(q)
    BY <1>3
  <2>. QED  BY <1>2, <2>1
<1>5. ASSUME NEW i \in 1 .. Len(r) PROVE w[Len(q) + i] = r[i]
  <2>1. Len(q) + i \in 1 .. (Len(q) + Len(r)) /\ ~ (Len(q) + i =< Len(q)) /\ (Len(q) + i) - Len(q) = i
    BY <1>3
  <2>. QED  BY <1>2, <2>1
<1>. QED  BY <1>1, <1>3, <1>4, <1>5 DEF w, InTurn

LEMMA UnitsAssociate == \A q, r, t \in Seq(Unit) : (q \o r) \o t = q \o (r \o t)
BY ConcatAssociative

\* A message more leaves the others whole.
LEMMA FramedSend ==
  ASSUME NEW q \in Seq(Unit), NEW k, Framed(q, k), NEW p \in Seq(StreamFrame),
         NEW u \in Seq(Prefix), Len(u) = 1, u[1].length = Len(p)
  PROVE  Framed((q \o u) \o p, k)
<1>. DEFINE w == (q \o u) \o p
            n == Len(q)
<1>1. /\ n \in Nat /\ Len(p) \in Nat /\ Len(w) = n + 1 + Len(p) /\ u[1] \in Prefix
      /\ \A i \in 1 .. n : w[i] = q[i]
      /\ w[n + 1] = u[1]
      /\ \A i \in (n + 2) .. (n + 1 + Len(p)) : w[i] \in StreamFrame
  <2>. DEFINE v == q \o u
  <2>1. u \in Seq(Unit) /\ p \in Seq(Unit) /\ u[1] \in Prefix
    <3>1. u[1] \in Prefix
      OBVIOUS
    <3>. QED  BY <3>1, SeqUnits
  <2>2. /\ v \in Seq(Unit) /\ n \in Nat /\ Len(v) = n + 1
        /\ \A i \in 1 .. n : v[i] = q[i]
        /\ \A i \in 1 .. 1 : v[n + i] = u[i]
    <3>1. v \in Seq(Unit) /\ InTurn(v, q, u)
      BY <2>1, Joined
    <3>. HIDE DEF v
    <3>. QED  BY <3>1 DEF InTurn
  <2>3. v[n + 1] = u[1]
    BY <2>2
  <2>. HIDE DEF v
  <2>4. /\ Len(p) \in Nat /\ Len(v \o p) = n + 1 + Len(p)
        /\ \A i \in 1 .. (n + 1) : (v \o p)[i] = v[i]
        /\ \A i \in 1 .. Len(p) : (v \o p)[(n + 1) + i] = p[i]
    <3>1. /\ Len(p) \in Nat /\ Len(v \o p) = Len(v) + Len(p)
          /\ \A i \in 1 .. Len(v) : (v \o p)[i] = v[i]
          /\ \A i \in 1 .. Len(p) : (v \o p)[Len(v) + i] = p[i]
      <4>1. v \in Seq(Unit) /\ p \in Seq(Unit)
        BY <2>1, <2>2
      <4>2. InTurn(v \o p, v, p)
        BY <4>1, Joined, Zenon
      <4>. QED  BY <4>2, Zenon DEF InTurn
    <3>. QED  BY <2>2, <3>1
  <2>. HIDE DEF n
  <2>5. ASSUME NEW i \in (n + 2) .. (n + 1 + Len(p)) PROVE (v \o p)[i] \in StreamFrame
    <3>1. i - (n + 1) \in 1 .. Len(p) /\ (n + 1) + (i - (n + 1)) = i
      BY <2>2, <2>4
    <3>2. p[i - (n + 1)] \in StreamFrame
      BY <3>1
    <3>. QED  BY <2>4, <3>1, <3>2
  <2>6. (\A i \in 1 .. n : i \in 1 .. (n + 1)) /\ n + 1 \in 1 .. (n + 1)
    BY <2>2
  <2>7. (\A i \in 1 .. n : (v \o p)[i] = q[i]) /\ (v \o p)[n + 1] = u[1]
    BY <2>2, <2>3, <2>4, <2>6
  <2>. QED  BY <2>1, <2>2, <2>4, <2>5, <2>7 DEF v
<1>. HIDE DEF w
<1>2. k \in 0 .. n /\ k \in 0 .. Len(w)
  BY <1>1 DEF Framed
<1>3. \A i \in 1 .. k : w[i] \in StreamFrame
  BY <1>1, <1>2 DEF Framed
<1>4. w[k + 1] \in Prefix
  <2>1. CASE k = n
    BY <1>1, <2>1
  <2>2. CASE k < n
    BY <1>1, <1>2, <2>2 DEF Framed
  <2>. QED  BY <1>1, <1>2, <2>1, <2>2
<1>5. ASSUME NEW i \in (k + 1) .. Len(w), w[i] \in Prefix
      PROVE  /\ i + w[i].length =< Len(w)
             /\ \A j \in (i + 1) .. (i + w[i].length) : w[j] \in StreamFrame
             /\ i + w[i].length < Len(w) => w[i + w[i].length + 1] \in Prefix
  <2>1. CASE i =< n
    <3>. DEFINE l == q[i].length
    <3>1. i \in (k + 1) .. n /\ q[i] \in Prefix /\ w[i] = q[i] /\ l \in Nat /\ i \in Nat /\ i >= 1
      BY <1>1, <1>2, <1>5, <2>1 DEF Prefix
    <3>2. /\ i + l =< n
          /\ \A j \in (i + 1) .. (i + l) : q[j] \in StreamFrame
          /\ i + l < n => q[i + l + 1] \in Prefix
      BY <3>1 DEF Framed
    <3>3. w[i].length = l
      BY <3>1
    <3>. HIDE DEF l
    <3>4. ASSUME NEW j \in (i + 1) .. (i + l) PROVE w[j] \in StreamFrame
      <4>1. j \in 1 .. n
        BY <1>1, <3>1, <3>2
      <4>2. w[j] = q[j]
        BY <1>1, <4>1
      <4>. QED  BY <3>2, <4>2
    <3>5. w[i + l + 1] \in Prefix
      <4>1. CASE i + l < n
        <5>1. i + l + 1 \in 1 .. n
          BY <1>1, <3>1, <4>1
        <5>. QED  BY <1>1, <3>2, <4>1, <5>1
      <4>2. CASE i + l = n
        <5>1. w[n + 1] \in Prefix
          BY <1>1
        <5>. QED  BY <4>2, <5>1
      <4>. QED  BY <1>1, <3>1, <3>2, <4>1, <4>2
    <3>6. i + l =< Len(w)
      BY <1>1, <3>1, <3>2
    <3>. QED  BY <3>3, <3>4, <3>5, <3>6
  <2>2. CASE i = n + 1
    <3>1. w[i].length = Len(p)
      BY <1>1, <2>2
    <3>2. i + w[i].length = Len(w)
      BY <1>1, <2>2, <3>1
    <3>3. \A j \in (i + 1) .. (i + w[i].length) : j \in (n + 2) .. (n + 1 + Len(p))
      BY <1>1, <2>2, <3>1
    <3>. QED  BY <1>1, <3>2, <3>3
  <2>3. CASE i > n + 1
    <3>1. i \in (n + 2) .. (n + 1 + Len(p))
      BY <1>1, <1>2, <2>3
    <3>. QED  BY <1>1, <1>5, <3>1, PrefixIsNoFrame
  <2>4. i =< n \/ i = n + 1 \/ i > n + 1
    <3>1. i \in Nat /\ n \in Nat
      BY <1>1, <1>2, <1>5
    <3>. HIDE DEF n
    <3>. QED  BY <3>1
  <2>. QED  BY <2>1, <2>2, <2>3, <2>4
<1>6. Framed(w, k)
  BY <1>2, <1>3, <1>4, <1>5 DEF Framed
<1>. QED  BY <1>6 DEF w

\* What is left when the first j units are gone.
LEMMA FramedRest ==
  ASSUME NEW q \in Seq(Unit), NEW k, Framed(q, k),
         NEW m \in Nat, NEW r \in Seq(Unit), NEW h,
         \/ m = k /\ h = 0
         \/ k = 0 /\ q # << >> /\ m = 1 /\ h = q[1].length,
         Len(r) = Len(q) - m, \A i \in 1 .. Len(r) : r[i] = q[i + m]
  PROVE  Framed(r, h)
<1>. DEFINE n == Len(q)
<1>1. n \in Nat /\ k \in 0 .. n /\ m \in 0 .. n /\ Len(r) = n - m
  BY DEF Framed
<1>2. q # << >> => n >= 1
  OBVIOUS
<1>3. h \in Nat
  <2>1. CASE m = k /\ h = 0
    BY <2>1
  <2>2. CASE k = 0 /\ q # << >> /\ m = 1 /\ h = q[1].length
    <3>1. q[1] \in Prefix
      BY <1>1, <1>2, <2>2 DEF Framed
    <3>. QED  BY <2>2, <3>1 DEF Prefix
  <2>. QED  BY <2>1, <2>2
<1>4. /\ h \in 0 .. Len(r)
      /\ \A i \in 1 .. h : r[i] \in StreamFrame
      /\ h < Len(r) => r[h + 1] \in Prefix
  <2>1. CASE m = k /\ h = 0
    <3>1. 0 < Len(r) => r[1] = q[k + 1] /\ k < n
      BY <1>1, <2>1
    <3>2. k < n => q[k + 1] \in Prefix
      BY DEF Framed
    <3>. QED  BY <1>1, <2>1, <3>1, <3>2
  <2>2. CASE k = 0 /\ q # << >> /\ m = 1 /\ h = q[1].length
    <3>1. 1 \in (k + 1) .. n /\ q[1] \in Prefix
      BY <1>1, <1>2, <2>2 DEF Framed
    <3>2. /\ 1 + h =< n
          /\ \A j \in 2 .. (1 + h) : q[j] \in StreamFrame
          /\ 1 + h < n => q[1 + h + 1] \in Prefix
      BY <2>2, <3>1 DEF Framed
    <3>3. h \in 0 .. Len(r)
      BY <1>1, <1>3, <2>2, <3>2
    <3>4. \A i \in 1 .. h : r[i] = q[i + 1] /\ i + 1 \in 2 .. (1 + h)
      BY <1>1, <1>3, <2>2, <3>3
    <3>5. h < Len(r) => r[h + 1] = q[1 + h + 1] /\ 1 + h < n
      BY <1>1, <1>3, <2>2, <3>3
    <3>. QED  BY <3>2, <3>3, <3>4, <3>5
  <2>. QED  BY <2>1, <2>2
<1>5. ASSUME NEW i \in (h + 1) .. Len(r), r[i] \in Prefix
      PROVE  /\ i + r[i].length =< Len(r)
             /\ \A j \in (i + 1) .. (i + r[i].length) : r[j] \in StreamFrame
             /\ i + r[i].length < Len(r) => r[i + r[i].length + 1] \in Prefix
  <2>. DEFINE l == r[i].length
  <2>1. l \in Nat /\ i \in Nat /\ i >= 1
    BY <1>1, <1>3, <1>5 DEF Prefix
  <2>. HIDE DEF l
  <2>2. i + m \in (k + 1) .. n /\ r[i] = q[i + m] /\ q[i + m].length = l
    <3>1. i \in 1 .. Len(r) /\ m + h >= k
      BY <1>1, <1>3, <2>1
    <3>2. r[i] = q[i + m]
      BY <3>1
    <3>3. i + m \in (k + 1) .. n
      BY <1>1, <1>3, <2>1, <3>1
    <3>. QED  BY <3>2, <3>3 DEF l
  <2>3. /\ (i + m) + l =< n
        /\ \A j \in ((i + m) + 1) .. ((i + m) + l) : q[j] \in StreamFrame
        /\ (i + m) + l < n => q[(i + m) + l + 1] \in Prefix
    BY <1>5, <2>2 DEF Framed
  <2>4. i + l =< Len(r)
    BY <1>1, <2>1, <2>3
  <2>5. ASSUME NEW j \in (i + 1) .. (i + l) PROVE r[j] \in StreamFrame
    <3>1. j \in Int /\ i + 1 =< j /\ j =< i + l /\ m \in Int /\ Len(r) \in Int
      BY <1>1, <2>1
    <3>2. j + m \in ((i + m) + 1) .. ((i + m) + l) /\ j \in 1 .. Len(r)
      BY <2>1, <2>4, <3>1
    <3>. QED  BY <2>3, <3>2
  <2>6. ASSUME i + l < Len(r) PROVE r[i + l + 1] \in Prefix
    <3>1. i + l + 1 \in 1 .. Len(r) /\ (i + l + 1) + m = (i + m) + l + 1 /\ (i + m) + l < n
      BY <1>1, <2>1, <2>4, <2>6
    <3>. QED  BY <2>3, <3>1
  <2>. QED  BY <2>4, <2>5, <2>6 DEF l
<1>. QED  BY <1>4, <1>5 DEF Framed

\* Without its first m units.
Without(q, r, c, m) ==
  /\ c \in Seq(Unit) /\ r \in Seq(Unit) /\ q \in Seq(Unit)
  /\ Len(r) = Len(q) - m
  /\ \A i \in 1 .. Len(r) : r[i] = q[i + m]
LEMMA Dropped ==
  ASSUME NEW b \in Seq(Unit), NEW w \in Seq(Unit), NEW m \in 0 .. Len(b)
  PROVE  Without(b \o w, SubSeq(b, m + 1, Len(b)) \o w, SubSeq(b, m + 1, Len(b)), m)
<1>. DEFINE c == SubSeq(b, m + 1, Len(b))
            v == c \o w
            q == b \o w
<1>1. /\ c \in Seq(Unit) /\ Len(b) \in Nat /\ m \in Nat /\ m =< Len(b) /\ Len(c) = Len(b) - m
      /\ \A i \in 1 .. Len(c) : c[i] = b[i + m]
  <2>1. Len(b) \in Nat /\ m \in Nat /\ m =< Len(b)
    OBVIOUS
  <2>2. c \in Seq(Unit) /\ Len(c) = Len(b) - m
    BY <2>1
  <2>3. \A i \in 1 .. Len(c) : c[i] = b[i + m]
    BY <2>1, <2>2
  <2>. QED  BY <2>1, <2>2, <2>3
<1>2. v \in Seq(Unit) /\ InTurn(v, c, w)
  <2>. HIDE DEF c
  <2>. QED  BY <1>1, Joined
<1>3. q \in Seq(Unit) /\ InTurn(q, b, w)
  BY Joined
<1>. HIDE DEF v, q, c
<1>4. Len(v) = Len(q) - m /\ Len(w) \in Nat /\ Len(v) = Len(c) + Len(w) /\ Len(c) \in Nat
  <2>1. Len(v) = Len(c) + Len(w) /\ Len(w) \in Nat /\ Len(c) \in Nat
    BY <1>2, Zenon DEF InTurn
  <2>2. Len(q) = Len(b) + Len(w)
    BY <1>3, Zenon DEF InTurn
  <2>3. Len(b) \in Nat /\ m \in Nat /\ Len(c) = Len(b) - m
    BY <1>1, Zenon
  <2>. QED  BY <2>1, <2>2, <2>3
<1>5. ASSUME NEW i \in 1 .. Len(v) PROVE v[i] = q[i + m]
  <2>1. CASE i =< Len(c)
    <3>1. i \in 1 .. Len(c) /\ i + m \in 1 .. Len(b)
      BY <1>1, <1>4, <2>1
    <3>2. v[i] = c[i] /\ q[i + m] = b[i + m]
      BY <1>2, <1>3, <3>1 DEF InTurn
    <3>. QED  BY <1>1, <3>1, <3>2
  <2>2. CASE ~ (i =< Len(c))
    <3>1. i - Len(c) \in 1 .. Len(w) /\ Len(c) + (i - Len(c)) = i /\ Len(b) + (i - Len(c)) = i + m
      <4>. DEFINE lb == Len(b)
                  lc == Len(c)
                  lv == Len(v)
                  lw == Len(w)
      <4>1. i \in 1 .. lv /\ ~ (i =< lc)
        BY <2>2
      <4>2. lb \in Nat /\ m \in Nat /\ lc = lb - m /\ lv = lc + lw /\ lw \in Nat /\ lc \in Nat
        BY <1>1, <1>4, Zenon
      <4>. HIDE DEF lb, lc, lv, lw
      <4>3. i - lc \in 1 .. lw /\ lc + (i - lc) = i /\ lb + (i - lc) = i + m
        BY <4>1, <4>2
      <4>. QED  BY <4>3 DEF lb, lc, lw
    <3>2. v[Len(c) + (i - Len(c))] = w[i - Len(c)] /\ q[Len(b) + (i - Len(c))] = w[i - Len(c)]
      BY <1>2, <1>3, <3>1 DEF InTurn
    <3>. QED  BY <3>1, <3>2
  <2>. QED  BY <2>1, <2>2
<1>6. Without(q, v, c, m)
  BY <1>1, <1>2, <1>3, <1>4, <1>5 DEF Without
<1>. QED  BY <1>6 DEF v, q, c

\* A prefix is taken from the buffer, or the payload it announced.
LEMMA PrefixTaken ==
  ASSUME NEW b \in Seq(Unit), b # << >>, NEW w \in Seq(Unit), Framed(b \o w, 0)
  PROVE  /\ Head(b) \in Prefix
         /\ Tail(b) \in Seq(Unit)
         /\ Framed(Tail(b) \o w, Head(b).length)
<1>. DEFINE q == b \o w
            r == Tail(b) \o w
<1>1. Len(b) \in Nat /\ Len(b) >= 1 /\ Tail(b) = SubSeq(b, 1 + 1, Len(b)) /\ Head(b) = b[1]
  OBVIOUS
<1>2. 1 \in 0 .. Len(b) /\ 1 \in 1 .. Len(b)
  BY <1>1
<1>3. /\ Tail(b) \in Seq(Unit) /\ r \in Seq(Unit) /\ q \in Seq(Unit)
      /\ Len(r) = Len(q) - 1
      /\ \A i \in 1 .. Len(r) : r[i] = q[i + 1]
  <2>1. Without(q, r, Tail(b), 1)
    BY <1>1, <1>2, Dropped
  <2>. HIDE DEF q, r
  <2>. QED  BY <2>1 DEF Without
<1>4. q[1] = Head(b) /\ Len(q) >= 1 /\ Len(q) \in Nat
  <2>1. InTurn(q, b, w)
    BY Joined
  <2>. HIDE DEF q
  <2>. QED  BY <1>1, <1>2, <2>1 DEF InTurn
<1>. HIDE DEF q, r
<1>5. Framed(q, 0)
  BY DEF q
<1>6. q[1] \in Prefix
  BY <1>4, <1>5 DEF Framed
<1>7. q # << >>
  BY <1>4
<1>8. Framed(r, Head(b).length)
  <2>. DEFINE h == Head(b).length
  <2>1. h = q[1].length
    BY <1>4
  <2>. HIDE DEF h
  <2>. QED  BY <1>3, <1>5, <1>7, <2>1, FramedRest DEF h
<1>. QED  BY <1>3, <1>4, <1>6, <1>8 DEF r

LEMMA PayloadTaken ==
  ASSUME NEW b \in Seq(Unit), NEW w \in Seq(Unit), NEW k \in 0 .. Len(b), Framed(b \o w, k)
  PROVE  /\ SubSeq(b, 1, k) \in Seq(StreamFrame)
         /\ SubSeq(b, k + 1, Len(b)) \in Seq(Unit)
         /\ Framed(SubSeq(b, k + 1, Len(b)) \o w, 0)
<1>. DEFINE q == b \o w
            c == SubSeq(b, k + 1, Len(b))
            r == c \o w
            d == SubSeq(b, 1, k)
<1>1. /\ c \in Seq(Unit) /\ r \in Seq(Unit) /\ q \in Seq(Unit)
      /\ Len(r) = Len(q) - k
      /\ \A i \in 1 .. Len(r) : r[i] = q[i + k]
  <2>1. Without(q, r, c, k)
    BY Dropped
  <2>. HIDE DEF q, r, c
  <2>. QED  BY <2>1 DEF Without
<1>2. Framed(r, 0)
  <2>1. k \in Nat /\ Framed(q, k)
    OBVIOUS
  <2>. HIDE DEF r, q
  <2>. QED  BY <1>1, <2>1, FramedRest
<1>3. d \in Seq(StreamFrame)
  <2>1. k \in Nat /\ Len(b) \in Nat /\ k =< Len(b)
    OBVIOUS
  <2>2. InTurn(q, b, w)
    BY Joined
  <2>. HIDE DEF q
  <2>3. \A i \in 1 .. k : b[i] \in StreamFrame
    <3>1. \A i \in 1 .. k : i \in 1 .. Len(b)
      BY <2>1
    <3>2. \A i \in 1 .. k : q[i] \in StreamFrame
      BY DEF q, Framed
    <3>. QED  BY <2>2, <3>1, <3>2 DEF InTurn
  <2>4. Len(d) = k /\ \A i \in 1 .. k : d[i] = b[i]
    BY <2>1
  <2>5. d \in Seq(Unit)
    BY <2>1
  <2>. HIDE DEF d
  <2>. QED  BY <2>1, <2>3, <2>4, <2>5
<1>. QED  BY <1>1, <1>2, <1>3

-------------------------------------------------------------------------------
(* What a step does to a direction.                                           *)

LEMMA EndsJoin ==
  ASSUME NEW y, NEW f, NEW q, NEW r, NEW w, InTurn(w, q, r), EndsRight(q, y, f), EndsRight(r, y, f)
  PROVE  EndsRight(w, y, f)
<1>1. ASSUME NEW i \in 1 .. Len(w), w[i] \in StreamFrame, w[i].end
      PROVE  w[i].number = f[w[i].id] /\ Ended(y[w[i].id])
  <2>1. Len(q) \in Nat /\ Len(r) \in Nat /\ Len(w) = Len(q) + Len(r)
    BY DEF InTurn
  <2>2. CASE i \in 1 .. Len(q)
    BY <1>1, <2>2 DEF InTurn, EndsRight
  <2>3. CASE i \notin 1 .. Len(q)
    <3>1. i - Len(q) \in 1 .. Len(r) /\ Len(q) + (i - Len(q)) = i
      BY <2>1, <2>3
    <3>2. w[i] = r[i - Len(q)]
      BY <3>1 DEF InTurn
    <3>. QED  BY <1>1, <3>1, <3>2 DEF EndsRight
  <2>. QED  BY <2>2, <2>3
<1>. QED  BY <1>1 DEF EndsRight

LEMMA EndsPart ==
  ASSUME NEW y, NEW f, NEW q, NEW r, EndsRight(q, y, f),
         \A i \in 1 .. Len(r) : \E j \in 1 .. Len(q) : r[i] = q[j]
  PROVE  EndsRight(r, y, f)
BY DEF EndsRight

\* A stream of the sender may end, and one of the receiver need not be shut.
LEMMA DirectionKept ==
  ASSUME NEW res, NEW x, NEW up, NEW b, NEW k, NEW y, NEW f, NEW w, NEW p,
         Direction(res, x, up, b, k, y, f, w, p),
         NEW x2, NEW y2,
         \A s \in StreamIds : (Shut(x2[s]) => Shut(x[s])) /\ (Ended(y[s]) => Ended(y2[s])),
         p \in Seq(Unit), b \in Seq(Unit), w \in Seq(Unit)
  PROVE  Direction(res, x2, up, b, k, y2, f, w, p)
<1>1. ASSUME NEW s \in StreamIds PROVE OnWay(res, x2, up, b, f, w, p, s) /\ (Shut(x2[s]) => Ended(y2[s]))
  <2>1. Shut(x2[s]) => Ended(y2[s])
    BY DEF Direction
  <2>2. OnWay(res, x, up, b, f, w, p, s) /\ (Shut(x2[s]) => Shut(x[s]))
    BY DEF Direction
  <2>. QED  BY <2>1, <2>2 DEF OnWay
<1>2. ASSUME NEW q, EndsRight(q, y, f) PROVE EndsRight(q, y2, f)
  <2>1. ASSUME NEW i \in 1 .. Len(q), q[i] \in StreamFrame, q[i].end
        PROVE  q[i].number = f[q[i].id] /\ Ended(y2[q[i].id])
    <3>1. q[i].id \in StreamIds
      BY <2>1 DEF StreamFrame
    <3>. QED  BY <1>2, <2>1, <3>1 DEF EndsRight
  <2>. QED  BY <2>1 DEF EndsRight
<1>. QED  BY <1>1, <1>2 DEF Direction

\* The receiver hangs up.
LEMMA DirectionDown ==
  ASSUME NEW res, NEW x, NEW up, NEW b, NEW k, NEW y, NEW f, NEW w, NEW p,
         Direction(res, x, up, b, k, y, f, w, p), NEW b2, b2 = b \/ b2 = << >>, NEW k2
  PROVE  Direction(res, x, FALSE, b2, k2, y, f, w, p)
<1>1. EndsRight(b2, y, f)
  <2>1. CASE b2 = b
    BY <2>1 DEF Direction
  <2>2. CASE b2 = << >>
    BY <2>2 DEF EndsRight
  <2>. QED  BY <2>1, <2>2
<1>2. ASSUME NEW s \in StreamIds PROVE OnWay(res, x, FALSE, b2, f, w, p, s) /\ (Shut(x[s]) => Ended(y[s]))
  <2>1. OnWay(res, x, up, b, f, w, p, s) /\ (Shut(x[s]) => Ended(y[s]))
    BY DEF Direction
  <2>. QED  BY <2>1 DEF OnWay
<1>. QED  BY <1>1, <1>2 DEF Direction

\* A frame is sent on a stream that has not ended.
LEMMA DirectionFrame ==
  ASSUME NEW res, NEW x, NEW up, NEW b \in Seq(Unit), NEW k, NEW y, NEW f \in [StreamIds -> Nat],
         NEW w \in Seq(Unit), NEW p \in Seq(StreamFrame),
         Direction(res, x, up, b, k, y, f, w, p),
         NEW t \in StreamIds, NEW end \in BOOLEAN, ~ Ended(y[t]),
         NEW y2, \A s \in StreamIds : Ended(y[s]) => Ended(y2[s]),
         end => Ended(y2[t]),
         NEW f2, f2 = [f EXCEPT ![t] = @ + 1],
         NEW p2, p2 = Append(p, [id |-> t, number |-> f[t] + 1, end |-> end])
  PROVE  Direction(res, x, up, b, k, y2, f2, w, p2)
<1>. DEFINE u == [id |-> t, number |-> f[t] + 1, end |-> end]
            one == << u >>
<1>1. /\ f[t] \in Nat /\ f2[t] = f[t] + 1
      /\ \A s \in StreamIds : s # t => f2[s] = f[s]
      /\ f2 \in [StreamIds -> Nat]
  OBVIOUS
<1>2. u \in StreamFrame /\ one \in Seq(StreamFrame) /\ Len(one) = 1 /\ one[1] = u
  <2>1. u \in StreamFrame
    BY <1>1 DEF StreamFrame
  <2>. HIDE DEF u
  <2>. QED  BY <2>1
<1>3. u.id = t /\ u.number = f[t] + 1 /\ u.end = end
  OBVIOUS
<1>4. p2 = p \o one
  <2>1. p2 = Append(p, one[1])
    BY <1>2
  <2>. HIDE DEF one
  <2>. QED  BY <1>2, <2>1, AppendOne
<1>. HIDE DEF u, one
<1>5. p \in Seq(Unit) /\ one \in Seq(Unit)
  BY <1>2, SeqUnits
\* No frame with the end flag is under way on t.
<1>6. ASSUME NEW q, EndsRight(q, y, f) PROVE EndsRight(q, y2, f2)
  <2>1. ASSUME NEW i \in 1 .. Len(q), q[i] \in StreamFrame, q[i].end
        PROVE  q[i].number = f2[q[i].id] /\ Ended(y2[q[i].id])
    <3>1. q[i].id \in StreamIds
      BY <2>1 DEF StreamFrame
    <3>2. q[i].number = f[q[i].id] /\ Ended(y[q[i].id])
      BY <1>6, <2>1 DEF EndsRight
    <3>3. q[i].id # t
      BY <3>2
    <3>. QED  BY <1>1, <3>1, <3>2, <3>3
  <2>. QED  BY <2>1 DEF EndsRight
<1>7. EndsRight(one, y2, f2)
  <2>1. \A i \in 1 .. Len(one) : one[i] = u
    BY <1>2
  <2>. QED  BY <1>1, <1>3, <2>1 DEF EndsRight
<1>8. EndsRight(p2, y2, f2)
  <2>1. InTurn(p2, p, one)
    BY <1>4, <1>5, Joined
  <2>2. EndsRight(p, y2, f2)
    BY <1>6 DEF Direction
  <2>. QED  BY <1>7, <2>1, <2>2, EndsJoin
<1>9. ASSUME NEW s \in StreamIds PROVE OnWay(res, x, up, b, f2, w, p2, s)
  <2>1. OnWay(res, x, up, b, f, w, p, s) /\ (Shut(x[s]) => Ended(y[s]))
    BY DEF Direction
  <2>2. ASSUME NEW o, Carries(p, s, o, f[s]) PROVE Carries(p2, s, o, f2[s])
    <3>1. Carries(one, s, f[s], f2[s])
      <4>1. CASE s = t
        <5>1. Carries(one, one[1].id, f[t], f2[t])
          BY <1>1, <1>2, <1>3, CarriesOne
        <5>. QED  BY <1>2, <1>3, <4>1, <5>1
      <4>2. CASE s # t
        <5>1. \A i \in 1 .. Len(one) : ~ On(one[i], s)
          BY <1>2, <1>3, <4>2 DEF On
        <5>2. f[s] \in Nat /\ f2[s] = f[s]
          BY <1>1, <4>2
        <5>. QED  BY <1>5, <5>1, <5>2, CarriesNothing
      <4>. QED  BY <4>1, <4>2
    <3>2. Carries(p \o one, s, o, f2[s])
      BY <1>5, <2>2, <3>1, CarriesJoin
    <3>. QED  BY <1>4, <3>2
  <2>3. Shut(x[s]) => f2[s] = f[s]
    BY <1>1, <2>1
  <2>. QED  BY <2>1, <2>2, <2>3 DEF OnWay
<1>. QED  BY <1>6, <1>8, <1>9 DEF Direction

\* What is pending goes on the wire as one message.
LEMMA DirectionMessage ==
  ASSUME NEW res, NEW x, NEW up, NEW b \in Seq(Unit), NEW k, NEW y, NEW f,
         NEW w \in Seq(Unit), NEW p \in Seq(StreamFrame),
         Direction(res, x, up, b, k, y, f, w, p), Len(p) \in 1 .. MaxMessage,
         NEW u, u = << [length |-> Len(p)] >>
  PROVE  (w \o u) \o p \in Seq(Unit) /\ Direction(res, x, up, b, k, y, f, (w \o u) \o p, << >>)
<1>. DEFINE v == w \o u
            w2 == v \o p
<1>1. u \in Seq(Prefix) /\ Len(u) = 1 /\ u[1].length = Len(p) /\ u[1] \in Prefix
  <2>1. [length |-> Len(p)] \in Prefix
    BY DEF Prefix
  <2>. QED  BY <2>1
<1>2. u \in Seq(Unit) /\ p \in Seq(Unit) /\ << >> \in Seq(Unit)
  <2>1. u \in Seq(Unit) /\ p \in Seq(Unit)
    BY <1>1, SeqUnits, Zenon
  <2>2. << >> \in Seq(Unit)
    OBVIOUS
  <2>. QED  BY <2>1, <2>2
<1>3. v \in Seq(Unit) /\ InTurn(v, w, u)
  BY <1>2, Joined
<1>4. w2 \in Seq(Unit) /\ InTurn(w2, v, p)
  <2>. HIDE DEF v
  <2>. QED  BY <1>2, <1>3, Joined
<1>5. EndsRight(w2, y, f)
  <2>1. \A i \in 1 .. Len(u) : u[i] \notin StreamFrame
    BY <1>1, PrefixIsNoFrame
  <2>2. EndsRight(u, y, f)
    BY <2>1 DEF EndsRight
  <2>3. EndsRight(w, y, f) /\ EndsRight(p, y, f)
    BY DEF Direction
  <2>. HIDE DEF v, w2
  <2>. QED  BY <1>3, <1>4, <2>2, <2>3, EndsJoin
<1>6. EndsRight(<< >>, y, f)
  BY DEF EndsRight
<1>7. up => Framed(b \o w2, k)
  <2>1. SUFFICES ASSUME up PROVE Framed(b \o w2, k)
    OBVIOUS
  <2>2. Framed(b \o w, k) /\ b \o w \in Seq(Unit)
    BY <2>1, Joined DEF Direction
  <2>3. Framed(((b \o w) \o u) \o p, k)
    <3>. DEFINE q == b \o w
    <3>1. Framed(q, k) /\ q \in Seq(Unit)
      BY <2>2
    <3>. HIDE DEF q
    <3>2. Framed((q \o u) \o p, k)
      BY <1>1, <3>1, FramedSend
    <3>. QED  BY <3>2 DEF q
  <2>4. (b \o w) \o u = b \o v
    <3>1. u \in Seq(Unit)
      BY <1>2
    <3>. QED  BY <3>1, UnitsAssociate
  <2>5. (b \o v) \o p = b \o w2
    <3>. HIDE DEF v
    <3>1. v \in Seq(Unit) /\ p \in Seq(Unit)
      BY <1>2, <1>3
    <3>. QED  BY <3>1, UnitsAssociate
  <2>. HIDE DEF v, w2
  <2>. QED  BY <2>3, <2>4, <2>5
<1>8. ASSUME NEW s \in StreamIds PROVE OnWay(res, x, up, b, f, w2, << >>, s)
  <2>1. OnWay(res, x, up, b, f, w, p, s)
    BY DEF Direction
  <2>2. ASSUME NEW n, NEW o, Carries(w, s, n, o), Carries(p, s, o, f[s])
        PROVE  Carries(w2, s, n, f[s]) /\ Carries(<< >>, s, f[s], f[s])
    <3>1. o \in Nat /\ f[s] \in Nat
      BY <2>2 DEF Carries
    <3>2. \A i \in 1 .. Len(u) : ~ On(u[i], s)
      BY <1>1, PrefixIsNoFrame DEF On
    <3>3. Carries(u, s, o, o)
      BY <1>2, <3>1, <3>2, CarriesNothing
    <3>4. Carries(v, s, n, o)
      BY <1>2, <2>2, <3>3, CarriesJoin
    <3>. HIDE DEF v
    <3>5. Carries(w2, s, n, f[s])
      BY <1>2, <1>3, <2>2, <3>4, CarriesJoin
    <3>6. Carries(<< >>, s, f[s], f[s])
      <4>1. \A i \in 1 .. Len(<< >>) : ~ On(<< >>[i], s)
        OBVIOUS
      <4>. QED  BY <1>2, <3>1, <4>1, CarriesNothing
    <3>. QED  BY <3>5, <3>6
  <2>. HIDE DEF w2
  <2>. QED  BY <2>1, <2>2 DEF OnWay
<1>9. \A s \in StreamIds : Shut(x[s]) => Ended(y[s])
  BY DEF Direction
<1>. HIDE DEF w2
<1>10. Direction(res, x, up, b, k, y, f, w2, << >>)
  BY <1>5, <1>6, <1>7, <1>8, <1>9 DEF Direction
<1>. QED  BY <1>4, <1>10 DEF w2

\* A chunk of the wire comes into the buffer.
LEMMA DirectionChunk ==
  ASSUME NEW res, NEW x, NEW b \in Seq(Unit), NEW k, NEW y, NEW f,
         NEW w \in Seq(Unit), NEW p \in Seq(StreamFrame),
         Direction(res, x, TRUE, b, k, y, f, w, p), NEW n \in 1 .. Len(w),
         NEW b2, b2 = b \o SubSeq(w, 1, n), NEW w2, w2 = SubSeq(w, n + 1, Len(w))
  PROVE  /\ b2 \in Seq(Unit) /\ w2 \in Seq(Unit)
         /\ Direction(res, x, TRUE, b2, k, y, f, w2, p)
<1>. DEFINE c == SubSeq(w, 1, n)
<1>1. /\ n \in Nat /\ Len(w) \in Nat /\ n >= 1 /\ n =< Len(w)
      /\ c \in Seq(Unit) /\ Len(c) = n /\ \A i \in 1 .. n : c[i] = w[i]
      /\ w2 \in Seq(Unit) /\ Len(w2) = Len(w) - n /\ \A i \in 1 .. Len(w2) : w2[i] = w[n + i]
  <2>1. n \in Nat /\ Len(w) \in Nat /\ n >= 1 /\ n =< Len(w)
    OBVIOUS
  <2>2. c \in Seq(Unit) /\ Len(c) = n /\ \A i \in 1 .. n : c[i] = w[i]
    BY <2>1
  <2>3. w2 \in Seq(Unit) /\ Len(w2) = Len(w) - n /\ \A i \in 1 .. Len(w2) : w2[i] = w[n + i]
    BY <2>1
  <2>. QED  BY <2>1, <2>2, <2>3
<1>2. c \o w2 = w
  <2>1. SubSeq(w, 1, n) \o SubSeq(w, n + 1, Len(w)) = SubSeq(w, 1, Len(w))
    BY <1>1, ConcatAdjacentSubSeq
  <2>. QED  BY <2>1, SubSeqFull
<1>3. b2 = b \o c
  OBVIOUS
<1>4. b2 \in Seq(Unit) /\ InTurn(b2, b, c)
  <2>. HIDE DEF c
  <2>. QED  BY <1>1, <1>3, Joined
<1>5. Framed(b2 \o w2, k)
  <2>1. Framed(b \o w, k)
    BY DEF Direction
  <2>2. (b \o c) \o w2 = b \o (c \o w2)
    <3>1. c \in Seq(Unit) /\ w2 \in Seq(Unit)
      BY <1>1
    <3>. HIDE DEF c
    <3>. QED  BY <3>1, UnitsAssociate, Zenon
  <2>. HIDE DEF c
  <2>. QED  BY <1>2, <1>3, <2>1, <2>2
<1>6. EndsRight(b2, y, f) /\ EndsRight(w2, y, f)
  <2>1. EndsRight(b, y, f) /\ EndsRight(w, y, f)
    BY DEF Direction
  <2>. HIDE DEF c
  <2>2. \A i \in 1 .. Len(c) : \E j \in 1 .. Len(w) : c[i] = w[j]
    <3>1. \A i \in 1 .. Len(c) : i \in 1 .. n /\ i \in 1 .. Len(w)
      BY <1>1
    <3>. QED  BY <1>1, <3>1
  <2>3. \A i \in 1 .. Len(w2) : n + i \in 1 .. Len(w)
    BY <1>1
  <2>4. EndsRight(c, y, f) /\ EndsRight(w2, y, f)
    <3>1. EndsRight(c, y, f)
      BY <2>1, <2>2, EndsPart, Zenon
    <3>2. EndsRight(w2, y, f)
      BY <1>1, <2>1, <2>3 DEF EndsRight
    <3>. QED  BY <3>1, <3>2
  <2>. QED  BY <1>4, <2>1, <2>4, EndsJoin
<1>7. ASSUME NEW s \in StreamIds PROVE OnWay(res, x, TRUE, b2, f, w2, p, s)
  <2>1. OnWay(res, x, TRUE, b, f, w, p, s)
    BY DEF Direction
  <2>2. PICK m, i, o : /\ Carries(res, s, 0, m) /\ (Shut(x[s]) => m = f[s])
                       /\ Carries(b, s, m, i) /\ Carries(w, s, i, o) /\ Carries(p, s, o, f[s])
    BY <2>1 DEF OnWay
  <2>3. PICK j : Carries(c, s, i, j) /\ Carries(w2, s, j, o)
    <3>1. n \in 0 .. Len(w)
      BY <1>1
    <3>. QED  BY <2>2, <3>1, CarriesSplit
  <2>. HIDE DEF c
  <2>4. Carries(b2, s, m, j)
    <3>1. Carries(b \o c, s, m, j)
      BY <1>1, <2>2, <2>3, CarriesJoin
    <3>. QED  BY <1>3, <3>1
  <2>. QED  BY <2>2, <2>3, <2>4 DEF OnWay
<1>8. EndsRight(p, y, f) /\ \A s \in StreamIds : Shut(x[s]) => Ended(y[s])
  BY DEF Direction
<1>. HIDE DEF c
<1>. QED  BY <1>1, <1>4, <1>5, <1>6, <1>7, <1>8 DEF Direction

\* A prefix is read.
LEMMA DirectionPrefix ==
  ASSUME NEW res, NEW x, NEW b \in Seq(Unit), b # << >>, NEW y, NEW f,
         NEW w \in Seq(Unit), NEW p \in Seq(StreamFrame),
         Direction(res, x, TRUE, b, 0, y, f, w, p)
  PROVE  /\ Head(b) \in Prefix /\ Tail(b) \in Seq(Unit)
         /\ Direction(res, x, TRUE, Tail(b), Head(b).length, y, f, w, p)
<1>. DEFINE c == Tail(b)
            one == SubSeq(b, 1, 1)
<1>1. Head(b) \in Prefix /\ c \in Seq(Unit) /\ Framed(c \o w, Head(b).length)
  BY PrefixTaken DEF Direction
<1>2. /\ Len(b) \in Nat /\ 1 =< Len(b) /\ c = SubSeq(b, 1 + 1, Len(b))
      /\ one \in Seq(Unit) /\ Len(one) = 1 /\ one[1] = Head(b)
      /\ \A i \in 1 .. Len(c) : i + 1 \in 1 .. Len(b) /\ c[i] = b[i + 1]
  <2>1. Len(b) \in Nat /\ 1 =< Len(b) /\ c = SubSeq(b, 1 + 1, Len(b)) /\ Head(b) = b[1]
    OBVIOUS
  <2>2. one \in Seq(Unit) /\ Len(one) = 1 /\ one[1] = b[1]
    BY <2>1
  <2>3. \A i \in 1 .. Len(c) : i + 1 \in 1 .. Len(b) /\ c[i] = b[i + 1]
    BY <2>1
  <2>. QED  BY <2>1, <2>2, <2>3
<1>3. EndsRight(c, y, f)
  <2>1. EndsRight(b, y, f)
    BY DEF Direction
  <2>. HIDE DEF c
  <2>. QED  BY <1>2, <2>1 DEF EndsRight
<1>4. ASSUME NEW s \in StreamIds PROVE OnWay(res, x, TRUE, c, f, w, p, s)
  <2>1. OnWay(res, x, TRUE, b, f, w, p, s)
    BY DEF Direction
  <2>2. PICK m, n, o : /\ Carries(res, s, 0, m) /\ (Shut(x[s]) => m = f[s])
                       /\ Carries(b, s, m, n) /\ Carries(w, s, n, o) /\ Carries(p, s, o, f[s])
    BY <2>1 DEF OnWay
  <2>3. PICK j : Carries(one, s, m, j) /\ Carries(SubSeq(b, 1 + 1, Len(b)), s, j, n)
    <3>1. 1 \in 0 .. Len(b)
      BY <1>2
    <3>. QED  BY <2>2, <3>1, CarriesSplit
  <2>. HIDE DEF one, c
  <2>4. \A i \in 1 .. Len(one) : ~ On(one[i], s)
    <3>1. \A i \in 1 .. Len(one) : one[i] = Head(b)
      BY <1>2
    <3>. QED  BY <1>1, <3>1, PrefixIsNoFrame DEF On
  <2>5. j = m
    BY <1>2, <2>3, <2>4, CarriesNothing
  <2>6. Carries(c, s, m, n)
    BY <1>2, <2>3, <2>5
  <2>. QED  BY <2>2, <2>6 DEF OnWay
<1>5. EndsRight(w, y, f) /\ EndsRight(p, y, f) /\ \A s \in StreamIds : Shut(x[s]) => Ended(y[s])
  BY DEF Direction
<1>. HIDE DEF c
<1>6. Direction(res, x, TRUE, c, Head(b).length, y, f, w, p)
  BY <1>1, <1>3, <1>4, <1>5 DEF Direction
<1>. QED  BY <1>1, <1>6 DEF c

\* A payload is read and what it holds processed.
Delivers(x, x2, res2, b, k, y, f, w, p) ==
  /\ x2 \in [StreamIds -> States]
  /\ res2 \in Seq(StreamFrame)
  /\ SubSeq(b, k + 1, Len(b)) \in Seq(Unit)
  /\ Direction(res2, x2, TRUE, SubSeq(b, k + 1, Len(b)), 0, y, f, w, p)
  /\ \A s \in StreamIds : Ended(x[s]) => Ended(x2[s])

LEMMA DirectionPayload ==
  ASSUME NEW e \in Sides, stream[e] \in [StreamIds -> States], got[e] \in Seq(StreamFrame),
         NEW b \in Seq(Unit), NEW k \in 0 .. Len(b), NEW y, NEW f \in [StreamIds -> Nat],
         NEW w \in Seq(Unit), NEW p \in Seq(StreamFrame),
         Direction(got[e], stream[e], TRUE, b, k, y, f, w, p)
  PROVE  Delivers(stream[e], ProcessReceivedData(e, SubSeq(b, 1, k)).stream,
                  ProcessReceivedData(e, SubSeq(b, 1, k)).results, b, k, y, f, w, p)
<1>. DEFINE x == stream[e]
            res == got[e]
            d == SubSeq(b, 1, k)
            c == SubSeq(b, k + 1, Len(b))
            seen == ProcessReceivedData(e, d)
            Between(s, m, l, n, o) ==
              /\ Carries(d, s, m, l) /\ Carries(c, s, l, n) /\ Carries(w, s, n, o) /\ Carries(p, s, o, f[s])
            Q(s, l) == \E m, n, o : /\ Carries(res, s, 0, m) /\ (Shut(x[s]) => m = f[s])
                                    /\ Between(s, m, l, n, o)
            L(s) == CHOOSE l : Q(s, l)
            upTo == [s \in StreamIds |-> L(s)]
<1>1. d \in Seq(StreamFrame) /\ c \in Seq(Unit) /\ Framed(c \o w, 0)
  BY PayloadTaken DEF Direction
<1>2. /\ k \in Nat /\ Len(b) \in Nat /\ k =< Len(b)
      /\ Len(d) = k /\ \A i \in 1 .. k : d[i] = b[i] /\ i \in 1 .. Len(b)
      /\ \A i \in 1 .. Len(c) : k + i \in 1 .. Len(b) /\ c[i] = b[k + i]
  <2>1. k \in Nat /\ Len(b) \in Nat /\ k =< Len(b)
    OBVIOUS
  <2>2. Len(d) = k /\ \A i \in 1 .. k : d[i] = b[i] /\ i \in 1 .. Len(b)
    BY <2>1
  <2>3. \A i \in 1 .. Len(c) : k + i \in 1 .. Len(b) /\ c[i] = b[k + i]
    BY <2>1
  <2>. QED  BY <2>1, <2>2, <2>3
<1>3. ASSUME NEW s \in StreamIds
      PROVE  \E l, m, n, o : Carries(res, s, 0, m) /\ (Shut(x[s]) => m = f[s]) /\ Between(s, m, l, n, o)
  <2>1. OnWay(res, x, TRUE, b, f, w, p, s)
    BY DEF Direction
  <2>2. PICK m, n, o : /\ Carries(res, s, 0, m) /\ (Shut(x[s]) => m = f[s])
                       /\ Carries(b, s, m, n) /\ Carries(w, s, n, o) /\ Carries(p, s, o, f[s])
    BY <2>1 DEF OnWay
  <2>3. PICK l : Carries(d, s, m, l) /\ Carries(c, s, l, n)
    BY <2>2, CarriesSplit
  <2>. HIDE DEF d, c
  <2>. QED  BY <2>2, <2>3
<1>. HIDE DEF d, c
<1>4. ASSUME NEW s \in StreamIds
      PROVE  \E m, n, o : /\ Carries(res, s, 0, m) /\ (Shut(x[s]) => m = f[s])
                          /\ Between(s, m, upTo[s], n, o)
  <2>1. \E l : Q(s, l)
    BY <1>3, Zenon
  <2>. HIDE DEF Q
  <2>2. Q(s, L(s))
    BY <2>1, Zenon
  <2>3. upTo[s] = L(s)
    OBVIOUS
  <2>. HIDE DEF upTo, L
  <2>. QED  BY <2>2, <2>3 DEF Q
<1>5. DOMAIN upTo = StreamIds /\ upTo = [s \in StreamIds |-> upTo[s]]
  <2>. HIDE DEF L
  <2>. QED  OBVIOUS
<1>. HIDE DEF upTo
<1>6. ASSUME NEW s \in StreamIds PROVE upTo[s] \in Nat /\ upTo[s] =< f[s]
  <2>1. PICK m, n, o : Between(s, m, upTo[s], n, o)
    BY <1>4, Zenon
  <2>. QED  BY <2>1 DEF Carries
<1>7. upTo \in [StreamIds -> Nat]
  BY <1>5, <1>6
<1>8. Good(x, res, d, upTo, f)
  <2>1. ASSUME NEW s \in StreamIds
        PROVE  \E m : Carries(res, s, 0, m) /\ Carries(d, s, m, upTo[s]) /\ (Shut(x[s]) => m = f[s])
    BY <1>4, Zenon
  <2>. QED  BY <2>1, Zenon DEF Good
<1>9. \A i \in 1 .. Len(d) : d[i].end => d[i].number = f[d[i].id] /\ Ended(y[d[i].id])
  <2>1. \A i \in 1 .. Len(d) : d[i] \in StreamFrame
    BY <1>1
  <2>2. EndsRight(b, y, f)
    BY DEF Direction
  <2>. QED  BY <1>2, <2>1, <2>2 DEF EndsRight
<1>10. /\ seen.stream \in [StreamIds -> States]
       /\ seen.results \in Seq(StreamFrame)
       /\ Good(seen.stream, seen.results, << >>, upTo, f)
       /\ \A s \in StreamIds :
            /\ Ended(x[s]) => Ended(seen.stream[s])
            /\ Shut(seen.stream[s]) =>
                 (Shut(x[s]) \/ \E i \in 1 .. Len(d) : d[i].end /\ d[i].id = s)
  <2>1. AllTaken(stream[e], d, ProcessReceivedData(e, d).stream, ProcessReceivedData(e, d).results, upTo, f)
    <3>1. /\ \A s \in StreamIds : upTo[s] =< f[s]
          /\ \A i \in 1 .. Len(d) : d[i].end => d[i].number = f[d[i].id]
      BY <1>6, <1>9
    <3>2. Good(stream[e], got[e], d, upTo, f)
      BY <1>8
    <3>. QED  BY <1>1, <1>7, <3>1, <3>2, MessageProcessed
  <2>2. AllTaken(x, d, seen.stream, seen.results, upTo, f)
    BY <2>1
  <2>. HIDE DEF seen
  <2>. QED  BY <2>2 DEF AllTaken
<1>. HIDE DEF seen
<1>11. ASSUME NEW s \in StreamIds
       PROVE  OnWay(seen.results, seen.stream, TRUE, c, f, w, p, s) /\ (Shut(seen.stream[s]) => Ended(y[s]))
  <2>1. PICK l : Carries(seen.results, s, 0, l) /\ Carries(<< >>, s, l, upTo[s]) /\ (Shut(seen.stream[s]) => l = f[s])
    BY <1>10, Zenon DEF Good
  <2>2. l = upTo[s]
    <3>1. << >> \in Seq(Unit) /\ \A i \in 1 .. Len(<< >>) : ~ On(<< >>[i], s)
      OBVIOUS
    <3>2. Carries(<< >>, s, l, upTo[s]) <=> l \in Nat /\ upTo[s] = l
      BY <3>1, CarriesNothing, Zenon
    <3>. QED  BY <2>1, <3>2, Zenon
  <2>3. PICK m, n, o : Between(s, m, upTo[s], n, o)
    BY <1>4, Zenon
  <2>4. OnWay(seen.results, seen.stream, TRUE, c, f, w, p, s)
    BY <2>1, <2>2, <2>3 DEF OnWay
  <2>5. Shut(seen.stream[s]) => Ended(y[s])
    <3>1. Shut(x[s]) => Ended(y[s])
      BY DEF Direction
    <3>. QED  BY <1>9, <1>10, <3>1
  <2>. QED  BY <2>4, <2>5
<1>12. EndsRight(c, y, f)
  <2>1. EndsRight(b, y, f)
    BY DEF Direction
  <2>. QED  BY <1>2, <2>1 DEF EndsRight
<1>13. EndsRight(w, y, f) /\ EndsRight(p, y, f)
  BY DEF Direction
<1>14. Direction(seen.results, seen.stream, TRUE, c, 0, y, f, w, p)
  BY <1>1, <1>11, <1>12, <1>13 DEF Direction
<1>15. Delivers(x, seen.stream, seen.results, b, k, y, f, w, p)
  BY <1>1, <1>10, <1>14 DEF Delivers, c
<1>. QED  BY <1>15 DEF seen, d

-------------------------------------------------------------------------------
(* The steps.                                                                 *)

LEMMA Opposite ==
  ASSUME NEW e \in Sides
  PROVE  /\ Far(e) \in Sides /\ Far(e) # e /\ Far(Far(e)) = e
         /\ \A o \in Sides : o = e \/ o = Far(e)
BY DEF Sides, Far

LEMMA Untouched ==
  ASSUME NEW o \in Sides, Going(o),
         got'[o] = got[o], stream'[o] = stream[o], connected'[o] = connected[o], buffer'[o] = buffer[o],
         expects'[o] = expects[o], stream'[Far(o)] = stream[Far(o)], frames'[Far(o)] = frames[Far(o)],
         wire'[Far(o)] = wire[Far(o)], pending'[Far(o)] = pending[Far(o)]
  PROVE  Going(o)'
<1>1. Awaited(o)' = Awaited(o)
  BY DEF Awaited, Receiving
<1>. QED  BY <1>1 DEF Going

LEMMA StreamsStart == TInit => StreamInv
<1>1. SUFFICES ASSUME TInit PROVE StreamInv
  OBVIOUS
<1>2. StreamsTyped
  <2>1. << >> \in Seq(StreamFrame) /\ << >> \in Seq(Unit)
    OBVIOUS
  <2>2. \A e \in Sides : ~ Receiving(e, "read")
    BY <1>1 DEF TInit, Receiving, NotReceiving
  <2>. QED  BY <1>1, <2>1, <2>2 DEF TInit, StreamsTyped, States
<1>3. ASSUME NEW e \in Sides PROVE Going(e)
  <2>1. Far(e) \in Sides
    BY Opposite
  <2>2. /\ got[e] = << >> /\ stream[e] = [s \in StreamIds |-> "none"] /\ buffer[e] = << >>
        /\ stream[Far(e)] = [s \in StreamIds |-> "none"] /\ frames[Far(e)] = [s \in StreamIds |-> 0]
        /\ wire[Far(e)] = << >> /\ pending[Far(e)] = << >>
    BY <1>1, <2>1 DEF TInit
  <2>3. Awaited(e) = 0
    BY <1>1 DEF TInit, Awaited, Receiving, NotReceiving
  <2>4. \A s \in StreamIds : Carries(<< >>, s, 0, 0)
    <3>1. << >> \in Seq(Unit) /\ \A s : \A i \in 1 .. Len(<< >>) : ~ On(<< >>[i], s)
      OBVIOUS
    <3>. QED  BY <3>1, CarriesNothing
  <2>5. Framed(<< >> \o << >>, 0)
    BY DEF Framed
  <2>6. \A y, f : EndsRight(<< >>, y, f)
    BY DEF EndsRight
  <2>7. ASSUME NEW s \in StreamIds
        PROVE  /\ OnWay(got[e], stream[e], connected[e], buffer[e], frames[Far(e)], wire[Far(e)], pending[Far(e)], s)
               /\ ~ Shut(stream[e][s])
    BY <2>2, <2>4 DEF OnWay, Shut
  <2>. QED  BY <2>2, <2>3, <2>5, <2>6, <2>7 DEF Going, Direction
<1>. QED  BY <1>2, <1>3 DEF StreamInv

LEMMA NextIdIsFree ==
  ASSUME NEW e \in Sides, \E s \in StreamIds : s % 2 = FirstId(e) % 2 /\ stream[e][s] = "none"
  PROVE  NextId(e) \in StreamIds /\ stream[e][NextId(e)] = "none"
<1>. DEFINE T == {s \in StreamIds : s % 2 = FirstId(e) % 2 /\ stream[e][s] = "none"}
            Q(s) == /\ s % 2 = FirstId(e) % 2 /\ stream[e][s] = "none"
                    /\ \A r \in StreamIds : r % 2 = s % 2 /\ r < s => stream[e][r] # "none"
<1>1. T \in SUBSET Nat /\ T # {}
  BY TransportAssumption DEF StreamIds
<1>2. PICK s \in T : \A r \in T : s =< r
  <2>. HIDE DEF T
  <2>. QED  BY <1>1, LeastExists
<1>3. ASSUME NEW r \in StreamIds, r % 2 = s % 2, r < s PROVE stream[e][r] # "none"
  <2>1. r \in Nat /\ s \in Nat
    BY <1>1, TransportAssumption DEF StreamIds
  <2>2. r \notin T
    BY <1>2, <1>3, <2>1
  <2>. QED  BY <1>2, <1>3, <2>2
<1>4. s \in StreamIds /\ Q(s)
  BY <1>2, <1>3
<1>5. NextId(e) = CHOOSE t \in StreamIds : Q(t)
  BY DEF NextId
<1>. HIDE DEF Q
<1>6. NextId(e) \in StreamIds /\ Q(NextId(e))
  BY <1>4, <1>5
<1>. QED  BY <1>6 DEF Q

LEMMA OpenKeepsStreams ==
  ASSUME StreamInv, NEW e \in Sides, OpenStream(e)
  PROVE  StreamInv'
<1>. DEFINE s == NextId(e)
            st == [stream[e] EXCEPT ![s] = "open"]
<1>1. s \in StreamIds /\ stream[e][s] = "none"
  BY NextIdIsFree DEF OpenStream
<1>2. /\ stream' = [stream EXCEPT ![e] = st]
      /\ UNCHANGED <<connected, frames, pending, wire, buffer, expects, got>>
  BY DEF OpenStream
<1>. HIDE DEF s
<1>3. StreamsTyped
  BY DEF StreamInv
<1>4. /\ stream'[e] = st /\ stream'[Far(e)] = stream[Far(e)]
      /\ st \in [StreamIds -> States]
      /\ \A r \in StreamIds : (Shut(st[r]) => Shut(stream[e][r])) /\ (Ended(stream[e][r]) => Ended(st[r]))
  <2>1. stream \in [Sides -> [StreamIds -> States]] /\ stream[e] \in [StreamIds -> States]
    BY <1>3 DEF StreamsTyped
  <2>2. st \in [StreamIds -> States]
    BY <2>1 DEF States
  <2>3. \A r \in StreamIds : st[r] = IF r = s THEN "open" ELSE stream[e][r]
    BY <2>1
  <2>4. stream'[e] = st /\ stream'[Far(e)] = stream[Far(e)]
    BY <1>2, <2>1, Opposite
  <2>. HIDE DEF st
  <2>. QED  BY <1>1, <2>2, <2>3, <2>4 DEF Shut, Ended
<1>. HIDE DEF st
<1>5. StreamsTyped'
  <2>1. stream' \in [Sides -> [StreamIds -> States]]
    BY <1>2, <1>3, <1>4 DEF StreamsTyped
  <2>. QED  BY <1>2, <1>3, <2>1 DEF StreamsTyped, Receiving
<1>6. Going(e)'
  <2>1. Direction(got[e], stream[e], connected[e], buffer[e], Awaited(e),
                  stream[Far(e)], frames[Far(e)], wire[Far(e)], pending[Far(e)])
    BY DEF StreamInv, Going
  <2>2. pending[Far(e)] \in Seq(Unit) /\ buffer[e] \in Seq(Unit) /\ wire[Far(e)] \in Seq(Unit)
    BY <1>3, Opposite, SeqUnits DEF StreamsTyped
  <2>3. Direction(got[e], st, connected[e], buffer[e], Awaited(e),
                  stream[Far(e)], frames[Far(e)], wire[Far(e)], pending[Far(e)])
    BY <1>4, <2>1, <2>2, DirectionKept
  <2>. QED  BY <1>2, <1>4, <2>3 DEF Going, Awaited, Receiving
<1>7. Going(Far(e))'
  <2>1. Direction(got[Far(e)], stream[Far(e)], connected[Far(e)], buffer[Far(e)], Awaited(Far(e)),
                  stream[e], frames[e], wire[e], pending[e])
    <3>1. Going(Far(e)) /\ Far(Far(e)) = e
      BY Opposite DEF StreamInv
    <3>. QED  BY <3>1 DEF Going
  <2>2. pending[e] \in Seq(Unit) /\ buffer[Far(e)] \in Seq(Unit) /\ wire[e] \in Seq(Unit)
    BY <1>3, Opposite, SeqUnits DEF StreamsTyped
  <2>3. Direction(got[Far(e)], stream[Far(e)], connected[Far(e)], buffer[Far(e)], Awaited(Far(e)),
                  st, frames[e], wire[e], pending[e])
    BY <1>4, <2>1, <2>2, DirectionKept
  <2>4. Far(Far(e)) = e
    BY Opposite
  <2>. QED  BY <1>2, <1>4, <2>3, <2>4 DEF Going, Awaited, Receiving
<1>. QED  BY <1>5, <1>6, <1>7, Opposite DEF StreamInv

LEMMA FrameKeepsStreams ==
  ASSUME StreamInv, NEW e \in Sides, NEW s \in StreamIds, NEW end \in BOOLEAN, SendFrame(e, s, end)
  PROVE  StreamInv'
<1>. DEFINE u == [id |-> s, number |-> frames[e][s] + 1, end |-> end]
            to == IF end THEN LocalEnd(stream[e][s]) ELSE stream[e][s]
            st == [stream[e] EXCEPT ![s] = to]
            fs == [frames[e] EXCEPT ![s] = @ + 1]
            ps == Append(pending[e], u)
<1>1. /\ IsOpen(stream[e][s])
      /\ UNCHANGED <<connected, wire, buffer, expects, got>>
  BY DEF SendFrame
<1>2. StreamsTyped
  BY DEF StreamInv
<1>3. /\ stream \in [Sides -> [StreamIds -> States]] /\ stream[e] \in [StreamIds -> States]
      /\ frames \in [Sides -> [StreamIds -> Nat]] /\ frames[e] \in [StreamIds -> Nat]
      /\ pending \in [Sides -> Seq(StreamFrame)] /\ pending[e] \in Seq(StreamFrame)
  BY <1>2 DEF StreamsTyped
<1>4. /\ stream' = [stream EXCEPT ![e] = st]
      /\ frames' = [frames EXCEPT ![e] = fs]
      /\ pending' = [pending EXCEPT ![e] = ps]
  BY <1>3 DEF SendFrame
<1>5. u \in StreamFrame
  BY <1>3 DEF StreamFrame
<1>6. /\ ~ Ended(stream[e][s]) /\ to \in States
      /\ Shut(to) => Shut(stream[e][s])
      /\ end => Ended(to)
  BY <1>1, <1>3 DEF IsOpen, Ended, LocalEnd, States, Shut
<1>. HIDE DEF to
<1>7. /\ st \in [StreamIds -> States]
      /\ \A r \in StreamIds : (Shut(st[r]) => Shut(stream[e][r])) /\ (Ended(stream[e][r]) => Ended(st[r]))
      /\ end => Ended(st[s])
  <2>1. st \in [StreamIds -> States] /\ \A r \in StreamIds : st[r] = IF r = s THEN to ELSE stream[e][r]
    BY <1>3, <1>6
  <2>. HIDE DEF st
  <2>. QED  BY <1>6, <2>1
<1>8. fs \in [StreamIds -> Nat] /\ ps \in Seq(StreamFrame)
  <2>1. fs \in [StreamIds -> Nat]
    BY <1>3
  <2>. HIDE DEF u
  <2>. QED  BY <1>3, <1>5, <2>1, AppendProperties
<1>9. /\ stream'[e] = st /\ stream'[Far(e)] = stream[Far(e)]
      /\ frames'[e] = fs /\ frames'[Far(e)] = frames[Far(e)]
      /\ pending'[e] = ps /\ pending'[Far(e)] = pending[Far(e)]
  <2>1. Far(e) \in Sides /\ Far(e) # e
    BY Opposite
  <2>. HIDE DEF st, fs, ps
  <2>. QED  BY <1>3, <1>4, <2>1
<1>10. StreamsTyped'
  <2>1. /\ stream' \in [Sides -> [StreamIds -> States]]
        /\ frames' \in [Sides -> [StreamIds -> Nat]]
        /\ pending' \in [Sides -> Seq(StreamFrame)]
    <3>. HIDE DEF st, fs, ps
    <3>. QED  BY <1>3, <1>4, <1>7, <1>8
  <2>. QED  BY <1>1, <1>2, <2>1 DEF StreamsTyped, Receiving
<1>11. Going(e)'
  <2>1. Direction(got[e], stream[e], connected[e], buffer[e], Awaited(e),
                  stream[Far(e)], frames[Far(e)], wire[Far(e)], pending[Far(e)])
    BY DEF StreamInv, Going
  <2>2. pending[Far(e)] \in Seq(Unit) /\ buffer[e] \in Seq(Unit) /\ wire[Far(e)] \in Seq(Unit)
    BY <1>2, Opposite, SeqUnits DEF StreamsTyped
  <2>. HIDE DEF st
  <2>3. Direction(got[e], st, connected[e], buffer[e], Awaited(e),
                  stream[Far(e)], frames[Far(e)], wire[Far(e)], pending[Far(e)])
    BY <1>7, <2>1, <2>2, DirectionKept
  <2>. QED  BY <1>1, <1>9, <2>3 DEF Going, Awaited, Receiving
<1>12. Going(Far(e))'
  <2>. DEFINE o == Far(e)
  <2>1. Far(o) = e /\ o \in Sides
    BY Opposite
  <2>2. Direction(got[o], stream[o], connected[o], buffer[o], Awaited(o),
                  stream[e], frames[e], wire[e], pending[e])
    <3>1. Going(o)
      BY <2>1 DEF StreamInv
    <3>. QED  BY <2>1, <3>1 DEF Going
  <2>. HIDE DEF o
  <2>3. buffer[o] \in Seq(Unit) /\ wire[e] \in Seq(Unit)
    BY <1>2, <2>1 DEF StreamsTyped
  <2>4. Direction(got[o], stream[o], connected[o], buffer[o], Awaited(o), st, fs, wire[e], ps)
    <3>. HIDE DEF st
    <3>. QED  BY <1>3, <1>6, <1>7, <2>2, <2>3, DirectionFrame
  <2>. HIDE DEF st, fs, ps
  <2>5. Going(o)'
    <3>1. stream'[o] = stream[o]
      BY <1>9 DEF o
    <3>. QED  BY <1>1, <1>9, <2>1, <2>4, <3>1 DEF Going, Awaited, Receiving
  <2>. QED  BY <2>5 DEF o
<1>. QED  BY <1>10, <1>11, <1>12, Opposite DEF StreamInv

LEMMA SendKeepsStreams ==
  ASSUME StreamInv, NEW e \in Sides, Send(e)
  PROVE  StreamInv'
<1>. DEFINE o == Far(e)
            u == << [length |-> Len(pending[e])] >>
            onWire == (wire[e] \o u) \o pending[e]
<1>1. /\ Len(pending[e]) \in 1 .. MaxMessage
      /\ wire' = [wire EXCEPT ![e] = onWire]
      /\ pending' = [pending EXCEPT ![e] = << >>]
      /\ UNCHANGED <<connected, stream, frames, buffer, expects, got>>
  BY DEF Send
<1>2. /\ StreamsTyped
      /\ Far(o) = e /\ o \in Sides /\ o # e
  BY Opposite DEF StreamInv
<1>3. /\ pending \in [Sides -> Seq(StreamFrame)] /\ wire \in [Sides -> Seq(Unit)]
      /\ buffer[o] \in Seq(Unit) /\ wire[e] \in Seq(Unit) /\ pending[e] \in Seq(StreamFrame)
  BY <1>2 DEF StreamsTyped
<1>. HIDE DEF o
<1>4. onWire \in Seq(Unit) /\ Direction(got[o], stream[o], connected[o], buffer[o], Awaited(o), stream[e], frames[e], onWire, << >>)
  <2>1. Direction(got[o], stream[o], connected[o], buffer[o], Awaited(o),
                  stream[e], frames[e], wire[e], pending[e])
    <3>1. Going(o)
      BY <1>2 DEF StreamInv
    <3>. QED  BY <1>2, <3>1 DEF Going
  <2>. QED  BY <1>1, <1>3, <2>1, DirectionMessage
<1>. HIDE DEF onWire
<1>5. /\ wire'[e] = onWire /\ wire'[o] = wire[o] /\ pending'[e] = << >> /\ pending'[o] = pending[o]
      /\ wire' \in [Sides -> Seq(Unit)] /\ pending' \in [Sides -> Seq(StreamFrame)]
  <2>1. << >> \in Seq(StreamFrame)
    OBVIOUS
  <2>2. wire'[e] = onWire /\ wire'[o] = wire[o] /\ wire' \in [Sides -> Seq(Unit)]
    BY <1>1, <1>2, <1>3, <1>4
  <2>3. pending'[e] = << >> /\ pending'[o] = pending[o] /\ pending' \in [Sides -> Seq(StreamFrame)]
    BY <1>1, <1>2, <1>3, <2>1
  <2>. QED  BY <2>2, <2>3
<1>6. StreamsTyped'
  BY <1>1, <1>2, <1>5 DEF StreamsTyped, Receiving
<1>7. Going(o)'
  BY <1>1, <1>2, <1>4, <1>5 DEF Going, Awaited, Receiving
<1>8. Going(e)'
  <2>1. Going(e)
    BY DEF StreamInv
  <2>. QED  BY <1>1, <1>5, <2>1, Untouched DEF o
<1>. QED  BY <1>6, <1>7, <1>8, Opposite DEF StreamInv, o

\* Receive, a timeout, the end of the stream and close: e awaits nothing, before
\* or after; what it has may go with its connection.
Idles(e, up, b, x) ==
  /\ UNCHANGED <<stream, frames, pending, wire, got>>
  /\ up \in BOOLEAN /\ b \in Seq(Unit) /\ x \in {NotReceiving} \cup Suspended
  /\ connected' = [connected EXCEPT ![e] = up]
  /\ buffer' = [buffer EXCEPT ![e] = b]
  /\ expects' = [expects EXCEPT ![e] = x]
  /\ \/ up = connected[e] /\ b = buffer[e] /\ Awaited(e) = 0
     \/ up = FALSE /\ b \in {buffer[e], << >>}
  /\ x = NotReceiving \/ (up /\ x = [at |-> "read", prefix |-> TRUE, units |-> 1])

LEMMA IdleKeepsStreams ==
  ASSUME StreamInv, NEW e \in Sides, NEW up, NEW b, NEW x, Idles(e, up, b, x)
  PROVE  StreamInv'
<1>. DEFINE o == Far(e)
<1>1. /\ StreamsTyped
      /\ Far(o) = e /\ o \in Sides /\ o # e
  BY Opposite DEF StreamInv
<1>. HIDE DEF o
<1>. USE DEF Idles
<1>2. /\ connected'[e] = up /\ connected'[o] = connected[o] /\ connected' \in [Sides -> BOOLEAN]
      /\ buffer'[e] = b /\ buffer'[o] = buffer[o] /\ buffer' \in [Sides -> Seq(Unit)]
      /\ expects'[e] = x /\ expects'[o] = expects[o] /\ expects' \in [Sides -> {NotReceiving} \cup Suspended]
  <2>1. connected'[e] = up /\ connected'[o] = connected[o] /\ connected' \in [Sides -> BOOLEAN]
    BY <1>1 DEF StreamsTyped
  <2>2. buffer'[e] = b /\ buffer'[o] = buffer[o] /\ buffer' \in [Sides -> Seq(Unit)]
    BY <1>1 DEF StreamsTyped
  <2>3. expects'[e] = x /\ expects'[o] = expects[o] /\ expects' \in [Sides -> {NotReceiving} \cup Suspended]
    BY <1>1 DEF StreamsTyped
  <2>. QED  BY <2>1, <2>2, <2>3
<1>3. Awaited(e)' = 0 /\ (Receiving(e, "read")' => connected'[e] /\ expects'[e].units = 1)
  BY <1>2 DEF Awaited, Receiving, NotReceiving
<1>4. StreamsTyped'
  <2>1. \A s \in Sides : Receiving(s, "read")' =>
          connected'[s] /\ (expects'[s].prefix => expects'[s].units = 1)
    <3>1. \A s \in Sides : s = e \/ s = o
      BY Opposite DEF o
    <3>2. Receiving(o, "read")' => connected'[o] /\ (expects'[o].prefix => expects'[o].units = 1)
      BY <1>1, <1>2 DEF StreamsTyped, Receiving
    <3>. QED  BY <1>3, <3>1, <3>2
  <2>. QED  BY <1>1, <1>2, <2>1 DEF StreamsTyped
<1>5. Going(e)'
  <2>1. Direction(got[e], stream[e], connected[e], buffer[e], Awaited(e),
                  stream[o], frames[o], wire[o], pending[o])
    BY DEF StreamInv, Going, o
  <2>2. Direction(got[e], stream[e], up, b, 0, stream[o], frames[o], wire[o], pending[o])
    <3>1. CASE up = connected[e] /\ b = buffer[e] /\ Awaited(e) = 0
      BY <2>1, <3>1
    <3>2. CASE up = FALSE /\ b \in {buffer[e], << >>}
      BY <2>1, <3>2, DirectionDown
    <3>. QED  BY <3>1, <3>2
  <2>. QED  BY <1>2, <1>3, <2>2 DEF Going, o
<1>6. Going(o)'
  <2>1. Going(o)
    BY <1>1 DEF StreamInv
  <2>. QED  BY <1>1, <1>2, <2>1, Untouched
<1>. QED  BY <1>4, <1>5, <1>6, Opposite DEF StreamInv, o

LEMMA OthersKeepStreams ==
  ASSUME StreamInv, ~ MayStall, NEW e \in Sides,
         Receive(e) \/ TimedOut(e) \/ Close(e) \/ ReadEof(e)
  PROVE  StreamInv'
<1>1. /\ connected \in [Sides -> BOOLEAN] /\ buffer \in [Sides -> Seq(Unit)]
      /\ connected[e] \in BOOLEAN /\ buffer[e] \in Seq(Unit) /\ << >> \in Seq(Unit)
      /\ NotReceiving \in {NotReceiving} \cup Suspended
      /\ [at |-> "read", prefix |-> TRUE, units |-> 1] \in {NotReceiving} \cup Suspended
  BY DEF StreamInv, StreamsTyped, Suspended
<1>2. /\ connected = [connected EXCEPT ![e] = connected[e]]
      /\ buffer = [buffer EXCEPT ![e] = buffer[e]]
  BY <1>1
<1>3. CASE Receive(e)
  <2>1. Awaited(e) = 0
    BY <1>3 DEF Receive, Receiving, Awaited
  <2>2. /\ UNCHANGED <<stream, frames, pending, wire, got>>
        /\ connected' = [connected EXCEPT ![e] = connected[e]]
        /\ buffer' = [buffer EXCEPT ![e] = buffer[e]]
        /\ expects' = [expects EXCEPT ![e] = [at |-> "read", prefix |-> TRUE, units |-> 1]]
        /\ connected[e]
    BY <1>2, <1>3 DEF Receive
  <2>3. Idles(e, connected[e], buffer[e], [at |-> "read", prefix |-> TRUE, units |-> 1])
    BY <1>1, <2>1, <2>2 DEF Idles
  <2>. QED  BY <2>3, IdleKeepsStreams
<1>4. CASE TimedOut(e)
  <2>1. Awaited(e) = 0
    BY <1>4 DEF TimedOut, Awaited
  <2>2. /\ UNCHANGED <<stream, frames, pending, wire, got>>
        /\ connected' = [connected EXCEPT ![e] = connected[e]]
        /\ buffer' = [buffer EXCEPT ![e] = buffer[e]]
        /\ expects' = [expects EXCEPT ![e] = NotReceiving]
    BY <1>2, <1>4 DEF TimedOut
  <2>3. Idles(e, connected[e], buffer[e], NotReceiving)
    BY <1>1, <2>1, <2>2 DEF Idles
  <2>. QED  BY <2>3, IdleKeepsStreams
<1>5. CASE Close(e)
  <2>1. /\ UNCHANGED <<stream, frames, pending, wire, got>>
        /\ connected' = [connected EXCEPT ![e] = FALSE]
        /\ buffer' = [buffer EXCEPT ![e] = << >>]
        /\ expects' = [expects EXCEPT ![e] = NotReceiving]
    BY <1>5 DEF Close
  <2>2. Idles(e, FALSE, << >>, NotReceiving)
    BY <1>1, <2>1 DEF Idles
  <2>. QED  BY <2>2, IdleKeepsStreams
<1>6. CASE ReadEof(e)
  <2>1. /\ UNCHANGED <<stream, frames, pending, wire, got>>
        /\ connected' = [connected EXCEPT ![e] = FALSE]
        /\ buffer' = [buffer EXCEPT ![e] = buffer[e]]
        /\ expects' = [expects EXCEPT ![e] = NotReceiving]
    BY <1>2, <1>6 DEF ReadEof
  <2>2. Idles(e, FALSE, buffer[e], NotReceiving)
    BY <1>1, <2>1 DEF Idles
  <2>. QED  BY <2>2, IdleKeepsStreams
<1>. QED  BY <1>3, <1>4, <1>5, <1>6

\* A receive goes on while its end is connected.
LEMMA ReceivingEnd ==
  ASSUME StreamsTyped, NEW e \in Sides, Receiving(e, "read")
  PROVE  /\ connected[e] = TRUE
         /\ expects[e] \in Suspended
         /\ expects[e].units \in Nat \ {0} /\ expects[e].prefix \in BOOLEAN
         /\ expects[e].prefix => expects[e].units = 1 /\ Awaited(e) = 0
         /\ ~ expects[e].prefix => Awaited(e) = expects[e].units
<1>1. connected[e] \in BOOLEAN /\ expects[e] \in {NotReceiving} \cup Suspended
  BY DEF StreamsTyped
<1>2. connected[e] /\ (expects[e].prefix => expects[e].units = 1)
  BY DEF StreamsTyped
<1>3. expects[e] # NotReceiving
  BY DEF Receiving, NotReceiving
<1>4. expects[e] \in Suspended
  BY <1>1, <1>3
<1>5. expects[e].units \in Nat \ {0} /\ expects[e].prefix \in BOOLEAN
  BY <1>4 DEF Suspended
<1>6. (expects[e].prefix => Awaited(e) = 0) /\ (~ expects[e].prefix => Awaited(e) = expects[e].units)
  BY DEF Awaited
<1>. QED  BY <1>1, <1>2, <1>4, <1>5, <1>6

LEMMA ChunkKeepsStreams ==
  ASSUME StreamInv, NEW e \in Sides, NEW n, ReadChunk(e, n)
  PROVE  StreamInv'
<1>. DEFINE o == Far(e)
            bs == buffer[e] \o SubSeq(wire[o], 1, n)
            onWire == SubSeq(wire[o], n + 1, Len(wire[o]))
<1>1. /\ Receiving(e, "read") /\ n \in 1 .. Len(wire[o])
      /\ buffer' = [buffer EXCEPT ![e] = bs]
      /\ UNCHANGED <<connected, stream, frames, pending, expects, got>>
  BY DEF ReadChunk
<1>2. /\ StreamsTyped
      /\ Far(o) = e /\ o \in Sides /\ o # e
  BY Opposite DEF StreamInv
<1>3. /\ buffer \in [Sides -> Seq(Unit)] /\ wire \in [Sides -> Seq(Unit)]
      /\ buffer[e] \in Seq(Unit) /\ wire[o] \in Seq(Unit) /\ pending[o] \in Seq(StreamFrame)
  BY <1>2 DEF StreamsTyped
<1>4. wire' = [wire EXCEPT ![o] = onWire]
  BY <1>2, <1>3 DEF ReadChunk
<1>5. connected[e] = TRUE
  BY <1>1, <1>2, ReceivingEnd
<1>. HIDE DEF o
<1>6. /\ bs \in Seq(Unit) /\ onWire \in Seq(Unit)
      /\ Direction(got[e], stream[e], TRUE, bs, Awaited(e), stream[o], frames[o], onWire, pending[o])
  <2>1. Direction(got[e], stream[e], TRUE, buffer[e], Awaited(e),
                  stream[o], frames[o], wire[o], pending[o])
    BY <1>5 DEF StreamInv, Going, o
  <2>. QED  BY <1>1, <1>3, <2>1, DirectionChunk
<1>. HIDE DEF bs, onWire
<1>7. /\ wire'[o] = onWire /\ wire'[e] = wire[e] /\ buffer'[e] = bs /\ buffer'[o] = buffer[o]
      /\ wire' \in [Sides -> Seq(Unit)] /\ buffer' \in [Sides -> Seq(Unit)]
  <2>1. wire'[o] = onWire /\ wire'[e] = wire[e] /\ wire' \in [Sides -> Seq(Unit)]
    BY <1>2, <1>3, <1>4, <1>6
  <2>2. buffer'[e] = bs /\ buffer'[o] = buffer[o] /\ buffer' \in [Sides -> Seq(Unit)]
    BY <1>1, <1>2, <1>3, <1>6
  <2>. QED  BY <2>1, <2>2
<1>8. StreamsTyped'
  BY <1>1, <1>2, <1>7 DEF StreamsTyped, Receiving
<1>9. Going(e)'
  BY <1>1, <1>5, <1>6, <1>7 DEF Going, Awaited, Receiving, o
<1>10. Going(o)'
  <2>1. Going(o)
    BY <1>2 DEF StreamInv
  <2>. QED  BY <1>1, <1>2, <1>7, <2>1, Untouched
<1>. QED  BY <1>8, <1>9, <1>10, Opposite DEF StreamInv, o

LEMMA PrefixKeepsStreams ==
  ASSUME StreamInv, NEW e \in Sides, ReadPrefix(e)
  PROVE  StreamInv'
<1>. DEFINE o == Far(e)
            n == Head(buffer[e]).length
            bs == Tail(buffer[e])
<1>1. /\ Receiving(e, "read") /\ expects[e].prefix /\ ~ Short(e)
      /\ buffer' = [buffer EXCEPT ![e] = bs]
      /\ UNCHANGED <<connected, stream, frames, pending, wire, got>>
  BY DEF ReadPrefix
<1>2. /\ StreamsTyped
      /\ Far(o) = e /\ o \in Sides /\ o # e
  BY Opposite DEF StreamInv
<1>3. /\ buffer \in [Sides -> Seq(Unit)] /\ expects \in [Sides -> {NotReceiving} \cup Suspended]
      /\ buffer[e] \in Seq(Unit) /\ wire[o] \in Seq(Unit) /\ pending[o] \in Seq(StreamFrame)
  BY <1>2 DEF StreamsTyped
<1>4. connected[e] = TRUE /\ expects[e].units = 1 /\ Awaited(e) = 0
  BY <1>1, <1>2, ReceivingEnd
<1>5. buffer[e] # << >>
  BY <1>1, <1>4 DEF Short
<1>. HIDE DEF o
<1>6. /\ Head(buffer[e]) \in Prefix /\ bs \in Seq(Unit)
      /\ Direction(got[e], stream[e], TRUE, bs, n, stream[o], frames[o], wire[o], pending[o])
  <2>1. Direction(got[e], stream[e], TRUE, buffer[e], 0,
                  stream[o], frames[o], wire[o], pending[o])
    BY <1>4 DEF StreamInv, Going, o
  <2>. QED  BY <1>3, <1>5, <2>1, DirectionPrefix
<1>7. n \in Nat \ {0} /\ expects' = [expects EXCEPT ![e] = [at |-> "read", prefix |-> FALSE, units |-> n]]
  <2>1. Lengths(Head(buffer[e])) = {n} /\ n \in Nat \ {0}
    BY <1>6, PrefixIsNoFrame, TransportAssumption DEF Lengths, Prefix
  <2>. QED  BY <2>1 DEF ReadPrefix
<1>. HIDE DEF bs, n
<1>8. /\ buffer'[e] = bs /\ buffer'[o] = buffer[o] /\ buffer' \in [Sides -> Seq(Unit)]
      /\ expects'[e] = [at |-> "read", prefix |-> FALSE, units |-> n] /\ expects'[o] = expects[o]
      /\ expects' \in [Sides -> {NotReceiving} \cup Suspended]
  <2>1. [at |-> "read", prefix |-> FALSE, units |-> n] \in Suspended
    BY <1>7 DEF Suspended
  <2>2. buffer'[e] = bs /\ buffer'[o] = buffer[o] /\ buffer' \in [Sides -> Seq(Unit)]
    BY <1>1, <1>2, <1>3, <1>6
  <2>3. /\ expects'[e] = [at |-> "read", prefix |-> FALSE, units |-> n] /\ expects'[o] = expects[o]
        /\ expects' \in [Sides -> {NotReceiving} \cup Suspended]
    BY <1>2, <1>3, <1>7, <2>1
  <2>. QED  BY <2>2, <2>3
<1>9. StreamsTyped'
  <2>1. \A s \in Sides : Receiving(s, "read")' =>
          connected'[s] /\ (expects'[s].prefix => expects'[s].units = 1)
    <3>1. \A s \in Sides : s = e \/ s = o
      BY Opposite DEF o
    <3>2. Receiving(o, "read")' => connected'[o] /\ (expects'[o].prefix => expects'[o].units = 1)
      BY <1>1, <1>2, <1>8 DEF StreamsTyped, Receiving
    <3>3. connected'[e] /\ ~ expects'[e].prefix
      BY <1>1, <1>4, <1>8
    <3>. QED  BY <3>1, <3>2, <3>3
  <2>. QED  BY <1>1, <1>2, <1>8, <2>1 DEF StreamsTyped
<1>10. Going(e)'
  <2>1. Awaited(e)' = n
    BY <1>8 DEF Awaited, Receiving
  <2>. QED  BY <1>1, <1>4, <1>6, <1>8, <2>1 DEF Going, o
<1>11. Going(o)'
  <2>1. Going(o)
    BY <1>2 DEF StreamInv
  <2>. QED  BY <1>1, <1>2, <1>8, <2>1, Untouched
<1>. QED  BY <1>9, <1>10, <1>11, Opposite DEF StreamInv, o

LEMMA PayloadKeepsStreams ==
  ASSUME StreamInv, NEW e \in Sides, ReadPayload(e)
  PROVE  StreamInv'
<1>. DEFINE o == Far(e)
            k == expects[e].units
            bs == SubSeq(buffer[e], k + 1, Len(buffer[e]))
            st == ProcessReceivedData(e, SubSeq(buffer[e], 1, k)).stream
            rs == ProcessReceivedData(e, SubSeq(buffer[e], 1, k)).results
<1>1. /\ Receiving(e, "read") /\ ~ expects[e].prefix /\ ~ Short(e)
      /\ buffer' = [buffer EXCEPT ![e] = bs]
      /\ stream' = [stream EXCEPT ![e] = st]
      /\ got' = [got EXCEPT ![e] = rs]
      /\ expects' = [expects EXCEPT ![e] = NotReceiving]
      /\ UNCHANGED <<connected, frames, pending, wire>>
  BY DEF ReadPayload, Rest
<1>2. /\ StreamsTyped
      /\ Far(o) = e /\ o \in Sides /\ o # e
  BY Opposite DEF StreamInv
<1>3. /\ buffer \in [Sides -> Seq(Unit)] /\ expects \in [Sides -> {NotReceiving} \cup Suspended]
      /\ stream \in [Sides -> [StreamIds -> States]] /\ got \in [Sides -> Seq(StreamFrame)]
      /\ stream[e] \in [StreamIds -> States] /\ got[e] \in Seq(StreamFrame)
      /\ buffer[e] \in Seq(Unit) /\ wire[o] \in Seq(Unit) /\ pending[o] \in Seq(StreamFrame)
      /\ frames[o] \in [StreamIds -> Nat]
  BY <1>2 DEF StreamsTyped
<1>4. connected[e] = TRUE /\ k \in Nat \ {0} /\ Awaited(e) = k
  BY <1>1, <1>2, ReceivingEnd
<1>5. k \in 0 .. Len(buffer[e])
  BY <1>1, <1>3, <1>4 DEF Short
<1>. HIDE DEF o
<1>6. Delivers(stream[e], st, rs, buffer[e], k, stream[o], frames[o], wire[o], pending[o])
  <2>1. Direction(got[e], stream[e], TRUE, buffer[e], k,
                  stream[o], frames[o], wire[o], pending[o])
    BY <1>4 DEF StreamInv, Going, o
  <2>. HIDE DEF k
  <2>. QED  BY <1>3, <1>5, <2>1, DirectionPayload
<1>. HIDE DEF st, rs
<1>7. /\ st \in [StreamIds -> States] /\ rs \in Seq(StreamFrame) /\ bs \in Seq(Unit)
      /\ Direction(rs, st, TRUE, bs, 0, stream[o], frames[o], wire[o], pending[o])
      /\ \A s \in StreamIds : Ended(stream[e][s]) => Ended(st[s])
  BY <1>6 DEF Delivers
<1>. HIDE DEF bs, k
<1>8. /\ buffer'[e] = bs /\ buffer'[o] = buffer[o] /\ buffer' \in [Sides -> Seq(Unit)]
      /\ expects'[e] = NotReceiving /\ expects'[o] = expects[o]
      /\ expects' \in [Sides -> {NotReceiving} \cup Suspended]
      /\ stream'[e] = st /\ stream'[o] = stream[o] /\ stream' \in [Sides -> [StreamIds -> States]]
      /\ got'[e] = rs /\ got'[o] = got[o] /\ got' \in [Sides -> Seq(StreamFrame)]
  <2>1. buffer'[e] = bs /\ buffer'[o] = buffer[o] /\ buffer' \in [Sides -> Seq(Unit)]
    BY <1>1, <1>2, <1>3, <1>7
  <2>2. /\ expects'[e] = NotReceiving /\ expects'[o] = expects[o]
        /\ expects' \in [Sides -> {NotReceiving} \cup Suspended]
    BY <1>1, <1>2, <1>3
  <2>3. stream'[e] = st /\ stream'[o] = stream[o] /\ stream' \in [Sides -> [StreamIds -> States]]
    BY <1>1, <1>2, <1>3, <1>7
  <2>4. got'[e] = rs /\ got'[o] = got[o] /\ got' \in [Sides -> Seq(StreamFrame)]
    BY <1>1, <1>2, <1>3, <1>7
  <2>. QED  BY <2>1, <2>2, <2>3, <2>4
<1>9. ~ Receiving(e, "read")'
  BY <1>8 DEF Receiving, NotReceiving
<1>10. StreamsTyped'
  <2>1. \A s \in Sides : Receiving(s, "read")' =>
          connected'[s] /\ (expects'[s].prefix => expects'[s].units = 1)
    <3>1. \A s \in Sides : s = e \/ s = o
      BY Opposite DEF o
    <3>2. Receiving(o, "read")' => connected'[o] /\ (expects'[o].prefix => expects'[o].units = 1)
      BY <1>1, <1>2, <1>8 DEF StreamsTyped, Receiving
    <3>. QED  BY <1>9, <3>1, <3>2
  <2>. QED  BY <1>1, <1>2, <1>8, <2>1 DEF StreamsTyped
<1>11. Going(e)'
  <2>1. Awaited(e)' = 0
    BY <1>9 DEF Awaited
  <2>. QED  BY <1>1, <1>4, <1>7, <1>8, <2>1 DEF Going, o
<1>12. Going(o)'
  <2>1. Direction(got[o], stream[o], connected[o], buffer[o], Awaited(o), stream[e], frames[e], wire[e], pending[e])
    <3>1. Going(o)
      BY <1>2 DEF StreamInv
    <3>. QED  BY <1>2, <3>1 DEF Going
  <2>2. pending[e] \in Seq(Unit) /\ buffer[o] \in Seq(Unit) /\ wire[e] \in Seq(Unit)
    BY <1>2, SeqUnits DEF StreamsTyped
  <2>3. Direction(got[o], stream[o], connected[o], buffer[o], Awaited(o), st, frames[e], wire[e], pending[e])
    BY <1>7, <2>1, <2>2, DirectionKept
  <2>4. Awaited(o)' = Awaited(o)
    BY <1>8 DEF Awaited, Receiving
  <2>. QED  BY <1>1, <1>2, <1>8, <2>3, <2>4 DEF Going
<1>. QED  BY <1>10, <1>11, <1>12, Opposite DEF StreamInv, o

-------------------------------------------------------------------------------
(* The order of the streams.                                                  *)

\* As many frames of a stream as their last number says.
LEMMA CarriesCount ==
  ASSUME NEW q \in Seq(StreamFrame), NEW s, NEW a, Carries(q, s, 0, a)
  PROVE  Cardinality({i \in 1 .. Len(q) : q[i].id = s}) = a
<1>. DEFINE T == {i \in 1 .. Len(q) : q[i].id = s}
            h == [n \in 1 .. a |-> CHOOSE i \in T : q[i].number = n]
<1>1. /\ a \in Nat /\ Len(q) \in Nat
      /\ \A i \in 1 .. Len(q) : On(q[i], s) <=> i \in T
  BY DEF Carries, On
<1>2. /\ \A i \in T : q[i].number \in 1 .. a /\ i \in Nat
      /\ \A i, j \in T : i < j => q[i].number < q[j].number
      /\ \A n \in 1 .. a : \E i \in T : q[i].number = n
  <2>1. \A i \in T : q[i].number \in 1 .. a /\ i \in Nat
    BY <1>1 DEF Carries
  <2>2. \A i, j \in T : i < j => q[i].number < q[j].number
    BY <1>1 DEF Carries
  <2>3. \A n \in 1 .. a : \E i \in T : q[i].number = n
    BY <1>1 DEF Carries
  <2>. QED  BY <2>1, <2>2, <2>3
<1>. HIDE DEF T
<1>3. \A n \in 1 .. a : h[n] \in T /\ q[h[n]].number = n
  BY <1>2
<1>4. h \in [1 .. a -> T]
  BY <1>3
<1>. HIDE DEF h
<1>5. \A m, n \in 1 .. a : h[m] = h[n] => m = n
  BY <1>3
<1>6. ASSUME NEW t \in T PROVE \E n \in 1 .. a : h[n] = t
  <2>. DEFINE n == q[t].number
  <2>1. n \in 1 .. a
    BY <1>2
  <2>2. h[n] \in T /\ q[h[n]].number = n
    BY <1>3, <2>1
  <2>3. ~ (h[n] < t) /\ ~ (t < h[n]) /\ h[n] \in Nat /\ t \in Nat
    BY <1>2, <2>1, <2>2
  <2>. QED  BY <2>1, <2>3
<1>7. ExistsBijection(1 .. a, T)
  BY <1>4, <1>5, <1>6 DEF ExistsBijection, Bijection, Injection, Surjection, IsInjective
<1>8. Cardinality(T) = a
  BY <1>1, <1>7, FS_CountingElements
<1>. QED  BY <1>8 DEF T

\* The i-th frame has the number of the frames of its stream so far.
LEMMA NumberIsCount ==
  ASSUME NEW q \in Seq(StreamFrame), NEW i \in 1 .. Len(q), NEW a, Carries(q, q[i].id, 0, a)
  PROVE  q[i].number = Cardinality({j \in 1 .. i : q[j].id = q[i].id})
<1>. DEFINE s == q[i].id
            x == SubSeq(q, 1, i)
<1>1. /\ i \in Nat /\ i >= 1 /\ i =< Len(q) /\ Len(q) \in Nat
      /\ x \in Seq(StreamFrame) /\ Len(x) = i /\ \A j \in 1 .. i : x[j] = q[j] /\ x[j] \in StreamFrame
      /\ q \in Seq(Unit)
  <2>1. i \in Nat /\ i >= 1 /\ i =< Len(q) /\ Len(q) \in Nat
    OBVIOUS
  <2>2. x \in Seq(StreamFrame) /\ Len(x) = i /\ \A j \in 1 .. i : x[j] = q[j]
    BY <2>1
  <2>. HIDE DEF x
  <2>3. \A j \in 1 .. i : x[j] \in StreamFrame
    BY <2>2
  <2>. QED  BY <2>1, <2>2, <2>3, SeqUnits
<1>2. PICK b : Carries(x, s, 0, b)
  <2>1. i \in 0 .. Len(q)
    BY <1>1
  <2>. HIDE DEF s
  <2>2. Carries(q, s, 0, a)
    BY DEF s
  <2>. QED  BY <1>1, <2>1, <2>2, CarriesSplit
<1>3. Cardinality({j \in 1 .. i : x[j].id = s}) = b
  <2>. HIDE DEF x, s
  <2>1. Cardinality({j \in 1 .. Len(x) : x[j].id = s}) = b
    BY <1>1, <1>2, CarriesCount
  <2>. QED  BY <1>1, <2>1
<1>4. {j \in 1 .. i : x[j].id = s} = {j \in 1 .. i : q[j].id = s}
  <2>. HIDE DEF x, s
  <2>. QED  BY <1>1
<1>5. i \in 1 .. Len(x) /\ On(x[i], s)
  <2>1. x[i] \in StreamFrame /\ x[i] = q[i] /\ i \in 1 .. Len(x)
    BY <1>1
  <2>. QED  BY <2>1 DEF On
<1>. HIDE DEF x, s
<1>6. b \in Nat /\ x[i].number \in 1 .. b
  BY <1>2, <1>5 DEF Carries
<1>7. PICK l \in 1 .. Len(x) : On(x[l], s) /\ x[l].number = b
  BY <1>2, <1>6 DEF Carries
<1>8. l = i
  <2>1. l < i => x[l].number < x[i].number
    BY <1>2, <1>5, <1>7 DEF Carries
  <2>2. ~ (l < i)
    BY <1>6, <1>7, <2>1
  <2>. QED  BY <1>1, <2>2
<1>9. q[i].number = b
  BY <1>1, <1>7, <1>8
<1>10. Cardinality({j \in 1 .. i : q[j].id = s}) = b
  BY <1>3, <1>4
<1>. QED  BY <1>9, <1>10 DEF s

LEMMA StreamInvOrders == StreamInv => StreamsInOrder
<1>1. SUFFICES ASSUME StreamInv, NEW e \in Sides
               PROVE  /\ \A i \in DOMAIN got[e] : got[e][i].number = OnStreamSoFar(e, i)
                      /\ \A s \in StreamIds :
                           /\ Drained(e) => Delivered(e, s) = frames[Far(e)][s]
                           /\ stream[e][s] \in {"half_closed_remote", "closed"} =>
                                /\ stream[Far(e)][s] \in {"half_closed_local", "closed"}
                                /\ Delivered(e, s) = frames[Far(e)][s]
  BY DEF StreamsInOrder
<1>2. /\ got[e] \in Seq(StreamFrame) /\ DOMAIN got[e] = 1 .. Len(got[e])
      /\ \A i \in DOMAIN got[e] : got[e][i] \in StreamFrame /\ got[e][i].id \in StreamIds
  <2>1. got[e] \in Seq(StreamFrame)
    BY <1>1 DEF StreamInv, StreamsTyped
  <2>2. DOMAIN got[e] = 1 .. Len(got[e]) /\ \A i \in DOMAIN got[e] : got[e][i] \in StreamFrame
    BY <2>1
  <2>. QED  BY <2>1, <2>2 DEF StreamFrame
<1>3. ASSUME NEW s \in StreamIds
      PROVE  /\ OnWay(got[e], stream[e], connected[e], buffer[e], frames[Far(e)], wire[Far(e)], pending[Far(e)], s)
             /\ Shut(stream[e][s]) => Ended(stream[Far(e)][s])
  BY <1>1 DEF StreamInv, Going, Direction
<1>4. ASSUME NEW i \in DOMAIN got[e] PROVE got[e][i].number = OnStreamSoFar(e, i)
  <2>1. PICK m : Carries(got[e], got[e][i].id, 0, m)
    BY <1>2, <1>3 DEF OnWay
  <2>2. got[e][i].number = Cardinality({j \in 1 .. i : got[e][j].id = got[e][i].id})
    BY <1>2, <2>1, NumberIsCount
  <2>. QED  BY <2>2 DEF OnStreamSoFar
<1>5. ASSUME NEW s \in StreamIds
      PROVE  /\ Drained(e) => Delivered(e, s) = frames[Far(e)][s]
             /\ Shut(stream[e][s]) => Ended(stream[Far(e)][s]) /\ Delivered(e, s) = frames[Far(e)][s]
  <2>1. PICK m : /\ Carries(got[e], s, 0, m)
                 /\ Shut(stream[e][s]) => m = frames[Far(e)][s]
                 /\ connected[e] => \E n, o : /\ Carries(buffer[e], s, m, n)
                                              /\ Carries(wire[Far(e)], s, n, o)
                                              /\ Carries(pending[Far(e)], s, o, frames[Far(e)][s])
    BY <1>3 DEF OnWay
  <2>2. Delivered(e, s) = m
    BY <1>2, <2>1, CarriesCount DEF Delivered
  <2>3. ASSUME Drained(e) PROVE m = frames[Far(e)][s]
    <3>1. PICK n, o : /\ Carries(<< >>, s, m, n)
                      /\ Carries(<< >>, s, n, o)
                      /\ Carries(<< >>, s, o, frames[Far(e)][s])
      BY <2>1, <2>3 DEF Drained
    <3>2. << >> \in Seq(Unit) /\ \A i \in 1 .. Len(<< >>) : ~ On(<< >>[i], s)
      OBVIOUS
    <3>3. n = m /\ o = n /\ frames[Far(e)][s] = o
      BY <3>1, <3>2, CarriesNothing
    <3>. QED  BY <3>3
  <2>. QED  BY <1>3, <2>1, <2>2, <2>3
<1>. QED  BY <1>4, <1>5 DEF Shut, Ended

\* StreamsInOrder, as long as no message stops halfway: frames of any number of
\* streams, in messages of any length, cut anywhere by the network.
THEOREM StreamsStayInOrder ==
  ASSUME ~ MayStall
  PROVE  TSpec => []StreamsInOrder
<1>1. StreamInv /\ [TNext]_tvars => StreamInv'
  <2>1. SUFFICES ASSUME StreamInv, [TNext]_tvars PROVE StreamInv'
    OBVIOUS
  <2>2. CASE UNCHANGED tvars
    <3>1. UNCHANGED <<connected, stream, frames, pending, wire, buffer, expects, got>>
      BY <2>2 DEF tvars
    <3>2. StreamsTyped'
      BY <2>1, <3>1 DEF StreamInv, StreamsTyped, Receiving
    <3>3. ASSUME NEW e \in Sides PROVE Going(e)'
      <4>1. Going(e)
        BY <2>1 DEF StreamInv
      <4>. QED  BY <3>1, <4>1, Untouched
    <3>. QED  BY <3>2, <3>3 DEF StreamInv
  <2>3. ASSUME NEW e \in Sides, OpenStream(e) PROVE StreamInv'
    BY <2>1, <2>3, OpenKeepsStreams
  <2>4. ASSUME NEW e \in Sides, NEW s \in StreamIds, NEW end \in BOOLEAN, SendFrame(e, s, end)
        PROVE  StreamInv'
    BY <2>1, <2>4, FrameKeepsStreams
  <2>5. ASSUME NEW e \in Sides, Send(e) PROVE StreamInv'
    BY <2>1, <2>5, SendKeepsStreams
  <2>6. ASSUME NEW e \in Sides, Receive(e) \/ TimedOut(e) \/ Close(e) \/ ReadEof(e) PROVE StreamInv'
    BY <2>1, <2>6, OthersKeepStreams
  <2>7. ASSUME NEW e \in Sides, NEW n, ReadChunk(e, n) PROVE StreamInv'
    BY <2>1, <2>7, ChunkKeepsStreams
  <2>8. ASSUME NEW e \in Sides, ReadPrefix(e) PROVE StreamInv'
    BY <2>1, <2>8, PrefixKeepsStreams
  <2>9. ASSUME NEW e \in Sides, ReadPayload(e) PROVE StreamInv'
    BY <2>1, <2>9, PayloadKeepsStreams
  <2>10. CASE TNext
    BY <2>3, <2>4, <2>5, <2>6, <2>7, <2>8, <2>9, <2>10 DEF TNext
  <2>. QED  BY <2>1, <2>2, <2>10
<1>. QED  BY <1>1, StreamsStart, StreamInvOrders, PTL DEF TSpec

-------------------------------------------------------------------------------
(* What a client and a registry hold of agents.                               *)

Dids == {Me, Peer} \cup {o.did : o \in Offers}
Endpoints == [did : Dids, where : {o.where : o \in Offers}, caps : {o.caps : o \in Offers},
              trust : Int, by : {"announce", "mdns", "registry"}]
Heard == {ep \in Endpoints : ep.by = "mdns"}
Local == Heard \cup {ep \in Endpoints : ep.by = "announce" /\ ep.did = Me}
OncePerDid(q) == \A i, j \in 1 .. Len(q) : q[i].did = q[j].did => i = j
Some(ep, q) == \E j \in 1 .. Len(q) : ep = q[j]

\* The registry has signed entries under the names in them.
RegistryInv ==
  /\ now \in Nat
  /\ authored \subseteq [offer : Offers, at : Nat]
  /\ IsFiniteSet(DOMAIN registry)
  /\ \A did \in DOMAIN registry : registry[did] \in authored /\ registry[did].offer.did = did

\* What a client knows by its own announcement it still advertises.
KnownInv ==
  /\ queue \in Seq(Heard)
  /\ known \in Seq(Local)
  /\ OncePerDid(known)
  /\ \A i \in 1 .. Len(known) : known[i].by = "announce" => Me \in DOMAIN ads

FoundInv ==
  /\ found.at \in Nat /\ found.at =< now
  /\ found.results \in Seq(Endpoints)
  /\ OncePerDid(found.results)
  /\ FoundIsCurrent

DiscoveryInv == RegistryInv /\ KnownInv /\ FoundInv

-------------------------------------------------------------------------------
(* Recursion along the lists of a query.                                      *)

\* What is left of a list.
LEMMA OnlyThose ==
  ASSUME NEW V, NEW q \in Seq(V), NEW wanted
  PROVE  /\ Only(q, wanted) \in Seq(V)
         /\ \A i \in 1 .. Len(Only(q, wanted)) : Only(q, wanted)[i] \in wanted /\ Some(Only(q, wanted)[i], q)
         /\ OncePerDid(q) => OncePerDid(Only(q, wanted))
<1>. DEFINE n == Len(q)
            F(g) == [i \in 0 .. n |-> IF i = 0 THEN << >>
                                      ELSE IF q[i] \in wanted THEN Append(g[i - 1], q[i]) ELSE g[i - 1]]
            t == CHOOSE g : g = F(g)
<1>1. n \in Nat /\ \A i \in 1 .. n : q[i] \in V
  OBVIOUS
<1>2. Only(q, wanted) = t[n]
  BY DEF Only
<1>3. \E g : g = F(g)
  <2>. DEFINE f == [p \in Seq(V) \X (1 .. n) |-> IF q[p[2]] \in wanted THEN Append(p[1], q[p[2]]) ELSE p[1]]
  <2>1. f \in [Seq(V) \X (1 .. n) -> Seq(V)]
    <3>1. ASSUME NEW p \in Seq(V) \X (1 .. n)
          PROVE  (IF q[p[2]] \in wanted THEN Append(p[1], q[p[2]]) ELSE p[1]) \in Seq(V)
      <4>1. p[1] \in Seq(V) /\ q[p[2]] \in V
        BY <1>1
      <4>. QED  BY <4>1
    <3>. QED  BY <3>1
  <2>2. << >> \in Seq(V)
    OBVIOUS
  <2>3. PICK g \in [0 .. n -> Seq(V)] : Goes(g, << >>, f, n)
    <3>. HIDE DEF f, n
    <3>. QED  BY <1>1, <2>1, <2>2, TableGoesOn
  <2>4. \A i \in 0 .. n : i # 0 => i - 1 \in 0 .. n /\ i \in 1 .. n
    BY <1>1
  <2>5. \A i \in 0 .. n : i # 0 =>
          f[<<g[i - 1], i>>] = IF q[i] \in wanted THEN Append(g[i - 1], q[i]) ELSE g[i - 1]
    BY <2>4
  <2>. HIDE DEF f, n
  <2>6. g = F(g)
    BY <2>3, <2>5 DEF Goes
  <2>. QED  BY <2>6
<1>4. t = F(t)
  <2>. HIDE DEF F
  <2>. QED  BY <1>3, Zenon
<1>. HIDE DEF t
<1>5. t[0] = << >> /\ \A i \in 1 .. n : t[i] = IF q[i] \in wanted THEN Append(t[i - 1], q[i]) ELSE t[i - 1]
  <2>. DEFINE u == F(t)
  <2>1. u[0] = << >> /\ \A i \in 1 .. n : u[i] = IF q[i] \in wanted THEN Append(t[i - 1], q[i]) ELSE t[i - 1]
    BY <1>1
  <2>2. t = u
    BY <1>4
  <2>. HIDE DEF u
  <2>. QED  BY <2>1, <2>2
<1>. DEFINE Left(r, k) ==
              /\ r \in Seq(V)
              /\ \A i \in 1 .. Len(r) : r[i] \in wanted /\ \E j \in 1 .. k : r[i] = q[j]
              /\ OncePerDid(q) => OncePerDid(r)
            T == {k \in 0 .. n : Left(t[k], k)}
<1>6. 0 \in T
  <2>1. Left(<< >>, 0)
    BY DEF OncePerDid
  <2>2. t[0] = << >>
    BY <1>5
  <2>3. 0 \in 0 .. n
    BY <1>1
  <2>. HIDE DEF Left
  <2>. QED  BY <2>1, <2>2, <2>3
<1>7. ASSUME NEW k \in 1 .. n, k - 1 \in T
      PROVE  k \in T
  <2>0. Left(t[k - 1], k - 1) /\ q[k] \in V /\ k \in 0 .. n /\ k - 1 \in Nat
    BY <1>1, <1>7
  <2>1. CASE q[k] \notin wanted
    <3>1. t[k] = t[k - 1]
      BY <1>5, <2>1
    <3>2. \A j \in 1 .. (k - 1) : j \in 1 .. k
      BY <2>0
    <3>. QED  BY <2>0, <3>1, <3>2
  <2>2. CASE q[k] \in wanted
    <3>. DEFINE r == t[k - 1]
                s == Append(r, q[k])
    <3>1. t[k] = s /\ r \in Seq(V)
      BY <1>5, <2>0, <2>2
    <3>. HIDE DEF r
    <3>2. /\ Len(r) \in Nat /\ s \in Seq(V) /\ Len(s) = Len(r) + 1 /\ s[Len(r) + 1] = q[k]
          /\ \A i \in 1 .. Len(r) : s[i] = r[i]
          /\ \A i \in 1 .. Len(s) : i = Len(r) + 1 \/ i \in 1 .. Len(r)
      BY <2>0, <3>1
    <3>. HIDE DEF s
    <3>3. \A i \in 1 .. Len(r) : r[i] \in wanted /\ \E j \in 1 .. (k - 1) : r[i] = q[j]
      BY <2>0 DEF r
    <3>4. \A j \in 1 .. (k - 1) : j \in 1 .. k /\ j \in 1 .. n /\ j # k
      BY <1>1, <2>0
    <3>5. \A i \in 1 .. Len(s) : s[i] \in wanted /\ \E j \in 1 .. k : s[i] = q[j]
      <4>. SUFFICES ASSUME NEW i \in 1 .. Len(s) PROVE s[i] \in wanted /\ \E j \in 1 .. k : s[i] = q[j]
        OBVIOUS
      <4>1. CASE i = Len(r) + 1
        <5>1. k \in 1 .. k
          BY <2>0
        <5>. QED  BY <2>2, <3>2, <4>1, <5>1
      <4>2. CASE i \in 1 .. Len(r)
        BY <3>2, <3>3, <3>4, <4>2
      <4>. QED  BY <3>2, <4>1, <4>2
    <3>6. ASSUME OncePerDid(q) PROVE OncePerDid(s)
      <4>1. OncePerDid(r)
        BY <2>0, <3>6 DEF r
      <4>2. \A i \in 1 .. Len(r) : r[i].did # q[k].did
        <5>1. ASSUME NEW i \in 1 .. Len(r), r[i].did = q[k].did PROVE FALSE
          <6>1. PICK j \in 1 .. (k - 1) : r[i] = q[j]
            BY <3>3
          <6>2. j \in 1 .. Len(q) /\ k \in 1 .. Len(q) /\ j # k
            BY <3>4 DEF n
          <6>. QED  BY <3>6, <5>1, <6>1, <6>2 DEF OncePerDid
        <5>. QED  BY <5>1
      <4>3. ASSUME NEW i \in 1 .. Len(s), NEW j \in 1 .. Len(s), s[i].did = s[j].did PROVE i = j
        <5>1. CASE i \in 1 .. Len(r) /\ j \in 1 .. Len(r)
          BY <3>2, <4>1, <4>3, <5>1 DEF OncePerDid
        <5>2. CASE i = Len(r) + 1 /\ j \in 1 .. Len(r)
          BY <3>2, <4>2, <4>3, <5>2
        <5>3. CASE i \in 1 .. Len(r) /\ j = Len(r) + 1
          BY <3>2, <4>2, <4>3, <5>3
        <5>. QED  BY <3>2, <5>1, <5>2, <5>3
      <4>. QED  BY <4>3 DEF OncePerDid
    <3>. QED  BY <2>0, <3>1, <3>2, <3>5, <3>6
  <2>. QED  BY <2>1, <2>2
<1>8. n \in T
  <2>1. 0 .. n \subseteq T
    <3>. HIDE DEF T, n
    <3>. QED  BY <1>1, <1>6, <1>7, Climb
  <2>2. n \in 0 .. n
    BY <1>1
  <2>. HIDE DEF T
  <2>. QED  BY <2>1, <2>2
<1>. QED  BY <1>2, <1>8 DEF Some

\* One endpoint more, in the place of the one with its name or behind the others.
LEMMA KnowKeeps ==
  ASSUME NEW q \in Seq(Local), OncePerDid(q), NEW ep \in Local
  PROVE  /\ Know(q, ep) \in Seq(Local) /\ OncePerDid(Know(q, ep))
         /\ \A i \in 1 .. Len(Know(q, ep)) : Know(q, ep)[i] = ep \/ Some(Know(q, ep)[i], q)
<1>. DEFINE r == Know(q, ep)
<1>0. Len(q) \in Nat /\ DOMAIN q = 1 .. Len(q) /\ \A i \in 1 .. Len(q) : q[i] \in Local
  OBVIOUS
<1>1. CASE \E i \in DOMAIN q : q[i].did = ep.did
  <2>1. r = [i \in 1 .. Len(q) |-> IF q[i].did = ep.did THEN ep ELSE q[i]]
    BY <1>0, <1>1 DEF Know
  <2>. HIDE DEF r
  <2>2. /\ r \in Seq(Local) /\ Len(r) = Len(q)
        /\ \A i \in 1 .. Len(q) : r[i] = (IF q[i].did = ep.did THEN ep ELSE q[i]) /\ r[i].did = q[i].did
    BY <1>0, <2>1
  <2>3. OncePerDid(r)
    BY <2>2 DEF OncePerDid
  <2>4. \A i \in 1 .. Len(r) : r[i] = ep \/ Some(r[i], q)
    BY <2>2 DEF Some
  <2>. QED  BY <2>2, <2>3, <2>4 DEF r
<1>2. CASE ~ \E i \in DOMAIN q : q[i].did = ep.did
  <2>1. r = Append(q, ep)
    BY <1>2 DEF Know
  <2>. HIDE DEF r
  <2>2. /\ r \in Seq(Local) /\ Len(r) = Len(q) + 1 /\ r[Len(q) + 1] = ep
        /\ \A i \in 1 .. Len(q) : r[i] = q[i]
        /\ \A i \in 1 .. Len(r) : i = Len(q) + 1 \/ i \in 1 .. Len(q)
    BY <1>0, <2>1
  <2>3. \A i \in 1 .. Len(q) : q[i].did # ep.did
    BY <1>0, <1>2
  <2>4. ASSUME NEW i \in 1 .. Len(r), NEW j \in 1 .. Len(r), r[i].did = r[j].did PROVE i = j
    <3>1. CASE i \in 1 .. Len(q) /\ j \in 1 .. Len(q)
      BY <2>2, <2>4, <3>1 DEF OncePerDid
    <3>2. CASE i = Len(q) + 1 /\ j \in 1 .. Len(q)
      BY <2>2, <2>3, <2>4, <3>2
    <3>3. CASE i \in 1 .. Len(q) /\ j = Len(q) + 1
      BY <2>2, <2>3, <2>4, <3>3
    <3>. QED  BY <2>2, <3>1, <3>2, <3>3
  <2>5. \A i \in 1 .. Len(r) : r[i] = ep \/ Some(r[i], q)
    BY <2>2 DEF Some
  <2>. QED  BY <2>2, <2>4, <2>5 DEF r, OncePerDid
<1>. QED  BY <1>1, <1>2

\* What was heard is taken one by one.
LEMMA QueueTaken ==
  ASSUME queue \in Seq(Heard), NEW q \in Seq(Local), OncePerDid(q)
  PROVE  /\ AfterQueue(q) \in Seq(Local) /\ OncePerDid(AfterQueue(q))
         /\ \A i \in 1 .. Len(AfterQueue(q)) :
              AfterQueue(q)[i].by = "announce" => Some(AfterQueue(q)[i], q)
<1>. DEFINE n == Len(queue)
            F(g) == [i \in 0 .. n |-> IF i = 0 THEN q ELSE Know(g[i - 1], queue[i])]
            t == CHOOSE g : g = F(g)
            Fine(r) == /\ r \in Seq(Local) /\ OncePerDid(r)
                       /\ \A i \in 1 .. Len(r) : r[i].by = "announce" => Some(r[i], q)
            S == {r \in Seq(Local) : Fine(r)}
<1>1. n \in Nat /\ \A i \in 1 .. n : queue[i] \in Local /\ queue[i].by = "mdns"
  BY DEF Heard, Local
<1>2. AfterQueue(q) = t[n]
  BY DEF AfterQueue
<1>3. q \in S
  BY DEF Some
<1>4. ASSUME NEW r \in S, NEW i \in 1 .. n
      PROVE  Know(r, queue[i]) \in S
  <2>. DEFINE s == Know(r, queue[i])
  <2>0. r \in Seq(Local) /\ OncePerDid(r) /\ queue[i] \in Local /\ queue[i].by = "mdns"
    BY <1>1
  <2>1. /\ s \in Seq(Local) /\ OncePerDid(s)
        /\ \A j \in 1 .. Len(s) : s[j] = queue[i] \/ Some(s[j], r)
    <3>. HIDE DEF n
    <3>. QED  BY <2>0, KnowKeeps
  <2>. HIDE DEF s
  <2>2. ASSUME NEW j \in 1 .. Len(s), s[j].by = "announce"
        PROVE  Some(s[j], q)
    <3>1. s[j] # queue[i]
      BY <2>0, <2>2
    <3>2. Some(s[j], r)
      BY <2>1, <3>1
    <3>3. PICK l \in 1 .. Len(r) : s[j] = r[l]
      BY <3>2 DEF Some
    <3>4. Some(r[l], q)
      BY <2>2, <3>3
    <3>. QED  BY <3>3, <3>4
  <2>3. s \in S
    BY <2>1, <2>2
  <2>. QED  BY <2>3 DEF s
<1>5. \E g : g = F(g)
  <2>. DEFINE f == [p \in S \X (1 .. n) |-> Know(p[1], queue[p[2]])]
  <2>1. f \in [S \X (1 .. n) -> S]
    <3>. HIDE DEF S, n
    <3>. QED  BY <1>4
  <2>2. PICK g \in [0 .. n -> S] : Goes(g, q, f, n)
    <3>. HIDE DEF f, n, S
    <3>. QED  BY <1>1, <1>3, <2>1, TableGoesOn
  <2>3. \A i \in 0 .. n : i # 0 => i - 1 \in 0 .. n /\ i \in 1 .. n
    BY <1>1
  <2>4. \A i \in 0 .. n : i # 0 => f[<<g[i - 1], i>>] = Know(g[i - 1], queue[i])
    <3>. HIDE DEF S, n
    <3>. QED  BY <2>3
  <2>. HIDE DEF f, n
  <2>5. g = F(g)
    BY <2>2, <2>4 DEF Goes
  <2>. QED  BY <2>5
<1>6. t = F(t)
  <2>. HIDE DEF F
  <2>. QED  BY <1>5, Zenon
<1>. HIDE DEF t
<1>7. t[0] = q /\ \A i \in 1 .. n : t[i] = Know(t[i - 1], queue[i])
  <2>. DEFINE u == F(t)
  <2>1. u[0] = q /\ \A i \in 1 .. n : u[i] = Know(t[i - 1], queue[i])
    BY <1>1
  <2>2. t = u
    BY <1>6
  <2>. HIDE DEF u
  <2>. QED  BY <2>1, <2>2
<1>. DEFINE T == {k \in 0 .. n : t[k] \in S}
<1>8. n \in T
  <2>. HIDE DEF S, n
  <2>1. 0 \in T
    BY <1>1, <1>3, <1>7
  <2>2. ASSUME NEW k \in 1 .. n, k - 1 \in T PROVE k \in T
    <3>1. t[k - 1] \in S /\ k \in 0 .. n
      BY <1>1, <2>2
    <3>2. t[k] \in S
      BY <1>4, <1>7, <3>1
    <3>. QED  BY <3>1, <3>2
  <2>3. 0 .. n \subseteq T
    <3>. HIDE DEF T
    <3>. QED  BY <1>1, <2>1, <2>2, Climb
  <2>4. n \in 0 .. n
    BY <1>1
  <2>. HIDE DEF T
  <2>. QED  BY <2>3, <2>4
<1>9. t[n] \in S
  BY <1>8
<1>. QED  BY <1>2, <1>9

-------------------------------------------------------------------------------
(* A query of the registry.                                                   *)

Ranking(q, S) ==
  /\ IsInjective(q) /\ Range(q) = S
  /\ \A i, j \in DOMAIN q : i < j => TrustOf(q[i]) >= TrustOf(q[j])

\* A finite set has an order by trust: the least trusted of a smallest set that
\* had none could go last.
LEMMA RankingExists ==
  ASSUME NEW S, IsFiniteSet(S), \A d \in S : TrustOf(d) \in Nat
  PROVE  \E q \in [1 .. Cardinality(S) -> S] : Ranking(q, S)
<1>. DEFINE C == {T \in SUBSET S : ~ \E q \in [1 .. Cardinality(T) -> T] : Ranking(q, T)}
<1>1. SUFFICES ASSUME C # {} PROVE FALSE
  OBVIOUS
<1>2. PICK T \in C : \A U \in C : U \subseteq T => U = T
  <2>1. C \in SUBSET SUBSET S
    OBVIOUS
  <2>. HIDE DEF C
  <2>. QED  BY <1>1, <2>1, MinimalSubset
<1>3. IsFiniteSet(T) /\ Cardinality(T) \in Nat
  BY FS_Subset, FS_CardinalityType
<1>4. T # {}
  <2>1. SUFFICES ASSUME T = {} PROVE FALSE
    OBVIOUS
  <2>2. Cardinality(T) = 0
    BY <2>1, FS_EmptySet
  <2>. DEFINE q == [i \in 1 .. 0 |-> i]
  <2>3. q \in [1 .. Cardinality(T) -> T] /\ DOMAIN q = {}
    BY <2>2
  <2>4. Ranking(q, T)
    <3>. HIDE DEF q
    <3>. QED  BY <2>1, <2>3 DEF Ranking, IsInjective, Range
  <2>. QED  BY <2>3, <2>4
<1>5. PICK x \in T : \A y \in T : TrustOf(y) >= TrustOf(x)
  <2>. DEFINE W == {TrustOf(d) : d \in T}
  <2>1. W \in SUBSET Nat /\ W # {}
    BY <1>4
  <2>2. PICK w \in W : \A m \in W : w =< m
    <3>. HIDE DEF W
    <3>. QED  BY <2>1, LeastExists
  <2>3. PICK x \in T : w = TrustOf(x)
    OBVIOUS
  <2>4. \A y \in T : TrustOf(y) \in Nat /\ TrustOf(x) =< TrustOf(y)
    BY <2>2, <2>3
  <2>. QED  BY <2>3, <2>4
<1>. DEFINE U == T \ {x}
            n == Cardinality(T)
<1>6. Cardinality(U) = n - 1 /\ n \in Nat /\ n >= 1
  <2>1. Cardinality(U) = n - 1
    BY <1>3, FS_RemoveElement
  <2>2. Cardinality(U) \in Nat
    BY <1>3, FS_RemoveElement, FS_CardinalityType
  <2>. QED  BY <1>3, <2>1, <2>2
<1>7. PICK q \in [1 .. Cardinality(U) -> U] : Ranking(q, U)
  <2>1. U \notin C /\ U \in SUBSET S
    BY <1>2
  <2>. QED  BY <2>1
<1>. HIDE DEF n
<1>. DEFINE r == [i \in 1 .. n |-> IF i = n THEN x ELSE q[i]]
<1>8. DOMAIN q = 1 .. (n - 1) /\ \A i \in 1 .. (n - 1) : q[i] \in U
  BY <1>6, <1>7
<1>9. /\ DOMAIN r = 1 .. n /\ r[n] = x
      /\ \A i \in 1 .. (n - 1) : i \in 1 .. n /\ r[i] = q[i]
      /\ \A i \in 1 .. n : i = n \/ i \in 1 .. (n - 1)
  BY <1>6
<1>10. r \in [1 .. n -> T]
  BY <1>8, <1>9
<1>. HIDE DEF r
<1>11. IsInjective(r)
  <2>1. ASSUME NEW i \in 1 .. n, NEW j \in 1 .. n, r[i] = r[j] PROVE i = j
    <3>1. CASE i \in 1 .. (n - 1) /\ j \in 1 .. (n - 1)
      BY <1>7, <1>8, <1>9, <2>1, <3>1 DEF Ranking, IsInjective
    <3>2. CASE i = n /\ j \in 1 .. (n - 1)
      BY <1>8, <1>9, <2>1, <3>2
    <3>3. CASE i \in 1 .. (n - 1) /\ j = n
      BY <1>8, <1>9, <2>1, <3>3
    <3>. QED  BY <1>9, <3>1, <3>2, <3>3
  <2>. QED  BY <1>9, <2>1 DEF IsInjective
<1>12. Range(r) = T
  <2>1. ASSUME NEW y \in T PROVE \E i \in 1 .. n : r[i] = y
    <3>1. CASE y = x
      BY <1>6, <1>9, <3>1
    <3>2. CASE y # x
      <4>1. y \in Range(q)
        BY <1>7, <3>2 DEF Ranking
      <4>2. PICK i \in 1 .. (n - 1) : q[i] = y
        BY <1>8, <4>1 DEF Range
      <4>. QED  BY <1>9, <4>2
    <3>. QED  BY <3>1, <3>2
  <2>. QED  BY <1>9, <1>10, <2>1 DEF Range
<1>13. ASSUME NEW i \in 1 .. n, NEW j \in 1 .. n, i < j PROVE TrustOf(r[i]) >= TrustOf(r[j])
  <2>1. i \in 1 .. (n - 1)
    BY <1>6, <1>13
  <2>2. CASE j = n
    BY <1>5, <1>9, <1>10, <2>2
  <2>3. CASE j \in 1 .. (n - 1)
    BY <1>7, <1>8, <1>9, <1>13, <2>1, <2>3 DEF Ranking
  <2>. QED  BY <1>9, <2>2, <2>3
<1>14. Ranking(r, T)
  BY <1>9, <1>11, <1>12, <1>13 DEF Ranking
<1>15. \E g \in [1 .. Cardinality(T) -> T] : Ranking(g, T)
  BY <1>10, <1>14 DEF n
<1>. QED  BY <1>2, <1>15

\* The answer of a query: each agent once, the most trusted of those asked for.
LEMMA QueryAnswers ==
  ASSUME RegistryInv, NEW capability, NEW verbs, NEW trust
  PROVE  LET answer == QueryRegistry(capability, verbs, trust)
             asked == Matching(capability, verbs, trust)
         IN  /\ answer \in Seq(asked)
             /\ \A i, j \in 1 .. Len(answer) : answer[i] = answer[j] => i = j
             /\ \A did \in asked, i \in 1 .. Len(answer) :
                  did \notin {answer[j] : j \in 1 .. Len(answer)} => TrustOf(did) =< TrustOf(answer[i])
<1>. DEFINE M == Matching(capability, verbs, trust)
            n == Cardinality(M)
            r == Ranked(M)
            m == Min({MaxResults, Len(r)})
            a == QueryRegistry(capability, verbs, trust)
<1>1. IsFiniteSet(M) /\ \A d \in M : TrustOf(d) \in Nat
  <2>1. M \subseteq DOMAIN registry
    BY DEF Matching
  <2>2. \A d \in DOMAIN registry : TrustOf(d) \in Nat
    BY DiscoveryAssumption DEF RegistryInv, DiscoveryAssumption, TrustOf
  <2>. QED  BY <2>1, <2>2, FS_Subset DEF RegistryInv
<1>2. n \in Nat
  BY <1>1, FS_CardinalityType
<1>3. r \in [1 .. n -> M] /\ Ranking(r, M)
  <2>1. \E q \in [1 .. n -> M] : Ranking(q, M)
    BY <1>1, RankingExists
  <2>2. r = CHOOSE q \in [1 .. n -> M] : Ranking(q, M)
    BY DEF Ranked, Ranking
  <2>. HIDE DEF M, n, r
  <2>. QED  BY <2>1, <2>2
<1>. HIDE DEF M, n, r
<1>4. r \in Seq(M) /\ Len(r) = n /\ DOMAIN r = 1 .. n
  BY <1>2, <1>3
<1>5. m \in 0 .. n
  <2>1. MaxResults \in Nat
    BY DiscoveryAssumption DEF DiscoveryAssumption
  <2>2. m = CHOOSE x \in {MaxResults, n} : \A y \in {MaxResults, n} : x =< y
    BY <1>4 DEF Min
  <2>3. \E x \in {MaxResults, n} : \A y \in {MaxResults, n} : x =< y
    BY <1>2, <2>1
  <2>. HIDE DEF m
  <2>4. m \in {MaxResults, n} /\ m =< n
    BY <2>2, <2>3
  <2>. QED  BY <1>2, <2>1, <2>4
<1>. HIDE DEF m
<1>6. a = SubSeq(r, 1, m)
  BY DEF QueryRegistry, m, r, M
<1>. HIDE DEF a
<1>7. a \in Seq(M) /\ Len(a) = m /\ \A i \in 1 .. m : a[i] = r[i] /\ i \in 1 .. n
  <2>1. SubSeq(r, 1, m) \in Seq(M) /\ Len(SubSeq(r, 1, m)) = m /\ \A i \in 1 .. m : SubSeq(r, 1, m)[i] = r[i] /\ i \in 1 .. n
    BY <1>2, <1>4, <1>5
  <2>. QED  BY <1>6, <2>1
<1>8. \A i, j \in 1 .. Len(a) : a[i] = a[j] => i = j
  BY <1>3, <1>4, <1>7 DEF Ranking, IsInjective
<1>9. ASSUME NEW did \in M, NEW i \in 1 .. Len(a), did \notin {a[j] : j \in 1 .. Len(a)}
      PROVE  TrustOf(did) =< TrustOf(a[i])
  <2>1. did \in Range(r)
    BY <1>3 DEF Ranking
  <2>2. PICK j \in 1 .. n : r[j] = did
    BY <1>4, <2>1 DEF Range
  <2>3. j \notin 1 .. m
    BY <1>7, <1>9, <2>2
  <2>4. i < j /\ i \in 1 .. n
    BY <1>2, <1>5, <1>7, <2>3
  <2>5. TrustOf(r[i]) >= TrustOf(r[j])
    BY <1>3, <1>4, <2>4 DEF Ranking
  <2>6. TrustOf(r[i]) \in Nat /\ TrustOf(r[j]) \in Nat
    BY <1>1, <1>3, <2>4
  <2>. QED  BY <1>7, <2>2, <2>5, <2>6
<1>. QED  BY <1>7, <1>8, <1>9 DEF a, M

-------------------------------------------------------------------------------
(* What a discover returns.                                                   *)

\* What the client still knows once the expired advertisements are forgotten and
\* what was heard is taken.
LEMMA KnownNow ==
  ASSUME KnownInv
  PROVE  /\ Known \in Seq(Local) /\ OncePerDid(Known)
         /\ \A i \in 1 .. Len(Known) : Known[i].by = "announce" => Me \in DOMAIN ads \ ExpiredAds
<1>. DEFINE wanted == {ep \in Range(known) : ep.did \notin ExpiredAds}
            kept == Only(known, wanted)
<1>1. /\ kept \in Seq(Local) /\ OncePerDid(kept)
      /\ \A i \in 1 .. Len(kept) : kept[i] \in wanted /\ Some(kept[i], known)
  <2>. HIDE DEF wanted
  <2>. QED  BY OnlyThose DEF KnownInv
<1>2. Known = AfterQueue(kept)
  BY DEF Known
<1>. HIDE DEF kept
<1>3. /\ Known \in Seq(Local) /\ OncePerDid(Known)
      /\ \A i \in 1 .. Len(Known) : Known[i].by = "announce" => Some(Known[i], kept)
  BY <1>1, <1>2, QueueTaken DEF KnownInv
<1>4. ASSUME NEW i \in 1 .. Len(Known), Known[i].by = "announce"
      PROVE  Me \in DOMAIN ads \ ExpiredAds
  <2>1. PICK j \in 1 .. Len(kept) : Known[i] = kept[j]
    BY <1>3, <1>4 DEF Some
  <2>2. PICK l \in 1 .. Len(known) : kept[j] = known[l]
    BY <1>1, <2>1 DEF Some
  <2>3. known[l] \in Local /\ known[l].by = "announce" /\ known[l].did \notin ExpiredAds
    BY <1>1, <1>4, <2>1, <2>2 DEF KnownInv
  <2>4. known[l].did = Me
    BY <2>3 DEF Local, Heard
  <2>5. Me \in DOMAIN ads
    BY <2>3 DEF KnownInv
  <2>. QED  BY <2>3, <2>4, <2>5
<1>. QED  BY <1>3, <1>4

\* What the registry answers is signed, lasts and names each agent once.
Signed(ep) == \E entry \in authored : /\ entry.offer.did = ep.did
                                      /\ entry.offer.where = ep.where
                                      /\ ~ EntryExpired(entry)
LEMMA RegistryAnswers ==
  ASSUME RegistryInv, NEW capability, NEW trust
  PROVE  /\ FromRegistry(capability, trust) \in Seq({ep \in Endpoints : ep.by = "registry" /\ Signed(ep)})
         /\ OncePerDid(FromRegistry(capability, trust))
<1>. DEFINE M == Matching(capability, {}, trust)
            a == QueryRegistry(capability, {}, trust)
            E(did) == LET offer == registry[did].offer
                      IN  Endpoint(offer.did, offer.where, offer.caps, offer.trust, "registry")
            r == FromRegistry(capability, trust)
<1>1. a \in Seq(M) /\ \A i, j \in 1 .. Len(a) : a[i] = a[j] => i = j
  BY QueryAnswers
<1>2. ASSUME NEW did \in M
      PROVE  E(did) \in Endpoints /\ E(did).by = "registry" /\ Signed(E(did)) /\ E(did).did = did
  <2>1. did \in DOMAIN registry /\ ~ EntryExpired(registry[did])
    BY DEF Matching
  <2>2. registry[did] \in authored /\ registry[did].offer.did = did
    BY <2>1 DEF RegistryInv
  <2>3. PICK o \in Offers : registry[did].offer = o
    BY <2>2 DEF RegistryInv
  <2>4. o.trust \in Int
    BY DiscoveryAssumption DEF DiscoveryAssumption
  <2>5. E(did) = [did |-> did, where |-> o.where, caps |-> o.caps, trust |-> o.trust, by |-> "registry"]
    BY <2>2, <2>3 DEF Endpoint
  <2>6. E(did) \in Endpoints
    BY <2>2, <2>3, <2>4, <2>5 DEF Endpoints, Dids
  <2>7. Signed(E(did))
    BY <2>1, <2>2, <2>3, <2>5 DEF Signed
  <2>. QED  BY <2>5, <2>6, <2>7
<1>3. r = [i \in 1 .. Len(a) |-> E(a[i])]
  BY <1>1 DEF FromRegistry
<1>. HIDE DEF M, a, E, r
<1>4. Len(a) \in Nat /\ \A i \in 1 .. Len(a) : a[i] \in M
  BY <1>1
<1>5. r \in Seq({ep \in Endpoints : ep.by = "registry" /\ Signed(ep)}) /\ Len(r) = Len(a)
  BY <1>2, <1>3, <1>4
<1>6. \A i \in 1 .. Len(a) : r[i].did = a[i]
  BY <1>2, <1>3, <1>4
<1>7. OncePerDid(r)
  BY <1>1, <1>5, <1>6 DEF OncePerDid
<1>. QED  BY <1>5, <1>7 DEF r

\* One list behind another that names nobody in it.
LEMMA OneBehindTheOther ==
  ASSUME NEW V, NEW p \in Seq(V), NEW q \in Seq(V), OncePerDid(p), OncePerDid(q),
         \A i \in 1 .. Len(p), j \in 1 .. Len(q) : p[i].did # q[j].did
  PROVE  /\ p \o q \in Seq(V) /\ OncePerDid(p \o q)
         /\ \A i \in 1 .. Len(p \o q) : Some((p \o q)[i], p) \/ Some((p \o q)[i], q)
<1>. DEFINE m == Len(p)
            n == Len(q)
            s == p \o q
<1>1. /\ m \in Nat /\ n \in Nat /\ s \in Seq(V) /\ Len(s) = m + n
      /\ \A i \in 1 .. m + n : s[i] = IF i =< m THEN p[i] ELSE q[i - m]
  OBVIOUS
<1>. HIDE DEF s
<1>2. \A i \in 1 .. Len(s) : \/ i \in 1 .. m /\ s[i] = p[i]
                             \/ i - m \in 1 .. n /\ s[i] = q[i - m] /\ i = m + (i - m)
  BY <1>1
<1>. HIDE DEF m, n
<1>3. ASSUME NEW i \in 1 .. Len(s), NEW j \in 1 .. Len(s), s[i].did = s[j].did PROVE i = j
  <2>1. CASE i \in 1 .. m /\ s[i] = p[i] /\ j \in 1 .. m /\ s[j] = p[j]
    BY <1>3, <2>1 DEF OncePerDid, m
  <2>2. CASE i - m \in 1 .. n /\ s[i] = q[i - m] /\ j - m \in 1 .. n /\ s[j] = q[j - m]
    <3>1. i - m = j - m
      BY <1>3, <2>2 DEF OncePerDid, n
    <3>. QED  BY <1>1, <3>1
  <2>3. CASE i \in 1 .. m /\ s[i] = p[i] /\ j - m \in 1 .. n /\ s[j] = q[j - m]
    BY <1>3, <2>3 DEF m, n
  <2>4. CASE i - m \in 1 .. n /\ s[i] = q[i - m] /\ j \in 1 .. m /\ s[j] = p[j]
    BY <1>3, <2>4 DEF m, n
  <2>. QED  BY <1>2, <2>1, <2>2, <2>3, <2>4
<1>4. \A i \in 1 .. Len(s) : Some(s[i], p) \/ Some(s[i], q)
  BY <1>2 DEF Some, m, n
<1>. QED  BY <1>1, <1>3, <1>4 DEF s, OncePerDid

LEMMA DiscoveredNow ==
  ASSUME DiscoveryInv, NEW capability, NEW trust
  PROVE  LET results == Discovered(capability, trust)
         IN  /\ results \in Seq(Endpoints) /\ OncePerDid(results)
             /\ \A i \in 1 .. Len(results) :
                  /\ results[i].by = "announce" => Me \in DOMAIN ads \ ExpiredAds
                  /\ results[i].by = "registry" => Signed(results[i])
<1>. DEFINE asked == {ep \in Range(Known) : /\ capability # "" => capability \in ep.caps
                                            /\ ep.trust >= trust}
            here == Only(Known, asked)
            more == FromRegistry(capability, trust)
            seen == {here[i].did : i \in DOMAIN here}
            unseen == {ep \in Range(more) : ep.did \notin seen}
            rest == Only(more, unseen)
            results == Discovered(capability, trust)
<1>1. /\ Known \in Seq(Local) /\ OncePerDid(Known)
      /\ \A i \in 1 .. Len(Known) : Known[i].by = "announce" => Me \in DOMAIN ads \ ExpiredAds
  BY KnownNow DEF DiscoveryInv
<1>2. more \in Seq({ep \in Endpoints : ep.by = "registry" /\ Signed(ep)}) /\ OncePerDid(more)
  BY RegistryAnswers DEF DiscoveryInv
<1>3. results = here \o rest
  BY DEF Discovered
<1>. HIDE DEF asked, results, more
<1>4. /\ here \in Seq(Local) /\ OncePerDid(here)
      /\ \A i \in 1 .. Len(here) : Some(here[i], Known)
  BY <1>1, OnlyThose
<1>. HIDE DEF here
<1>5. /\ rest \in Seq({ep \in Endpoints : ep.by = "registry" /\ Signed(ep)}) /\ OncePerDid(rest)
      /\ \A i \in 1 .. Len(rest) : rest[i] \in unseen
  <2>. HIDE DEF unseen
  <2>. QED  BY <1>2, OnlyThose
<1>. HIDE DEF rest
<1>6. \A i \in 1 .. Len(here), j \in 1 .. Len(rest) : here[i].did # rest[j].did
  BY <1>4, <1>5
<1>7. here \in Seq(Endpoints) /\ rest \in Seq(Endpoints)
  BY <1>4, <1>5 DEF Local, Heard
<1>8. /\ results \in Seq(Endpoints) /\ OncePerDid(results)
      /\ \A i \in 1 .. Len(results) : Some(results[i], here) \/ Some(results[i], rest)
  BY <1>3, <1>4, <1>5, <1>6, <1>7, OneBehindTheOther
<1>9. ASSUME NEW i \in 1 .. Len(results)
      PROVE  /\ results[i].by = "announce" => Me \in DOMAIN ads \ ExpiredAds
             /\ results[i].by = "registry" => Signed(results[i])
  <2>1. CASE Some(results[i], here)
    <3>1. PICK j \in 1 .. Len(here) : results[i] = here[j]
      BY <2>1 DEF Some
    <3>2. PICK l \in 1 .. Len(Known) : here[j] = Known[l]
      BY <1>4 DEF Some
    <3>3. Known[l] \in Local
      BY <1>1
    <3>4. Known[l].by # "registry"
      BY <3>3 DEF Local, Heard
    <3>. QED  BY <1>1, <3>1, <3>2, <3>4
  <2>2. CASE Some(results[i], rest)
    <3>1. PICK j \in 1 .. Len(rest) : results[i] = rest[j]
      BY <2>2 DEF Some
    <3>2. rest[j].by = "registry" /\ Signed(rest[j])
      BY <1>5
    <3>. QED  BY <3>1, <3>2
  <2>. QED  BY <1>8, <2>1, <2>2
<1>. QED  BY <1>8, <1>9 DEF results

-------------------------------------------------------------------------------
(* Every step keeps what the registry and the client hold.                    *)

LEMMA ForgetKeeps ==
  ASSUME DiscoveryInv, NEW capability, NEW trust, Forget,
         found' = [at |-> now, results |-> Discovered(capability, trust)],
         UNCHANGED <<now, authored, registry>>
  PROVE  DiscoveryInv'
<1>. DEFINE results == Discovered(capability, trust)
<1>1. /\ results \in Seq(Endpoints) /\ OncePerDid(results)
      /\ \A i \in 1 .. Len(results) :
           /\ results[i].by = "announce" => Me \in DOMAIN ads \ ExpiredAds
           /\ results[i].by = "registry" => Signed(results[i])
  BY DiscoveredNow
<1>. HIDE DEF results
<1>2. found'.at = now /\ found'.results = results /\ now \in Nat
  BY DEF DiscoveryInv, RegistryInv, results
<1>3. RegistryInv'
  BY DEF DiscoveryInv, RegistryInv
<1>4. DOMAIN ads' = DOMAIN ads \ ExpiredAds /\ \A did \in DOMAIN ads' : ads'[did] = ads[did]
  BY DEF Forget, Drop, Restrict
<1>5. KnownInv'
  <2>1. /\ Known \in Seq(Local) /\ OncePerDid(Known)
        /\ \A i \in 1 .. Len(Known) : Known[i].by = "announce" => Me \in DOMAIN ads \ ExpiredAds
    BY KnownNow DEF DiscoveryInv
  <2>2. known' = Known /\ queue' = << >>
    BY DEF Forget
  <2>3. \A i \in 1 .. Len(known') : known'[i].by = "announce" => Me \in DOMAIN ads'
    BY <1>4, <2>1, <2>2
  <2>. QED  BY <2>1, <2>2, <2>3 DEF KnownInv, OncePerDid
<1>6. FoundIsCurrent'
  <2>1. ASSUME NEW i \in DOMAIN found'.results, found'.results[i].by = "announce"
        PROVE  Me \in DOMAIN ads' /\ ~ Lapsed(ads'[Me].at, AdTtl)
    <3>1. Me \in DOMAIN ads \ ExpiredAds
      BY <1>1, <1>2, <2>1
    <3>. QED  BY <1>4, <3>1 DEF ExpiredAds, AdExpired
  <2>2. ASSUME NEW i \in DOMAIN found'.results, found'.results[i].by = "registry"
        PROVE  Signed(found'.results[i])
    BY <1>1, <1>2, <2>2
  <2>. QED  BY <2>1, <2>2 DEF FoundIsCurrent, Signed, AdExpired, EntryExpired, Lapsed
<1>7. FoundInv'
  BY <1>1, <1>2, <1>6 DEF FoundInv, OncePerDid
<1>. QED  BY <1>3, <1>5, <1>7 DEF DiscoveryInv


\* What was found stays current while the clock stands, the client advertises
\* itself and what was signed remains.
Advertised == Me \in DOMAIN ads /\ ~ AdExpired(ads[Me])
LEMMA FoundStays ==
  ASSUME FoundInv, UNCHANGED <<now, found>>, authored \subseteq authored', Advertised => Advertised'
  PROVE  FoundInv'
<1>1. ASSUME FoundIsCurrent PROVE FoundIsCurrent'
  <2>. SUFFICES ASSUME found.at = now, NEW i \in DOMAIN found.results
                PROVE  /\ found.results[i].by = "announce" => Advertised'
                       /\ found.results[i].by = "registry" => Signed(found.results[i])'
    BY DEF FoundIsCurrent, Advertised, Signed
  <2>1. found.results[i].by = "announce" => Advertised
    BY <1>1 DEF FoundIsCurrent, Advertised
  <2>2. found.results[i].by = "registry" => Signed(found.results[i])
    BY <1>1 DEF FoundIsCurrent, Signed
  <2>3. Signed(found.results[i]) => Signed(found.results[i])'
    BY DEF Signed, EntryExpired, Lapsed
  <2>. QED  BY <2>1, <2>2, <2>3
<1>. QED  BY <1>1 DEF FoundInv, OncePerDid

\* Where nothing changes but the registry.
LEMMA RegistrySteps ==
  ASSUME DiscoveryInv, RegistryInv', UNCHANGED <<now, found, ads, known, queue>>, authored \subseteq authored'
  PROVE  DiscoveryInv'
<1>1. KnownInv'
  BY DEF DiscoveryInv, KnownInv, OncePerDid
<1>2. Advertised => Advertised'
  BY DEF Advertised, AdExpired, Lapsed
<1>3. FoundInv'
  BY <1>2, FoundStays DEF DiscoveryInv
<1>. QED  BY <1>1, <1>3 DEF DiscoveryInv

LEMMA DiscoveryInvKept ==
  ASSUME DiscoveryInv, [DNext]_dvars
  PROVE  DiscoveryInv'
<1>1. ASSUME NEW offer \in Offers, CreateRegistryEntry(offer)
      PROVE  DiscoveryInv'
  <2>1. /\ authored' = authored \cup {[offer |-> offer, at |-> now]}
        /\ UNCHANGED <<now, found, ads, known, queue, registry>>
    BY <1>1 DEF CreateRegistryEntry
  <2>2. RegistryInv'
    BY <2>1 DEF DiscoveryInv, RegistryInv
  <2>. QED  BY <2>1, <2>2, RegistrySteps
<1>2. ASSUME NEW entry \in authored, RegisterEntry(entry)
      PROVE  DiscoveryInv'
  <2>1. /\ registry' = Enter(registry, entry.offer.did, entry)
        /\ UNCHANGED <<now, found, ads, known, queue, authored>>
    BY <1>2 DEF RegisterEntry
  <2>2. /\ DOMAIN registry' = {entry.offer.did} \cup DOMAIN registry
        /\ \A did \in DOMAIN registry' :
             registry'[did] = IF did = entry.offer.did THEN entry ELSE registry[did]
    BY <2>1 DEF Enter
  <2>3. DOMAIN registry' = DOMAIN registry \cup {entry.offer.did}
    BY <2>2
  <2>4. IsFiniteSet(DOMAIN registry')
    BY <2>3, FS_AddElement DEF DiscoveryInv, RegistryInv
  <2>5. RegistryInv'
    BY <2>1, <2>2, <2>4 DEF DiscoveryInv, RegistryInv
  <2>. QED  BY <2>1, <2>5, RegistrySteps
<1>3. ASSUME NEW dids, registry' = Drop(registry, dids),
             UNCHANGED <<now, found, ads, known, queue, authored>>
      PROVE  DiscoveryInv'
  <2>1. DOMAIN registry' = DOMAIN registry \ dids /\ \A did \in DOMAIN registry' : registry'[did] = registry[did]
    BY <1>3 DEF Drop, Restrict
  <2>2. IsFiniteSet(DOMAIN registry')
    BY <2>1, FS_Subset DEF DiscoveryInv, RegistryInv
  <2>3. RegistryInv'
    BY <1>3, <2>1, <2>2 DEF DiscoveryInv, RegistryInv
  <2>. QED  BY <1>3, <2>3, RegistrySteps
<1>4. ASSUME UNCHANGED <<now, found, ads, known, queue, authored, registry>>
      PROVE  DiscoveryInv'
  <2>1. RegistryInv'
    BY <1>4 DEF DiscoveryInv, RegistryInv
  <2>. QED  BY <1>4, <2>1, RegistrySteps
<1>5. ASSUME FetchWellKnown
      PROVE  DiscoveryInv'
  <2>1. /\ ads' = IF AdExpired(page) THEN ads ELSE Enter(ads, page.did, page)
        /\ UNCHANGED <<now, found, known, queue, authored, registry>>
    BY <1>5 DEF FetchWellKnown
  <2>2. CASE AdExpired(page)
    BY <1>4, <2>1, <2>2
  <2>3. CASE ~ AdExpired(page)
    <3>1. /\ DOMAIN ads' = {page.did} \cup DOMAIN ads
          /\ \A did \in DOMAIN ads' : ads'[did] = IF did = page.did THEN page ELSE ads[did]
      BY <2>1, <2>3 DEF Enter
    <3>2. Advertised => Advertised'
      <4>1. Me \in DOMAIN ads => ads'[Me] = page \/ ads'[Me] = ads[Me]
        BY <3>1
      <4>. QED  BY <2>1, <2>3, <3>1, <4>1 DEF Advertised, AdExpired, Lapsed
    <3>3. RegistryInv' /\ KnownInv'
      BY <2>1, <3>1 DEF DiscoveryInv, RegistryInv, KnownInv, OncePerDid
    <3>4. FoundInv'
      BY <2>1, <3>2, FoundStays DEF DiscoveryInv
    <3>. QED  BY <3>3, <3>4 DEF DiscoveryInv
  <2>. QED  BY <2>2, <2>3
<1>6. ASSUME NEW offer \in Offers, Announce(offer.where, offer.caps)
      PROVE  DiscoveryInv'
  <2>. DEFINE ep == Endpoint(Me, offer.where, offer.caps, 10, "announce")
  <2>1. /\ ads' = Enter(ads, Me, [did |-> Me, at |-> now]) /\ known' = Know(known, ep)
        /\ UNCHANGED <<now, found, queue, authored, registry>>
    BY <1>6 DEF Announce
  <2>2. Me \in DOMAIN ads' /\ ads'[Me] = [did |-> Me, at |-> now]
    BY <2>1 DEF Enter
  <2>3. Advertised'
    <3>1. now + AdTtl >= now
      BY DiscoveryAssumption DEF DiscoveryInv, RegistryInv, DiscoveryAssumption
    <3>2. ~ (now + AdTtl < now)
      BY <3>1, DiscoveryAssumption DEF DiscoveryInv, RegistryInv, DiscoveryAssumption
    <3>. QED  BY <2>1, <2>2, <3>2 DEF Advertised, AdExpired, Lapsed
  <2>4. ep \in Local
    BY DEF Endpoint, Local, Endpoints, Dids
  <2>. HIDE DEF ep
  <2>5. known' \in Seq(Local) /\ OncePerDid(known')
    <3>1. known \in Seq(Local) /\ OncePerDid(known)
      BY DEF DiscoveryInv, KnownInv
    <3>2. Know(known, ep) \in Seq(Local) /\ OncePerDid(Know(known, ep))
      BY <2>4, <3>1, KnowKeeps
    <3>. QED  BY <2>1, <3>2
  <2>6. RegistryInv' /\ KnownInv'
    BY <2>1, <2>2, <2>5 DEF DiscoveryInv, RegistryInv, KnownInv, OncePerDid
  <2>7. FoundInv'
    BY <2>1, <2>3, FoundStays DEF DiscoveryInv
  <2>. QED  BY <2>6, <2>7 DEF DiscoveryInv
<1>7. ASSUME NEW offer \in Offers, MdnsAdded(Peer, offer.where, offer.caps)
      PROVE  DiscoveryInv'
  <2>. DEFINE ep == Endpoint(Peer, offer.where, offer.caps, NoTrust, "mdns")
  <2>1. queue' = Append(queue, ep) /\ UNCHANGED <<now, found, known, ads, authored, registry>>
    BY <1>7 DEF MdnsAdded
  <2>2. ep \in Heard
    BY DEF Endpoint, Heard, Endpoints, Dids, NoTrust
  <2>. HIDE DEF ep
  <2>3. queue' \in Seq(Heard)
    BY <2>1, <2>2 DEF DiscoveryInv, KnownInv
  <2>4. RegistryInv' /\ KnownInv'
    BY <2>1, <2>3 DEF DiscoveryInv, RegistryInv, KnownInv, OncePerDid
  <2>5. FoundInv'
    BY <2>1, FoundStays DEF DiscoveryInv, Advertised, AdExpired, Lapsed
  <2>. QED  BY <2>4, <2>5 DEF DiscoveryInv
<1>8. ASSUME NEW capability, NEW trust, Discover(capability, trust)
      PROVE  DiscoveryInv'
  BY <1>8, ForgetKeeps DEF Discover
<1>9. ASSUME NEW capability, DiscoverAndConnect(capability)
      PROVE  DiscoveryInv'
  BY <1>9, ForgetKeeps DEF DiscoverAndConnect
<1>10. ASSUME DTick
      PROVE  DiscoveryInv'
  <2>1. now' = now + 1 /\ UNCHANGED <<found, known, ads, queue, authored, registry>>
    BY <1>10 DEF DTick
  <2>2. now' \in Nat /\ found.at =< now' /\ found.at # now'
    BY <2>1 DEF DiscoveryInv, RegistryInv, FoundInv
  <2>3. RegistryInv' /\ KnownInv'
    BY <2>1, <2>2 DEF DiscoveryInv, RegistryInv, KnownInv, OncePerDid
  <2>4. FoundIsCurrent'
    BY <2>1, <2>2 DEF FoundIsCurrent
  <2>5. FoundInv'
    BY <2>1, <2>2, <2>4 DEF DiscoveryInv, FoundInv, OncePerDid
  <2>. QED  BY <2>3, <2>5 DEF DiscoveryInv
<1>11. CASE Advertise \/ StopServer \/ ServePage \/ UNCHANGED dvars
  BY <1>4, <1>11 DEF Advertise, StopServer, ServePage, dvars
<1>12. CASE (\E did \in {Me, Peer} : Deregister(did)) \/ CleanupExpired
  BY <1>3, <1>12 DEF Deregister, CleanupExpired
<1>. QED
  BY <1>1, <1>2, <1>5, <1>6, <1>7, <1>8, <1>9, <1>10, <1>11, <1>12 DEF DNext

LEMMA DiscoveryInvStarts == DInit => DiscoveryInv
BY FS_EmptySet DEF DInit, DiscoveryInv, RegistryInv, KnownInv, FoundInv, FoundIsCurrent, OncePerDid

\* What an agent discovers is the best of what is signed and lasts, each once.
\* Whatever agents sign, advertise, announce and let expire: a query of the registry
\* leaves out nothing live and asked for in favour of something trusted less, a
\* discover lists no agent twice, what it takes from the registry is signed and
\* has not expired, and it lists the client no longer than its announcement lasts
\* (AgentRegistry.query, DiscoveryClient.discover).
THEOREM DiscoveryAlwaysCurrent == DSpec => []DiscoveryIsCurrent
<1>1. ASSUME DiscoveryInv PROVE DiscoveryIsCurrent
  <2>1. QueryIsBest
    <3>. SUFFICES ASSUME NEW capability, NEW did \in Matching(capability, {}, 0),
                         NEW i \in DOMAIN QueryRegistry(capability, {}, 0),
                         did \notin {QueryRegistry(capability, {}, 0)[j] :
                                       j \in DOMAIN QueryRegistry(capability, {}, 0)}
                  PROVE  TrustOf(did) =< TrustOf(QueryRegistry(capability, {}, 0)[i])
      BY DEF QueryIsBest
    <3>. DEFINE a == QueryRegistry(capability, {}, 0)
    <3>1. /\ a \in Seq(Matching(capability, {}, 0))
          /\ \A d \in Matching(capability, {}, 0), k \in 1 .. Len(a) :
               d \notin {a[j] : j \in 1 .. Len(a)} => TrustOf(d) =< TrustOf(a[k])
      BY <1>1, QueryAnswers DEF DiscoveryInv
    <3>2. DOMAIN a = 1 .. Len(a)
      BY <3>1
    <3>. QED  BY <3>1, <3>2
  <2>2. ListedOnce
    <3>1. DOMAIN found.results = 1 .. Len(found.results) /\ OncePerDid(found.results)
      BY <1>1 DEF DiscoveryInv, FoundInv
    <3>. QED  BY <3>1 DEF ListedOnce, IsInjective, OncePerDid
  <2>3. FoundIsCurrent
    BY <1>1 DEF DiscoveryInv, FoundInv
  <2>. QED  BY <2>1, <2>2, <2>3 DEF DiscoveryIsCurrent
<1>. QED  BY <1>1, DiscoveryInvStarts, DiscoveryInvKept, PTL DEF DSpec

===============================================================================
