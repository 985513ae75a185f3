--------------------------- MODULE CapabilityProofs ---------------------------
(***************************************************************************)
(* Theorems about authority. What a token gives against what the tokens    *)
(* before it gave, for every set of grants, attenuations and schedules     *)
(* (Tokens); how often it can be used in any period, for every schedule of *)
(* limits (RateLimiter). How long authority is of use after its end: a     *)
(* session capability MAC, for every epoch, grace window and delay of the  *)
(* event loop (RelayScm); a revoked token, for every set of tokens and     *)
(* every way they descend from one another (Revocation). What becomes of   *)
(* it when it is delegated: to agents of another owner, for every chain    *)
(* depth and every lifetime (CrossDomain); over an MCP bridge that         *)
(* reconnects and down the subtasks of an A2A bridge (Bridges).            *)
(* Tokens a group signs, for every number of members and every threshold,  *)
(* every prime field and every polynomial: Shamir's scheme (Threshold).    *)
(***************************************************************************)
EXTENDS Tokens, RateLimiter, RelayScm, Revocation, CrossDomain, Bridges,
        Threshold, Sums, FiniteSetTheorems, TLAPS

-----------------------------------------------------------------------------
(* Session capability MACs (RelayScm).                                     *)

\* When an SCM can have been issued, given the key it was made with: since
\* the last rotation, or in the epoch before it.
Aged(c) ==
  /\ c.issued \in Nat
  /\ c.issued <= wall
  /\ c.key \in Nat
  /\ c.key <= current_key
  /\ c.key = current_key => c.issued >= rotated_at
  /\ c.key = current_key - 1 =>
       rotated_at - c.issued <= EPOCH_INTERVAL_SEC + MaxLateness

\* The clocks of the epoch loop: a sleep overruns by MaxLateness at most, and
\* keys are numbered without gaps.
Clocks ==
  /\ wall \in Nat
  /\ rotated_at \in Nat
  /\ current_key \in Nat
  /\ rotated_at <= wall
  /\ wake = rotated_at + EPOCH_INTERVAL_SEC
  /\ wall <= wake + MaxLateness
  /\ previous_key = current_key - 1

ScmInv ==
  /\ Clocks
  /\ pending # NoScm => Aged(pending)
  /\ held # NoScm => Aged(held)

\* Time passes: an SCM gets older, and nothing else.
LEMMA TickStep ==
  ASSUME ScmInv, ScmTick
  PROVE  ScmInv'
<1>1. /\ wall' = wall + 1
      /\ wall < wake + MaxLateness
      /\ UNCHANGED <<wake, current_key, previous_key, rotated_at, pending, held>>
  BY DEF ScmTick
<1>2. Clocks'
  BY <1>1, ScmAssumption DEF ScmInv, Clocks
<1>3. \A c : Aged(c) => Aged(c)'
  BY <1>1 DEF ScmInv, Clocks, Aged
<1>. QED  BY <1>1, <1>2, <1>3 DEF ScmInv

\* A new key is drawn: what was made with the last one is of the epoch that

\* ends, and what is older names a key that is forgotten.
LEMMA RotateStep ==
  ASSUME ScmInv, RotateEpoch
  PROVE  ScmInv'
<1>1. /\ wall >= wake
      /\ wake' = wall + EPOCH_INTERVAL_SEC
      /\ previous_key' = current_key
      /\ current_key' = current_key + 1
      /\ rotated_at' = wall
      /\ UNCHANGED <<wall, pending, held>>
  BY DEF RotateEpoch
<1>2. Clocks'
  BY <1>1, ScmAssumption DEF ScmInv, Clocks
<1>3. ASSUME NEW c, Aged(c)
      PROVE  Aged(c)'
  <2>1. c.key \in Nat /\ c.issued \in Nat /\ c.issued <= wall /\ c.key <= current_key
        /\ (c.key = current_key => c.issued >= rotated_at)
    BY <1>3 DEF Aged
  <2>. DEFINE k == c.key
              i == c.issued
  <2>. HIDE DEF k, i
  <2>2. k \in Nat /\ i \in Nat /\ i <= wall /\ k <= current_key
        /\ (k = current_key => i >= rotated_at)
    BY <2>1 DEF k, i
  <2>3. /\ i \in Nat /\ i <= wall' /\ k \in Nat /\ k <= current_key'
        /\ (k = current_key' => i >= rotated_at')
        /\ (k = current_key' - 1 =>
              rotated_at' - i <= EPOCH_INTERVAL_SEC + MaxLateness)
    BY <1>1, <2>2, ScmAssumption DEF ScmInv, Clocks
  <2>. QED  BY <2>3 DEF Aged, k, i
<1>. QED  BY <1>1, <1>2, <1>3 DEF ScmInv

\* An SCM is made with the current key at the present time, and granted as it

\* was made.
LEMMA SessionStep ==
  ASSUME ScmInv, HandleSessionRequest \/ HandleAccept \/ HandleClose
  PROVE  ScmInv'
<1>1. UNCHANGED <<wall, wake, current_key, previous_key, rotated_at>>
  BY DEF HandleSessionRequest, HandleAccept, HandleClose
<1>2. Clocks'
  BY <1>1 DEF ScmInv, Clocks
<1>3. \A c : Aged(c) => Aged(c)'
  BY <1>1 DEF Aged
<1>4. Aged(Scm(current_key, current_epoch))
  <2>1. /\ Scm(current_key, current_epoch).issued = wall
        /\ Scm(current_key, current_epoch).key = current_key
    BY DEF Scm
  <2>. QED  BY <2>1 DEF Aged, ScmInv, Clocks
<1>5. /\ pending' = pending \/ pending' = NoScm \/ pending' = Scm(current_key, current_epoch)
      /\ held' = held \/ held' = NoScm \/ (pending # NoScm /\ held' = pending)
  <2>1. CASE HandleSessionRequest
    BY <2>1 DEF HandleSessionRequest
  <2>2. CASE HandleAccept
    BY <2>2 DEF HandleAccept
  <2>3. CASE HandleClose
    BY <2>3 DEF HandleClose
  <2>. QED  BY <2>1, <2>2, <2>3
<1>6. (pending' # NoScm => Aged(pending')) /\ (held' # NoScm => Aged(held'))
  BY <1>4, <1>5, Zenon DEF ScmInv
<1>7. ASSUME NEW c, Aged(c)
      PROVE  /\ c.issued \in Nat
             /\ c.issued <= wall'
             /\ c.key \in Nat
             /\ c.key <= current_key'
             /\ c.key = current_key' => c.issued >= rotated_at'
             /\ c.key = current_key' - 1 =>
                  rotated_at' - c.issued <= EPOCH_INTERVAL_SEC + MaxLateness
  BY <1>1, <1>7 DEF Aged
<1>8. (pending' # NoScm => Aged(pending)') /\ (held' # NoScm => Aged(held)')
  BY <1>6, <1>7 DEF Aged
<1>. QED  BY <1>2, <1>8 DEF ScmInv

\* An SCM the relay accepts was made at most one epoch, the delay of one
\* rotation and the grace window ago, wherever the rotations lie in the epochs
\* of the wall clock.
THEOREM ScmIsRecent == ScmSpec => []AcceptedScmIsRecent
<1>1. ScmInit => ScmInv
  BY ScmAssumption DEF ScmInit, ScmInv, Clocks
<1>2. ASSUME ScmInv, [ScmNext]_scmvars
      PROVE  ScmInv'
  <2>1. CASE UNCHANGED scmvars
    BY <1>2, <2>1 DEF ScmInv, Clocks, Aged, scmvars
  <2>. QED  BY <1>2, <2>1, TickStep, RotateStep, SessionStep DEF ScmNext
<1>3. ASSUME ScmInv, held # NoScm, validate_scm(held)
      PROVE  wall - held.issued
               <= EPOCH_INTERVAL_SEC + MaxLateness + GRACE_WINDOW_SEC
  <2>. DEFINE k == held.key
              i == held.issued
  <2>1. /\ i \in Nat
        /\ k = current_key => i >= rotated_at
        /\ k = current_key - 1 => rotated_at - i <= EPOCH_INTERVAL_SEC + MaxLateness
    BY <1>3 DEF ScmInv, Aged
  <2>2. \/ k = current_key
        \/ k = previous_key /\ wall - rotated_at <= GRACE_WINDOW_SEC
    BY <1>3 DEF validate_scm, InGrace
  <2>. HIDE DEF k, i
  <2>3. wall - i <= EPOCH_INTERVAL_SEC + MaxLateness + GRACE_WINDOW_SEC
    BY <1>3, <2>1, <2>2, ScmAssumption DEF ScmInv, Clocks
  <2>. QED  BY <2>3 DEF i
<1>4. ScmInv => AcceptedScmIsRecent
  BY <1>3 DEF AcceptedScmIsRecent
<1>. QED  BY <1>1, <1>2, <1>4, PTL DEF ScmSpec

-----------------------------------------------------------------------------
(* Revocation (Revocation).                                                *)

Entry == [kind : {"revoked"}, time : Nat, effective : Nat]

\* What an answer may say of a token with the entry e at a time: it was given
\* no later than that, and before the revocation if it says "good".
Honest(c, e, at) ==
  c # Nothing =>
    /\ c.next \in Nat
    /\ c.next <= at + Validity
    /\ c.kind = "good" /\ e # Nothing => c.next <= e.time + Validity

RevInv ==
  /\ seconds \in Nat
  /\ entries \in [Ids -> Entry \cup {Nothing}]
  /\ \A t \in Ids : Listed(t) => entries[t].time <= seconds
  /\ cache = [t \in Ids |-> cache[t]]
  /\ staple = [t \in Ids |-> staple[t]]
  /\ \A t \in Ids : /\ Honest(cache[t], entries[t], seconds)
                    /\ Honest(staple[t], entries[t], seconds)

\* The walk from a token reaches, besides it, tokens that have no entry.
LEMMA CascadeUnlisted ==
  ASSUME NEW t \in Ids, NEW u \in Cascade(t), u # t
  PROVE  ~Listed(u)
<1>. DEFINE visited == {t} \cup {c \in Ids : ~Listed(c)}
<1>1. t \in visited /\ visited \in SUBSET Ids
  OBVIOUS
<1>2. \A p \in visited, c \in Ids : <<p, c>> \in children /\ ~Listed(c) => c \in visited
  OBVIOUS
<1>. HIDE DEF visited
<1>3. u \in visited
  BY <1>1, <1>2 DEF Cascade
<1>. QED  BY <1>3 DEF visited

\* Nothing is not an entry, and a fresh one is.
LEMMA EntryFacts ==
  ASSUME NEW k \in Nat, NEW e \in Nat
  PROVE  /\ Nothing \notin Entry
         /\ [kind |-> "revoked", time |-> k, effective |-> e] \in Entry
         /\ [kind |-> "revoked", time |-> k, effective |-> e].time = k
BY DEF Nothing, Entry

\* What the responder answers is honest.
LEMMA AnswerHonest ==
  ASSUME RevInv, NEW t \in Ids
  PROVE  Honest(Answer(t), entries[t], seconds)
<1>1. CASE Stale(cache[t])
  <2>. DEFINE c == DetermineStatus(t)
  <2>1. /\ c.next = seconds + Validity
        /\ c.kind = "good" => entries[t] = Nothing
    BY DEF DetermineStatus, Listed
  <2>2. Answer(t) = c
    BY <1>1 DEF Answer
  <2>. HIDE DEF c
  <2>. QED  BY <2>1, <2>2, LifetimeAssumption DEF Honest, RevInv
<1>2. CASE ~Stale(cache[t])
  BY <1>2 DEF Answer, RevInv
<1>. QED  BY <1>1, <1>2

-----------------------------------------------------------------------------
(* What a step may do to one token's records.                              *)

\* An entry stays, is forgotten for its age, or is made now.
EntryMoves(t) ==
  \/ entries'[t] = entries[t]
  \/ TooOld(entries[t]) /\ entries'[t] = Nothing /\ seconds' = seconds
  \/ entries[t] = Nothing /\ entries'[t] \in Entry /\ entries'[t].time = seconds

\* An answer stays, is dropped, or is given now.
AnswerMoves(c, d, t) == d = c \/ d = Nothing \/ d = Answer(t)

Moves ==
  /\ seconds' = seconds \/ seconds' = seconds + 1
  /\ entries' \in [Ids -> Entry \cup {Nothing}]
  /\ cache' = [t \in Ids |-> cache'[t]]
  /\ staple' = [t \in Ids |-> staple'[t]]
  /\ \A t \in Ids : /\ EntryMoves(t)
                    /\ AnswerMoves(cache[t], cache'[t], t)
                    /\ AnswerMoves(staple[t], staple'[t], t)

\* A revocation makes an entry for every token it reaches and replaces none.
LEMMA RevokeMoves ==
  ASSUME RevInv, NEW t \in Ids, NEW u \in Urgencies,
         ProcessRevocationMessage(t, u, seconds + Grace + 1)
  PROVE  Moves
<1>. DEFINE due == EffectiveTime(u, seconds + Grace + 1)
            e == [kind |-> "revoked", time |-> seconds, effective |-> due]
<1>1. /\ ~Listed(t)
      /\ entries' = [v \in Ids |-> IF v \in Cascade(t) THEN e ELSE entries[v]]
      /\ UNCHANGED <<known, children, cache, staple, seconds>>
  BY DEF ProcessRevocationMessage, Revoke
<1>2. due \in Nat
  BY LifetimeAssumption DEF EffectiveTime, RevInv
<1>. HIDE DEF due
<1>3. e \in Entry /\ e.time = seconds
  BY <1>2, EntryFacts DEF RevInv
<1>. HIDE DEF e
<1>4. ASSUME NEW v \in Ids
      PROVE  EntryMoves(v) /\ entries'[v] \in Entry \cup {Nothing}
  <2>1. v \in Cascade(t) => entries[v] = Nothing
    BY <1>1, CascadeUnlisted DEF Listed
  <2>. QED  BY <1>1, <1>3, <2>1 DEF EntryMoves, RevInv
<1>5. entries' \in [Ids -> Entry \cup {Nothing}]
  BY <1>1, <1>4
<1>. QED  BY <1>1, <1>4, <1>5 DEF Moves, AnswerMoves, RevInv

\* Every step moves the records in these ways only.
LEMMA StepMoves ==
  ASSUME RevInv, [RNext]_rvars
  PROVE  Moves
<1>. USE DEF RevInv
<1>1. ASSUME \/ \E t \in Ids : RegisterToken(t)
             \/ RTick
             \/ UNCHANGED rvars
      PROVE  Moves
  BY <1>1 DEF RegisterToken, RTick, rvars, Moves, EntryMoves, AnswerMoves
<1>2. CASE CleanupEntries
  <2>1. /\ entries' = [t \in Ids |-> IF TooOld(entries[t]) THEN Nothing ELSE entries[t]]
        /\ UNCHANGED <<known, children, cache, staple, seconds>>
    BY <1>2 DEF CleanupEntries
  <2>2. entries' \in [Ids -> Entry \cup {Nothing}]
    BY <2>1
  <2>3. \A t \in Ids : EntryMoves(t)
    BY <2>1 DEF EntryMoves
  <2>. QED  BY <2>1, <2>2, <2>3 DEF Moves, AnswerMoves
<1>3. ASSUME NEW t \in Asked \cap Ids, HandleRequest(t)
      PROVE  Moves
  BY <1>3 DEF HandleRequest, Moves, EntryMoves, AnswerMoves
<1>4. ASSUME NEW t \in Asked \cap Ids, Invalidate(t)
      PROVE  Moves
  BY <1>4 DEF Invalidate, Moves, EntryMoves, AnswerMoves
<1>5. CASE ClearCache \/ CleanupCache
  BY <1>5 DEF ClearCache, CleanupCache, Moves, EntryMoves, AnswerMoves
<1>. QED  BY <1>1, <1>2, <1>3, <1>4, <1>5, RevokeMoves, AskedAssumption DEF RNext

\* Honest answers stay honest when time passes and entries come and go.
LEMMA HonestKept ==
  ASSUME NEW c, NEW at \in Nat, NEW later \in Nat, at <= later,
         NEW e \in Entry \cup {Nothing}, NEW f \in Entry \cup {Nothing},
         Honest(c, e, at),
         f = e \/ f = Nothing \/ (e = Nothing /\ f.time = at)
  PROVE  Honest(c, f, later)
BY LifetimeAssumption DEF Honest

\* Moves keep the invariant.
LEMMA MovesKeep ==
  ASSUME RevInv, Moves
  PROVE  RevInv'
<1>1. seconds' \in Nat /\ seconds <= seconds'
  BY DEF Moves, RevInv
<1>2. ASSUME NEW t \in Ids
      PROVE  /\ Listed(t)' => entries'[t].time <= seconds'
             /\ Honest(cache'[t], entries'[t], seconds')
             /\ Honest(staple'[t], entries'[t], seconds')
  <2>1. /\ entries[t] \in Entry \cup {Nothing}
        /\ entries'[t] \in Entry \cup {Nothing}
        /\ entries[t] # Nothing => entries[t].time <= seconds
        /\ \/ entries'[t] = entries[t]
           \/ entries'[t] = Nothing
           \/ entries[t] = Nothing /\ entries'[t].time = seconds
    BY DEF RevInv, Moves, EntryMoves, Listed
  <2>2. ASSUME NEW c, NEW d, Honest(c, entries[t], seconds), AnswerMoves(c, d, t)
        PROVE  Honest(d, entries'[t], seconds')
    <3>1. Honest(Nothing, entries[t], seconds)
      BY DEF Honest
    <3>2. Honest(d, entries[t], seconds)
      BY <2>2, <3>1, AnswerHonest DEF AnswerMoves
    <3>. QED  BY <1>1, <2>1, <3>2, HonestKept DEF RevInv
  <2>3. Listed(t)' => entries'[t].time <= seconds'
    BY <1>1, <2>1 DEF Listed, Entry, RevInv
  <2>. QED  BY <2>2, <2>3 DEF RevInv, Moves
<1>. QED  BY <1>1, <1>2 DEF RevInv, Moves

\* Every entry and every answer kept is honest, over all runs.
LEMMA RevInvariant == RSpec => []RevInv
<1>1. RInit => RevInv
  BY DEF RInit, RevInv, Listed, Honest
<1>2. RevInv /\ [RNext]_rvars => RevInv'
  BY StepMoves, MovesKeep
<1>. QED  BY <1>1, <1>2, PTL DEF RSpec

\* A "good" answer of the responder's cache or of a client is never used later
\* than one validity period after the token was revoked, and a token whose
\* revocation took effect is refused for ever after.
THEOREM RevocationIsForGood == RSpec => RevocationHolds
<1>1. RevInv => GoodBounded
  <2>. SUFFICES ASSUME RevInv, NEW t \in Ids, Listed(t)
                PROVE  /\ Answer(t).kind = "good" => seconds < entries[t].time + Validity
                       /\ StapleStands(t) /\ staple[t].kind = "good"
                            => seconds <= entries[t].time + Validity
    BY DEF GoodBounded
  <2>1. entries[t].time \in Nat /\ seconds \in Nat /\ entries[t] # Nothing
    BY DEF RevInv, Listed, Entry
  <2>4. StapleStands(t) /\ staple[t].kind = "good"
          => seconds <= entries[t].time + Validity
    BY <2>1, LifetimeAssumption DEF StapleStands, RevInv, Honest
  <2>5. Answer(t).kind = "good" => seconds < entries[t].time + Validity
    <3>1. CASE Stale(cache[t])
      BY <2>1, <3>1 DEF Answer, DetermineStatus, Listed
    <3>2. CASE ~Stale(cache[t])
      <4>1. Answer(t) = cache[t] /\ cache[t] # Nothing /\ seconds < cache[t].next
        BY <2>1, <3>2 DEF Answer, Stale, RevInv, Honest
      <4>. QED  BY <2>1, <4>1, LifetimeAssumption DEF RevInv, Honest
    <3>. QED  BY <3>1, <3>2
  <2>. QED  BY <2>4, <2>5
<1>2. ASSUME RevInv, [RNext]_rvars
      PROVE  \A t \in Ids : IsRevoked(t) => ~Accepted(t)'
  <2>. SUFFICES ASSUME NEW t \in Ids, IsRevoked(t)
                PROVE  ~Accepted(t)'
    OBVIOUS
  <2>1. Moves
    BY <1>2, StepMoves
  <2>2. entries[t] # Nothing /\ seconds >= entries[t].effective
        /\ entries[t] \in Entry /\ seconds \in Nat
    BY <1>2 DEF IsRevoked, Revoked, RevInv
  <2>3. CASE entries'[t] = entries[t]
    <3>1. seconds' >= entries'[t].effective
      BY <2>1, <2>2, <2>3 DEF Moves, Entry
    <3>. QED  BY <2>2, <2>3, <3>1 DEF Accepted, IsRevoked, Revoked
  <2>4. CASE TooOld(entries[t]) /\ seconds' = seconds
    <3>1. NotAfter[t] \in Nat /\ NotAfter[t] <= MaxAge /\ MaxAge \in Nat
      BY LifetimeAssumption
    <3>2. entries[t].time \in Nat /\ entries[t].time < seconds - MaxAge
      BY <2>2, <2>4 DEF TooOld, Entry
    <3>. QED  BY <2>2, <2>4, <3>1, <3>2 DEF Accepted
  <2>. QED  BY <2>1, <2>2, <2>3, <2>4 DEF Moves, EntryMoves
<1>3. RSpec => []GoodBounded
  BY <1>1, RevInvariant, PTL
<1>4. RSpec => StaysRefused
  BY <1>2, RevInvariant, PTL DEF RSpec, StaysRefused
<1>. QED  BY <1>3, <1>4 DEF RevocationHolds

-------------------------------------------------------------------------------
(* Cross-domain delegation. A chain, from its root, is the value of a         *)
(* recursive function.                                                        *)

\* Each of 1 .. n has a smaller parent.
Forest(s, n) == \A i \in 1 .. n : s[i].parent \in 0 .. (i - 1)

Grown(g, s, n) == [i \in 0 .. n |-> IF i = 0 THEN << >> ELSE Append(g[s[i].parent], i)]

\* A table of such paths exists: no least k is without one.
LEMMA GrownExists ==
  ASSUME NEW s, NEW n \in Nat, Forest(s, n)
  PROVE  \E g : g = Grown(g, s, n)
<1>. DEFINE C == {k \in 0 .. n : ~ \E g : g = Grown(g, s, k)}
<1>1. SUFFICES ASSUME C # {} PROVE FALSE
  OBVIOUS
<1>2. PICK k \in C : \A m \in C : k =< m
  <2>1. C \in SUBSET Nat
    OBVIOUS
  <2>. HIDE DEF C
  <2>. QED  BY <1>1, <2>1, LeastExists
<1>3. CASE k = 0
  <2>. DEFINE g == [i \in 0 .. 0 |-> << >>]
  <2>1. g = Grown(g, s, 0)
    BY DEF Grown
  <2>. QED  BY <1>2, <1>3, <2>1
<1>4. CASE k # 0
  <2>1. k - 1 \in 0 .. n /\ k - 1 \notin C
    BY <1>2, <1>4
  <2>2. PICK g : g = Grown(g, s, k - 1)
    BY <2>1
  <2>. DEFINE h == [i \in 0 .. k |-> IF i = k THEN Append(g[s[k].parent], k) ELSE g[i]]
  <2>3. ASSUME NEW i \in 0 .. k
        PROVE  h[i] = Grown(h, s, k)[i]
    <3>1. CASE i = 0
      <4>1. g[0] = << >>
        <5>1. 0 \in 0 .. (k - 1) /\ Grown(g, s, k - 1)[0] = << >>
          <6>1. 0 \in 0 .. (k - 1)
            BY <1>4, <2>1
          <6>. QED  BY <6>1 DEF Grown
        <5>. QED  BY <2>2, <5>1, Zenon
      <4>2. h[0] = << >>
        BY <1>4, <3>1, <4>1
      <4>3. Grown(h, s, k)[0] = << >>
        BY <3>1 DEF Grown
      <4>. QED  BY <3>1, <4>2, <4>3
    <3>2. CASE i # 0
      <4>1. s[i].parent \in 0 .. (i - 1) /\ s[i].parent \in 0 .. k /\ s[i].parent # k
        BY <1>2, <3>2 DEF Forest
      <4>2. h[s[i].parent] = g[s[i].parent]
        BY <4>1
      <4>3. h[i] = Append(g[s[i].parent], i)
        <5>1. CASE i = k
          BY <5>1
        <5>2. CASE i # k
          <6>1. i \in 0 .. (k - 1)
            BY <1>2, <5>2
          <6>. QED  BY <2>2, <3>2, <5>2, <6>1 DEF Grown
        <5>. QED  BY <5>1, <5>2
      <4>. HIDE DEF h
      <4>. QED  BY <3>2, <4>2, <4>3 DEF Grown
    <3>. QED  BY <3>1, <3>2
  <2>4. h = Grown(h, s, k)
    <3>1. h = [i \in 0 .. k |-> h[i]]
      OBVIOUS
    <3>2. Grown(h, s, k) = [i \in 0 .. k |-> Grown(h, s, k)[i]]
      BY DEF Grown
    <3>. HIDE DEF h
    <3>. QED  BY <2>3, <3>1, <3>2
  <2>. QED  BY <1>2, <2>4
<1>. QED  BY <1>3, <1>4

\* The paths of a forest are sequences of its nodes, in ascending order.
LEMMA GrownPaths ==
  ASSUME NEW s, NEW n \in Nat, Forest(s, n), NEW g, g = Grown(g, s, n)
  PROVE  /\ g[0] = << >>
         /\ \A i \in 1 .. n : g[i] = Append(g[s[i].parent], i)
         /\ \A i \in 0 .. n : g[i] \in Seq(1 .. n)
<1>1. g[0] = << >> /\ \A i \in 1 .. n : g[i] = Append(g[s[i].parent], i)
  <2>1. \A i \in 0 .. n : Grown(g, s, n)[i] = IF i = 0 THEN << >> ELSE Append(g[s[i].parent], i)
    BY DEF Grown
  <2>2. \A i \in 0 .. n : g[i] = IF i = 0 THEN << >> ELSE Append(g[s[i].parent], i)
    BY <2>1, Zenon
  <2>3. 0 \in 0 .. n /\ \A i \in 1 .. n : i \in 0 .. n /\ i # 0
    OBVIOUS
  <2>. QED  BY <2>2, <2>3, Zenon
<1>2. \A i \in 0 .. n : g[i] \in Seq(1 .. n)
  <2>. DEFINE C == {k \in 0 .. n : g[k] \notin Seq(1 .. n)}
  <2>1. SUFFICES ASSUME C # {} PROVE FALSE
    OBVIOUS
  <2>2. PICK k \in C : \A m \in C : k =< m
    <3>1. C \in SUBSET Nat
      OBVIOUS
    <3>. HIDE DEF C
    <3>. QED  BY <2>1, <3>1, LeastExists
  <2>3. g[k] \notin Seq(1 .. n) /\ k \in 0 .. n
    BY <2>2
  <2>. HIDE DEF C
  <2>4. k # 0
    <3>1. << >> \in Seq(1 .. n)
      OBVIOUS
    <3>. QED  BY <1>1, <2>3, <3>1
  <2>5. s[k].parent \in 0 .. n /\ s[k].parent \notin C
    BY <2>2, <2>3, <2>4 DEF Forest
  <2>6. g[s[k].parent] \in Seq(1 .. n)
    BY <2>5 DEF C
  <2>7. Append(g[s[k].parent], k) \in Seq(1 .. n)
    BY <2>3, <2>4, <2>6
  <2>8. k \in 1 .. n
    BY <2>3, <2>4
  <2>. QED  BY <1>1, <2>3, <2>7, <2>8, Zenon
<1>. QED  BY <1>1, <1>2

-------------------------------------------------------------------------------
(* A token that crosses to another owner.                                     *)

Link == [verbs : SUBSET ChainVerbs, expiry : Nat, depth : Int, length : Nat,
         parent : Nat, over : Nat]
Endorsement == [token : Nat, expiry : Nat]

CTyped ==
  /\ hour \in Nat
  /\ links \in Seq(Link)
  /\ endorsements \in Seq(Endorsement)
  /\ acceptances \subseteq [token : DOMAIN links, endorsement : DOMAIN endorsements]

DomainInv == CTyped /\ Forest(links, Len(links))

\* The chain of a token ends with it and goes on from the chain of its parent.
LEMMA ChainsArePaths ==
  ASSUME DomainInv
  PROVE  /\ ChainOf[0] = << >>
         /\ \A i \in 1 .. Len(links) : ChainOf[i] = Append(ChainOf[links[i].parent], i)
         /\ \A i \in 0 .. Len(links) : ChainOf[i] \in Seq(1 .. Len(links))
<1>. DEFINE n == Len(links)
<1>1. n \in Nat /\ Forest(links, n)
  BY DEF DomainInv, CTyped
<1>2. ChainOf = CHOOSE g : g = Grown(g, links, n)
  BY DEF ChainOf, Grown
<1>. HIDE DEF n
<1>3. ChainOf = Grown(ChainOf, links, n)
  <2>1. \E g : g = Grown(g, links, n)
    BY <1>1, GrownExists
  <2>. QED  BY <1>2, <2>1, Zenon
<1>4. /\ ChainOf[0] = << >>
      /\ \A i \in 1 .. n : ChainOf[i] = Append(ChainOf[links[i].parent], i)
      /\ \A i \in 0 .. n : ChainOf[i] \in Seq(1 .. n)
  <2>. HIDE DEF ChainOf
  <2>. QED  BY <1>1, <1>3, GrownPaths
<1>. QED  BY <1>4 DEF n

\* There is no token at first.
LEMMA DomainInit ==
  CInit => DomainInv
<1>. SUFFICES ASSUME CInit PROVE DomainInv
  OBVIOUS
<1>1. hour = 0 /\ links = << >> /\ endorsements = << >> /\ acceptances = {}
  BY DEF CInit
<1>. QED  BY <1>1 DEF DomainInv, CTyped, Forest

\* A new token descends from one there is.
LEMMA LinkAdded ==
  ASSUME DomainInv,
         NEW t \in Link,
         t.parent =< Len(links), links' = Append(links, t),
         UNCHANGED <<hour, endorsements, acceptances>>
  PROVE  DomainInv'
<1>. DEFINE n == Len(links)
<1>1. /\ n \in Nat /\ DOMAIN links = 1 .. n /\ Forest(links, n)
      /\ links \in Seq(Link)
  BY DEF DomainInv, CTyped
<1>2. /\ DOMAIN links' = 1 .. (n + 1) /\ Len(links') = n + 1 /\ links'[n + 1] = t
      /\ \A i \in 1 .. n : links'[i] = links[i]
      /\ links' \in Seq(Link)
  BY <1>1
<1>. HIDE DEF n
<1>3. DOMAIN links \subseteq DOMAIN links'
  BY <1>1, <1>2
<1>4. CTyped'
  BY <1>2, <1>3 DEF DomainInv, CTyped
<1>5. ASSUME NEW i \in 1 .. (n + 1)
      PROVE  links'[i].parent \in 0 .. (i - 1)
  <2>1. CASE i = n + 1
    <3>1. t.parent \in Nat /\ t.parent =< n
      BY DEF n, Link
    <3>. QED  BY <1>1, <1>2, <2>1, <3>1
  <2>2. CASE i # n + 1
    <3>1. i \in 1 .. n
      BY <1>1, <2>2
    <3>2. links'[i] = links[i]
      BY <1>2, <3>1
    <3>. QED  BY <1>1, <3>1, <3>2 DEF Forest
  <2>. QED  BY <2>1, <2>2
<1>. QED  BY <1>2, <1>4, <1>5 DEF DomainInv, Forest

\* A step keeps every parent earlier than its child.
LEMMA DomainStep ==
  DomainInv /\ [CNext]_cvars => DomainInv'
<1>. SUFFICES ASSUME DomainInv, [CNext]_cvars PROVE DomainInv'
  OBVIOUS
<1>. USE DomainAssumption
<1>0. CTyped /\ links \in Seq(Link) /\ Len(links) \in Nat /\ DOMAIN links = 1 .. Len(links)
  BY DEF DomainInv, CTyped
<1>1. ASSUME NEW expiry \in TokenExpiries, CreateRoot(expiry)
      PROVE  DomainInv'
  <2>. DEFINE t == [verbs |-> ChainVerbs, expiry |-> expiry, depth |-> ChainDepth,
                    length |-> 0, parent |-> 0, over |-> 0]
  <2>1. t \in Link /\ t.parent = 0
    BY DEF Link
  <2>2. links = << >> /\ links' = << t >> /\ UNCHANGED <<hour, endorsements, acceptances>>
    BY <1>1 DEF CreateRoot
  <2>3. links' = Append(links, t)
    BY <2>2
  <2>. HIDE DEF t
  <2>. QED  BY <1>0, <2>1, <2>2, <2>3, LinkAdded
<1>2. ASSUME NEW parent \in DOMAIN links, NEW verbs \in SUBSET ChainVerbs,
             NEW expiry \in TokenExpiries, NEW aggregate \in ToSet(ChainOf[parent]),
             AttenuateAggregate(parent, verbs, expiry, aggregate)
      PROVE  DomainInv'
  <2>. DEFINE p == links[parent]
              t == [verbs |-> verbs, expiry |-> Earlier(expiry, p.expiry),
                    depth |-> p.depth - 1, length |-> p.length + 1,
                    parent |-> parent, over |-> aggregate]
  <2>1. p \in Link
    BY <1>0
  <2>2. aggregate \in Nat
    <3>1. ChainOf[parent] \in Seq(1 .. Len(links))
      <4>1. parent \in 0 .. Len(links)
        BY <1>0
      <4>2. \A i \in 0 .. Len(links) : ChainOf[i] \in Seq(1 .. Len(links))
        BY ChainsArePaths
      <4>. QED  BY <4>1, <4>2
    <3>. QED  BY <3>1 DEF ToSet
  <2>3. Earlier(expiry, p.expiry) \in Nat
    BY <2>1 DEF Earlier, Link
  <2>4. links' = Append(links, t) /\ UNCHANGED <<hour, endorsements, acceptances>>
    BY <1>2 DEF AttenuateAggregate
  <2>5. t \in Link /\ t.parent = parent
    <3>1. p.depth \in Int /\ p.length \in Nat /\ parent \in Nat
      BY <1>0, <2>1 DEF Link
    <3>2. p.depth - 1 \in Int /\ p.length + 1 \in Nat
      BY <3>1
    <3>. HIDE DEF p
    <3>. QED  BY <2>2, <2>3, <3>1, <3>2 DEF Link
  <2>6. parent =< Len(links)
    BY <1>0
  <2>. HIDE DEF t
  <2>. QED  BY <2>4, <2>5, <2>6, LinkAdded
<1>3. ASSUME NEW token \in DOMAIN links, CreateEndorsement(token)
      PROVE  DomainInv'
  <2>. DEFINE x == [token |-> token, expiry |-> hour + EndorsementValidity]
  <2>1. x \in Endorsement
    BY <1>0 DEF CTyped, Endorsement
  <2>2. endorsements' = Append(endorsements, x) /\ UNCHANGED <<hour, links, acceptances>>
    BY <1>3 DEF CreateEndorsement
  <2>. HIDE DEF x
  <2>3. /\ endorsements' \in Seq(Endorsement)
        /\ DOMAIN endorsements \subseteq DOMAIN endorsements'
    BY <1>0, <2>1, <2>2 DEF CTyped
  <2>. QED  BY <2>2, <2>3 DEF DomainInv, CTyped
<1>4. ASSUME NEW token \in DOMAIN links, RevokeDelegation(token)
      PROVE  DomainInv'
  BY <1>4 DEF RevokeDelegation, DomainInv, CTyped
<1>5. ASSUME NEW token \in DOMAIN links, NEW e \in DOMAIN endorsements,
             CreateAcceptance(token, e)
      PROVE  DomainInv'
  BY <1>5 DEF CreateAcceptance, DomainInv, CTyped
<1>6. CASE CTick
  BY <1>6 DEF CTick, DomainInv, CTyped
<1>7. CASE UNCHANGED cvars
  BY <1>7 DEF cvars, DomainInv, CTyped
<1>. QED  BY <1>1, <1>2, <1>3, <1>4, <1>5, <1>6, <1>7 DEF CNext

\* A chain that verifies narrows from its root to its last token.
LEMMA ChainNarrowsDown ==
  ASSUME NEW n \in Nat, NEW c \in Seq(1 .. n), c # << >>, AggregateVerifies(c)
  PROVE  \A j \in DOMAIN c : links[Last(c)].verbs \subseteq links[c[j]].verbs
<1>. DEFINE C == {j \in 1 .. Len(c) : ~ links[Last(c)].verbs \subseteq links[c[j]].verbs}
<1>1. Len(c) \in Nat /\ Len(c) >= 1 /\ DOMAIN c = 1 .. Len(c)
  OBVIOUS
<1>2. SUFFICES ASSUME C # {} PROVE FALSE
  BY <1>1
<1>3. Max(C) \in C /\ \A x \in C : x =< Max(C)
  BY <1>1, <1>2, LastExists
<1>. DEFINE j == Max(C)
<1>4. j # Len(c)
  BY <1>3 DEF Last
<1>. HIDE DEF j
<1>5. j \in 1 .. Len(c) /\ j \in C /\ \A x \in C : x =< j
  BY <1>3 DEF j
<1>6. j + 1 \in 2 .. Len(c) /\ j + 1 \in 1 .. Len(c) /\ (j + 1) - 1 = j /\ ~ (j + 1 =< j)
  <2>. DEFINE m == Len(c)
  <2>1. m \in Nat /\ j \in 1 .. m /\ j # m
    BY <1>1, <1>4, <1>5
  <2>. HIDE DEF m
  <2>2. j + 1 \in 2 .. m /\ j + 1 \in 1 .. m /\ (j + 1) - 1 = j /\ ~ (j + 1 =< j)
    BY <2>1
  <2>. QED  BY <2>2 DEF m
<1>7. j + 1 \notin C
  BY <1>5, <1>6
<1>8. links[Last(c)].verbs \subseteq links[c[j + 1]].verbs
  BY <1>6, <1>7
<1>9. links[c[j + 1]].verbs \subseteq links[c[j]].verbs
  BY <1>6 DEF AggregateVerifies, LinkHolds
<1>. QED  BY <1>5, <1>8, <1>9

\* Parts of different negotiations never add up to a delegation across owners
\* (verify_cross_domain_delegation): whatever was signed, endorsed, accepted and
\* renewed, the target owner accepted the token under an endorsement of it that
\* lasts, and the token allows what its whole chain allows.
THEOREM BothOwnersAlwaysAgree == CSpec => []BothOwnersAgree
<1>1. ASSUME DomainInv
      PROVE  BothOwnersAgree
  <2>. SUFFICES ASSUME NEW token \in DOMAIN links, NEW e \in DOMAIN endorsements,
                       NEW acceptance \in acceptances, NEW source \in Bindings,
                       NEW target \in Bindings,
                       CrossesDomains(token, source, e, target, acceptance)
                PROVE  /\ \E agreed \in acceptances :
                            /\ agreed.token = token
                            /\ endorsements[agreed.endorsement].token = token
                            /\ hour < endorsements[agreed.endorsement].expiry
                       /\ \A a \in ToSet(ChainOf[token]) :
                            links[token].verbs \subseteq links[a].verbs /\ hour < links[a].expiry
    BY DEF BothOwnersAgree
  <2>. DEFINE c == ChainOf[token]
              n == Len(links)
  <2>1. /\ hour \in Nat /\ n \in Nat /\ DOMAIN links = 1 .. n
        /\ \A i \in 1 .. n : links[i].expiry \in Nat
        /\ endorsements[e].expiry \in Nat
    <3>1. hour \in Nat /\ links \in Seq(Link) /\ endorsements \in Seq(Endorsement)
      BY <1>1 DEF DomainInv, CTyped
    <3>2. n \in Nat /\ DOMAIN links = 1 .. n /\ \A i \in 1 .. n : links[i] \in Link
      BY <3>1
    <3>3. endorsements[e] \in Endorsement
      BY <3>1
    <3>. QED  BY <3>1, <3>2, <3>3 DEF Link, Endorsement
  <2>2. AggregateVerifies(c) /\ EndorsementVerifies(e, token)
        /\ AcceptanceVerifies(acceptance, token, e)
    BY DEF CrossesDomains
  <2>3. /\ acceptance.token = token /\ acceptance.endorsement = e
        /\ endorsements[e].token = token /\ hour < endorsements[e].expiry
    BY <2>1, <2>2 DEF EndorsementVerifies, AcceptanceVerifies, Past
  <2>4. c \in Seq(1 .. n) /\ c = Append(ChainOf[links[token].parent], token)
        /\ ChainOf[links[token].parent] \in Seq(1 .. n)
    <3>1. token \in 1 .. n /\ token \in 0 .. n /\ links[token].parent \in 0 .. n
      BY <1>1, <2>1 DEF DomainInv, Forest
    <3>. QED  BY <1>1, <3>1, ChainsArePaths
  <2>5. Last(c) = token /\ c # << >>
    <3>. DEFINE d == ChainOf[links[token].parent]
    <3>1. d \in Seq(1 .. n) /\ token \in 1 .. n
      BY <2>1, <2>4
    <3>2. c = Append(d, token)
      BY <2>4
    <3>. HIDE DEF c, d, n
    <3>3. Len(c) = Len(d) + 1 /\ c[Len(d) + 1] = token
      BY <3>1, <3>2
    <3>. QED  BY <3>1, <3>2, <3>3 DEF Last
  <2>. HIDE DEF c, n
  <2>6. \A j \in DOMAIN c : links[token].verbs \subseteq links[c[j]].verbs
    BY <2>1, <2>2, <2>4, <2>5, ChainNarrowsDown
  <2>7. \A j \in DOMAIN c : hour < links[c[j]].expiry
    <3>. SUFFICES ASSUME NEW j \in DOMAIN c PROVE hour < links[c[j]].expiry
      OBVIOUS
    <3>1. c[j] \in 1 .. n
      <4>. DEFINE S == 1 .. n
      <4>1. c \in Seq(S)
        BY <2>4
      <4>. HIDE DEF S
      <4>2. c[j] \in S
        BY <4>1
      <4>. QED  BY <4>2 DEF S
    <3>. QED  BY <2>1, <2>2, <3>1 DEF AggregateVerifies, Past
  <2>. QED  BY <2>3, <2>6, <2>7 DEF ToSet, c
<1>. QED  BY <1>1, DomainInit, DomainStep, PTL DEF CSpec

-------------------------------------------------------------------------------
(* The bridges.                                                               *)

Verbs == (UNION Skills) \cup {"execute"}
TaskToken == [verbs : SUBSET Verbs, depth : Int, until : Int]
Task == [parent : Nat, token : TaskToken, state : {"submitted", "canceled"}]
Issued == [by : Nat, tool : McpTools, verbs : AskedVerbs \cup {ToolVerbs[t] : t \in McpTools},
           until : Int]
Call == [token : Nat, tool : McpTools, identity : Nat, at : Int]

BTyped ==
  /\ minute \in Int
  /\ bridge \in [connected : BOOLEAN, identity : Nat, tools : SUBSET McpTools]
  /\ identities \in Nat
  /\ issued \in Seq(Issued)
  /\ calls \in Seq(Call)
  /\ tasks \in Seq(Task)

\* Identities go up, and a call is made with a token of the one at the time.
Generations ==
  /\ bridge.identity =< identities
  /\ \A i \in DOMAIN calls :
       /\ calls[i].token \in DOMAIN issued
       /\ issued[calls[i].token].by =< bridge.identity
  /\ OldTokensStayOut

\* A token is fresh or came down from the token of the parent task.
Descends(s, t) ==
  LET token == s[t].token parent == s[t].parent
  IN  token # NoTaskToken =>
        /\ token.depth \in 0 .. RootDepth
        /\ \/ token.depth = RootDepth
           \/ /\ parent # 0
              /\ s[parent].token # NoTaskToken
              /\ s[parent].token.depth = token.depth + 1
              /\ token.verbs \subseteq s[parent].token.verbs
              /\ token.until = s[parent].token.until
Descent ==
  /\ \A t \in 1 .. Len(tasks) : tasks[t].parent \in 0 .. (t - 1)
  /\ \A t \in 1 .. Len(tasks) : Descends(tasks, t)

BridgeInv == BTyped /\ Generations /\ Descent

\* The mark of a task without a token is typed, and is no token.
LEMMA NoTokenTyped ==
  /\ NoTaskToken \in TaskToken /\ NoTaskToken.depth = -1
  /\ \A skill \in Skills : SkillVerbs(skill) \in SUBSET Verbs
<1>1. NoTaskToken \in TaskToken /\ NoTaskToken.depth = -1
  BY DEF NoTaskToken, TaskToken
<1>2. \A skill \in Skills : SkillVerbs(skill) = {"execute"} \/ SkillVerbs(skill) = skill
  BY DEF SkillVerbs
<1>3. \A skill \in Skills : skill \subseteq Verbs
  BY DEF Verbs
<1>4. {"execute"} \subseteq Verbs
  BY DEF Verbs
<1>. QED  BY <1>1, <1>2, <1>3, <1>4

\* Neither bridge has issued or delegated anything at first.
LEMMA BridgeInit ==
  BInit => BridgeInv
<1>. SUFFICES ASSUME BInit PROVE BridgeInv
  OBVIOUS
<1>1. /\ minute = 0 /\ identities = 0 /\ issued = << >> /\ calls = << >> /\ tasks = << >>
      /\ bridge = [connected |-> FALSE, identity |-> 0, tools |-> {}]
  BY DEF BInit
<1>. QED  BY <1>1 DEF BridgeInv, BTyped, Generations, Descent, OldTokensStayOut

\* A task is recorded.
LEMMA TaskAdded ==
  ASSUME BridgeInv, NEW t \in Task, t.parent =< Len(tasks), tasks' = Append(tasks, t),
         t.token # NoTaskToken =>
           /\ t.token.depth \in 0 .. RootDepth
           /\ \/ t.token.depth = RootDepth
              \/ /\ t.parent # 0
                 /\ tasks[t.parent].token # NoTaskToken
                 /\ tasks[t.parent].token.depth = t.token.depth + 1
                 /\ t.token.verbs \subseteq tasks[t.parent].token.verbs
                 /\ t.token.until = tasks[t.parent].token.until,
         UNCHANGED <<minute, bridge, identities, issued, calls>>
  PROVE  BridgeInv'
<1>. DEFINE n == Len(tasks)
<1>1. n \in Nat /\ DOMAIN tasks = 1 .. n /\ tasks \in Seq(Task) /\ t.parent \in Nat
  BY DEF BridgeInv, BTyped, Task
<1>2. /\ DOMAIN tasks' = 1 .. (n + 1) /\ Len(tasks') = n + 1 /\ tasks'[n + 1] = t
      /\ \A i \in 1 .. n : tasks'[i] = tasks[i]
      /\ tasks' \in Seq(Task)
  BY <1>1
<1>3. t.parent =< n
  OBVIOUS
<1>. HIDE DEF n
<1>4. BTyped'
  BY <1>2 DEF BridgeInv, BTyped
<1>5. Generations'
  BY DEF BridgeInv, Generations, OldTokensStayOut
<1>6. ASSUME NEW i \in 1 .. (n + 1)
      PROVE  tasks'[i].parent \in 0 .. (i - 1) /\ Descends(tasks', i)
  <2>1. CASE i = n + 1
    <3>1. tasks'[i].parent \in 0 .. (i - 1)
      BY <1>1, <1>2, <1>3, <2>1
    <3>2. t.parent # 0 => tasks'[t.parent] = tasks[t.parent]
      BY <1>1, <1>2, <1>3
    <3>3. tasks'[i] = t
      BY <1>2, <2>1
    <3>. QED  BY <3>1, <3>2, <3>3 DEF Descends
  <2>2. CASE i # n + 1
    <3>1. i \in 1 .. n
      BY <1>1, <2>2
    <3>2. tasks[i].parent \in 0 .. (i - 1) /\ Descends(tasks, i)
      BY <3>1 DEF BridgeInv, Descent, n
    <3>3. tasks'[i] = tasks[i]
      BY <1>2, <3>1
    <3>4. tasks[i].parent # 0 => tasks'[tasks[i].parent] = tasks[tasks[i].parent]
      <4>. DEFINE p == tasks[i].parent
      <4>1. p # 0 => p \in 1 .. n
        BY <1>1, <3>1, <3>2
      <4>. HIDE DEF p
      <4>2. p # 0 => tasks'[p] = tasks[p]
        BY <1>2, <4>1
      <4>. QED  BY <4>2 DEF p
    <3>. QED  BY <3>2, <3>3, <3>4 DEF Descends
  <2>. QED  BY <2>1, <2>2
<1>. QED  BY <1>2, <1>4, <1>5, <1>6 DEF BridgeInv, Descent

\* A root task has a fresh token, or none.
LEMMA SendStep ==
  ASSUME BridgeInv,
         \/ \E skill \in Skills, until \in 1 .. MaxMinutes : SendRootTask(skill, until)
         \/ SendBareTask
  PROVE  BridgeInv'
<1>1. PICK token \in TaskToken :
        /\ tasks' = Append(tasks, Recorded(0, token))
        /\ token # NoTaskToken => token.depth = RootDepth
        /\ UNCHANGED <<minute, bridge, identities, issued, calls>>
  <2>1. ASSUME NEW skill \in Skills, NEW until \in 1 .. MaxMinutes,
               SendRootTask(skill, until)
        PROVE  \E token \in TaskToken :
                 /\ tasks' = Append(tasks, Recorded(0, token))
                 /\ token # NoTaskToken => token.depth = RootDepth
                 /\ UNCHANGED <<minute, bridge, identities, issued, calls>>
    <3>. DEFINE token == [verbs |-> SkillVerbs(skill), depth |-> RootDepth, until |-> until]
    <3>1. token \in TaskToken /\ token.depth = RootDepth
      BY BridgeAssumption, NoTokenTyped DEF TaskToken
    <3>2. tasks' = Append(tasks, Recorded(0, token))
          /\ UNCHANGED <<minute, bridge, identities, issued, calls>>
      BY <2>1 DEF SendRootTask
    <3>. HIDE DEF token
    <3>. QED  BY <3>1, <3>2
  <2>2. CASE SendBareTask
    BY <2>2, NoTokenTyped DEF SendBareTask
  <2>. QED  BY <2>1, <2>2
<1>2. Recorded(0, token) \in Task /\ Recorded(0, token).parent = 0
      /\ Recorded(0, token).token = token
  BY DEF Recorded, Task
<1>3. 0 =< Len(tasks) /\ RootDepth \in 0 .. RootDepth
  BY BridgeAssumption DEF BridgeInv, BTyped
<1>. DEFINE t == Recorded(0, token)
<1>. HIDE DEF t
<1>. QED  BY <1>1, <1>2, <1>3, TaskAdded DEF t

\* A subtask descends from the task it is of.
LEMMA SubtaskStep ==
  ASSUME BridgeInv, NEW parent \in DOMAIN tasks, NEW skill \in Skills,
         NEW until \in 1 .. MaxMinutes, SendSubtask(parent, skill, until)
  PROVE  BridgeInv'
<1>. DEFINE above == tasks[parent].token
            given == IF above # NoTaskToken THEN Delegated(above, skill)
                     ELSE [verbs |-> SkillVerbs(skill), depth |-> RootDepth, until |-> until]
            t == Recorded(parent, given)
<1>1. /\ tasks' = Append(tasks, t)
      /\ above # NoTaskToken => MayDelegateTask(above)
      /\ UNCHANGED <<minute, bridge, identities, issued, calls>>
  BY DEF SendSubtask
<1>2. /\ parent \in 1 .. Len(tasks) /\ parent \in Nat /\ parent =< Len(tasks) /\ parent # 0
      /\ tasks[parent] \in Task
  BY DEF BridgeInv, BTyped
<1>3. above \in TaskToken /\ (above # NoTaskToken => above.depth \in 0 .. RootDepth)
  BY <1>2 DEF Task, BridgeInv, Descent, Descends
<1>4. /\ given \in TaskToken
      /\ \/ given.depth = RootDepth
         \/ /\ above # NoTaskToken /\ given.depth \in 0 .. RootDepth
            /\ above.depth = given.depth + 1
            /\ given.verbs \subseteq above.verbs /\ given.until = above.until
  <2>. USE BridgeAssumption
  <2>. HIDE DEF above
  <2>1. CASE above # NoTaskToken
    <3>1. above.depth \in 1 .. RootDepth
      BY <1>1, <1>3, <2>1 DEF MayDelegateTask
    <3>2. above.verbs \in SUBSET Verbs /\ above.until \in Int
      BY <1>3 DEF TaskToken
    <3>3. given = [verbs |-> SkillVerbs(skill) \cap above.verbs, depth |-> above.depth - 1,
                   until |-> above.until]
      BY <2>1 DEF Delegated
    <3>. HIDE DEF given
    <3>4. SkillVerbs(skill) \cap above.verbs \in SUBSET Verbs
          /\ above.depth - 1 \in 0 .. RootDepth /\ above.depth = (above.depth - 1) + 1
      BY <3>1, <3>2
    <3>5. given \in TaskToken
      BY <3>2, <3>3, <3>4 DEF TaskToken
    <3>. QED  BY <2>1, <3>3, <3>4, <3>5
  <2>2. CASE above = NoTaskToken
    BY <2>2, NoTokenTyped DEF TaskToken
  <2>. QED  BY <2>1, <2>2
<1>. HIDE DEF given
<1>5. t \in Task /\ t.parent = parent /\ t.token = given
  BY <1>2, <1>4 DEF Task, Recorded
<1>6. RootDepth \in 0 .. RootDepth
  BY BridgeAssumption
<1>. HIDE DEF t
<1>. QED  BY <1>1, <1>2, <1>4, <1>5, <1>6, TaskAdded

\* Canceling a task leaves its token and its parent.
LEMMA CancelStep ==
  ASSUME BridgeInv, NEW task \in DOMAIN tasks, CancelTask(task)
  PROVE  BridgeInv'
<1>. DEFINE n == Len(tasks)
<1>1. n \in Nat /\ DOMAIN tasks = 1 .. n /\ tasks \in Seq(Task)
      /\ \A i \in 1 .. n : tasks[i] \in Task
  BY DEF BridgeInv, BTyped
<1>. DEFINE x == [tasks[task] EXCEPT !.state = "canceled"]
<1>2. x \in Task /\ x.parent = tasks[task].parent /\ x.token = tasks[task].token
  BY <1>1 DEF Task
<1>3. tasks' = [tasks EXCEPT ![task] = x]
      /\ UNCHANGED <<minute, bridge, identities, issued, calls>>
  BY DEF CancelTask
<1>. HIDE DEF x
<1>4. /\ tasks' \in Seq(Task) /\ Len(tasks') = n
      /\ \A i \in 1 .. n : /\ tasks'[i].parent = tasks[i].parent
                           /\ tasks'[i].token = tasks[i].token
  BY <1>1, <1>2, <1>3
<1>5. BTyped'
  BY <1>3, <1>4 DEF BridgeInv, BTyped
<1>6. Generations'
  BY <1>3 DEF BridgeInv, Generations, OldTokensStayOut
<1>. HIDE DEF n
<1>7. ASSUME NEW i \in 1 .. n
      PROVE  tasks'[i].parent \in 0 .. (i - 1) /\ Descends(tasks', i)
  <2>1. tasks[i].parent \in 0 .. (i - 1) /\ Descends(tasks, i)
    BY DEF BridgeInv, Descent, n
  <2>2. tasks'[i].parent = tasks[i].parent /\ tasks'[i].token = tasks[i].token
    BY <1>4
  <2>. DEFINE p == tasks[i].parent
  <2>3. p # 0 => p \in 1 .. n
    BY <1>1, <2>1
  <2>. HIDE DEF p
  <2>4. p # 0 => tasks'[p].token = tasks[p].token
    BY <1>4, <2>3
  <2>. QED  BY <2>1, <2>2, <2>4 DEF p, Descends
<1>. QED  BY <1>4, <1>5, <1>6, <1>7 DEF BridgeInv, Descent

\* The steps of the MCP bridge that leave tokens and calls alone.
LEMMA McpQuietStep ==
  ASSUME BridgeInv, UNCHANGED <<issued, calls, tasks>>,
         minute' \in Int, identities' \in Nat, identities =< identities',
         bridge' \in [connected : BOOLEAN, identity : Nat, tools : SUBSET McpTools],
         bridge.identity =< bridge'.identity, bridge'.identity =< identities'
  PROVE  BridgeInv'
<1>1. BTyped'
  BY DEF BridgeInv, BTyped
<1>2. Generations'
  <2>1. \A i \in DOMAIN calls : calls[i].token \in DOMAIN issued
                                /\ issued[calls[i].token].by =< bridge.identity
    BY DEF BridgeInv, Generations
  <2>2. bridge.identity \in Nat /\ bridge'.identity \in Nat
    BY DEF BridgeInv, BTyped
  <2>3. \A k \in DOMAIN issued : issued[k].by \in Nat
    <3>1. \A k \in DOMAIN issued : issued[k] \in Issued
      BY DEF BridgeInv, BTyped
    <3>. QED  BY <3>1 DEF Issued
  <2>4. \A i \in DOMAIN calls : issued[calls[i].token].by =< bridge'.identity
    BY <2>1, <2>2, <2>3
  <2>. QED  BY <2>1, <2>4 DEF BridgeInv, Generations, OldTokensStayOut
<1>3. Descent'
  BY DEF BridgeInv, Descent, Descends
<1>. QED  BY <1>1, <1>2, <1>3 DEF BridgeInv

\* A token is issued under the identity of the bridge, the newest.
LEMMA IssueStep ==
  ASSUME BridgeInv, NEW tool \in McpTools, NEW verbs \in AskedVerbs,
         NEW until \in 1 .. MaxMinutes, IssueCapabilityToken(tool, verbs, until)
  PROVE  BridgeInv'
<1>. DEFINE x == [by |-> bridge.identity, tool |-> tool, until |-> until,
                  verbs |-> IF verbs = {} THEN ToolVerbs[tool] ELSE verbs]
            n == Len(issued)
<1>1. x \in Issued
  <2>1. bridge.identity \in Nat
    BY DEF BridgeInv, BTyped
  <2>2. (IF verbs = {} THEN ToolVerbs[tool] ELSE verbs)
        \in AskedVerbs \cup {ToolVerbs[t] : t \in McpTools}
    OBVIOUS
  <2>. QED  BY <2>1, <2>2 DEF Issued
<1>2. issued' = Append(issued, x) /\ UNCHANGED <<minute, bridge, identities, calls, tasks>>
  BY DEF IssueCapabilityToken
<1>3. n \in Nat /\ DOMAIN issued = 1 .. n /\ issued \in Seq(Issued)
  BY DEF BridgeInv, BTyped
<1>. HIDE DEF x
<1>4. /\ issued' \in Seq(Issued) /\ DOMAIN issued' = 1 .. (n + 1)
      /\ \A i \in 1 .. n : issued'[i] = issued[i]
  BY <1>1, <1>2, <1>3
<1>. HIDE DEF n
<1>5. /\ DOMAIN issued \subseteq DOMAIN issued'
      /\ \A i \in DOMAIN issued : issued'[i] = issued[i]
  BY <1>3, <1>4
<1>6. BTyped'
  BY <1>2, <1>4 DEF BridgeInv, BTyped
<1>7. Generations'
  <2>1. \A i \in DOMAIN calls : calls[i].token \in DOMAIN issued
    BY DEF BridgeInv, Generations
  <2>2. \A i \in DOMAIN calls' : /\ calls'[i].token \in DOMAIN issued'
                                 /\ issued'[calls'[i].token] = issued[calls[i].token]
    BY <1>2, <1>5, <2>1
  <2>. QED  BY <1>2, <2>2 DEF BridgeInv, Generations, OldTokensStayOut
<1>8. Descent'
  BY <1>2 DEF BridgeInv, Descent, Descends
<1>. QED  BY <1>6, <1>7, <1>8 DEF BridgeInv

\* A call is let in under the newest identity that let one in.
LEMMA CallStep ==
  ASSUME BridgeInv, NEW token \in DOMAIN issued, NEW tool \in McpTools, CallTool(tool, token)
  PROVE  BridgeInv'
<1>. DEFINE x == [token |-> token, tool |-> tool, identity |-> bridge.identity, at |-> minute]
            n == Len(calls)
<1>1. issued \in Seq(Issued) /\ calls \in Seq(Call) /\ bridge.identity \in Nat /\ minute \in Int
  BY DEF BridgeInv, BTyped
<1>2. x \in Call /\ x.token = token
  <2>1. token \in Nat
    BY <1>1
  <2>. QED  BY <1>1, <2>1 DEF Call
<1>3. /\ calls' = Append(calls, x) /\ issued[token].by = bridge.identity
      /\ UNCHANGED <<minute, bridge, identities, issued, tasks>>
  BY DEF CallTool, VerifiesToken
<1>. HIDE DEF x
<1>4. /\ n \in Nat /\ DOMAIN calls = 1 .. n /\ DOMAIN calls' = 1 .. (n + 1)
      /\ calls' \in Seq(Call) /\ calls'[n + 1] = x
      /\ \A i \in 1 .. n : calls'[i] = calls[i]
  BY <1>1, <1>2, <1>3
<1>. HIDE DEF n
<1>5. BTyped'
  BY <1>3, <1>4 DEF BridgeInv, BTyped
<1>6. \A i \in 1 .. n : calls[i].token \in DOMAIN issued
                        /\ issued[calls[i].token].by =< bridge.identity
  BY <1>4 DEF BridgeInv, Generations
<1>7. \A i, j \in 1 .. n : i =< j => issued[calls[i].token].by =< issued[calls[j].token].by
  BY <1>4 DEF BridgeInv, Generations, OldTokensStayOut
<1>8. \A i \in 1 .. (n + 1) : i \in 1 .. n \/ i = n + 1
  BY <1>4
<1>9. \A i \in 1 .. (n + 1) : calls'[i].token \in DOMAIN issued
                              /\ issued[calls'[i].token].by =< bridge.identity
  BY <1>1, <1>2, <1>3, <1>4, <1>6, <1>8
<1>10. ASSUME NEW i \in 1 .. (n + 1), NEW j \in 1 .. (n + 1), i =< j
       PROVE  issued[calls'[i].token].by =< issued[calls'[j].token].by
  <2>1. CASE j = n + 1
    BY <1>2, <1>3, <1>4, <1>9, <2>1
  <2>2. CASE j \in 1 .. n
    <3>1. i \in 1 .. n
      BY <1>4, <1>10, <2>2
    <3>. QED  BY <1>4, <1>7, <1>10, <2>2, <3>1
  <2>. QED  BY <1>8, <2>1, <2>2
<1>11. Generations'
  BY <1>3, <1>4, <1>9, <1>10 DEF BridgeInv, Generations, OldTokensStayOut
<1>12. Descent'
  BY <1>3 DEF BridgeInv, Descent, Descends
<1>. QED  BY <1>5, <1>11, <1>12 DEF BridgeInv

\* A step of the MCP bridge keeps the generations of its tokens.
LEMMA McpStep ==
  ASSUME BridgeInv,
         \/ \E c \in Connecters : \/ Connect(c) \/ SessionUp(c) \/ ConnectFails(c)
                                  \/ \E offered \in SUBSET McpTools : ToolsListed(c, offered)
         \/ Disconnect \/ BTick \/ UNCHANGED bvars
         \/ \E token \in DOMAIN issued : Withdraw(token)
  PROVE  BridgeInv'
<1>. DEFINE Bridge == [connected : BOOLEAN, identity : Nat, tools : SUBSET McpTools]
<1>1. /\ bridge \in Bridge /\ bridge.identity \in Nat /\ identities \in Nat /\ minute \in Int
      /\ bridge.identity =< identities
  BY DEF BridgeInv, BTyped, Generations
<1>. DEFINE Goal == /\ UNCHANGED <<issued, calls, tasks>> /\ minute' \in Int
                    /\ bridge' \in Bridge /\ identities' \in Nat
                    /\ identities =< identities' /\ bridge.identity =< bridge'.identity
                    /\ bridge'.identity =< identities'
<1>2. ASSUME UNCHANGED <<issued, calls, tasks, bridge, identities>>, minute' \in Int
      PROVE  Goal
  BY <1>1, <1>2
<1>3. ASSUME NEW c \in Connecters, Connect(c) \/ ConnectFails(c) PROVE Goal
  BY <1>1, <1>2, <1>3 DEF Connect, ConnectFails
<1>4. CASE BTick \/ UNCHANGED bvars \/ \E token \in DOMAIN issued : Withdraw(token)
  <2>1. UNCHANGED <<issued, calls, tasks, bridge, identities>> /\ minute' \in Int
    BY <1>1, <1>4 DEF BTick, bvars, Withdraw
  <2>. QED  BY <1>2, <2>1, McpQuietStep
<1>5. ASSUME NEW k \in BOOLEAN, NEW n \in Nat, NEW T \in SUBSET McpTools
      PROVE  [connected |-> k, identity |-> n, tools |-> T] \in Bridge
  OBVIOUS
<1>6. bridge = [connected |-> bridge.connected, identity |-> bridge.identity,
                tools |-> bridge.tools]
      /\ bridge.connected \in BOOLEAN /\ bridge.tools \in SUBSET McpTools
  BY <1>1
<1>7. ASSUME NEW c \in Connecters, SessionUp(c) PROVE Goal
  <2>1. identities' = identities + 1 /\ UNCHANGED <<issued, calls, tasks, minute>>
        /\ bridge' = [connected |-> bridge.connected, identity |-> identities + 1,
                      tools |-> bridge.tools]
    BY <1>6, <1>7 DEF SessionUp
  <2>2. identities + 1 \in Nat
    BY <1>1
  <2>3. bridge' \in Bridge /\ bridge'.identity = identities + 1
    BY <1>5, <1>6, <2>1, <2>2
  <2>. QED  BY <1>1, <2>1, <2>2, <2>3
<1>8. ASSUME NEW c \in Connecters, NEW offered \in SUBSET McpTools, ToolsListed(c, offered)
      PROVE  Goal
  <2>1. /\ UNCHANGED <<issued, calls, tasks, minute, identities>>
        /\ bridge' = [connected |-> TRUE, identity |-> bridge.identity,
                      tools |-> bridge.tools \cup offered]
    BY <1>6, <1>8 DEF ToolsListed
  <2>2. bridge.tools \cup offered \in SUBSET McpTools
    BY <1>6
  <2>3. bridge' \in Bridge /\ bridge'.identity = bridge.identity
    BY <1>1, <1>5, <2>1, <2>2
  <2>. QED  BY <1>1, <2>1, <2>3
<1>9. CASE Disconnect
  <2>1. /\ UNCHANGED <<issued, calls, tasks, minute, identities>>
        /\ bridge' = [connected |-> FALSE, identity |-> bridge.identity, tools |-> bridge.tools]
    BY <1>6, <1>9 DEF Disconnect
  <2>2. bridge' \in Bridge /\ bridge'.identity = bridge.identity
    BY <1>1, <1>5, <1>6, <2>1
  <2>3. Goal
    BY <1>1, <2>1, <2>2
  <2>. QED  BY <2>3, McpQuietStep
<1>10. Goal => BridgeInv'
  BY McpQuietStep
<1>. HIDE DEF Goal
<1>. QED  BY <1>3, <1>4, <1>7, <1>8, <1>9, <1>10


\* A step of either bridge keeps the invariant.
LEMMA BridgeStep ==
  BridgeInv /\ [McpNext \/ A2ANext]_bvars => BridgeInv'
<1>. SUFFICES ASSUME BridgeInv, [McpNext \/ A2ANext]_bvars PROVE BridgeInv'
  OBVIOUS
<1>1. CASE \/ \E c \in Connecters : \/ Connect(c) \/ SessionUp(c) \/ ConnectFails(c)
                                    \/ \E offered \in SUBSET McpTools : ToolsListed(c, offered)
           \/ Disconnect \/ BTick \/ UNCHANGED bvars
           \/ \E token \in DOMAIN issued : Withdraw(token)
  BY <1>1, McpStep
<1>2. CASE \E tool \in McpTools, verbs \in AskedVerbs, until \in 1 .. MaxMinutes :
             IssueCapabilityToken(tool, verbs, until)
  BY <1>2, IssueStep
<1>3. CASE \E token \in DOMAIN issued, tool \in McpTools : CallTool(tool, token)
  BY <1>3, CallStep
<1>4. CASE \/ \E skill \in Skills, until \in 1 .. MaxMinutes : SendRootTask(skill, until)
           \/ SendBareTask
  BY <1>4, SendStep
<1>5. CASE \E skill \in Skills, until \in 1 .. MaxMinutes, parent \in DOMAIN tasks :
             SendSubtask(parent, skill, until)
  BY <1>5, SubtaskStep
<1>6. CASE \E task \in DOMAIN tasks : CancelTask(task)
  BY <1>6, CancelStep
<1>. QED  BY <1>1, <1>2, <1>3, <1>4, <1>5, <1>6 DEF McpNext, A2ANext

-------------------------------------------------------------------------------
(* A chain of subtasks, the task itself first.                                *)

Chained(g, s, n) ==
  [task \in 0 .. n |-> IF task = 0 THEN << >> ELSE <<task>> \o g[s[task].parent]]

\* Up to the last fresh token the tokens of c narrow towards the token of t.
Narrows(s, t, c) ==
  LET token == s[t].token
      left == RootDepth - token.depth
  IN  token # NoTaskToken =>
        /\ left + 1 =< Len(c)
        /\ \A i \in 1 .. (left + 1) :
             /\ s[c[i]].token.depth = token.depth + (i - 1)
             /\ token.verbs \subseteq s[c[i]].token.verbs
             /\ token.until = s[c[i]].token.until

LEMMA ChainsExist ==
  ASSUME NEW s, NEW n \in Nat, Forest(s, n)
  PROVE  \E g : g = Chained(g, s, n)
<1>. DEFINE C == {k \in 0 .. n : ~ \E g : g = Chained(g, s, k)}
<1>1. SUFFICES ASSUME C # {} PROVE FALSE
  OBVIOUS
<1>2. PICK k \in C : \A m \in C : k =< m
  <2>1. C \in SUBSET Nat
    OBVIOUS
  <2>. HIDE DEF C
  <2>. QED  BY <1>1, <2>1, LeastExists
<1>3. CASE k = 0
  <2>. DEFINE g == [i \in 0 .. 0 |-> << >>]
  <2>1. g = Chained(g, s, 0)
    BY DEF Chained
  <2>. QED  BY <1>2, <1>3, <2>1
<1>4. CASE k # 0
  <2>1. k - 1 \in 0 .. n /\ k - 1 \notin C
    BY <1>2, <1>4
  <2>2. PICK g : g = Chained(g, s, k - 1)
    BY <2>1
  <2>. DEFINE h == [i \in 0 .. k |-> IF i = k THEN <<k>> \o g[s[k].parent] ELSE g[i]]
  <2>3. ASSUME NEW i \in 0 .. k
        PROVE  h[i] = Chained(h, s, k)[i]
    <3>1. CASE i = 0
      <4>1. g[0] = << >>
        <5>1. 0 \in 0 .. (k - 1) /\ Chained(g, s, k - 1)[0] = << >>
          <6>1. 0 \in 0 .. (k - 1)
            BY <1>4, <2>1
          <6>. QED  BY <6>1 DEF Chained
        <5>. QED  BY <2>2, <5>1, Zenon
      <4>2. h[0] = << >>
        BY <1>4, <3>1, <4>1
      <4>3. Chained(h, s, k)[0] = << >>
        BY <3>1 DEF Chained
      <4>. QED  BY <3>1, <4>2, <4>3
    <3>2. CASE i # 0
      <4>1. s[i].parent \in 0 .. (i - 1) /\ s[i].parent \in 0 .. k /\ s[i].parent # k
        BY <1>2, <3>2 DEF Forest
      <4>2. h[s[i].parent] = g[s[i].parent]
        BY <4>1
      <4>3. h[i] = <<i>> \o g[s[i].parent]
        <5>1. CASE i = k
          BY <5>1
        <5>2. CASE i # k
          <6>1. i \in 0 .. (k - 1)
            BY <1>2, <5>2
          <6>. QED  BY <2>2, <3>2, <5>2, <6>1 DEF Chained
        <5>. QED  BY <5>1, <5>2
      <4>. HIDE DEF h
      <4>. QED  BY <3>2, <4>2, <4>3 DEF Chained
    <3>. QED  BY <3>1, <3>2
  <2>4. h = Chained(h, s, k)
    <3>1. h = [i \in 0 .. k |-> h[i]]
      OBVIOUS
    <3>2. Chained(h, s, k) = [i \in 0 .. k |-> Chained(h, s, k)[i]]
      BY DEF Chained
    <3>. HIDE DEF h
    <3>. QED  BY <2>3, <3>1, <3>2
  <2>. QED  BY <1>2, <2>4
<1>. QED  BY <1>3, <1>4

\* A chain starts with its task, and goes on with the chain of the parent.
LEMMA ChainStarts ==
  ASSUME NEW n \in Nat, NEW t \in 1 .. n, NEW q \in Seq(1 .. n), NEW c, c = <<t>> \o q
  PROVE  /\ c \in Seq(1 .. n) /\ Len(c) = Len(q) + 1 /\ Len(q) \in Nat /\ c[1] = t
         /\ \A i \in 1 .. Len(q) : c[i + 1] = q[i]
OBVIOUS

\* The chain of a subtask is a sequence of tasks, and narrows.
LEMMA SubtasksChain ==
  ASSUME BridgeInv
  PROVE  \A t \in 1 .. Len(tasks) :
           DelegationsOf[t] \in Seq(1 .. Len(tasks)) /\ Narrows(tasks, t, DelegationsOf[t])
<1>. DEFINE n == Len(tasks)
            g == DelegationsOf
<1>1. n \in Nat /\ Forest(tasks, n) /\ \A t \in 1 .. n : tasks[t] \in Task
  BY DEF BridgeInv, BTyped, Descent, Forest
<1>2. DelegationsOf = CHOOSE h : h = Chained(h, tasks, n)
  BY DEF DelegationsOf, Chained
<1>. HIDE DEF n
<1>3. DelegationsOf = Chained(DelegationsOf, tasks, n)
  <2>1. \E h : h = Chained(h, tasks, n)
    BY <1>1, ChainsExist
  <2>. QED  BY <1>2, <2>1, Zenon
<1>4. g = Chained(g, tasks, n)
  BY <1>3
<1>. HIDE DEF g
<1>5. g[0] = << >> /\ \A t \in 1 .. n : g[t] = <<t>> \o g[tasks[t].parent]
  <2>1. \A t \in 0 .. n :
          Chained(g, tasks, n)[t] = IF t = 0 THEN << >> ELSE <<t>> \o g[tasks[t].parent]
    BY DEF Chained
  <2>2. \A t \in 0 .. n : g[t] = IF t = 0 THEN << >> ELSE <<t>> \o g[tasks[t].parent]
    BY <1>4, <2>1, Zenon
  <2>3. 0 \in 0 .. n /\ \A t \in 1 .. n : t \in 0 .. n /\ t # 0
    BY <1>1
  <2>. QED  BY <2>2, <2>3, Zenon
<1>. DEFINE Good(t) == g[t] \in Seq(1 .. n) /\ (t # 0 => Narrows(tasks, t, g[t]))
            C == {t \in 0 .. n : ~ Good(t)}
<1>6. C = {}
  <2>1. SUFFICES ASSUME C # {} PROVE FALSE
    OBVIOUS
  <2>2. PICK t \in C : \A u \in C : t =< u
    <3>1. C \in SUBSET Nat
      BY <1>1
    <3>. HIDE DEF C
    <3>. QED  BY <2>1, <3>1, LeastExists
  <2>3. t \in 0 .. n /\ ~ Good(t) /\ \A u \in 0 .. n : u < t => Good(u)
    BY <1>1, <2>2
  <2>. HIDE DEF C
  <2>4. t # 0
    <3>1. << >> \in Seq(1 .. n)
      OBVIOUS
    <3>. QED  BY <1>5, <2>3, <3>1
  <2>5. t \in 1 .. n
    BY <1>1, <2>3, <2>4
  <2>. DEFINE p == tasks[t].parent
              q == g[p]
              c == g[t]
  <2>6. p \in 0 .. n /\ p < t /\ Good(p)
    <3>1. p \in 0 .. n /\ p < t
      BY <1>1, <2>5 DEF Forest
    <3>. HIDE DEF p, Good
    <3>. QED  BY <2>3, <3>1
  <2>7. q \in Seq(1 .. n) /\ c = <<t>> \o q
    BY <1>5, <2>5, <2>6
  <2>8. p # 0 => Narrows(tasks, p, q)
    BY <2>6
  <2>. HIDE DEF c, q
  <2>9. /\ c \in Seq(1 .. n) /\ Len(c) = Len(q) + 1 /\ Len(q) \in Nat /\ c[1] = t
        /\ \A i \in 1 .. Len(q) : c[i + 1] = q[i]
    BY <1>1, <2>5, <2>7, ChainStarts
  <2>10. Narrows(tasks, t, c)
    <3>. DEFINE token == tasks[t].token
                above == tasks[p].token
                d == RootDepth - token.depth
    <3>. SUFFICES ASSUME token # NoTaskToken
                  PROVE  /\ d + 1 =< Len(c)
                         /\ \A i \in 1 .. (d + 1) :
                              /\ tasks[c[i]].token.depth = token.depth + (i - 1)
                              /\ token.verbs \subseteq tasks[c[i]].token.verbs
                              /\ token.until = tasks[c[i]].token.until
      BY DEF Narrows
    <3>1. token.depth \in 0 .. RootDepth /\ RootDepth \in Nat /\ Descends(tasks, t)
      BY <2>5, BridgeAssumption DEF BridgeInv, Descent, Descends, n
    <3>2. CASE token.depth = RootDepth
      BY <2>9, <3>1, <3>2
    <3>3. CASE token.depth # RootDepth
      <4>1. /\ p # 0 /\ above # NoTaskToken /\ above.depth = token.depth + 1
            /\ token.verbs \subseteq above.verbs /\ token.until = above.until
        BY <3>1, <3>3 DEF Descends
      <4>. DEFINE e == RootDepth - above.depth
      <4>2. /\ e + 1 =< Len(q)
            /\ \A i \in 1 .. (e + 1) :
                 /\ tasks[q[i]].token.depth = above.depth + (i - 1)
                 /\ above.verbs \subseteq tasks[q[i]].token.verbs
                 /\ above.until = tasks[q[i]].token.until
        BY <2>8, <4>1 DEF Narrows
      <4>3. d = e + 1 /\ e \in Nat
        BY <3>1, <3>3, <4>1
      <4>. HIDE DEF d, e, token, above
      <4>4. d + 1 =< Len(c)
        BY <2>9, <4>2, <4>3
      <4>5. ASSUME NEW i \in 1 .. (d + 1)
            PROVE  /\ tasks[c[i]].token.depth = token.depth + (i - 1)
                   /\ token.verbs \subseteq tasks[c[i]].token.verbs
                   /\ token.until = tasks[c[i]].token.until
        <5>1. CASE i = 1
          BY <2>9, <3>1, <5>1 DEF token
        <5>2. CASE i # 1
          <6>. DEFINE j == i - 1
          <6>1. j \in 1 .. (e + 1) /\ j \in 1 .. Len(q) /\ i = j + 1
            BY <2>9, <4>2, <4>3, <5>2
          <6>. HIDE DEF j
          <6>2. c[i] = q[j]
            BY <2>9, <6>1
          <6>3. /\ tasks[q[j]].token.depth = above.depth + (j - 1)
                /\ above.verbs \subseteq tasks[q[j]].token.verbs
                /\ above.until = tasks[q[j]].token.until
            BY <4>2, <6>1
          <6>4. above.depth + (j - 1) = token.depth + (i - 1)
            BY <3>1, <4>1, <6>1
          <6>. QED  BY <4>1, <6>2, <6>3, <6>4
        <5>. QED  BY <5>1, <5>2
      <4>. QED  BY <4>4, <4>5 DEF d, token
    <3>. QED  BY <3>2, <3>3
  <2>. QED  BY <2>3, <2>9, <2>10 DEF c
<1>7. \A t \in 1 .. n : t \in 0 .. n /\ t # 0
  BY <1>1
<1>. QED  BY <1>6, <1>7 DEF n, g

\* The first fresh token of a chain is its last link of a narrowing.
LEMMA SubtasksAlwaysNarrow ==
  BridgeInv => SubtasksNarrow
<1>. SUFFICES ASSUME BridgeInv, NEW task \in DOMAIN tasks,
                     tasks[task].token # NoTaskToken
              PROVE  LET chain == DelegationsOf[task]
                         fresh == SelectInSeq(chain, LAMBDA t : tasks[t].token.depth = RootDepth)
                     IN  /\ fresh \in 1 .. RootDepth + 1
                         /\ tasks[task].token.verbs \subseteq tasks[chain[fresh]].token.verbs
                         /\ tasks[task].token.until <= tasks[chain[fresh]].token.until
                         /\ \A i \in 1 .. fresh - 1 :
                              tasks[chain[i]].token.depth < tasks[chain[i + 1]].token.depth
  BY DEF SubtasksNarrow
<1>. DEFINE c == DelegationsOf[task]
            token == tasks[task].token
            d == RootDepth - token.depth
            I == {i \in 1 .. Len(c) : tasks[c[i]].token.depth = RootDepth}
<1>1. task \in 1 .. Len(tasks) /\ tasks[task] \in Task /\ Len(tasks) \in Nat
  BY DEF BridgeInv, BTyped
<1>2. c \in Seq(1 .. Len(tasks)) /\ Narrows(tasks, task, c) /\ Len(c) \in Nat
  BY <1>1, SubtasksChain
<1>3. token.depth \in 0 .. RootDepth /\ RootDepth \in Nat /\ token.until \in Int
  BY <1>1, BridgeAssumption DEF BridgeInv, Descent, Descends, Task, TaskToken
<1>4. SelectInSeq(c, LAMBDA t : tasks[t].token.depth = RootDepth) = IF I # {} THEN Min(I) ELSE 0
  BY DEF SelectInSeq
<1>5. /\ d + 1 =< Len(c)
      /\ \A i \in 1 .. (d + 1) :
           /\ tasks[c[i]].token.depth = token.depth + (i - 1)
           /\ token.verbs \subseteq tasks[c[i]].token.verbs
           /\ token.until = tasks[c[i]].token.until
  BY <1>2 DEF Narrows
<1>6. d \in 0 .. RootDepth /\ token.depth + d = RootDepth
  BY <1>3
<1>. HIDE DEF c, token, d
<1>7. d + 1 \in I /\ \A i \in I : d + 1 =< i
  <2>1. d + 1 \in 1 .. Len(c) /\ d + 1 \in 1 .. (d + 1) /\ token.depth + ((d + 1) - 1) = RootDepth
    <3>1. d + 1 \in Nat /\ 1 =< d + 1 /\ Len(c) \in Nat /\ d + 1 =< Len(c)
      BY <1>2, <1>5, <1>6
    <3>2. token.depth + ((d + 1) - 1) = RootDepth
      BY <1>3, <1>6
    <3>. QED  BY <3>1, <3>2
  <2>2. ASSUME NEW i \in I, ~ (d + 1 =< i) PROVE FALSE
    <3>1. i \in 1 .. (d + 1) /\ tasks[c[i]].token.depth = RootDepth /\ i =< d
      BY <1>2, <1>6, <2>2
    <3>2. token.depth + (i - 1) = RootDepth
      BY <1>5, <3>1
    <3>. QED  BY <1>3, <1>6, <3>1, <3>2
  <2>. QED  BY <1>5, <2>1, <2>2
<1>8. Min(I) = d + 1
  <2>1. I \subseteq Int
    OBVIOUS
  <2>. HIDE DEF I
  <2>2. \E x \in I : \A y \in I : x <= y
    BY <1>7
  <2>3. Min(I) \in I /\ \A y \in I : Min(I) <= y
    BY <2>2, Zenon DEF Min
  <2>4. Min(I) <= d + 1 /\ d + 1 <= Min(I) /\ Min(I) \in Int /\ d + 1 \in Int
    BY <1>7, <2>1, <2>3
  <2>. QED  BY <2>4
<1>9. SelectInSeq(c, LAMBDA t : tasks[t].token.depth = RootDepth) = d + 1
  BY <1>4, <1>7, <1>8
<1>10. /\ d + 1 \in 1 .. RootDepth + 1
       /\ token.verbs \subseteq tasks[c[d + 1]].token.verbs
       /\ token.until <= tasks[c[d + 1]].token.until
  BY <1>3, <1>5, <1>6
<1>11. ASSUME NEW i \in 1 .. (d + 1) - 1
       PROVE  tasks[c[i]].token.depth < tasks[c[i + 1]].token.depth
  <2>1. i \in 1 .. (d + 1) /\ i + 1 \in 1 .. (d + 1)
    BY <1>6
  <2>2. tasks[c[i]].token.depth = token.depth + (i - 1)
        /\ tasks[c[i + 1]].token.depth = token.depth + ((i + 1) - 1)
    BY <1>5, <2>1
  <2>. QED  BY <1>3, <2>1, <2>2
<1>. QED  BY <1>9, <1>10, <1>11 DEF c, token

\* Neither bridge hands out, or lets in again, authority that it had taken back
\* or never had (mcp_bridge.py, a2a_bridge.py), over any interleaving of
\* connects and for chains of subtasks of any length.
THEOREM BridgesAlwaysKeepAuthority == BSpec => []BridgesKeepAuthority
<1>1. BridgeInv => BridgesKeepAuthority
  BY SubtasksAlwaysNarrow DEF BridgeInv, Generations, BridgesKeepAuthority
<1>. QED  BY <1>1, BridgeInit, BridgeStep, PTL DEF BSpec

-------------------------------------------------------------------------------
(* Tokens that are attenuated, split and combined (Tokens).                   *)

IsSeq(s) == Len(s) \in Nat /\ s = [i \in 1 .. Len(s) |-> s[i]]

\* What is known of constraints and schedules: numbers are numbers, thresholds
\* ascend.
Bounded(c) ==
  /\ c = [not_before |-> c.not_before, not_after |-> c.not_after, limit |-> c.limit, period |-> c.period,
          scope |-> c.scope, purpose |-> c.purpose, toolchain |-> c.toolchain]
  /\ c.not_before \in Int /\ c.not_after \in Int /\ c.limit \in [Fields -> Int]
Shaped(t) == Bounded(t.constraints) /\ t.schedule \in Schedules /\ t.depth \in Int /\ t.parent \in Nat

\* Every token but a root is a link that verifies behind its parent.
Linked(s, i) == \/ s[i].parent = NoParent
                \/ LinkVerifies(s[s[i].parent], s[i].parent, s[i])
TokensInv ==
  /\ now \in Nat
  /\ IsSeq(tokens)
  /\ Forest(tokens, Len(tokens))
  /\ \A i \in 1 .. Len(tokens) : Shaped(tokens[i]) /\ Linked(tokens, i)

-------------------------------------------------------------------------------
(* The new token.                                                             *)

LEMMA Joining ==
  ASSUME NEW s, NEW r, IsSeq(s), IsSeq(r)
  PROVE  /\ IsSeq(s \o r) /\ Len(s \o r) = Len(s) + Len(r)
         /\ \A i \in 1 .. Len(s) : (s \o r)[i] = s[i]
         /\ \A i \in 1 .. Len(r) : (s \o r)[Len(s) + i] = r[i]
         /\ \A i \in 1 .. Len(s \o r) : i \in 1 .. Len(s) \/ i - Len(s) \in 1 .. Len(r)
<1>. DEFINE S == {s[i] : i \in 1 .. Len(s)} \cup {r[i] : i \in 1 .. Len(r)}
<1>1. s \in Seq(S) /\ r \in Seq(S)
  <2>1. \A i \in 1 .. Len(s) : s[i] \in S
    OBVIOUS
  <2>2. \A i \in 1 .. Len(r) : r[i] \in S
    OBVIOUS
  <2>. HIDE DEF S
  <2>3. s \in [1 .. Len(s) -> S] /\ r \in [1 .. Len(r) -> S]
    BY <2>1, <2>2 DEF IsSeq
  <2>. QED  BY <2>3 DEF IsSeq
<1>. HIDE DEF S
<1>. DEFINE q == s \o r
<1>2. /\ q \in Seq(S) /\ Len(q) = Len(s) + Len(r) /\ Len(s) \in Nat /\ Len(r) \in Nat
      /\ \A i \in 1 .. Len(s) : q[i] = s[i]
      /\ \A i \in 1 .. Len(r) : q[Len(s) + i] = r[i]
  BY <1>1
<1>. HIDE DEF q
<1>3. IsSeq(q)
  BY <1>2 DEF IsSeq
<1>. QED  BY <1>2, <1>3 DEF q

LEMMA OneMore ==
  ASSUME NEW s, NEW t, IsSeq(s)
  PROVE  Append(s, t) = s \o << t >> /\ IsSeq(<< t >>)
<1>. DEFINE S == {s[i] : i \in 1 .. Len(s)} \cup {t}
<1>1. s \in Seq(S) /\ t \in S
  <2>1. \A i \in 1 .. Len(s) : s[i] \in S
    OBVIOUS
  <2>2. t \in S
    OBVIOUS
  <2>. HIDE DEF S
  <2>3. s \in [1 .. Len(s) -> S]
    BY <2>1 DEF IsSeq
  <2>. QED  BY <2>2, <2>3 DEF IsSeq
<1>. HIDE DEF S
<1>2. Append(s, t) = s \o << t >>
  BY <1>1
<1>3. IsSeq(<< t >>)
  BY DEF IsSeq
<1>. QED  BY <1>2, <1>3

LEMMA MeetIsBounded ==
  ASSUME NEW a, NEW b, Bounded(a), Bounded(b)
  PROVE  Bounded(MeetBounds(a, b))
<1>. DEFINE m == MeetBounds(a, b)
<1>1. Smaller(a.not_after, b.not_after) \in Int /\ Larger(a.not_before, b.not_before) \in Int
  BY DEF Bounded, Smaller, Larger
<1>2. \A f \in Fields : Smaller(a.limit[f], b.limit[f]) \in Int
  BY DEF Bounded, Smaller
<1>. QED  BY <1>1, <1>2 DEF MeetBounds, Bounded

\* Constraints with another period, purpose, expiry or limits.
LEMMA StaysBounded ==
  ASSUME NEW c, Bounded(c), NEW x
  PROVE  /\ Bounded([c EXCEPT !.period = x])
         /\ Bounded([c EXCEPT !.purpose = x])
         /\ x \in Int => Bounded([c EXCEPT !.not_after = x])
         /\ x \in [Fields -> Int] => Bounded([c EXCEPT !.limit = x])
<1>1. PICK a, b, l, p, s, u, t :
        c = [not_before |-> a, not_after |-> b, limit |-> l, period |-> p, scope |-> s, purpose |-> u, toolchain |-> t]
  BY DEF Bounded
<1>2. [c EXCEPT !.period = x]
        = [not_before |-> a, not_after |-> b, limit |-> l, period |-> x, scope |-> s, purpose |-> u, toolchain |-> t]
  BY <1>1
<1>3. [c EXCEPT !.purpose = x]
        = [not_before |-> a, not_after |-> b, limit |-> l, period |-> p, scope |-> s, purpose |-> x, toolchain |-> t]
  BY <1>1
<1>4. [c EXCEPT !.not_after = x]
        = [not_before |-> a, not_after |-> x, limit |-> l, period |-> p, scope |-> s, purpose |-> u, toolchain |-> t]
  BY <1>1
<1>5. [c EXCEPT !.limit = x]
        = [not_before |-> a, not_after |-> b, limit |-> x, period |-> p, scope |-> s, purpose |-> u, toolchain |-> t]
  BY <1>1
<1>6. a \in Int /\ b \in Int /\ l \in [Fields -> Int]
  BY <1>1 DEF Bounded
<1>. QED  BY <1>2, <1>3, <1>4, <1>5, <1>6 DEF Bounded

LEMMA TightenIsBounded ==
  ASSUME NEW c, NEW d, Bounded(c), Bounded(d)
  PROVE  Bounded(Tighten(c, d))
<1>. DEFINE m == MeetBounds(c, d)
            p == IF NamesRate(d) THEN d.period ELSE c.period
            u == Prefer(d.purpose, c.purpose)
            n == [m EXCEPT !.period = p]
<1>1. Bounded(m)
  BY MeetIsBounded
<1>2. Tighten(c, d) = [m EXCEPT !.period = p, !.purpose = u]
  BY DEF Tighten
<1>. HIDE DEF m, p, u
<1>3. Tighten(c, d) = [n EXCEPT !.purpose = u]
  BY <1>2
<1>4. Bounded(n)
  BY <1>1, StaysBounded
<1>. HIDE DEF n
<1>5. Bounded([n EXCEPT !.purpose = u])
  BY <1>4, StaysBounded, Zenon
<1>. QED  BY <1>3, <1>5, Zenon

LEMMA ConstraintsAreBounded ==
  ASSUME NEW c \in Constraints
  PROVE  Bounded(c)
BY DEF Constraints, Bounded

LEMMA NewTokenLinks ==
  ASSUME NEW t, NEW id \in Nat, NEW d, NEW subject, NEW position, NEW time \in Nat,
         Shaped(t), Bounded(d.constraints), d.schedule \in Schedules, MayAttenuate(t, d, time)
  PROVE  LET new == AttenuateToken(t, id, subject, d, position, time)
         IN  Shaped(new) /\ LinkVerifies(t, id, new) /\ new.parent = id
<1>. DEFINE new == AttenuateToken(t, id, subject, d, position, time)
<1>1. /\ new.parent = id /\ new.len = t.len + 1 /\ new.depth = t.depth - 1 /\ new.verbs = d.verbs
      /\ new.constraints = NewConstraints(t, d) /\ new.schedule = NewSchedule(t, d) /\ new.issuer = t.subject
  BY DEF AttenuateToken
<1>. HIDE DEF new
<1>2. LinkVerifies(t, id, new)
  BY <1>1 DEF LinkVerifies, MayAttenuate
<1>3. Shaped(new)
  BY <1>1, TightenIsBounded DEF Shaped, NewConstraints, NewSchedule
<1>. QED  BY <1>1, <1>2, <1>3 DEF new

LEMMA NoneIsBounded ==
  ASSUME NEW a \in Int
  PROVE  Bounded(NoConstraints) /\ Bounded(Share(a)) /\ NoSchedule \in Schedules
<1>1. Bounded(NoConstraints)
  BY TokensAssumption DEF NoConstraints, Bounded, TokensAssumption
<1>2. Bounded(Share(a))
  <2>. DEFINE x == NoConstraints
              l == [x.limit EXCEPT !["quantity_limit"] = a]
  <2>1. Share(a) = [x EXCEPT !.limit["quantity_limit"] = a]
    BY DEF Share
  <2>2. Bounded(x) /\ x.limit \in [Fields -> Int]
    BY <1>1 DEF Bounded
  <2>. HIDE DEF x
  <2>3. [x EXCEPT !.limit["quantity_limit"] = a] = [x EXCEPT !.limit = l]
    OBVIOUS
  <2>4. l \in [Fields -> Int]
    BY <2>2
  <2>. HIDE DEF l
  <2>5. Bounded([x EXCEPT !.limit = l])
    BY <2>2, <2>4, StaysBounded, Zenon
  <2>. QED  BY <2>1, <2>3, <2>5, Zenon
<1>3. NoSchedule \in Schedules
  BY DEF NoSchedule, Schedules
<1>. QED  BY <1>1, <1>2, <1>3

-------------------------------------------------------------------------------
(* Every step keeps the links.                                                *)

Fits(r) == /\ IsSeq(r)
           /\ \A i \in 1 .. Len(r) :
                /\ Shaped(r[i])
                /\ \/ r[i].parent = NoParent
                   \/ /\ r[i].parent \in 1 .. Len(tokens)
                      /\ LinkVerifies(tokens[r[i].parent], r[i].parent, r[i])

LEMMA TokensAdded ==
  ASSUME TokensInv, NEW r, Fits(r), tokens' = tokens \o r, now' = now
  PROVE  TokensInv'
<1>. DEFINE n == Len(tokens)
            s == tokens \o r
<1>1. /\ n \in Nat /\ Len(r) \in Nat /\ IsSeq(s) /\ Len(s) = n + Len(r)
      /\ \A i \in 1 .. n : s[i] = tokens[i]
      /\ \A i \in 1 .. Len(r) : s[n + i] = r[i]
      /\ \A i \in 1 .. Len(s) : i \in 1 .. n \/ i - n \in 1 .. Len(r)
  <2>1. IsSeq(tokens) /\ IsSeq(r)
    BY DEF TokensInv, Fits
  <2>2. n \in Nat /\ Len(r) \in Nat
    BY <2>1 DEF IsSeq
  <2>. QED  BY <2>1, <2>2, Joining
<1>. HIDE DEF s
<1>2. ASSUME NEW i \in 1 .. Len(s)
      PROVE  Shaped(s[i]) /\ s[i].parent \in 0 .. (i - 1) /\ Linked(s, i)
  <2>1. CASE i \in 1 .. n
    <3>1. s[i] = tokens[i] /\ Shaped(tokens[i]) /\ tokens[i].parent \in 0 .. (i - 1) /\ Linked(tokens, i)
      BY <1>1, <2>1 DEF TokensInv, Forest
    <3>2. s[i].parent = NoParent \/ s[s[i].parent] = tokens[tokens[i].parent]
      BY <1>1, <2>1, <3>1 DEF NoParent
    <3>. QED  BY <3>1, <3>2 DEF Linked
  <2>2. CASE i - n \in 1 .. Len(r)
    <3>. DEFINE k == i - n
    <3>1. k \in 1 .. Len(r) /\ i = n + k /\ i \in Int
      BY <1>1, <2>2
    <3>. HIDE DEF k
    <3>2. s[i] = r[k]
      BY <1>1, <3>1
    <3>3. CASE r[k].parent = NoParent
      <4>1. 0 \in 0 .. (i - 1)
        BY <1>1, <3>1
      <4>. QED  BY <3>1, <3>2, <3>3, <4>1 DEF Fits, Linked, NoParent
    <3>4. CASE /\ r[k].parent \in 1 .. Len(tokens)
               /\ LinkVerifies(tokens[r[k].parent], r[k].parent, r[k])
      <4>1. r[k].parent \in 0 .. (i - 1) /\ s[r[k].parent] = tokens[r[k].parent]
        BY <1>1, <3>1, <3>4
      <4>. QED  BY <3>1, <3>2, <3>4, <4>1 DEF Fits, Linked
    <3>. QED  BY <3>1, <3>3, <3>4 DEF Fits
  <2>. QED  BY <1>1, <2>1, <2>2
<1>3. tokens' = s
  BY DEF s
<1>. QED  BY <1>1, <1>2, <1>3 DEF TokensInv, Forest

LEMMA OneAdded ==
  ASSUME TokensInv, NEW t, Shaped(t), tokens' = Append(tokens, t), now' = now,
         \/ t.parent = NoParent
         \/ t.parent \in 1 .. Len(tokens) /\ LinkVerifies(tokens[t.parent], t.parent, t)
  PROVE  TokensInv'
<1>. DEFINE r == << t >>
<1>1. tokens' = tokens \o r /\ IsSeq(r)
  BY OneMore DEF TokensInv
<1>2. Len(r) = 1 /\ \A i \in 1 .. 1 : r[i] = t
  OBVIOUS
<1>. HIDE DEF r
<1>3. Fits(r)
  BY <1>1, <1>2 DEF Fits
<1>. QED  BY <1>1, <1>3, TokensAdded

LEMMA TokensInvKept ==
  ASSUME TokensInv, [Next]_vars
  PROVE  TokensInv'
<1>0. Len(tokens) \in Nat /\ DOMAIN tokens = 1 .. Len(tokens)
  BY DEF TokensInv, IsSeq
<1>1. ASSUME NEW g \in Grants, Create(g)
      PROVE  TokensInv'
  <2>. DEFINE t == CreateToken(g.issuer, g.subject, g.resource, g.verbs,
                               g.constraints, g.depth, g.validity, g.schedule, now)
  <2>1. tokens' = Append(tokens, t) /\ now' = now
    BY <1>1 DEF Create
  <2>2. /\ t.parent = NoParent /\ t.depth = g.depth /\ t.schedule = g.schedule
        /\ t.constraints = IF g.constraints.not_after = Unbounded
                           THEN [g.constraints EXCEPT !.not_after = now + g.validity] ELSE g.constraints
    BY DEF CreateToken
  <2>. HIDE DEF t
  <2>3. g.constraints \in Constraints /\ g.schedule \in Schedules /\ g.depth \in Int /\ now + g.validity \in Int
    BY TokensAssumption DEF TokensAssumption, TokensInv
  <2>4. Bounded(t.constraints)
    <3>1. Bounded(g.constraints)
      BY <2>3, ConstraintsAreBounded, Zenon
    <3>2. Bounded([g.constraints EXCEPT !.not_after = now + g.validity])
      BY <2>3, <3>1, StaysBounded, Zenon
    <3>. QED  BY <2>2, <3>1, <3>2, Zenon
  <2>5. Shaped(t)
    BY <2>2, <2>3, <2>4 DEF Shaped, NoParent
  <2>. QED  BY <2>1, <2>2, <2>5, OneAdded
<1>2. ASSUME NEW i \in 1 .. Len(tokens), NEW d \in Deltas, NEW subject, NEW position,
             MayAttenuate(tokens[i], d, now), now' = now,
             tokens' = Append(tokens, AttenuateToken(tokens[i], i, subject, d, position, now))
      PROVE  TokensInv'
  <2>. DEFINE t == AttenuateToken(tokens[i], i, subject, d, position, now)
  <2>1. Bounded(d.constraints) /\ d.schedule \in Schedules
    BY TokensAssumption, ConstraintsAreBounded DEF TokensAssumption
  <2>2. Shaped(t) /\ LinkVerifies(tokens[i], i, t) /\ t.parent = i
    BY <1>2, <2>1, NewTokenLinks DEF TokensInv
  <2>. HIDE DEF t
  <2>3. tokens' = Append(tokens, t)
    BY <1>2 DEF t
  <2>. QED  BY <1>2, <2>2, <2>3, OneAdded
<1>3. ASSUME NEW i \in 1 .. Len(tokens), NEW amounts \in Splits, Split(i, amounts)
      PROVE  TokensInv'
  <2>. DEFINE r == SplitToken(tokens[i], i, amounts, now)
  <2>1. tokens' = tokens \o r /\ now' = now /\ MaySplit(tokens[i], amounts, now)
    BY <1>3 DEF Split
  <2>2. amounts \in Seq(Int)
    BY TokensAssumption DEF TokensAssumption
  <2>3. /\ Len(amounts) \in Nat /\ DOMAIN amounts = 1 .. Len(amounts)
        /\ \A k \in 1 .. Len(amounts) : amounts[k] \in Int /\ amounts[k] \in ToSet(amounts)
    BY <2>2 DEF ToSet
  <2>4. r = [k \in 1 .. Len(amounts) |->
               AttenuateToken(tokens[i], i, tokens[i].subject, Delta(tokens[i], Share(amounts[k])),
                              tokens[i].position, now)]
    BY <2>3 DEF SplitToken
  <2>. HIDE DEF r
  <2>5. IsSeq(r) /\ Len(r) = Len(amounts)
    <3>. DEFINE e(k) == AttenuateToken(tokens[i], i, tokens[i].subject, Delta(tokens[i], Share(amounts[k])),
                                       tokens[i].position, now)
    <3>1. r = [k \in 1 .. Len(amounts) |-> e(k)]
      BY <2>4
    <3>. HIDE DEF e
    <3>. QED  BY <2>3, <3>1 DEF IsSeq
  <2>6. ASSUME NEW k \in 1 .. Len(r)
        PROVE  Shaped(r[k]) /\ r[k].parent = i /\ LinkVerifies(tokens[i], i, r[k])
    <3>. DEFINE d == Delta(tokens[i], Share(amounts[k]))
    <3>1. k \in 1 .. Len(amounts)
      BY <2>5
    <3>2. MayAttenuate(tokens[i], d, now)
      BY <2>1, <2>3, <3>1 DEF MaySplit
    <3>3. Bounded(d.constraints) /\ d.schedule \in Schedules
      BY <2>3, <3>1, NoneIsBounded DEF Delta
    <3>. HIDE DEF d
    <3>4. r[k] = AttenuateToken(tokens[i], i, tokens[i].subject, d, tokens[i].position, now)
      BY <2>4, <3>1 DEF d
    <3>5. Shaped(tokens[i]) /\ now \in Nat /\ i \in Nat
      BY DEF TokensInv
    <3>. QED  BY <3>2, <3>3, <3>4, <3>5, NewTokenLinks
  <2>7. Fits(r)
    BY <2>5, <2>6 DEF Fits
  <2>. QED  BY <2>1, <2>7, TokensAdded
<1>4. CASE Tick
  BY <1>4 DEF Tick, TokensInv, IsSeq, Forest, Linked, Shaped
<1>5. CASE UNCHANGED vars
  BY <1>5 DEF vars, TokensInv, IsSeq, Forest, Linked, Shaped
<1>6. ASSUME NEW i \in DOMAIN tokens, NEW subject \in Agents, NEW d \in Deltas, Attenuate(i, subject, d)
      PROVE  TokensInv'
  BY <1>0, <1>2, <1>6 DEF Attenuate
<1>7. ASSUME NEW i \in DOMAIN tokens, NEW tool \in Tools, NEW subject \in Agents, NEW d \in Deltas,
             SubInvoke(i, tool, subject, d)
      PROVE  TokensInv'
  BY <1>0, <1>2, <1>7 DEF SubInvoke
<1>. QED  BY <1>0, <1>1, <1>3, <1>4, <1>5, <1>6, <1>7 DEF Next

LEMMA TokensInvStarts == Init => TokensInv
BY DEF Init, TokensInv, IsSeq, Forest

-------------------------------------------------------------------------------
(* What a link admits.                                                        *)

LEMMA Thresholds ==
  ASSUME NEW q \in Schedules
  PROVE  /\ Len(q) \in Nat /\ DOMAIN q = 1 .. Len(q)
         /\ \A i \in 1 .. Len(q) : q[i].at \in Int /\ q[i].limit \in [Fields -> Int]
         /\ \A i, j \in 1 .. Len(q) : i < j => q[i].at < q[j].at
<1>. DEFINE T == [at : Int, limit : [Fields -> Int]]
<1>1. q \in Seq(T) /\ \A i, j \in DOMAIN q : i < j => q[i].at < q[j].at
  BY DEF Schedules
<1>2. \A x \in T : x.at \in Int /\ x.limit \in [Fields -> Int]
  OBVIOUS
<1>. HIDE DEF T
<1>3. Len(q) \in Nat /\ DOMAIN q = 1 .. Len(q) /\ \A i \in 1 .. Len(q) : q[i] \in T
  BY <1>1
<1>. QED  BY <1>1, <1>2, <1>3

\* The thresholds reached are the first of a schedule.
LEMMA ReachedFirst ==
  ASSUME NEW q \in Schedules, NEW e \in Int, Reached(q, e) # {}
  PROVE  Cardinality(Reached(q, e)) \in 1 .. Len(q)
<1>. DEFINE R == Reached(q, e)
            k == Max(R)
<1>1. /\ Len(q) \in Nat /\ DOMAIN q = 1 .. Len(q) /\ \A i \in 1 .. Len(q) : q[i].at \in Int
      /\ \A i, j \in 1 .. Len(q) : i < j => q[i].at < q[j].at
  BY Thresholds
<1>2. R \subseteq 1 .. Len(q) /\ \A i \in 1 .. Len(q) : i \in R <=> q[i].at =< e
  BY <1>1 DEF Reached
<1>3. k \in R /\ \A x \in R : x =< k
  <2>1. R # {} /\ R \in SUBSET (1 .. Len(q))
    BY <1>2
  <2>. HIDE DEF R
  <2>. QED  BY <1>1, <2>1, LastExists
<1>. HIDE DEF k
<1>4. R = 1 .. k
  <2>1. k \in 1 .. Len(q) /\ q[k].at =< e
    BY <1>2, <1>3
  <2>2. ASSUME NEW i \in 1 .. k PROVE i \in R
    <3>1. i \in 1 .. Len(q) /\ (i = k \/ i < k)
      BY <1>1, <2>1
    <3>2. q[i].at =< e
      BY <1>1, <2>1, <3>1
    <3>. QED  BY <1>2, <3>1, <3>2
  <2>3. ASSUME NEW i \in R PROVE i \in 1 .. k
    BY <1>1, <1>2, <1>3, <2>1, <2>3
  <2>. QED  BY <2>2, <2>3
<1>5. Cardinality(1 .. k) = k /\ k \in 1 .. Len(q)
  BY <1>1, <1>2, <1>3, FS_Interval
<1>. QED  BY <1>4, <1>5

\* A schedule lowers limits and nothing else.
LEMMA EffectiveIsBounded ==
  ASSUME NEW c, Bounded(c), NEW q \in Schedules, NEW e \in Int
  PROVE  LET now_c == Effective(c, q, e)
         IN  now_c.limit \in [Fields -> Int] /\ now_c.purpose = c.purpose
<1>1. CASE e < 0 \/ Reached(q, e) = {}
  BY <1>1 DEF Effective, Bounded
<1>2. CASE ~ (e < 0 \/ Reached(q, e) = {})
  <2>. DEFINE k == Cardinality(Reached(q, e))
              a == q[k]
              l == [f \in Fields |-> Smaller(c.limit[f], a.limit[f])]
  <2>1. k \in 1 .. Len(q)
    BY <1>2, ReachedFirst
  <2>2. a.limit \in [Fields -> Int]
    BY <2>1, Thresholds
  <2>3. Effective(c, q, e) = [c EXCEPT !.limit = l]
    BY <1>2 DEF Effective
  <2>. HIDE DEF a, k
  <2>4. l \in [Fields -> Int]
    BY <2>2 DEF Bounded, Smaller
  <2>. HIDE DEF l
  <2>5. [c EXCEPT !.limit = l].limit = l /\ [c EXCEPT !.limit = l].purpose = c.purpose
    <3>1. PICK b, d, m, p, s, u, t :
            c = [not_before |-> b, not_after |-> d, limit |-> m, period |-> p, scope |-> s, purpose |-> u, toolchain |-> t]
      BY DEF Bounded
    <3>. QED  BY <3>1
  <2>. QED  BY <2>3, <2>4, <2>5
<1>. QED  BY <1>1, <1>2

\* Between two thresholds nothing changes.
LEMMA SameBetween ==
  ASSUME NEW c, NEW q \in Schedules, NEW e \in Nat, NEW p \in 0 .. e,
         \A i \in DOMAIN q : q[i].at =< e => q[i].at =< p
  PROVE  Effective(c, q, e) = Effective(c, q, p)
<1>1. \A i \in DOMAIN q : q[i].at \in Int
  BY Thresholds
<1>2. Reached(q, e) = Reached(q, p)
  BY <1>1 DEF Reached
<1>3. ~ (e < 0) /\ ~ (p < 0)
  OBVIOUS
<1>. QED  BY <1>2, <1>3 DEF Effective

\* At every age a link spends no more than its parent, though only the
\* thresholds of the two are compared.
LEMMA LinkSpendsLess ==
  ASSUME NEW s, NEW id, NEW t, Shaped(s), Shaped(t), LinkVerifies(s, id, t), NEW age \in Nat, NEW f \in Fields
  PROVE  Effective(t.constraints, t.schedule, age).limit[f] =< Effective(s.constraints, s.schedule, age).limit[f]
<1>1. CASE s.schedule = NoSchedule /\ t.schedule = NoSchedule
  <2>1. Reached(s.schedule, age) = {} /\ Reached(t.schedule, age) = {}
    BY <1>1 DEF Reached, NoSchedule
  <2>. QED  BY <2>1 DEF Effective, LinkVerifies, IsTighterThan
<1>2. CASE ~ (s.schedule = NoSchedule /\ t.schedule = NoSchedule)
  <2>. DEFINE P == {x \in TimePoints(s.schedule, t.schedule) : x \in 0 .. age}
              D == {age - x : x \in P}
  <2>1. D \in SUBSET Nat /\ D # {}
    <3>1. 0 \in P
      BY DEF TimePoints
    <3>2. \A x \in P : age - x \in Nat
      OBVIOUS
    <3>. QED  BY <3>1, <3>2
  <2>2. PICK d \in D : \A y \in D : d =< y
    <3>. HIDE DEF D
    <3>. QED  BY <2>1, LeastExists
  <2>3. PICK p \in P : d = age - p
    OBVIOUS
  <2>4. \A x \in P : x =< p
    <3>. SUFFICES ASSUME NEW x \in P PROVE x =< p
      OBVIOUS
    <3>1. d =< age - x
      BY <2>2
    <3>. QED  BY <2>3, <3>1
  <2>5. p \in TimePoints(s.schedule, t.schedule) /\ p \in 0 .. age
    OBVIOUS
  <2>6. \A i \in DOMAIN s.schedule : s.schedule[i].at =< age => s.schedule[i].at =< p
    <3>. SUFFICES ASSUME NEW i \in DOMAIN s.schedule, s.schedule[i].at =< age PROVE s.schedule[i].at =< p
      OBVIOUS
    <3>1. s.schedule[i].at \in Int /\ s.schedule[i].at \in TimePoints(s.schedule, t.schedule)
      BY Thresholds DEF Shaped, TimePoints
    <3>. QED  BY <2>4, <2>5, <3>1
  <2>7. \A i \in DOMAIN t.schedule : t.schedule[i].at =< age => t.schedule[i].at =< p
    <3>. SUFFICES ASSUME NEW i \in DOMAIN t.schedule, t.schedule[i].at =< age PROVE t.schedule[i].at =< p
      OBVIOUS
    <3>1. t.schedule[i].at \in Int /\ t.schedule[i].at \in TimePoints(s.schedule, t.schedule)
      BY Thresholds DEF Shaped, TimePoints
    <3>. QED  BY <2>4, <2>5, <3>1
  <2>. HIDE DEF P, D
  <2>8. /\ Effective(t.constraints, t.schedule, age) = Effective(t.constraints, t.schedule, p)
        /\ Effective(s.constraints, s.schedule, age) = Effective(s.constraints, s.schedule, p)
    BY <2>5, <2>6, <2>7, SameBetween DEF Shaped
  <2>9. Effective(t.constraints, t.schedule, p).limit[f] =< Effective(s.constraints, s.schedule, p).limit[f]
    BY <1>2, <2>5 DEF LinkVerifies, TemporalMonotone
  <2>. QED  BY <2>8, <2>9
<1>. QED  BY <1>1, <1>2

\* What a token gives less than another.
Below(t, s) ==
  /\ t.verbs \subseteq s.verbs
  /\ t.constraints.not_after =< s.constraints.not_after
  /\ t.constraints.not_before >= s.constraints.not_before
  /\ t.depth < s.depth
  /\ \A age \in Nat, u \in Usages : Admits(t, u, age) => Admits(s, u, age)

LEMMA LinkIsBelow ==
  ASSUME NEW s, NEW id, NEW t, Shaped(s), Shaped(t), LinkVerifies(s, id, t)
  PROVE  Below(t, s)
<1>1. ASSUME NEW age \in Nat, NEW u \in Usages, Admits(t, u, age)
      PROVE  Admits(s, u, age)
  <2>. DEFINE ct == Effective(t.constraints, t.schedule, age)
              cs == Effective(s.constraints, s.schedule, age)
  <2>1. /\ ct.limit \in [Fields -> Int] /\ ct.purpose = t.constraints.purpose
        /\ cs.limit \in [Fields -> Int] /\ cs.purpose = s.constraints.purpose
    BY EffectiveIsBounded DEF Shaped
  <2>2. \A f \in Fields : ct.limit[f] =< cs.limit[f]
    BY LinkSpendsLess
  <2>3. s.constraints.purpose # "" => t.constraints.purpose = s.constraints.purpose
    BY DEF LinkVerifies, IsTighterThan
  <2>4. u.used \in [Fields -> Int]
    BY TokensAssumption DEF TokensAssumption
  <2>. HIDE DEF ct, cs
  <2>5. /\ \A f \in Fields : u.used[f] =< ct.limit[f]
        /\ u.purpose = "" \/ ct.purpose \in {"", u.purpose}
    BY <1>1 DEF Admits, UsageAllowed, Spending, ct
  <2>6. \A f \in Fields : u.used[f] =< cs.limit[f]
    <3>. SUFFICES ASSUME NEW f \in Fields PROVE u.used[f] =< cs.limit[f]
      OBVIOUS
    <3>1. u.used[f] \in Int /\ ct.limit[f] \in Int /\ cs.limit[f] \in Int
      BY <2>1, <2>4
    <3>2. u.used[f] =< ct.limit[f] /\ ct.limit[f] =< cs.limit[f]
      BY <2>2, <2>5
    <3>. QED  BY <3>1, <3>2
  <2>7. u.purpose = "" \/ cs.purpose \in {"", u.purpose}
    BY <2>1, <2>3, <2>5
  <2>. QED  BY <2>6, <2>7 DEF Admits, UsageAllowed, Spending, cs
<1>2. t.depth < s.depth
  BY DEF LinkVerifies, Shaped
<1>. QED  BY <1>1, <1>2 DEF Below, LinkVerifies, IsTighterThan

LEMMA BelowTransitive ==
  ASSUME NEW r, NEW s, NEW t, Shaped(r), Shaped(s), Shaped(t), Below(t, s), Below(s, r)
  PROVE  Below(t, r)
<1>1. /\ t.constraints.not_after =< r.constraints.not_after
      /\ t.constraints.not_before >= r.constraints.not_before
      /\ t.depth < r.depth
  BY DEF Below, Shaped, Bounded
<1>. QED  BY <1>1 DEF Below

-------------------------------------------------------------------------------
(* Chains.                                                                    *)

\* The chain of a token goes from a root, link by link, to the token.
LEMMA TokenChains ==
  ASSUME TokensInv
  PROVE  \A i \in 1 .. Len(tokens) :
           /\ Chains[i] \in Seq(1 .. Len(tokens))
           /\ Chains[tokens[i].parent] \in Seq(1 .. Len(tokens))
           /\ Chains[i] = Append(Chains[tokens[i].parent], i)
           /\ tokens[i].parent = 0 => Chains[tokens[i].parent] = << >>
<1>. DEFINE n == Len(tokens)
<1>1. n \in Nat /\ Forest(tokens, n)
  BY DEF TokensInv, IsSeq
<1>2. Chains = CHOOSE g : g = Grown(g, tokens, n)
  BY DEF Chains, Grown
<1>. HIDE DEF n
<1>3. Chains = Grown(Chains, tokens, n)
  <2>1. \E g : g = Grown(g, tokens, n)
    BY <1>1, GrownExists
  <2>. QED  BY <1>2, <2>1, Zenon
<1>4. /\ Chains[0] = << >>
      /\ \A i \in 1 .. n : Chains[i] = Append(Chains[tokens[i].parent], i)
      /\ \A i \in 0 .. n : Chains[i] \in Seq(1 .. n)
  <2>. HIDE DEF Chains
  <2>. QED  BY <1>1, <1>3, GrownPaths
<1>5. \A i \in 1 .. n : i \in 0 .. n /\ tokens[i].parent \in 0 .. n
  BY <1>1 DEF Forest
<1>. QED  BY <1>4, <1>5 DEF n

PathTo(i) ==
  LET c == Chains[i]
  IN  /\ c \in Seq(1 .. Len(tokens)) /\ c # << >> /\ c[Len(c)] = i
      /\ tokens[c[1]].parent = NoParent
      /\ \A k \in 2 .. Len(c) : tokens[c[k]].parent = c[k - 1]

LEMMA ChainsArePathsOfTokens ==
  ASSUME TokensInv
  PROVE  \A i \in 1 .. Len(tokens) : PathTo(i)
<1>. DEFINE n == Len(tokens)
            C == {i \in 1 .. n : ~ PathTo(i)}
<1>0. n \in Nat /\ Forest(tokens, n)
  BY DEF TokensInv, IsSeq
<1>1. SUFFICES ASSUME C # {} PROVE FALSE
  OBVIOUS
<1>2. PICK i \in C : \A m \in C : i =< m
  <2>1. C \in SUBSET Nat
    OBVIOUS
  <2>. HIDE DEF C
  <2>. QED  BY <1>1, <2>1, LeastExists
<1>3. i \in 1 .. n /\ ~ PathTo(i)
  BY <1>2
<1>. DEFINE parent == tokens[i].parent
            c == Chains[i]
            d == Chains[parent]
<1>4. c \in Seq(1 .. n) /\ d \in Seq(1 .. n) /\ c = Append(d, i) /\ (parent = 0 => d = << >>)
  BY <1>3, TokenChains
<1>5. parent \in 0 .. (i - 1)
  BY <1>0, <1>3 DEF Forest
<1>6. parent # 0 => PathTo(parent)
  <2>1. parent # 0 => parent \in 1 .. n /\ ~ (i =< parent)
    BY <1>0, <1>3, <1>5
  <2>. QED  BY <1>2, <2>1
<1>. HIDE DEF C, n
<1>7. /\ Len(d) \in Nat /\ Len(c) = Len(d) + 1 /\ c[Len(d) + 1] = i
      /\ \A k \in 1 .. Len(d) : c[k] = d[k]
  <2>1. i \in 1 .. n
    BY <1>3
  <2>. HIDE DEF c, d, parent
  <2>. QED  BY <1>4, <2>1
<1>8. CASE parent = 0
  <2>1. Len(c) = 1 /\ c[1] = i
    BY <1>4, <1>7, <1>8
  <2>. QED  BY <1>3, <1>4, <1>8, <2>1 DEF PathTo, NoParent, n
<1>9. CASE parent # 0
  <2>1. /\ d # << >> /\ d[Len(d)] = parent /\ tokens[d[1]].parent = NoParent
        /\ \A k \in 2 .. Len(d) : tokens[d[k]].parent = d[k - 1]
    BY <1>6, <1>9 DEF PathTo
  <2>. HIDE DEF c, d
  <2>2. Len(d) >= 1
    BY <1>4, <1>7, <2>1
  <2>3. c[1] = d[1] /\ c[Len(c)] = i /\ c # << >>
    BY <1>4, <1>7, <2>2
  <2>4. ASSUME NEW k \in 2 .. Len(c)
        PROVE  tokens[c[k]].parent = c[k - 1]
    <3>1. CASE k = Len(d) + 1
      <4>1. c[k] = i /\ k - 1 = Len(d) /\ k - 1 \in 1 .. Len(d)
        BY <1>7, <2>2, <3>1
      <4>. QED  BY <1>7, <2>1, <4>1
    <3>2. CASE k # Len(d) + 1
      <4>1. k \in 2 .. Len(d) /\ k \in 1 .. Len(d) /\ k - 1 \in 1 .. Len(d)
        BY <1>7, <3>2
      <4>. QED  BY <1>7, <2>1, <4>1
    <3>. QED  BY <3>1, <3>2
  <2>. QED  BY <1>3, <1>4, <2>1, <2>3, <2>4 DEF PathTo, c, n
<1>. QED  BY <1>8, <1>9

\* A token gives less than each token before it in its chain.
LEMMA BelowAncestors ==
  ASSUME TokensInv
  PROVE  \A i \in 1 .. Len(tokens) : \A a \in Ancestors(i) :
           a \in 1 .. Len(tokens) /\ (a = i \/ Below(tokens[i], tokens[a]))
<1>. DEFINE n == Len(tokens)
            Fine(i) == \A a \in Ancestors(i) : a \in 1 .. n /\ (a = i \/ Below(tokens[i], tokens[a]))
            C == {i \in 1 .. n : ~ Fine(i)}
<1>0. n \in Nat /\ Forest(tokens, n)
  BY DEF TokensInv, IsSeq
<1>1. SUFFICES ASSUME C # {} PROVE FALSE
  OBVIOUS
<1>2. PICK i \in C : \A m \in C : i =< m
  <2>1. C \in SUBSET Nat
    OBVIOUS
  <2>. HIDE DEF C
  <2>. QED  BY <1>1, <2>1, LeastExists
<1>3. i \in 1 .. n /\ ~ Fine(i)
  BY <1>2
<1>. DEFINE parent == tokens[i].parent
<1>4. /\ Chains[i] \in Seq(1 .. n) /\ Chains[parent] \in Seq(1 .. n) /\ Chains[i] = Append(Chains[parent], i)
      /\ parent = 0 => Chains[parent] = << >>
  BY <1>3, TokenChains
<1>5. parent \in 0 .. (i - 1)
  BY <1>0, <1>3 DEF Forest
<1>6. parent # 0 => parent \in 1 .. n /\ Fine(parent)
  <2>1. parent # 0 => parent \in 1 .. n /\ ~ (i =< parent)
    BY <1>0, <1>3, <1>5
  <2>. QED  BY <1>2, <2>1
<1>. HIDE DEF C, n
<1>7. Ancestors(i) = {i} \cup ToSet(Chains[parent]) /\ ToSet(Chains[parent]) \subseteq 1 .. n
  <2>. DEFINE c == Chains[i]
              d == Chains[parent]
  <2>1. i \in 1 .. n /\ c = Append(d, i) /\ d \in Seq(1 .. n)
    BY <1>3, <1>4
  <2>. HIDE DEF c, d
  <2>2. ToSet(c) = {i} \cup ToSet(d)
    <3>1. /\ Len(d) \in Nat /\ DOMAIN d = 1 .. Len(d) /\ DOMAIN c = 1 .. (Len(d) + 1)
          /\ c[Len(d) + 1] = i /\ \A k \in 1 .. Len(d) : c[k] = d[k]
      BY <2>1
    <3>2. \A k \in 1 .. (Len(d) + 1) : k = Len(d) + 1 \/ k \in 1 .. Len(d)
      BY <3>1
    <3>3. Len(d) + 1 \in 1 .. (Len(d) + 1) /\ \A k \in 1 .. Len(d) : k \in 1 .. (Len(d) + 1)
      BY <3>1
    <3>. QED  BY <3>1, <3>2, <3>3 DEF ToSet
  <2>3. ToSet(d) \subseteq 1 .. n
    <3>1. \A k \in DOMAIN d : d[k] \in 1 .. n
      <4>. DEFINE S == 1 .. n
      <4>1. d \in Seq(S)
        BY <2>1
      <4>. HIDE DEF S
      <4>2. \A k \in DOMAIN d : d[k] \in S
        BY <4>1
      <4>. QED  BY <4>2 DEF S
    <3>2. ToSet(d) = {d[k] : k \in DOMAIN d}
      BY DEF ToSet
    <3>. QED  BY <3>1, <3>2
  <2>. QED  BY <2>2, <2>3 DEF Ancestors, c, d
<1>8. ASSUME NEW a \in ToSet(Chains[parent])
      PROVE  Below(tokens[i], tokens[a])
  <2>1. parent # 0
    BY <1>4, <1>8 DEF ToSet
  <2>2. Shaped(tokens[i]) /\ Shaped(tokens[parent]) /\ Shaped(tokens[a])
    BY <1>3, <1>6, <1>7, <2>1 DEF TokensInv, n
  <2>3. LinkVerifies(tokens[parent], parent, tokens[i])
    BY <1>3, <2>1 DEF TokensInv, Linked, NoParent, n
  <2>4. Below(tokens[i], tokens[parent])
    BY <2>2, <2>3, LinkIsBelow
  <2>5. a = parent \/ Below(tokens[parent], tokens[a])
    BY <1>6, <2>1 DEF Ancestors
  <2>. QED  BY <2>2, <2>4, <2>5, BelowTransitive
<1>9. Fine(i)
  BY <1>3, <1>7, <1>8
<1>. QED  BY <1>3, <1>9

-------------------------------------------------------------------------------
(* Tokens that are combined.                                                  *)

LEMMA MeetOfTwo ==
  ASSUME NEW cs, DOMAIN cs = 1 .. 2, Len(cs) = 2
  PROVE  IntersectConstraints(cs) = MeetBounds(cs[1], cs[2])
<1>. DEFINE F(g) == [i \in DOMAIN cs |-> IF i = 1 THEN cs[1] ELSE MeetBounds(g[i - 1], cs[i])]
            t == CHOOSE g : g = F(g)
<1>1. IntersectConstraints(cs) = t[2]
  BY DEF IntersectConstraints
<1>2. \E g : g = F(g)
  <2>. DEFINE g == [i \in 1 .. 2 |-> IF i = 1 THEN cs[1] ELSE MeetBounds(cs[1], cs[2])]
  <2>1. \A i \in 1 .. 2 : g[i] = IF i = 1 THEN cs[1] ELSE MeetBounds(g[i - 1], cs[i])
    <3>1. \A i \in 1 .. 2 : i = 1 \/ i = 2
      OBVIOUS
    <3>2. g[1] = cs[1] /\ g[2] = MeetBounds(cs[1], cs[2]) /\ 2 - 1 = 1
      OBVIOUS
    <3>. HIDE DEF g
    <3>. QED  BY <3>1, <3>2
  <2>2. g = [i \in 1 .. 2 |-> g[i]]
    OBVIOUS
  <2>. HIDE DEF g
  <2>3. g = F(g)
    BY <2>1, <2>2
  <2>. QED  BY <2>3
<1>3. t = F(t)
  <2>. HIDE DEF F
  <2>. QED  BY <1>2, Zenon
<1>. HIDE DEF t
<1>4. t[1] = cs[1] /\ t[2] = MeetBounds(t[1], cs[2])
  <2>. DEFINE u == F(t)
  <2>1. u[1] = cs[1] /\ u[2] = MeetBounds(t[2 - 1], cs[2]) /\ 2 - 1 = 1
    OBVIOUS
  <2>2. t = u
    BY <1>3
  <2>. HIDE DEF u
  <2>. QED  BY <2>1, <2>2
<1>. QED  BY <1>1, <1>4

\* The constraints of two tokens together.
LEMMA PairBinds ==
  ASSUME TokensInv, NEW p \in Pairs
  PROVE  LET c == EffectiveConstraints(Leaves(p))
         IN  /\ Binds(c, Leaves(p))
             /\ \A time \in Int :
                  (\A k \in 1 .. 2 : InTime(tokens[p[k]], time)) => c.not_before =< time /\ time < c.not_after
<1>. DEFINE ts == Leaves(p)
            cs == [k \in DOMAIN ts |-> ts[k].constraints]
            a == tokens[p[1]].constraints
            b == tokens[p[2]].constraints
            c == EffectiveConstraints(ts)
<1>1. p[1] \in 1 .. Len(tokens) /\ p[2] \in 1 .. Len(tokens) /\ DOMAIN p = 1 .. 2
  BY DEF Pairs, TokensInv, IsSeq
<1>2. Bounded(a) /\ Bounded(b)
  BY <1>1 DEF TokensInv, Shaped
<1>3. DOMAIN ts = 1 .. 2 /\ ts[1] = tokens[p[1]] /\ ts[2] = tokens[p[2]]
  BY <1>1 DEF Leaves
<1>4. DOMAIN cs = 1 .. 2 /\ Len(cs) = 2 /\ cs[1] = a /\ cs[2] = b
  BY <1>3
<1>5. c = MeetBounds(a, b)
  <2>1. c = IntersectConstraints(cs)
    BY DEF EffectiveConstraints
  <2>. HIDE DEF cs
  <2>. QED  BY <1>4, <2>1, MeetOfTwo
<1>6. /\ c.not_before = Larger(a.not_before, b.not_before) /\ c.not_after = Smaller(a.not_after, b.not_after)
      /\ c.limit = [f \in Fields |-> Smaller(a.limit[f], b.limit[f])]
  BY <1>5 DEF MeetBounds
<1>7. \A k \in 1 .. 2 : k = 1 \/ k = 2
  OBVIOUS
<1>. HIDE DEF c
<1>8. /\ c.not_before >= a.not_before /\ c.not_before >= b.not_before
      /\ c.not_after =< a.not_after /\ c.not_after =< b.not_after
      /\ \A f \in Fields : c.limit[f] =< a.limit[f] /\ c.limit[f] =< b.limit[f]
  <2>1. \A x, y \in Int : /\ Larger(x, y) >= x /\ Larger(x, y) >= y
                          /\ Smaller(x, y) =< x /\ Smaller(x, y) =< y
    BY DEF Larger, Smaller
  <2>2. /\ a.not_before \in Int /\ b.not_before \in Int /\ a.not_after \in Int /\ b.not_after \in Int
        /\ \A f \in Fields : a.limit[f] \in Int /\ b.limit[f] \in Int
    BY <1>2 DEF Bounded
  <2>. HIDE DEF a, b
  <2>3. \A f \in Fields : c.limit[f] = Smaller(a.limit[f], b.limit[f])
    BY <1>6
  <2>4. \A f \in Fields : c.limit[f] =< a.limit[f] /\ c.limit[f] =< b.limit[f]
    BY <2>1, <2>2, <2>3
  <2>. QED  BY <1>6, <2>1, <2>2, <2>4
<1>9. Binds(c, ts)
  BY <1>3, <1>7, <1>8 DEF Binds
<1>10. ASSUME NEW time \in Int, \A k \in 1 .. 2 : InTime(tokens[p[k]], time)
       PROVE  c.not_before =< time /\ time < c.not_after
  <2>1. InTime(tokens[p[1]], time) /\ InTime(tokens[p[2]], time)
    BY <1>10
  <2>2. a.not_before =< time /\ time < a.not_after /\ b.not_before =< time /\ time < b.not_after
    BY <1>2, <2>1 DEF InTime, IsExpired, IsNotYetValid, Bounded
  <2>. QED  BY <1>2, <1>6, <2>2 DEF Bounded, Larger, Smaller
<1>. QED  BY <1>9, <1>10 DEF c

-------------------------------------------------------------------------------
(* The theorems.                                                              *)

\* What the delegation functions build, the verifier accepts (attenuate_token,
\* create_sub_invocation_token, split_token against verify_delegation_chain):
\* every chain verifies, with its expiry checks for as long as its last token is
\* in its time, for any grants, attenuations, tools, splits and schedules.
THEOREM DelegationAlwaysVerifies == Spec => []DelegationVerifies
<1>1. ASSUME TokensInv PROVE DelegationVerifies
  <2>. SUFFICES ASSUME NEW i \in DOMAIN tokens
                PROVE  ChainVerifies(tokens, Chains[i], InTime(tokens[i], now), now)
    BY DEF DelegationVerifies
  <2>. DEFINE c == Chains[i]
  <2>1. i \in 1 .. Len(tokens)
    BY <1>1 DEF TokensInv, IsSeq
  <2>2. /\ c \in Seq(1 .. Len(tokens)) /\ c # << >> /\ c[Len(c)] = i
        /\ tokens[c[1]].parent = NoParent
        /\ \A k \in 2 .. Len(c) : tokens[c[k]].parent = c[k - 1]
    BY <1>1, <2>1, ChainsArePathsOfTokens DEF PathTo
  <2>3. ASSUME NEW k \in DOMAIN c, InTime(tokens[i], now)
        PROVE  InTime(tokens[c[k]], now)
    <3>1. c[k] \in Ancestors(i)
      BY DEF Ancestors, ToSet
    <3>2. c[k] \in 1 .. Len(tokens) /\ (c[k] = i \/ Below(tokens[i], tokens[c[k]]))
      BY <1>1, <2>1, <3>1, BelowAncestors
    <3>3. Shaped(tokens[i]) /\ Shaped(tokens[c[k]]) /\ now \in Nat
      BY <1>1, <2>1, <3>2 DEF TokensInv
    <3>. HIDE DEF c
    <3>4. CASE Below(tokens[i], tokens[c[k]])
      BY <2>3, <3>3, <3>4 DEF Below, Shaped, Bounded, InTime, IsExpired, IsNotYetValid
    <3>. QED  BY <2>3, <3>2, <3>4
  <2>. HIDE DEF c
  <2>4. Head(c) = c[1]
    BY <2>2
  <2>5. ASSUME NEW k \in 2 .. Len(c)
        PROVE  LinkVerifies(tokens[c[k - 1]], c[k - 1], tokens[c[k]])
    <3>1. c[k] \in 1 .. Len(tokens) /\ c[k - 1] \in 1 .. Len(tokens)
      <4>1. k \in 1 .. Len(c) /\ k - 1 \in 1 .. Len(c)
        BY <2>2
      <4>. QED  BY <2>2, <4>1
    <3>2. tokens[c[k]].parent = c[k - 1] /\ c[k - 1] # NoParent
      BY <2>2, <3>1 DEF NoParent
    <3>3. Linked(tokens, c[k])
      BY <1>1, <3>1 DEF TokensInv
    <3>. QED  BY <3>2, <3>3 DEF Linked
  <2>6. ChainVerifies(tokens, c, InTime(tokens[i], now), now)
    BY <2>2, <2>3, <2>4, <2>5 DEF ChainVerifies
  <2>. QED  BY <2>6 DEF c
<1>. QED  BY <1>1, TokensInvStarts, TokensInvKept, PTL DEF Spec

\* Whatever is built from a token, alone or with others, gives less than it: down
\* a chain of any length verbs, expiry, depth and, at every age, what may be
\* spent and for which purpose only shrink, and constraints that are combined
\* bind as hard as every source's (attenuate_token, _verify_temporal_monotonicity,
\* aggregate_tokens, verify_multi_owner_token).
THEOREM AuthorityAlwaysShrinks == Spec => []AuthorityShrinks
<1>1. ASSUME TokensInv PROVE AuthorityShrinks
  <2>1. NarrowsDownChains
    <3>. SUFFICES ASSUME NEW i \in DOMAIN tokens, NEW a \in Ancestors(i) \ {i}
                  PROVE  /\ tokens[i].verbs \subseteq tokens[a].verbs
                         /\ tokens[i].constraints.not_after =< tokens[a].constraints.not_after
                         /\ tokens[i].depth < tokens[a].depth
                         /\ \A age \in 0 .. MaxTime, u \in Usages :
                              Admits(tokens[i], u, age) => Admits(tokens[a], u, age)
      BY DEF NarrowsDownChains
    <3>1. i \in 1 .. Len(tokens)
      BY <1>1 DEF TokensInv, IsSeq
    <3>2. Below(tokens[i], tokens[a])
      BY <1>1, <3>1, BelowAncestors
    <3>3. \A age \in 0 .. MaxTime : age \in Nat
      OBVIOUS
    <3>. QED  BY <3>2, <3>3 DEF Below
  <2>2. CombiningRestricts
    <3>. SUFFICES ASSUME NEW p \in Pairs
                  PROVE  LET c == EffectiveConstraints(Leaves(p))
                         IN  /\ Binds(c, Leaves(p))
                             /\ VerifyMultiOwner(tokens, [k \in DOMAIN p |-> Chains[p[k]]], TRUE, now) =>
                                  c.not_before =< now /\ now < c.not_after
      BY DEF CombiningRestricts, AggregateTokens
    <3>1. now \in Int /\ p[1] \in 1 .. Len(tokens) /\ p[2] \in 1 .. Len(tokens) /\ DOMAIN p = 1 .. 2
      BY <1>1 DEF TokensInv, IsSeq, Pairs
    <3>2. ASSUME VerifyMultiOwner(tokens, [k \in DOMAIN p |-> Chains[p[k]]], TRUE, now), NEW k \in 1 .. 2
          PROVE  InTime(tokens[p[k]], now)
      <4>. DEFINE c == Chains[p[k]]
      <4>1. p[k] \in 1 .. Len(tokens)
        BY <3>1, <3>2
      <4>2. c \in Seq(1 .. Len(tokens)) /\ c # << >> /\ c[Len(c)] = p[k]
        BY <1>1, <4>1, ChainsArePathsOfTokens DEF PathTo
      <4>3. ChainVerifies(tokens, c, TRUE, now)
        BY <3>1, <3>2 DEF VerifyMultiOwner
      <4>. HIDE DEF c
      <4>4. Len(c) \in DOMAIN c
        BY <4>2
      <4>. QED  BY <4>2, <4>3, <4>4 DEF ChainVerifies
    <3>. QED  BY <1>1, <3>1, <3>2, PairBinds
  <2>. QED  BY <2>1, <2>2 DEF AuthorityShrinks
<1>. QED  BY <1>1, TokensInvStarts, TokensInvKept, PTL DEF Spec

-----------------------------------------------------------------------------
(* Token buckets (RateLimiter).                                            *)

\* What a bucket would hold if it were refilled at a time.
Level(b, at) == LET filled == b.parts + b.rate * (at - b.refilled)
                IN  IF filled > Capacity(b) THEN Capacity(b) ELSE filled

Bucketed(b, at) ==
  /\ b = [kind |-> "bucket", rate |-> b.rate, parts |-> b.parts, refilled |-> b.refilled, made |-> b.made]
  /\ b.rate \in Rates /\ b.parts \in Nat /\ b.parts =< Capacity(b)
  /\ b.refilled \in Nat /\ b.refilled =< at
  /\ b.made \in Nat /\ b.made =< at

\* What can still be spent of the bucket there is, and what a window may have
\* given by now: the bucket it began with, the one made in it, and the refills.
Held == IF bucket = NoBucket THEN 0 ELSE Level(bucket, clock)
MadeIn(w) == bucket # NoBucket /\ bucket.made >= w
Given(w) == (IF MadeIn(w) THEN 2 * (TopRate * Period) ELSE TopRate * Period) + TopRate * (clock - w)
Spent(w) == Cardinality(InWindow(w)) * Period

RateInv ==
  /\ clock \in Nat
  /\ uses \in Seq(Nat) /\ \A i \in 1 .. Len(uses) : uses[i] =< clock
  /\ bucket = NoBucket \/ Bucketed(bucket, clock)
  /\ \A w \in 0 .. clock : /\ Cardinality(InWindow(w)) =< 3 * TopRate
                           /\ clock < w + Period => Spent(w) + Held =< Given(w)

LEMMA TopRateIsTop == TopRate \in Nat /\ \A r \in Rates : r \in Nat /\ r =< TopRate
BY RateAssumption DEF RateAssumption, TopRate

LEMMA Products ==
  ASSUME NEW a \in Nat, NEW b \in Nat, NEW c \in Nat
  PROVE  /\ a * c \in Nat /\ (a + 1) * c = a * c + c /\ a * (c + 1) = a * c + a
         /\ a =< b => a * c =< b * c /\ c * a =< c * b
         /\ c > 0 /\ a * c =< b * c => a =< b
<1>1. a * c \in Nat /\ b * c \in Nat /\ (a + 1) * c = a * c + c /\ a * (c + 1) = a * c + a /\ c * a = a * c /\ c * b = b * c
  BY SMT
<1>2. a =< b => a * c =< b * c
  <2>. SUFFICES ASSUME a =< b PROVE a * c =< b * c
    OBVIOUS
  <2>1. PICK d \in Nat : b = a + d
    <3>. WITNESS b - a \in Nat
    <3>. QED  OBVIOUS
  <2>2. b * c = a * c + d * c /\ d * c \in Nat
    BY <2>1
  <2>. QED  BY <1>1, <2>2
<1>3. c > 0 /\ a * c =< b * c => a =< b
  <2>. SUFFICES ASSUME c > 0, b < a PROVE b * c < a * c
    BY <1>1
  <2>1. PICK d \in Nat : a = b + 1 + d
    <3>. WITNESS a - b - 1 \in Nat
    <3>. QED  OBVIOUS
  <2>2. a * c = b * c + c + d * c /\ d * c \in Nat
    BY <2>1
  <2>. QED  BY <1>1, <2>2
<1>. QED  BY <1>1, <1>2, <1>3

LEMMA LevelFits ==
  ASSUME NEW at \in Nat, NEW b, Bucketed(b, at)
  PROVE  /\ Level(b, at) \in Nat /\ Level(b, at) =< Capacity(b)
         /\ Capacity(b) \in Nat /\ Capacity(b) =< TopRate * Period
<1>1. b.rate \in Nat /\ b.rate =< TopRate /\ TopRate \in Nat /\ Period \in Nat /\ at - b.refilled \in Nat
  BY TopRateIsTop, RateAssumption DEF RateAssumption, Bucketed
<1>2. /\ b.rate * Period \in Nat /\ b.rate * Period =< TopRate * Period
      /\ b.rate * (at - b.refilled) \in Nat
  BY <1>1, Products
<1>. QED  BY <1>2 DEF Level, Capacity, Bucketed

\* A tick refills a bucket by its rate at most.
LEMMA LevelTicks ==
  ASSUME NEW at \in Nat, NEW b, Bucketed(b, at)
  PROVE  Level(b, at + 1) =< Level(b, at) + TopRate
<1>1. /\ b.rate \in Nat /\ b.rate =< TopRate /\ TopRate \in Nat /\ at - b.refilled \in Nat
      /\ (at + 1) - b.refilled = (at - b.refilled) + 1
  BY TopRateIsTop DEF Bucketed
<1>2. /\ b.rate * ((at + 1) - b.refilled) = b.rate * (at - b.refilled) + b.rate
      /\ b.rate * (at - b.refilled) \in Nat
  <2>. DEFINE k == b.rate
              e == at - b.refilled
  <2>1. k \in Nat /\ e \in Nat /\ (at + 1) - b.refilled = e + 1
    BY <1>1
  <2>. HIDE DEF k, e
  <2>2. k * (e + 1) = k * e + k /\ k * e \in Nat
    BY <2>1, Products
  <2>. QED  BY <2>1, <2>2 DEF k, e
<1>3. Capacity(b) \in Nat /\ b.parts \in Nat
  BY LevelFits DEF Bucketed
<1>. QED  BY <1>1, <1>2, <1>3 DEF Level

-----------------------------------------------------------------------------
(* The uses in a window.                                                   *)

LEMMA WindowsAreFinite ==
  ASSUME uses \in Seq(Nat), NEW w
  PROVE  IsFiniteSet(InWindow(w)) /\ Cardinality(InWindow(w)) \in Nat
<1>1. Len(uses) \in Nat /\ DOMAIN uses = 1 .. Len(uses)
  OBVIOUS
<1>2. IsFiniteSet(1 .. Len(uses)) /\ InWindow(w) \in SUBSET (1 .. Len(uses))
  BY <1>1, FS_Interval DEF InWindow
<1>3. IsFiniteSet(InWindow(w))
  BY <1>2, FS_Subset
<1>. QED  BY <1>3, FS_CardinalityType

\* A use now counts in the windows that are open, and in no other.
LEMMA UseCounts ==
  ASSUME RateInv, uses' = Append(uses, clock), NEW w \in 0 .. clock
  PROVE  Cardinality(InWindow(w)') =
           IF clock < w + Period THEN Cardinality(InWindow(w)) + 1 ELSE Cardinality(InWindow(w))
<1>. DEFINE n == Len(uses)
<1>1. /\ n \in Nat /\ DOMAIN uses = 1 .. n /\ DOMAIN uses' = 1 .. (n + 1)
      /\ uses'[n + 1] = clock /\ \A i \in 1 .. n : uses'[i] = uses[i]
  BY DEF RateInv
<1>2. uses \in Seq(Nat) /\ clock \in Nat /\ Period \in Nat
  BY RateAssumption DEF RateInv, RateAssumption
<1>3. InWindow(w)' = {i \in 1 .. (n + 1) : w =< uses'[i] /\ uses'[i] < w + Period}
  BY <1>1 DEF InWindow
<1>4. InWindow(w) = {i \in 1 .. n : w =< uses[i] /\ uses[i] < w + Period}
  BY <1>1 DEF InWindow
<1>. HIDE DEF n
<1>5. InWindow(w)' = IF clock < w + Period THEN InWindow(w) \cup {n + 1} ELSE InWindow(w)
  <2>1. \A i : i \in 1 .. (n + 1) <=> i \in 1 .. n \/ i = n + 1
    BY <1>1
  <2>2. CASE clock < w + Period
    BY <1>1, <1>2, <1>3, <1>4, <2>1, <2>2
  <2>3. CASE ~ (clock < w + Period)
    BY <1>1, <1>2, <1>3, <1>4, <2>1, <2>3
  <2>. QED  BY <2>2, <2>3
<1>6. n + 1 \notin InWindow(w)
  BY <1>1, <1>4
<1>7. IsFiniteSet(InWindow(w))
  BY <1>2, WindowsAreFinite
<1>. QED  BY <1>5, <1>6, <1>7, FS_AddElement

-----------------------------------------------------------------------------
(* The steps.                                                              *)

LEMMA RateStarts == LInit => RateInv
<1>. SUFFICES ASSUME LInit PROVE RateInv
  OBVIOUS
<1>1. clock = 0 /\ uses = << >> /\ bucket = NoBucket /\ uses \in Seq(Nat)
  BY DEF LInit
<1>2. InWindow(0) = {} /\ Cardinality(InWindow(0)) = 0
  BY <1>1, FS_EmptySet DEF InWindow
<1>3. /\ TopRate \in Nat /\ Period \in Nat /\ TopRate * Period \in Nat
      /\ TopRate * 0 = 0 /\ 0 * Period = 0
  BY TopRateIsTop, RateAssumption, Products DEF RateAssumption
<1>4. Spent(0) + Held =< Given(0)
  BY <1>1, <1>2, <1>3 DEF Spent, Held, Given, MadeIn
<1>. QED  BY <1>1, <1>2, <1>3, <1>4 DEF RateInv

\* A window is at its end when its time is: no more is spent in it than it was
\* given, and that is three full buckets.
LEMMA GivenIsBounded ==
  ASSUME RateInv, NEW w \in Nat, w =< clock, clock < w + Period,
         NEW n \in Nat, NEW left \in Nat,
         n * Period + left =< 2 * (TopRate * Period) + TopRate * (clock - w)
  PROVE  n =< 3 * TopRate
<1>1. TopRate \in Nat /\ Period \in Nat /\ Period > 0 /\ clock - w \in Nat /\ clock - w =< Period
  BY TopRateIsTop, RateAssumption DEF RateAssumption, RateInv
<1>2. TopRate * (clock - w) =< TopRate * Period /\ TopRate * Period \in Nat /\ n * Period \in Nat
      /\ TopRate * (clock - w) \in Nat
  BY <1>1, Products
<1>3. n * Period =< TopRate * Period + TopRate * Period + TopRate * Period
  BY <1>2 DEF Given
<1>4. 3 * TopRate \in Nat /\ (3 * TopRate) * Period = TopRate * Period + TopRate * Period + TopRate * Period
  BY <1>1
<1>. QED  BY <1>1, <1>3, <1>4, Products

LEMMA TickKeepsRate ==
  ASSUME RateInv, LTick
  PROVE  RateInv'
<1>0. /\ clock \in Nat /\ clock' = clock + 1 /\ bucket' = bucket /\ uses' = uses /\ uses \in Seq(Nat)
      /\ \A w : InWindow(w)' = InWindow(w) /\ Cardinality(InWindow(w)) \in Nat
  BY WindowsAreFinite DEF LTick, RateInv, InWindow
<1>1. TopRate \in Nat /\ Period \in Nat /\ Period > 0 /\ TopRate * Period \in Nat
  BY TopRateIsTop, RateAssumption, Products DEF RateAssumption
<1>2. bucket = NoBucket \/ Bucketed(bucket, clock + 1)
  BY <1>0 DEF RateInv, Bucketed, Capacity
<1>3. Held \in Nat /\ Held' \in Nat /\ Held' =< Held + TopRate /\ Held' =< TopRate * Period
  <2>1. CASE bucket = NoBucket
    BY <1>0, <1>1, <2>1 DEF Held
  <2>2. CASE bucket # NoBucket
    <3>1. Bucketed(bucket, clock) /\ Bucketed(bucket, clock + 1)
      BY <1>2, <2>2 DEF RateInv
    <3>2. Level(bucket, clock) \in Nat
      BY <1>0, <3>1, LevelFits
    <3>3. Level(bucket, clock + 1) \in Nat /\ Level(bucket, clock + 1) =< Capacity(bucket) /\ Capacity(bucket) =< TopRate * Period
          /\ Capacity(bucket) \in Nat
      BY <1>0, <3>1, LevelFits
    <3>4. Level(bucket, clock + 1) =< Level(bucket, clock) + TopRate
      BY <1>0, <3>1, LevelTicks
    <3>. QED  BY <1>0, <1>1, <2>2, <3>2, <3>3, <3>4 DEF Held
  <2>. QED  BY <2>1, <2>2
<1>4. ASSUME NEW w \in 0 .. clock'
      PROVE  /\ Cardinality(InWindow(w)') =< 3 * TopRate
             /\ clock' < w + Period => Spent(w)' + Held' =< Given(w)'
  <2>1. CASE w = clock + 1
    <3>1. InWindow(w) = {} /\ Cardinality(InWindow(w)) = 0
      <4>1. \A i \in DOMAIN uses : uses[i] \in Nat /\ uses[i] =< clock
        BY <1>0 DEF RateInv
      <4>2. InWindow(w) = {}
        BY <1>0, <2>1, <4>1 DEF InWindow
      <4>. QED  BY <4>2, FS_EmptySet
    <3>2. clock' - w = 0 /\ TopRate * 0 = 0 /\ 0 * Period = 0
      BY <1>0, <1>1, <2>1
    <3>3. Given(w)' >= TopRate * Period
      BY <1>1, <3>2 DEF Given
    <3>4. Spent(w)' = 0
      BY <1>0, <3>1, <3>2 DEF Spent
    <3>5. Given(w)' \in Nat
      BY <1>1, <3>2 DEF Given
    <3>6. Cardinality(InWindow(w)') = 0
      BY <1>0, <3>1
    <3>7. Spent(w)' + Held' =< Given(w)'
      BY <1>1, <1>3, <3>3, <3>4, <3>5
    <3>. QED  BY <1>1, <3>6, <3>7
  <2>2. CASE w # clock + 1
    <3>1. w \in 0 .. clock /\ w \in Nat /\ clock - w \in Nat /\ clock' - w = (clock - w) + 1
      BY <1>0, <2>2
    <3>2. Cardinality(InWindow(w)) =< 3 * TopRate
      BY <3>1 DEF RateInv
    <3>3. ASSUME clock' < w + Period
          PROVE  Spent(w)' + Held' =< Given(w)'
      <4>1. clock < w + Period
        BY <1>0, <1>1, <3>1, <3>3
      <4>2. Spent(w) + Held =< Given(w)
        BY <3>1, <4>1 DEF RateInv
      <4>3. TopRate * (clock' - w) = TopRate * (clock - w) + TopRate /\ TopRate * (clock - w) \in Nat
        BY <1>1, <3>1, Products
      <4>4. MadeIn(w)' <=> MadeIn(w)
        BY <1>0 DEF MadeIn
      <4>5. Given(w)' = Given(w) + TopRate /\ Given(w) \in Nat
        BY <1>1, <4>3, <4>4 DEF Given
      <4>6. Spent(w)' = Spent(w) /\ Spent(w) \in Nat
        BY <1>0, <1>1, Products DEF Spent
      <4>. QED  BY <1>1, <1>3, <4>2, <4>5, <4>6
    <3>. QED  BY <1>0, <3>2, <3>3
  <2>. QED  BY <2>1, <2>2
<1>5. \A i \in 1 .. Len(uses) : uses[i] =< clock + 1
  BY <1>0 DEF RateInv
<1>. QED  BY <1>0, <1>2, <1>4, <1>5 DEF RateInv

\* Refilling changes neither the rate nor the time a bucket was made, and
\* leaves it at its level.
LEMMA RefillFits ==
  ASSUME clock \in Nat, NEW b, Bucketed(b, clock)
  PROVE  /\ Bucketed(Refill(b), clock) /\ Refill(b).parts = Level(b, clock)
         /\ Refill(b).made = b.made /\ Refill(b).rate = b.rate /\ Refill(b).refilled = clock
<1>1. Refill(b) = [kind |-> "bucket", rate |-> b.rate, parts |-> Level(b, clock), refilled |-> clock, made |-> b.made]
  <2>1. PICK r, p, f, m : b = [kind |-> "bucket", rate |-> r, parts |-> p, refilled |-> f, made |-> m]
    BY DEF Bucketed
  <2>2. Level(b, clock) = LET filled == p + r * (clock - f) IN IF filled > Capacity(b) THEN Capacity(b) ELSE filled
    BY <2>1 DEF Level
  <2>3. Refill(b) = [[b EXCEPT !.parts = Level(b, clock)] EXCEPT !.refilled = clock]
    BY DEF Refill, Level
  <2>. QED  BY <2>1, <2>3
<1>2. Level(b, clock) \in Nat /\ Level(b, clock) =< Capacity(b)
  BY LevelFits
<1>. QED  BY <1>1, <1>2 DEF Bucketed, Capacity

\* A bucket that was just refilled is at its level.
LEMMA LevelNow ==
  ASSUME clock \in Nat, NEW b, Bucketed(b, clock), b.refilled = clock
  PROVE  Level(b, clock) = b.parts
<1>1. b.rate \in Nat /\ clock - b.refilled = 0 /\ b.rate * 0 = 0
  BY TopRateIsTop DEF Bucketed
<1>2. Capacity(b) \in Nat
  BY LevelFits
<1>. QED  BY <1>1, <1>2 DEF Level, Bucketed

\* What a use does: the bucket is the one there is or a full one made now, and
\* gives one use or is left as it is.
LEMMA UseSpends ==
  ASSUME RateInv, NEW r \in Rates, Use(r)
  PROVE  \E b :
           /\ Bucketed(b, clock)
           /\ \/ bucket # NoBucket /\ b = bucket
              \/ bucket = NoBucket /\ b.made = clock
           /\ bucket' # NoBucket /\ Bucketed(bucket', clock) /\ bucket'.made = b.made
           /\ clock' = clock
           /\ \/ uses' = uses /\ Level(bucket', clock) = Level(b, clock)
              \/ uses' = Append(uses, clock) /\ Level(bucket', clock) + Period = Level(b, clock)
<1>. DEFINE b == GetOrCreate(r)
            c == Refill(b)
            d == [c EXCEPT !.parts = c.parts - Period]
<1>0. clock \in Nat /\ r \in Nat /\ r > 0 /\ Period \in Nat /\ r * Period \in Nat
  BY TopRateIsTop, RateAssumption, Products DEF RateInv, Use, RateAssumption
<1>1. /\ Bucketed(b, clock)
      /\ \/ bucket # NoBucket /\ b = bucket
         \/ bucket = NoBucket /\ b.made = clock
  <2>1. CASE bucket = NoBucket
    BY <1>0, <2>1 DEF GetOrCreate, Full, Bucketed, Capacity
  <2>2. CASE bucket # NoBucket
    BY <2>2 DEF GetOrCreate, RateInv
  <2>. QED  BY <2>1, <2>2
<1>2. /\ clock' = clock
      /\ \/ c.parts >= Period /\ bucket' = d /\ uses' = Append(uses, clock)
         \/ bucket' = c /\ uses' = uses
  BY DEF Use
<1>. HIDE DEF b
<1>3. /\ Bucketed(c, clock) /\ c.parts = Level(b, clock) /\ c.made = b.made /\ c.refilled = clock
      /\ Level(c, clock) = c.parts
  BY <1>0, <1>1, RefillFits, LevelNow
<1>. HIDE DEF c
<1>4. CASE bucket' = c /\ uses' = uses
  <2>1. bucket' # NoBucket
    BY <1>3, <1>4 DEF Bucketed, NoBucket
  <2>. QED  BY <1>1, <1>2, <1>3, <1>4, <2>1
<1>5. CASE c.parts >= Period /\ bucket' = d /\ uses' = Append(uses, clock)
  <2>1. d = [kind |-> "bucket", rate |-> c.rate, parts |-> c.parts - Period, refilled |-> c.refilled, made |-> c.made]
    <3>1. PICK s, p, f, m : c = [kind |-> "bucket", rate |-> s, parts |-> p, refilled |-> f, made |-> m]
      BY <1>3 DEF Bucketed
    <3>. QED  BY <3>1
  <2>. HIDE DEF d
  <2>2. c.parts \in Nat /\ c.parts - Period \in Nat /\ Capacity(c) \in Nat /\ Capacity(d) = Capacity(c)
        /\ c.parts - Period =< c.parts
    BY <1>0, <1>3, <1>5, <2>1, LevelFits DEF Bucketed, Capacity
  <2>3. Bucketed(d, clock) /\ d.made = b.made /\ d.refilled = clock /\ d.parts + Period = Level(b, clock)
    BY <1>0, <1>3, <2>1, <2>2 DEF Bucketed
  <2>4. Level(d, clock) = d.parts
    BY <1>0, <2>3, LevelNow
  <2>5. d # NoBucket
    BY <2>1 DEF NoBucket
  <2>. QED  BY <1>1, <1>2, <1>5, <2>3, <2>4, <2>5
<1>. QED  BY <1>2, <1>4, <1>5

LEMMA UseKeepsRate ==
  ASSUME RateInv, NEW r \in Rates, Use(r)
  PROVE  RateInv'
<1>1. PICK b :
           /\ Bucketed(b, clock)
           /\ \/ bucket # NoBucket /\ b = bucket
              \/ bucket = NoBucket /\ b.made = clock
           /\ bucket' # NoBucket /\ Bucketed(bucket', clock) /\ bucket'.made = b.made
           /\ clock' = clock
           /\ \/ uses' = uses /\ Level(bucket', clock) = Level(b, clock)
              \/ uses' = Append(uses, clock) /\ Level(bucket', clock) + Period = Level(b, clock)
  BY UseSpends
<1>2. clock \in Nat /\ uses \in Seq(Nat) /\ TopRate \in Nat /\ Period \in Nat /\ Period > 0 /\ TopRate * Period \in Nat
  BY TopRateIsTop, RateAssumption, Products DEF RateInv, RateAssumption
<1>3. uses' \in Seq(Nat) /\ \A i \in 1 .. Len(uses') : uses'[i] =< clock
  <2>1. \A i \in 1 .. Len(uses) : uses[i] =< clock
    BY DEF RateInv
  <2>2. CASE uses' = uses
    BY <1>2, <2>1, <2>2
  <2>3. CASE uses' = Append(uses, clock)
    <3>1. /\ Len(uses) \in Nat /\ Len(uses') = Len(uses) + 1 /\ uses'[Len(uses) + 1] = clock
          /\ \A i \in 1 .. Len(uses) : uses'[i] = uses[i]
      BY <1>2, <2>3
    <3>2. uses' \in Seq(Nat)
      BY <1>2, <2>3
    <3>. QED  BY <1>2, <2>1, <3>1, <3>2
  <2>. QED  BY <1>1, <2>2, <2>3
<1>4. /\ Level(b, clock) \in Nat /\ Level(b, clock) =< TopRate * Period
      /\ Level(bucket', clock) \in Nat /\ Held' = Level(bucket', clock)
  <2>1. Level(b, clock) \in Nat /\ Level(b, clock) =< Capacity(b) /\ Capacity(b) =< TopRate * Period
        /\ Capacity(b) \in Nat
    BY <1>1, <1>2, LevelFits
  <2>2. Level(bucket', clock) \in Nat
    BY <1>1, <1>2, LevelFits
  <2>. QED  BY <1>1, <1>2, <2>1, <2>2 DEF Held
<1>5. ASSUME NEW w \in 0 .. clock
      PROVE  /\ Cardinality(InWindow(w)') =< 3 * TopRate
             /\ clock < w + Period => Spent(w)' + Held' =< Given(w)'
  <2>. DEFINE n == Cardinality(InWindow(w))
              m == Cardinality(InWindow(w)')
  <2>1. n \in Nat /\ n =< 3 * TopRate /\ (clock < w + Period => n * Period + Held =< Given(w))
    BY <1>2, WindowsAreFinite DEF RateInv, Spent
  <2>2. \/ m = n /\ (uses' = uses \/ ~ (clock < w + Period))
        \/ m = n + 1 /\ uses' = Append(uses, clock) /\ clock < w + Period
    <3>1. CASE uses' = uses
      BY <3>1 DEF InWindow
    <3>2. CASE uses' = Append(uses, clock)
      BY <3>2, UseCounts
    <3>. QED  BY <1>1, <3>1, <3>2
  <2>3. m \in Nat
    BY <2>1, <2>2
  <2>. HIDE DEF n, m
  <2>4. ASSUME clock < w + Period
        PROVE  m * Period + Held' =< Given(w)'
    <3>1. m * Period + Level(bucket', clock) = n * Period + Level(b, clock)
      <4>1. (n + 1) * Period = n * Period + Period /\ n * Period \in Nat
        BY <1>2, <2>1, Products
      <4>. QED  BY <1>1, <1>2, <1>4, <2>2, <2>4, <4>1
    <3>2. n * Period + Level(b, clock) =< Given(w)'
      <4>1. TopRate * (clock - w) \in Nat /\ clock' - w = clock - w /\ n * Period \in Nat
        BY <1>1, <1>2, <2>1, Products
      <4>2. CASE bucket # NoBucket /\ b = bucket
        <5>1. Held = Level(b, clock) /\ (MadeIn(w)' <=> MadeIn(w))
          BY <1>1, <4>2 DEF Held, MadeIn
        <5>2. Given(w)' = Given(w)
          BY <4>1, <5>1 DEF Given
        <5>. QED  BY <2>1, <2>4, <5>1, <5>2
      <4>3. CASE bucket = NoBucket /\ b.made = clock
        <5>1. Held = 0 /\ MadeIn(w)' /\ ~ MadeIn(w)
          BY <1>1, <1>2, <4>3 DEF Held, MadeIn
        <5>2. Given(w) = TopRate * Period + TopRate * (clock - w)
          BY <5>1 DEF Given
        <5>3. Given(w)' = 2 * (TopRate * Period) + TopRate * (clock - w)
          BY <4>1, <5>1 DEF Given
        <5>4. Given(w)' = Given(w) + TopRate * Period /\ Given(w) \in Nat
          BY <1>2, <4>1, <5>2, <5>3
        <5>. QED  BY <1>2, <1>4, <2>1, <2>4, <4>1, <5>1, <5>4
      <4>. QED  BY <1>1, <4>2, <4>3
    <3>. QED  BY <1>4, <3>1, <3>2
  <2>5. m =< 3 * TopRate
    <3>1. CASE ~ (clock < w + Period)
      BY <2>1, <2>2, <3>1
    <3>2. CASE clock < w + Period
      <4>1. m * Period + Held' =< Given(w)' /\ Held' \in Nat
        BY <1>4, <2>4, <3>2
      <4>2. TopRate * (clock - w) \in Nat
        BY <1>2, Products
      <4>3. Given(w)' \in Nat /\ Given(w)' =< 2 * (TopRate * Period) + TopRate * (clock - w)
        BY <1>1, <1>2, <4>2 DEF Given
      <4>4. m * Period \in Nat
        BY <1>2, <2>3, Products
      <4>5. m * Period + Held' =< 2 * (TopRate * Period) + TopRate * (clock - w)
        BY <1>2, <4>1, <4>2, <4>3, <4>4
      <4>6. w \in Nat /\ w =< clock
        OBVIOUS
      <4>. QED  BY <2>3, <3>2, <4>1, <4>5, <4>6, GivenIsBounded
    <3>. QED  BY <3>1, <3>2
  <2>. QED  BY <2>4, <2>5 DEF Spent, m
<1>. QED  BY <1>1, <1>2, <1>3, <1>5 DEF RateInv

LEMMA CleanupKeepsRate ==
  ASSUME RateInv, CleanupExpired
  PROVE  RateInv'
<1>1. /\ bucket # NoBucket /\ Bucketed(bucket, clock) /\ clock - bucket.made > MaxBucketAge
      /\ bucket' = NoBucket /\ uses' = uses /\ clock' = clock /\ clock \in Nat
      /\ \A w : InWindow(w)' = InWindow(w)
  BY DEF CleanupExpired, RateInv, Old, InWindow
<1>2. ASSUME NEW w \in 0 .. clock, clock < w + Period
      PROVE  Spent(w)' + Held' =< Given(w)'
  <2>1. ~ MadeIn(w)
    BY <1>1, <1>2, RateAssumption DEF MadeIn, Bucketed, RateAssumption
  <2>2. Given(w)' = Given(w)
    BY <1>1, <2>1 DEF Given, MadeIn
  <2>3. Spent(w)' = Spent(w) /\ Spent(w) \in Nat
    BY <1>1, WindowsAreFinite, RateAssumption, Products DEF Spent, RateInv, RateAssumption
  <2>4. Spent(w) + Level(bucket, clock) =< Given(w) /\ Level(bucket, clock) \in Nat
    BY <1>1, <1>2, LevelFits DEF RateInv, Held
  <2>5. Given(w) \in Nat
    BY <1>1, <2>1, TopRateIsTop, RateAssumption, Products DEF Given, RateAssumption
  <2>. QED  BY <1>1, <2>2, <2>3, <2>4, <2>5 DEF Held
<1>. QED  BY <1>1, <1>2 DEF RateInv

\* However the bucket of a token is used, dropped for its age and made anew, and
\* whatever limits its schedule asks for meanwhile, no period sees more than
\* three times the largest (TokenBucketRateLimiter, RateLimiterRegistry).
THEOREM WindowAlwaysBounded == LSpec => []WindowBounded
<1>1. LInit => RateInv
  BY RateStarts
<1>2. RateInv /\ [LNext]_lvars => RateInv'
  <2>. SUFFICES ASSUME RateInv, [LNext]_lvars PROVE RateInv'
    OBVIOUS
  <2>1. CASE UNCHANGED lvars
    BY <2>1 DEF lvars, RateInv, InWindow, Spent, Held, Given, MadeIn
  <2>. QED  BY <2>1, UseKeepsRate, CleanupKeepsRate, TickKeepsRate DEF LNext
<1>3. RateInv => WindowBounded
  BY DEF RateInv, WindowBounded
<1>. QED  BY <1>1, <1>2, <1>3, PTL DEF LSpec

-------------------------------------------------------------------------------
(* Arithmetic in the field of Q elements.                                     *)

\* Remainders, and which integers stand for the same element.
Rem(a, d) == a % d
Same(a, b) == Rem(a, Q) = Rem(b, Q)

\* Q is a prime.
LEMMA FieldSize == Q \in Nat /\ Q > 1 /\ \A d \in 2 .. Q - 1 : Rem(Q, d) # 0
BY ThresholdAssumption DEF ThresholdAssumption, Rem

\* A multiple of d by a positive number is not less than d.
LEMMA ProductsGrow ==
  ASSUME NEW k \in Nat, NEW d \in Nat
  PROVE  k * d \in Nat /\ (k + 1) * d = k * d + d /\ (k > 0 => k * d >= d)
<1>1. k * d \in Nat /\ (k + 1) * d = k * d + d
  OBVIOUS
<1>2. ASSUME k > 0 PROVE k * d >= d
  <2>1. k - 1 \in Nat /\ (k - 1) * d \in Nat /\ k * d = (k - 1) * d + d
    BY <1>2
  <2>. QED  BY <2>1
<1>. QED  BY <1>1, <1>2

\* Division with remainder.
LEMMA Divides ==
  ASSUME NEW a \in Int, NEW d \in Nat, d > 0
  PROVE  Rem(a, d) \in 0 .. d - 1 /\ \E k \in Int : a = k * d + Rem(a, d)
<1>1. a % d \in 0 .. d - 1 /\ a % d = a - d * (a \div d) /\ a \div d \in Int
  OBVIOUS
<1>. DEFINE k == a \div d
            r == a % d
<1>2. r \in 0 .. d - 1 /\ r = a - d * k /\ k \in Int
  BY <1>1
<1>. HIDE DEF k, r
<1>3. a = k * d + r
  BY <1>2
<1>. QED  BY <1>2, <1>3 DEF r, Rem

\* A remainder is determined by what it is congruent to.
LEMMA OneRemainder ==
  ASSUME NEW d \in Nat, d > 0, NEW r \in 0 .. d - 1, NEW s \in 0 .. d - 1, NEW k \in Int, r = k * d + s
  PROVE  r = s /\ k = 0
<1>1. CASE k = 0
  BY <1>1
<1>2. CASE k > 0
  BY <1>2, ProductsGrow
<1>3. CASE k < 0
  <2>1. - k \in Nat /\ - k > 0 /\ (- k) * d >= d
    BY <1>3, ProductsGrow
  <2>2. (- k) * d = - (k * d) /\ k * d \in Int
    OBVIOUS
  <2>. QED  BY <2>1, <2>2
<1>. QED  BY <1>1, <1>2, <1>3

\* Integers are the same element if they differ by a multiple of Q.
LEMMA SameIff ==
  ASSUME NEW a \in Int, NEW b \in Int
  PROVE  Same(a, b) <=> \E k \in Int : a = k * Q + b
<1>0. Q \in Nat /\ Q > 0
  BY FieldSize
<1>1. /\ Rem(a, Q) \in 0 .. Q - 1 /\ Rem(b, Q) \in 0 .. Q - 1
      /\ \E m \in Int : a = m * Q + Rem(a, Q)
      /\ \E m \in Int : b = m * Q + Rem(b, Q)
  BY <1>0, Divides
<1>2. PICK m \in Int : a = m * Q + Rem(a, Q)
  BY <1>1
<1>3. PICK n \in Int : b = n * Q + Rem(b, Q)
  BY <1>1
<1>4. ASSUME Same(a, b) PROVE \E k \in Int : a = k * Q + b
  <2>1. a = (m - n) * Q + b /\ m - n \in Int
    <3>1. (m - n) * Q = m * Q - n * Q
      BY <1>0
    <3>2. Rem(a, Q) \in Int /\ Rem(b, Q) \in Int /\ m * Q \in Int /\ n * Q \in Int
      BY <1>0, <1>1
    <3>. QED  BY <1>2, <1>3, <1>4, <3>1, <3>2 DEF Same
  <2>. QED  BY <2>1
<1>5. ASSUME NEW k \in Int, a = k * Q + b PROVE Same(a, b)
  <2>1. Rem(a, Q) = (k + n - m) * Q + Rem(b, Q) /\ k + n - m \in Int
    <3>1. (k + n - m) * Q = k * Q + n * Q - m * Q
      BY <1>0
    <3>2. Rem(a, Q) \in Int /\ Rem(b, Q) \in Int /\ m * Q \in Int /\ n * Q \in Int /\ k * Q \in Int
      BY <1>0, <1>1
    <3>. DEFINE kq == k * Q
                mq == m * Q
                nq == n * Q
    <3>3. /\ a = mq + Rem(a, Q) /\ b = nq + Rem(b, Q) /\ a = kq + b
          /\ kq \in Int /\ mq \in Int /\ nq \in Int
          /\ (k + n - m) * Q = kq + nq - mq
      BY <1>2, <1>3, <1>5, <3>1, <3>2
    <3>. HIDE DEF kq, mq, nq
    <3>. QED  BY <3>2, <3>3
  <2>. DEFINE j == k + n - m
  <2>2. Rem(a, Q) = j * Q + Rem(b, Q) /\ j \in Int
    BY <2>1
  <2>. HIDE DEF j
  <2>3. Rem(a, Q) = Rem(b, Q)
    BY <1>0, <1>1, <2>2, OneRemainder
  <2>. QED  BY <2>3 DEF Same
<1>. QED  BY <1>4, <1>5

\* Sums, differences and products of elements.
LEMMA SameArith ==
  ASSUME NEW a \in Int, NEW b \in Int, NEW c \in Int, NEW d \in Int, Same(a, b), Same(c, d)
  PROVE  Same(a + c, b + d) /\ Same(a - c, b - d) /\ Same(a * c, b * d)
<1>0. Q \in Int
  BY FieldSize
<1>1. PICK k \in Int : a = k * Q + b
  BY SameIff
<1>2. PICK m \in Int : c = m * Q + d
  BY SameIff
<1>3. a + c = (k + m) * Q + (b + d) /\ k + m \in Int
  BY <1>0, <1>1, <1>2
<1>4. a - c = (k - m) * Q + (b - d) /\ k - m \in Int
  BY <1>0, <1>1, <1>2
<1>5. a * c = (k * m * Q + k * d + b * m) * Q + b * d /\ k * m * Q + k * d + b * m \in Int
  BY <1>0, <1>1, <1>2
<1>6. /\ a + c \in Int /\ b + d \in Int /\ a - c \in Int /\ b - d \in Int /\ a * c \in Int /\ b * d \in Int
  OBVIOUS
<1>. QED  BY <1>3, <1>4, <1>5, <1>6, SameIff

\* Reducing keeps the element.
LEMMA Reduced ==
  ASSUME NEW a \in Int
  PROVE  Rem(a, Q) \in 0 .. Q - 1 /\ Same(Rem(a, Q), a) /\ (a \in 0 .. Q - 1 => Rem(a, Q) = a)
<1>0. Q \in Nat /\ Q > 0
  BY FieldSize
<1>1. Rem(a, Q) \in 0 .. Q - 1
  BY <1>0, Divides
<1>2. ASSUME NEW b \in 0 .. Q - 1 PROVE Rem(b, Q) = b
  <2>0. b \in Int
    BY <1>0
  <2>1. Rem(b, Q) \in 0 .. Q - 1 /\ \E k \in Int : b = k * Q + Rem(b, Q)
    BY <1>0, <2>0, Divides
  <2>. QED  BY <1>0, <2>1, OneRemainder
<1>3. Rem(a, Q) \in 0 .. Q - 1 => Rem(Rem(a, Q), Q) = Rem(a, Q)
  BY <1>2
<1>. QED  BY <1>1, <1>2, <1>3 DEF Same

\* Every number that is not a multiple of Q has an inverse, Q being prime.
LEMMA InverseExists ==
  ASSUME NEW a \in Int, Rem(a, Q) # 0
  PROVE  ModInverse(a) \in 1 .. Q - 1 /\ Same(a * ModInverse(a), 1)
<1>0. Q \in Nat /\ Q > 1 /\ \A d \in 2 .. Q - 1 : Rem(Q, d) # 0
  BY FieldSize
<1>. DEFINE D == {d \in 1 .. Q - 1 : \E y \in Int : Same(a * y, d)}
<1>1. Rem(a, Q) \in D
  <2>1. Rem(a, Q) \in 0 .. Q - 1 /\ Same(a, Rem(a, Q))
    BY Reduced DEF Same
  <2>2. Rem(a, Q) \in 1 .. Q - 1
    BY <1>0, <2>1
  <2>3. \E y \in Int : a * y = a
    OBVIOUS
  <2>4. \E y \in Int : Same(a * y, Rem(a, Q))
    BY <2>1, <2>3, Zenon
  <2>. QED  BY <2>2, <2>4
<1>2. PICK d \in D : \A e \in D : d =< e
  <2>1. D \in SUBSET Nat
    BY <1>0
  <2>. HIDE DEF D
  <2>. QED  BY <1>1, <2>1, LeastExists
<1>3. PICK y \in Int : Same(a * y, d)
  OBVIOUS
<1>4. d \in 1 .. Q - 1 /\ d \in Nat
  BY <1>0
<1>5. d = 1
  <2>1. SUFFICES ASSUME d # 1 PROVE FALSE
    OBVIOUS
  <2>2. Rem(Q, d) \in 1 .. d - 1 /\ \E k \in Int : Q = k * d + Rem(Q, d)
    <3>1. d \in 2 .. Q - 1
      BY <1>4, <2>1
    <3>2. Rem(Q, d) # 0
      BY <1>0, <3>1
    <3>3. Rem(Q, d) \in 0 .. d - 1 /\ \E k \in Int : Q = k * d + Rem(Q, d)
      <4>1. Q \in Int /\ d > 0
        BY <1>0, <1>4
      <4>. QED  BY <1>4, <4>1, Divides
    <3>. QED  BY <1>4, <3>2, <3>3
  <2>. DEFINE r == Rem(Q, d)
  <2>3. PICK k \in Int : Q = k * d + r
    BY <2>2
  <2>4. r \in 1 .. Q - 1 /\ r \in Int /\ ~ (d =< r)
    BY <1>4, <2>2
  <2>. HIDE DEF r, D
  <2>5. Same(a * ((- k) * y), r)
    <3>1. a * ((- k) * y) = (- k) * (a * y) /\ a * y \in Int /\ - k \in Int /\ (- k) * d \in Int
          /\ (- k) * (a * y) \in Int
      BY <1>4
    <3>2. Same((- k) * (a * y), (- k) * d)
      <4>1. Same(- k, - k) /\ - k \in Int /\ a * y \in Int /\ d \in Int
        BY <1>4, <3>1 DEF Same
      <4>. QED  BY <1>3, <4>1, SameArith, Zenon
    <3>3. (- k) * d = (- 1) * Q + r
      BY <1>0, <1>4, <2>3, <2>4
    <3>4. Same((- k) * d, r)
      BY <2>4, <3>1, <3>3, SameIff
    <3>. QED  BY <3>1, <3>2, <3>4 DEF Same
  <2>6. r \in D
    <3>1. (- k) * y \in Int
      OBVIOUS
    <3>. QED  BY <2>4, <2>5, <3>1 DEF D
  <2>. QED  BY <1>2, <2>4, <2>6
<1>. HIDE DEF D
<1>6. Rem(1, Q) = 1
  BY <1>0, Reduced
<1>. DEFINE x == Rem(y, Q)
<1>7. x \in 1 .. Q - 1 /\ x \in Int /\ Same(a * x, 1)
  <2>1. x \in 0 .. Q - 1 /\ Same(x, y)
    BY Reduced
  <2>2. x \in Int
    BY <1>0, <2>1
  <2>. HIDE DEF x
  <2>3. Same(a, a)
    BY DEF Same
  <2>4. Same(a * x, a * y)
    BY <2>1, <2>2, <2>3, SameArith
  <2>5. Same(a * x, 1)
    BY <1>3, <1>5, <2>4 DEF Same
  <2>6. x # 0
    <3>1. SUFFICES ASSUME x = 0 PROVE FALSE
      OBVIOUS
    <3>2. a * x = 0
      BY <3>1
    <3>3. Rem(0, Q) = 0
      BY <1>0, Reduced
    <3>4. Rem(0, Q) = 1
      BY <1>6, <2>5, <3>2 DEF Same
    <3>. QED  BY <3>3, <3>4
  <2>. QED  BY <1>0, <2>1, <2>2, <2>5, <2>6
<1>. HIDE DEF x
<1>8. ModInverse(a) \in 1 .. Q - 1 /\ Rem(a * ModInverse(a), Q) = 1
  <2>1. (a * x) % Q = 1
    BY <1>6, <1>7 DEF Same, Rem
  <2>2. ModInverse(a) \in 1 .. Q - 1 /\ (a * ModInverse(a)) % Q = 1
    BY <1>7, <2>1, Zenon DEF ModInverse
  <2>. QED  BY <2>2 DEF Rem
<1>. QED  BY <1>6, <1>8 DEF Same

\* A factor that is not a multiple of Q may be cancelled.
LEMMA Cancelled ==
  ASSUME NEW a \in Int, NEW x \in Int, NEW y \in Int, Rem(a, Q) # 0, Same(a * x, a * y)
  PROVE  Same(x, y)
<1>. DEFINE b == ModInverse(a)
<1>1. b \in Int /\ Same(a * b, 1)
  BY FieldSize, InverseExists
<1>. HIDE DEF b
<1>2. \A z \in Int : Same(z, b * (a * z))
  <2>. SUFFICES ASSUME NEW z \in Int PROVE Same(z, b * (a * z))
    OBVIOUS
  <2>1. Same(1, a * b) /\ Same(z, z) /\ a * b \in Int
    BY <1>1 DEF Same
  <2>2. Same(1 * z, (a * b) * z)
    BY <2>1, SameArith
  <2>3. 1 * z = z /\ (a * b) * z = b * (a * z)
    BY <1>1
  <2>. QED  BY <2>2, <2>3
<1>3. Same(b * (a * x), b * (a * y))
  <2>1. Same(b, b) /\ a * x \in Int /\ a * y \in Int
    BY DEF Same
  <2>. QED  BY <1>1, <2>1, SameArith
<1>. QED  BY <1>2, <1>3 DEF Same

\* Sums of elements that are the same are the same.
LEMMA SameSums ==
  ASSUME NEW f, NEW g, NEW S, IsFiniteSet(S),
         \A x \in S : f[x] \in Int /\ g[x] \in Int /\ Same(f[x], g[x])
  PROVE  Same(SumOver(f, S), SumOver(g, S))
<1>. DEFINE C == {T \in SUBSET S : ~ Same(SumOver(f, T), SumOver(g, T))}
<1>1. SUFFICES ASSUME C # {} PROVE FALSE
  OBVIOUS
<1>2. PICK T \in C : \A U \in C : U \subseteq T => U = T
  <2>1. C \in SUBSET SUBSET S
    OBVIOUS
  <2>. HIDE DEF C
  <2>. QED  BY <1>1, <2>1, MinimalSubset
<1>3. IsFiniteSet(T)
  BY FS_Subset
<1>4. T # {}
  BY <1>3, SumStep DEF Same
<1>. DEFINE p == First(T)
            r == T \ {p}
<1>5. p \in T
  BY <1>4, FirstIn
<1>6. Same(SumOver(f, r), SumOver(g, r))
  BY <1>2, <1>5
<1>7. SumOver(f, T) = f[p] + SumOver(f, r) /\ SumOver(g, T) = g[p] + SumOver(g, r)
  BY <1>3, <1>4, SumStep
<1>8. SumOver(f, r) \in Int /\ SumOver(g, r) \in Int
  <2>1. IsFiniteSet(r) /\ \A x \in r : f[x] \in Int /\ g[x] \in Int
    BY <1>3, FS_Subset
  <2>. HIDE DEF r
  <2>. QED  BY <2>1, SumInt
<1>9. f[p] \in Int /\ g[p] \in Int /\ Same(f[p], g[p])
  BY <1>5
<1>10. Same(SumOver(f, T), SumOver(g, T))
  <2>. HIDE DEF p, r, C
  <2>. QED  BY <1>6, <1>7, <1>8, <1>9, SameArith
<1>. QED  BY <1>10

-------------------------------------------------------------------------------
(* Interpolation.                                                             *)

\* The numbers of the members are different elements of the field, none zero.
LEMMA MembersInField ==
  /\ IsFiniteSet(Members) /\ 1 \in Members
  /\ \A i \in Members : i \in Int /\ i \in 1 .. Q - 1
  /\ \A i, j \in Members : i # j => Rem(i - j, Q) # 0
<1>1. PICK n \in 1 .. Q - 1 : Members = 1 .. n
  BY ThresholdAssumption DEF ThresholdAssumption
<1>2. Q \in Nat /\ Q > 1
  BY FieldSize
<1>3. IsFiniteSet(Members) /\ 1 \in Members
  BY <1>1, <1>2, FS_Interval
<1>4. \A i \in Members : i \in Int /\ i \in 1 .. Q - 1
  BY <1>1, <1>2
<1>5. ASSUME NEW i \in Members, NEW j \in Members, Rem(i - j, Q) = 0
      PROVE  i = j
  <2>1. i \in Int /\ j \in Int /\ i \in 0 .. Q - 1 /\ j \in 0 .. Q - 1 /\ i - j \in Int
    BY <1>2, <1>4
  <2>2. Same(i - j, 0)
    BY <1>2, <1>5, Reduced DEF Same
  <2>3. PICK k \in Int : i - j = k * Q + 0
    BY <2>1, <2>2, SameIff
  <2>4. k * Q \in Int
    BY <1>2
  <2>5. i = k * Q + j
    BY <2>1, <2>3, <2>4
  <2>. QED  BY <1>2, <2>1, <2>5, OneRemainder
<1>. QED  BY <1>3, <1>4, <1>5

\* The factor of the coefficient of i that belongs to j.
LEMMA BasisDivides ==
  ASSUME NEW i \in Members, NEW j \in Members, i # j
  PROVE  Basis(i)[j] \in Int /\ Same(Basis(i)[j] * (i - j), 0 - j)
<1>. DEFINE a == Rem(i - j, Q)
            b == ModInverse(a)
<1>1. i \in Int /\ j \in Int /\ i - j \in Int /\ 0 - j \in Int
  BY MembersInField
<1>2. Q \in Nat
  BY FieldSize
<1>3. a \in 0 .. Q - 1 /\ a # 0 /\ Same(a, i - j)
  BY <1>1, MembersInField, Reduced
<1>4. a \in Int /\ Rem(a, Q) # 0
  <2>1. Rem(a, Q) = Rem(i - j, Q)
    BY <1>3 DEF Same
  <2>2. a \in Int
    BY <1>2, <1>3
  <2>. QED  BY <1>3, <2>1, <2>2
<1>5. b \in 1 .. Q - 1 /\ Same(a * b, 1)
  BY <1>4, InverseExists
<1>6. b \in Int
  BY <1>2, <1>5
<1>7. Basis(i)[j] = (0 - j) * b
  BY DEF Basis, Rem
<1>. HIDE DEF a, b
<1>8. Same((i - j) * b, 1)
  <2>1. Same(b, b)
    BY DEF Same
  <2>2. Same(a * b, (i - j) * b)
    BY <1>1, <1>3, <1>4, <1>6, <2>1, SameArith
  <2>. QED  BY <1>5, <2>2 DEF Same
<1>9. Same((0 - j) * ((i - j) * b), (0 - j) * 1)
  <2>1. Same(0 - j, 0 - j) /\ (i - j) * b \in Int
    BY <1>1, <1>6 DEF Same
  <2>. QED  BY <1>1, <1>8, <2>1, SameArith
<1>10. (0 - j) * ((i - j) * b) = ((0 - j) * b) * (i - j) /\ (0 - j) * 1 = 0 - j /\ (0 - j) * b \in Int
  BY <1>1, <1>6
<1>. QED  BY <1>7, <1>9, <1>10

\* The coefficient of i without one of the other indices.
LEMMA LagrangeDrops ==
  ASSUME NEW S \in SUBSET Members, NEW i \in S
  PROVE  /\ Lagrange(i, S) \in Int
         /\ \A j \in S \ {i} : Same(Lagrange(i, S) * (i - j), (0 - j) * Lagrange(i, S \ {j}))
<1>. DEFINE B == Basis(i)
            F(T) == ProductOver(B, T \ {i})
<1>1. \A T \in SUBSET Members : IsFiniteSet(T \ {i})
  BY MembersInField, FS_Subset
<1>2. \A j \in Members \ {i} : B[j] \in Int
  BY BasisDivides
<1>3. \A T \in SUBSET Members : F(T) \in Int
  <2>. SUFFICES ASSUME NEW T \in SUBSET Members PROVE F(T) \in Int
    OBVIOUS
  <2>1. \A j \in T \ {i} : B[j] \in Int
    BY <1>2
  <2>. HIDE DEF B
  <2>. QED  BY <1>1, <2>1, ProductInt
<1>4. \A T \in SUBSET Members : Lagrange(i, T) = Rem(F(T), Q)
  BY DEF Lagrange, ProductOf, ProductOver, Rem
<1>. HIDE DEF F
<1>5. \A T \in SUBSET Members : Lagrange(i, T) \in Int /\ Same(Lagrange(i, T), F(T))
  <2>. SUFFICES ASSUME NEW T \in SUBSET Members
                PROVE  Lagrange(i, T) \in Int /\ Same(Lagrange(i, T), F(T))
    OBVIOUS
  <2>1. Rem(F(T), Q) \in 0 .. Q - 1 /\ Same(Rem(F(T), Q), F(T))
    BY <1>3, Reduced
  <2>. QED  BY <1>4, <2>1, FieldSize
<1>6. ASSUME NEW j \in S \ {i}
      PROVE  Same(Lagrange(i, S) * (i - j), (0 - j) * Lagrange(i, S \ {j}))
  <2>. DEFINE D == S \ {j}
  <2>1. F(S) = B[j] * F(D)
    <3>1. ProductOver(B, S \ {i}) = B[j] * ProductOver(B, (S \ {i}) \ {j})
      <4>1. IsFiniteSet(S \ {i}) /\ (\A x \in S \ {i} : B[x] \in Int) /\ j \in S \ {i}
        BY <1>1, <1>2
      <4>. HIDE DEF B
      <4>. QED  BY <4>1, ProductTakesOut
    <3>2. (S \ {i}) \ {j} = D \ {i}
      OBVIOUS
    <3>. QED  BY <3>1, <3>2 DEF F
  <2>2. D \in SUBSET Members /\ S \in SUBSET Members
    OBVIOUS
  <2>3. B[j] \in Int /\ Same(B[j] * (i - j), 0 - j)
    BY BasisDivides
  <2>. HIDE DEF B, D
  <2>4. i - j \in Int /\ 0 - j \in Int
    BY MembersInField
  <2>5. F(D) \in Int /\ F(S) \in Int /\ Lagrange(i, S) \in Int /\ Lagrange(i, D) \in Int
    BY <1>3, <1>5, <2>2
  <2>6. Same(Lagrange(i, S) * (i - j), F(S) * (i - j))
    BY <1>5, <2>2, <2>4, <2>5, SameArith DEF Same
  <2>7. F(S) * (i - j) = (B[j] * (i - j)) * F(D) /\ B[j] * (i - j) \in Int
    BY <2>1, <2>3, <2>4, <2>5
  <2>8. Same((B[j] * (i - j)) * F(D), (0 - j) * Lagrange(i, D))
    <3>1. Same(F(D), Lagrange(i, D))
      BY <1>5, <2>2 DEF Same
    <3>. QED  BY <2>3, <2>4, <2>5, <2>7, <3>1, SameArith
  <2>. QED  BY <2>6, <2>7, <2>8 DEF D, Same
<1>. QED  BY <1>5, <1>6

\* The value at zero that the indices S give to the points v.
Terms(S, v) == [i \in S |-> Lagrange(i, S) * v[i]]
AtZero(S, v) == SumOver(Terms(S, v), S)

\* It is an integer, the same for points that are the same.
LEMMA AtZeroInt ==
  ASSUME NEW S \in SUBSET Members, NEW v, \A i \in S : v[i] \in Int
  PROVE  /\ IsFiniteSet(S) /\ AtZero(S, v) \in Int
         /\ \A i \in S : Lagrange(i, S) \in Int /\ Terms(S, v)[i] = Lagrange(i, S) * v[i]
                         /\ Terms(S, v)[i] \in Int
<1>1. IsFiniteSet(S)
  BY MembersInField, FS_Subset
<1>2. \A i \in S : Lagrange(i, S) \in Int
  BY LagrangeDrops
<1>3. \A i \in S : Terms(S, v)[i] = Lagrange(i, S) * v[i]
  BY DEF Terms
<1>4. \A i \in S : Terms(S, v)[i] \in Int
  BY <1>2, <1>3
<1>5. AtZero(S, v) \in Int
  BY <1>1, <1>4, SumInt DEF AtZero
<1>. QED  BY <1>1, <1>2, <1>3, <1>4, <1>5

\* Points that are the same give the same value.
LEMMA AtZeroSame ==
  ASSUME NEW S \in SUBSET Members, NEW v, NEW w,
         \A i \in S : v[i] \in Int /\ w[i] \in Int /\ Same(v[i], w[i])
  PROVE  Same(AtZero(S, v), AtZero(S, w))
<1>1. ASSUME NEW i \in S PROVE Same(Terms(S, v)[i], Terms(S, w)[i])
  <2>1. Lagrange(i, S) \in Int /\ Same(Lagrange(i, S), Lagrange(i, S))
    BY LagrangeDrops DEF Same
  <2>2. Same(Lagrange(i, S) * v[i], Lagrange(i, S) * w[i])
    BY <2>1, SameArith
  <2>. QED  BY <2>2 DEF Terms
<1>2. IsFiniteSet(S) /\ \A i \in S : Terms(S, v)[i] \in Int /\ Terms(S, w)[i] \in Int
  BY AtZeroInt
<1>. QED  BY <1>1, <1>2, SameSums DEF AtZero

\* It is linear in the points.
LEMMA AtZeroAdds ==
  ASSUME NEW S \in SUBSET Members, NEW v, NEW w, NEW u, NEW a \in Int,
         \A i \in S : v[i] \in Int /\ w[i] \in Int /\ u[i] = v[i] + a * w[i]
  PROVE  AtZero(S, u) = AtZero(S, v) + a * AtZero(S, w)
<1>. DEFINE b == [i \in S |-> a * Terms(S, w)[i]]
<1>1. /\ IsFiniteSet(S)
      /\ \A i \in S : /\ Lagrange(i, S) \in Int
                      /\ Terms(S, v)[i] = Lagrange(i, S) * v[i] /\ Terms(S, v)[i] \in Int
                      /\ Terms(S, w)[i] = Lagrange(i, S) * w[i] /\ Terms(S, w)[i] \in Int
  BY AtZeroInt
<1>2. \A i \in S : Terms(S, u)[i] = Lagrange(i, S) * u[i]
  BY DEF Terms
<1>3. \A i \in S : b[i] = a * Terms(S, w)[i] /\ b[i] \in Int
  BY <1>1
<1>. HIDE DEF b
<1>4. ASSUME NEW i \in S PROVE Terms(S, u)[i] = Terms(S, v)[i] + b[i]
  <2>1. \A x, y, z \in Int : z * (x + a * y) = z * x + a * (z * y)
    OBVIOUS
  <2>. QED  BY <1>1, <1>2, <1>3, <2>1
<1>5. SumOver(Terms(S, u), S) = SumOver(Terms(S, v), S) + SumOver(b, S)
  BY <1>1, <1>3, <1>4, SumAdds
<1>6. SumOver(b, S) = a * SumOver(Terms(S, w), S)
  BY <1>1, <1>3, SumScales
<1>. QED  BY <1>5, <1>6 DEF AtZero

\* Points that vanish at j leave j out.
LEMMA AtZeroDrops ==
  ASSUME NEW S \in SUBSET Members, NEW j \in S, NEW v, NEW u,
         \A i \in S : v[i] \in Int /\ u[i] = (i - j) * v[i]
  PROVE  Same(AtZero(S, u), (0 - j) * AtZero(S \ {j}, v))
<1>. DEFINE D == S \ {j}
            t == [i \in D |-> (0 - j) * Terms(D, v)[i]]
<1>1. D \in SUBSET Members /\ \A i \in S : i \in Int
  BY MembersInField
<1>2. j \in Int /\ 0 - j \in Int
  BY <1>1
<1>3. \A i \in S : u[i] \in Int /\ v[i] \in Int
  BY <1>1, <1>2
<1>4. /\ IsFiniteSet(S) /\ IsFiniteSet(D)
      /\ \A i \in S : Lagrange(i, S) \in Int /\ Terms(S, u)[i] = Lagrange(i, S) * u[i] /\ Terms(S, u)[i] \in Int
      /\ \A i \in D : Lagrange(i, D) \in Int /\ Terms(D, v)[i] = Lagrange(i, D) * v[i] /\ Terms(D, v)[i] \in Int
  <2>1. \A i \in D : v[i] \in Int
    BY <1>3
  <2>. HIDE DEF D
  <2>. QED  BY <1>1, <1>3, <2>1, AtZeroInt
<1>5. Terms(S, u)[j] = 0
  <2>1. u[j] = 0
    <3>1. j - j = 0 /\ u[j] = (j - j) * v[j] /\ v[j] \in Int
      BY <1>2
    <3>. QED  BY <3>1
  <2>. QED  BY <1>4, <2>1
<1>6. SumOver(Terms(S, u), S) = SumOver(Terms(S, u), D)
  <2>1. SumOver(Terms(S, u), S) = Terms(S, u)[j] + SumOver(Terms(S, u), D)
    BY <1>4, SumTakesOut
  <2>2. SumOver(Terms(S, u), D) \in Int
    BY <1>4, SumInt
  <2>. HIDE DEF D
  <2>. QED  BY <1>5, <2>1, <2>2
<1>7. \A i \in D : t[i] = (0 - j) * Terms(D, v)[i] /\ t[i] \in Int
  <2>1. \A i \in D : t[i] = (0 - j) * Terms(D, v)[i]
    OBVIOUS
  <2>. HIDE DEF t, D
  <2>. QED  BY <1>2, <1>4, <2>1
<1>8. SumOver(t, D) = (0 - j) * SumOver(Terms(D, v), D)
  <2>. HIDE DEF t, D
  <2>. QED  BY <1>2, <1>4, <1>7, SumScales
<1>9. ASSUME NEW i \in D PROVE Same(Terms(S, u)[i], t[i])
  <2>1. i \in S /\ i # j /\ i \in Int /\ v[i] \in Int /\ u[i] = (i - j) * v[i]
    BY <1>1, <1>3
  <2>2. Same(Lagrange(i, S) * (i - j), (0 - j) * Lagrange(i, D))
    BY <2>1, LagrangeDrops
  <2>3. Lagrange(i, S) \in Int /\ Lagrange(i, D) \in Int /\ i - j \in Int
    <3>1. i - j \in Int
      BY <1>2, <2>1
    <3>. HIDE DEF D, t
    <3>. QED  BY <1>4, <2>1, <3>1, Zenon
  <2>. HIDE DEF D, t
  <2>4. Same((Lagrange(i, S) * (i - j)) * v[i], ((0 - j) * Lagrange(i, D)) * v[i])
    <3>1. Lagrange(i, S) * (i - j) \in Int /\ (0 - j) * Lagrange(i, D) \in Int /\ Same(v[i], v[i])
      BY <1>2, <2>3 DEF Same
    <3>. QED  BY <2>1, <2>2, <3>1, SameArith
  <2>5. \A x, y, z \in Int : (x * y) * z = x * (y * z)
    OBVIOUS
  <2>6. (Lagrange(i, S) * (i - j)) * v[i] = Terms(S, u)[i]
    BY <1>4, <2>1, <2>3, <2>5
  <2>7. ((0 - j) * Lagrange(i, D)) * v[i] = t[i]
    <3>1. ((0 - j) * Lagrange(i, D)) * v[i] = (0 - j) * (Lagrange(i, D) * v[i])
      <4>. DEFINE x == 0 - j
                  y == Lagrange(i, D)
                  z == v[i]
      <4>1. x \in Int /\ y \in Int /\ z \in Int
        BY <1>2, <2>1, <2>3
      <4>. HIDE DEF x, y, z
      <4>2. (x * y) * z = x * (y * z)
        BY <4>1
      <4>. QED  BY <4>2 DEF x, y, z
    <3>. QED  BY <1>4, <1>7, <3>1, Zenon
  <2>. QED  BY <2>4, <2>6, <2>7
<1>10. Same(SumOver(Terms(S, u), D), SumOver(t, D))
  <2>1. \A i \in D : Terms(S, u)[i] \in Int
    BY <1>4
  <2>. HIDE DEF D, t
  <2>. QED  BY <1>4, <1>7, <1>9, <2>1, SameSums
<1>. QED  BY <1>6, <1>8, <1>10 DEF AtZero

\* The coefficients add up to one.
LEMMA AtZeroOnes ==
  ASSUME NEW S \in SUBSET Members, S # {}, NEW one, \A i \in Members : one[i] = 1
  PROVE  Same(AtZero(S, one), 1)
<1>. DEFINE C == {T \in SUBSET S : T # {} /\ ~ Same(AtZero(T, one), 1)}
<1>1. SUFFICES ASSUME C # {} PROVE FALSE
  OBVIOUS
<1>2. PICK T \in C : \A U \in C : U \subseteq T => U = T
  <2>1. C \in SUBSET SUBSET S /\ IsFiniteSet(S)
    BY MembersInField, FS_Subset
  <2>. HIDE DEF C
  <2>. QED  BY <1>1, <2>1, MinimalSubset
<1>3. T # {} /\ T \in SUBSET Members /\ ~ Same(AtZero(T, one), 1)
  OBVIOUS
<1>4. \A i \in T : one[i] = 1 /\ one[i] \in Int /\ i \in Int
  BY <1>3, MembersInField
<1>5. PICK k \in T : TRUE
  BY <1>3
<1>6. CASE T = {k}
  <2>1. T \ {k} = {}
    BY <1>6
  <2>2. IsFiniteSet(T) /\ Terms(T, one)[k] = Lagrange(k, T) * one[k] /\ \A i \in T : Terms(T, one)[i] \in Int
    BY <1>3, <1>4, AtZeroInt
  <2>3. AtZero(T, one) = Terms(T, one)[k] + SumOver(Terms(T, one), {})
    BY <2>1, <2>2, SumTakesOut DEF AtZero
  <2>4. SumOver(Terms(T, one), {}) = 0
    BY FS_EmptySet, SumStep
  <2>5. Lagrange(k, T) = Rem(1, Q)
    <3>1. ProductOver(Basis(k), {}) = 1
      BY FS_EmptySet, ProductStep
    <3>2. Lagrange(k, T) = ProductOver(Basis(k), T \ {k}) % Q
      BY DEF Lagrange, ProductOf, ProductOver
    <3>. QED  BY <2>1, <3>1, <3>2 DEF Rem
  <2>6. Rem(1, Q) = 1
    BY FieldSize, Reduced
  <2>7. AtZero(T, one) = 1
    BY <1>4, <2>2, <2>3, <2>4, <2>5, <2>6
  <2>. QED  BY <1>3, <2>7 DEF Same
<1>7. CASE T # {k}
  <2>1. PICK j \in T : j # k
    BY <1>7
  <2>. DEFINE away(m) == [i \in Members |-> (i - m)]
              P == AtZero(T, one)
  <2>2. ASSUME NEW m \in T, T \ {m} # {}
        PROVE  Same(AtZero(T, away(m)), 0 - m) /\ AtZero(T, away(m)) \in Int
    <3>1. T \ {m} \notin C
      BY <1>2, <2>2
    <3>2. Same(AtZero(T \ {m}, one), 1)
      BY <2>2, <3>1
    <3>3. m \in Int /\ 0 - m \in Int
      BY <1>4
    <3>4. \A i \in T : away(m)[i] = i - m /\ away(m)[i] \in Int
      BY <1>3, <1>4, <3>3
    <3>5. \A i \in T : away(m)[i] = (i - m) * one[i]
      BY <1>4, <3>3, <3>4
    <3>6. AtZero(T \ {m}, one) \in Int
      <4>1. T \ {m} \in SUBSET Members /\ \A i \in T \ {m} : one[i] \in Int
        BY <1>3, <1>4
      <4>. QED  BY <4>1, AtZeroInt
    <3>. HIDE DEF away, C
    <3>7. Same(AtZero(T, away(m)), (0 - m) * AtZero(T \ {m}, one))
      BY <1>3, <1>4, <3>5, AtZeroDrops
    <3>8. Same((0 - m) * AtZero(T \ {m}, one), (0 - m) * 1)
      BY <3>2, <3>3, <3>6, SameArith DEF Same
    <3>9. (0 - m) * 1 = 0 - m
      BY <3>3
    <3>10. AtZero(T, away(m)) \in Int
      BY <1>3, <3>4, AtZeroInt
    <3>. QED  BY <3>7, <3>8, <3>9, <3>10 DEF Same
  <2>3. j \in Int /\ k \in Int /\ k - j \in Int
    BY <1>4
  <2>4. T \ {j} # {} /\ T \ {k} # {}
    BY <2>1
  <2>5. \A i \in T : /\ away(j)[i] \in Int /\ away(k)[i] \in Int
                     /\ away(j)[i] = away(k)[i] + (k - j) * one[i]
    <3>1. \A i \in T : away(j)[i] = i - j /\ away(k)[i] = i - k
      BY <1>3
    <3>. HIDE DEF away
    <3>. QED  BY <1>4, <2>3, <3>1
  <2>6. P \in Int
    BY <1>3, <1>4, AtZeroInt
  <2>. HIDE DEF away, C
  <2>7. AtZero(T, away(j)) = AtZero(T, away(k)) + (k - j) * P
    BY <1>3, <1>4, <2>3, <2>5, AtZeroAdds
  <2>8. Same(AtZero(T, away(j)) - AtZero(T, away(k)), (0 - j) - (0 - k))
    <3>1. 0 - j \in Int /\ 0 - k \in Int
      BY <2>3
    <3>. QED  BY <2>2, <2>4, <3>1, SameArith
  <2>9. AtZero(T, away(j)) - AtZero(T, away(k)) = (k - j) * P /\ (0 - j) - (0 - k) = (k - j) * 1
    <3>. HIDE DEF P
    <3>1. (k - j) * P \in Int /\ AtZero(T, away(j)) \in Int /\ AtZero(T, away(k)) \in Int
      BY <2>2, <2>3, <2>4, <2>6
    <3>. QED  BY <2>3, <2>7, <3>1
  <2>10. Rem(k - j, Q) # 0
    BY <1>3, <2>1, MembersInField
  <2>11. Same(P, 1)
    BY <2>3, <2>6, <2>8, <2>9, <2>10, Cancelled
  <2>. QED  BY <1>3, <2>11
<1>. QED  BY <1>6, <1>7

-------------------------------------------------------------------------------
(* Shares.                                                                    *)

\* The values a share goes through, from the last coefficient on.
Values(poly, i) ==
    CHOOSE value : value = [k \in 0 .. Len(poly) |->
        IF k = 0 THEN 0 ELSE (value[k - 1] * i + poly[Len(poly) + 1 - k]) % Q]

Polynomial == [1 .. Need -> Int]

\* A polynomial has Need coefficients.
LEMMA PolynomialLength ==
  ASSUME NEW poly \in Polynomial
  PROVE  Need \in Nat /\ Need > 0 /\ Len(poly) = Need /\ \A k \in 1 .. Need : poly[k] \in Int /\ poly[Need + 1 - k] \in Int
<1>1. Need \in Nat /\ Need > 0
  BY ThresholdAssumption DEF ThresholdAssumption
<1>2. poly \in Seq(Int) /\ Len(poly) = Need
  BY <1>1 DEF Polynomial
<1>3. \A k \in 1 .. Need : k \in 1 .. Need /\ Need + 1 - k \in 1 .. Need
  BY <1>1
<1>. QED  BY <1>1, <1>2, <1>3 DEF Polynomial

\* The steps from the last coefficient to the share.
LEMMA ShareSteps ==
  ASSUME NEW poly \in Polynomial, NEW i \in Int
  PROVE  /\ Values(poly, i)[0] = 0
         /\ \A k \in 0 .. Need : Values(poly, i)[k] \in Int
         /\ \A k \in 1 .. Need :
               Values(poly, i)[k] = Rem(Values(poly, i)[k - 1] * i + poly[Need + 1 - k], Q)
         /\ ShareOf(poly, i) = Values(poly, i)[Need]
         /\ ShareOf(poly, i) \in Int
<1>. DEFINE n == Need
            F(g) == [k \in 0 .. n |-> IF k = 0 THEN 0 ELSE (g[k - 1] * i + poly[n + 1 - k]) % Q]
            t == Values(poly, i)
<1>1. n \in Nat /\ Len(poly) = n /\ \A k \in 1 .. n : poly[n + 1 - k] \in Int
  BY PolynomialLength
<1>2. ShareOf(poly, i) = t[n]
  BY <1>1 DEF ShareOf, Values
<1>3. \A x \in Int : \A k \in 1 .. n : (x * i + poly[n + 1 - k]) % Q \in Int
  <2>. SUFFICES ASSUME NEW x \in Int, NEW k \in 1 .. n PROVE (x * i + poly[n + 1 - k]) % Q \in Int
    OBVIOUS
  <2>1. x * i + poly[n + 1 - k] \in Int
    BY <1>1
  <2>2. Rem(x * i + poly[n + 1 - k], Q) \in 0 .. Q - 1
    BY <2>1, Reduced
  <2>. QED  BY <2>2, FieldSize DEF Rem
<1>4. \E g : g = F(g)
  <2>. DEFINE f == [p \in Int \X (1 .. n) |-> (p[1] * i + poly[n + 1 - p[2]]) % Q]
  <2>1. f \in [Int \X (1 .. n) -> Int]
    <3>. HIDE DEF n
    <3>1. ASSUME NEW p \in Int \X (1 .. n) PROVE (p[1] * i + poly[n + 1 - p[2]]) % Q \in Int
      <4>1. p[1] \in Int /\ p[2] \in 1 .. n
        OBVIOUS
      <4>. QED  BY <1>3, <4>1, Zenon
    <3>. QED  BY <3>1
  <2>2. PICK g \in [0 .. n -> Int] : Goes(g, 0, f, n)
    <3>1. 0 \in Int
      OBVIOUS
    <3>. HIDE DEF f, n
    <3>. QED  BY <1>1, <2>1, <3>1, TableGoesOn
  <2>3. \A k \in 0 .. n : k # 0 => k - 1 \in 0 .. n /\ k \in 1 .. n
    BY <1>1
  <2>4. \A k \in 0 .. n : k # 0 => f[<<g[k - 1], k>>] = (g[k - 1] * i + poly[n + 1 - k]) % Q
    <3>. SUFFICES ASSUME NEW k \in 0 .. n, k # 0
                  PROVE  f[<<g[k - 1], k>>] = (g[k - 1] * i + poly[n + 1 - k]) % Q
      OBVIOUS
    <3>1. g[k - 1] \in Int /\ k \in 1 .. n
      BY <2>3
    <3>2. <<g[k - 1], k>> \in Int \X (1 .. n)
      BY <3>1
    <3>. HIDE DEF n
    <3>. QED  BY <3>2
  <2>. HIDE DEF f, n
  <2>5. g = F(g)
    BY <2>2, <2>4 DEF Goes
  <2>. QED  BY <2>5
<1>5. t = F(t)
  <2>1. t = CHOOSE g : g = F(g)
    BY <1>1 DEF Values
  <2>. HIDE DEF F, t
  <2>. QED  BY <1>4, <2>1, Zenon
<1>. HIDE DEF t
<1>6. t[0] = 0 /\ \A k \in 1 .. n : t[k] = (t[k - 1] * i + poly[n + 1 - k]) % Q
  <2>. DEFINE u == F(t)
  <2>1. u[0] = 0 /\ \A k \in 1 .. n : u[k] = (t[k - 1] * i + poly[n + 1 - k]) % Q
    BY <1>1
  <2>2. t = u
    BY <1>5
  <2>. HIDE DEF u
  <2>. QED  BY <2>1, <2>2
<1>. DEFINE T == {k \in 0 .. n : t[k] \in Int}
<1>7. 0 .. n \subseteq T
  <2>1. 0 \in T
    BY <1>1, <1>6
  <2>2. ASSUME NEW k \in 1 .. n, k - 1 \in T PROVE k \in T
    <3>1. t[k] \in Int
      BY <1>3, <1>6, <2>2
    <3>. QED  BY <1>1, <3>1
  <2>. HIDE DEF T, n
  <2>. QED  BY <1>1, <2>1, <2>2, Climb
<1>8. \A k \in 0 .. n : t[k] \in Int
  BY <1>7
<1>9. t[n] \in Int
  BY <1>1, <1>8
<1>. QED  BY <1>2, <1>6, <1>8, <1>9 DEF t, Rem

\* The points of a polynomial.
Points(poly, k) == [i \in Members |-> Values(poly, i)[k]]

\* Interpolating the first k values of at least k members gives the coefficient
\* that was added last.
LEMMA Horner ==
  ASSUME NEW poly \in Polynomial, NEW k \in 1 .. Need, NEW c \in Int,
         \A S \in SUBSET Members : Cardinality(S) >= k - 1 => Same(AtZero(S, Points(poly, k - 1)), c),
         NEW S \in SUBSET Members, Cardinality(S) >= k
  PROVE  Same(AtZero(S, Points(poly, k)), poly[Need + 1 - k])
<1>. DEFINE old == Points(poly, k - 1)
            new == Points(poly, k)
            d == poly[Need + 1 - k]
<1>1. k \in Nat /\ k > 0 /\ k - 1 \in 0 .. Need /\ d \in Int
  BY PolynomialLength
<1>2. \A i \in Members : i \in Int /\ old[i] \in Int /\ new[i] = Rem(old[i] * i + d, Q)
  <2>. SUFFICES ASSUME NEW i \in Members
                PROVE  i \in Int /\ old[i] \in Int /\ new[i] = Rem(old[i] * i + d, Q)
    OBVIOUS
  <2>1. i \in Int
    BY MembersInField
  <2>2. old[i] = Values(poly, i)[k - 1] /\ new[i] = Values(poly, i)[k]
    BY DEF Points
  <2>. HIDE DEF old, new
  <2>. QED  BY <1>1, <2>1, <2>2, ShareSteps
<1>3. IsFiniteSet(S) /\ S # {}
  <2>1. IsFiniteSet(S)
    BY MembersInField, FS_Subset
  <2>2. Cardinality({}) = 0
    BY FS_EmptySet
  <2>. QED  BY <1>1, <2>1, <2>2
<1>4. PICK j \in S : TRUE
  BY <1>3
<1>5. Cardinality(S \ {j}) >= k - 1
  <2>1. Cardinality(S \ {j}) = Cardinality(S) - 1 /\ Cardinality(S) \in Nat
    BY <1>3, FS_RemoveElement, FS_CardinalityType
  <2>. QED  BY <1>1, <2>1
<1>. HIDE DEF old, new, d
<1>6. j \in Int /\ 0 - j \in Int
  BY <1>2
<1>. DEFINE one == [i \in Members |-> 1]
            away == [i \in S |-> (i - j) * old[i]]
            times == [i \in S |-> away[i] + j * old[i]]
            plus == [i \in S |-> times[i] + d * one[i]]
<1>7. \A i \in S : i \in Int /\ old[i] \in Int /\ i - j \in Int
  BY <1>2, <1>6
<1>8. \A i \in S : one[i] = 1 /\ one[i] \in Int
  OBVIOUS
<1>9. \A i \in S : away[i] = (i - j) * old[i] /\ away[i] \in Int
  BY <1>7
<1>. HIDE DEF away, one
<1>10. \A i \in S : times[i] = away[i] + j * old[i] /\ times[i] \in Int
  BY <1>6, <1>7, <1>9
<1>. HIDE DEF times
<1>11. \A i \in S : plus[i] = times[i] + d * one[i] /\ plus[i] \in Int
  BY <1>1, <1>8, <1>10
<1>. HIDE DEF plus
<1>12. \A i \in S : new[i] \in Int /\ Same(new[i], plus[i])
  <2>. SUFFICES ASSUME NEW i \in S PROVE new[i] \in Int /\ Same(new[i], plus[i])
    OBVIOUS
  <2>1. times[i] = old[i] * i
    <3>1. \A x, y, z \in Int : (x - y) * z + y * z = z * x
      OBVIOUS
    <3>. QED  BY <1>6, <1>7, <1>9, <1>10, <3>1
  <2>2. plus[i] = old[i] * i + d
    BY <1>1, <1>8, <1>11, <2>1
  <2>3. new[i] = Rem(plus[i], Q) /\ plus[i] \in Int
    BY <1>2, <1>11, <2>2
  <2>4. Rem(plus[i], Q) \in 0 .. Q - 1 /\ Same(Rem(plus[i], Q), plus[i])
    BY <2>3, Reduced
  <2>5. Rem(plus[i], Q) \in Int
    BY <2>4, FieldSize
  <2>. QED  BY <2>3, <2>4, <2>5
<1>13. Same(AtZero(S, new), AtZero(S, plus))
  BY <1>11, <1>12, AtZeroSame
<1>14. AtZero(S, plus) = AtZero(S, times) + d * AtZero(S, one)
  BY <1>1, <1>8, <1>10, <1>11, AtZeroAdds
<1>15. AtZero(S, times) = AtZero(S, away) + j * AtZero(S, old)
  BY <1>6, <1>7, <1>9, <1>10, AtZeroAdds
<1>16. Same(AtZero(S, away), (0 - j) * AtZero(S \ {j}, old))
  BY <1>7, <1>9, AtZeroDrops
<1>17. Same(AtZero(S \ {j}, old), c) /\ Same(AtZero(S, old), c)
  <2>1. S \ {j} \in SUBSET Members /\ Cardinality(S) >= k - 1
    <3>1. Cardinality(S) \in Nat
      BY <1>3, FS_CardinalityType
    <3>. QED  BY <1>1, <3>1
  <2>. QED  BY <1>5, <2>1 DEF old
<1>18. /\ AtZero(S, away) \in Int /\ AtZero(S, old) \in Int /\ AtZero(S, one) \in Int
       /\ AtZero(S \ {j}, old) \in Int
  <2>1. S \ {j} \in SUBSET Members /\ \A i \in S \ {j} : old[i] \in Int
    BY <1>7
  <2>. QED  BY <1>7, <1>8, <1>9, <2>1, AtZeroInt
<1>19. Same(AtZero(S, one), 1)
  BY <1>3, AtZeroOnes DEF one
<1>20. Same((0 - j) * AtZero(S \ {j}, old), (0 - j) * c)
  BY <1>6, <1>17, <1>18, SameArith DEF Same
<1>21. Same(j * AtZero(S, old), j * c)
  BY <1>6, <1>17, <1>18, SameArith DEF Same
<1>22. Same(d * AtZero(S, one), d * 1)
  BY <1>1, <1>18, <1>19, SameArith DEF Same
<1>. DEFINE x == AtZero(S, away)
            y == j * AtZero(S, old)
            z == d * AtZero(S, one)
<1>23. x \in Int /\ y \in Int /\ z \in Int /\ (0 - j) * c \in Int /\ j * c \in Int /\ d * 1 \in Int
  BY <1>1, <1>6, <1>18
<1>24. Same(x, (0 - j) * c) /\ Same(y, j * c) /\ Same(z, d * 1)
  BY <1>16, <1>20, <1>21, <1>22 DEF Same
<1>25. AtZero(S, plus) = (x + y) + z
  BY <1>14, <1>15
<1>. HIDE DEF x, y, z
<1>26. Same(x + y, (0 - j) * c + j * c)
  BY <1>23, <1>24, SameArith
<1>27. Same((x + y) + z, ((0 - j) * c + j * c) + d * 1)
  <2>1. x + y \in Int /\ (0 - j) * c + j * c \in Int
    BY <1>23
  <2>. QED  BY <1>23, <1>24, <1>26, <2>1, SameArith
<1>28. ((0 - j) * c + j * c) + d * 1 = d
  BY <1>1, <1>6
<1>. QED  BY <1>13, <1>25, <1>27, <1>28 DEF Same, new, d

SharesOf(poly) == [i \in Members |-> ShareOf(poly, i)]

\* Shamir's scheme: the shares of any Need members give the constant back.
LEMMA Shamir ==
  ASSUME NEW poly \in Polynomial, NEW S \in SUBSET Members, Cardinality(S) >= Need
  PROVE  Same(AtZero(S, SharesOf(poly)), poly[1])
<1>. DEFINE c(k) == IF k = 0 THEN 0 ELSE poly[Need + 1 - k]
            Good(k) == \A U \in SUBSET Members :
                           Cardinality(U) >= k => Same(AtZero(U, Points(poly, k)), c(k))
            T == {k \in 0 .. Need : Good(k)}
<1>1. Need \in Nat /\ Need > 0 /\ \A k \in 1 .. Need : poly[k] \in Int /\ poly[Need + 1 - k] \in Int
  BY PolynomialLength
<1>2. \A k \in 0 .. Need : c(k) \in Int
  BY <1>1
<1>3. Good(0)
  <2>. SUFFICES ASSUME NEW U \in SUBSET Members PROVE Same(AtZero(U, Points(poly, 0)), 0)
    OBVIOUS
  <2>1. \A i \in U : Points(poly, 0)[i] = 0
    BY MembersInField, ShareSteps DEF Points
  <2>2. IsFiniteSet(U) /\ \A i \in U : Lagrange(i, U) \in Int /\ Terms(U, Points(poly, 0))[i] = Lagrange(i, U) * Points(poly, 0)[i]
    <3>. DEFINE v == Points(poly, 0)
    <3>1. \A i \in U : v[i] \in Int
      BY <2>1
    <3>. HIDE DEF v
    <3>2. IsFiniteSet(U) /\ \A i \in U : Lagrange(i, U) \in Int /\ Terms(U, v)[i] = Lagrange(i, U) * v[i]
      BY <3>1, AtZeroInt
    <3>. QED  BY <3>2 DEF v
  <2>3. \A i \in U : Terms(U, Points(poly, 0))[i] = 0
    BY <2>1, <2>2
  <2>. QED  BY <2>2, <2>3, SumZero DEF AtZero, Same
<1>4. ASSUME NEW k \in 1 .. Need, Good(k - 1)
      PROVE  Good(k)
  <2>1. k - 1 \in 0 .. Need /\ k # 0
    BY <1>1
  <2>2. c(k - 1) \in Int /\ c(k) = poly[Need + 1 - k]
    BY <1>2, <2>1
  <2>3. \A U \in SUBSET Members : Cardinality(U) >= k - 1 => Same(AtZero(U, Points(poly, k - 1)), c(k - 1))
    BY <1>4
  <2>. HIDE DEF c
  <2>. QED  BY <2>2, <2>3, Horner
<1>5. 0 .. Need \subseteq T
  <2>1. 0 \in T
    BY <1>1, <1>3
  <2>2. ASSUME NEW k \in 1 .. Need, k - 1 \in T PROVE k \in T
    BY <1>1, <1>4, <2>2
  <2>. HIDE DEF T
  <2>. QED  BY <1>1, <2>1, <2>2, Climb
<1>6. Good(Need)
  BY <1>1, <1>5
<1>7. c(Need) = poly[1]
  <2>1. Need + 1 - Need = 1
    BY <1>1
  <2>. QED  BY <1>1, <2>1
<1>8. Points(poly, Need) = SharesOf(poly)
  BY MembersInField, ShareSteps DEF Points, SharesOf
<1>. QED  BY <1>6, <1>7, <1>8

\* What round 3 computes of the polynomials p of all members.
GroupShare(p, m) == SumOf([j \in Members |-> ShareOf(p[j], m)], Members) % Q
GroupKey(p) == SumOf([j \in Members |-> (Matrix * p[j][1]) % Q], Members) % Q

\* The share and the key of a group are numbers.
LEMMA GroupShareInt ==
  ASSUME NEW p, \A j \in Members : p[j] \in Polynomial, NEW m \in Members
  PROVE  SumOver([j \in Members |-> ShareOf(p[j], m)], Members) \in Int /\ GroupShare(p, m) \in Int
<1>. DEFINE f == [j \in Members |-> ShareOf(p[j], m)]
<1>1. IsFiniteSet(Members) /\ m \in Int
  BY MembersInField
<1>2. \A j \in Members : f[j] \in Int
  BY <1>1, ShareSteps
<1>3. GroupShare(p, m) = Rem(SumOver(f, Members), Q)
  BY DEF GroupShare, SumOf, SumOver, Rem
<1>. HIDE DEF f
<1>4. SumOver(f, Members) \in Int
  BY <1>1, <1>2, SumInt
<1>5. GroupShare(p, m) \in 0 .. Q - 1
  BY <1>3, <1>4, Reduced
<1>6. GroupShare(p, m) \in Int
  BY <1>5, FieldSize
<1>. QED  BY <1>4, <1>6 DEF f

\* The key is one of the elements.
LEMMA GroupKeyInt ==
  ASSUME NEW p, \A j \in Members : p[j] \in Polynomial
  PROVE  GroupKey(p) \in 0 .. Q - 1 /\ GroupKey(p) \in Int
<1>. DEFINE f == [j \in Members |-> (Matrix * p[j][1]) % Q]
<1>1. IsFiniteSet(Members) /\ Matrix \in Int /\ 1 \in 1 .. Need
  BY MembersInField, ThresholdAssumption DEF ThresholdAssumption
<1>2. \A j \in Members : f[j] \in Int
  <2>. SUFFICES ASSUME NEW j \in Members PROVE f[j] \in Int
    OBVIOUS
  <2>1. Matrix * p[j][1] \in Int
    BY <1>1, PolynomialLength
  <2>2. Rem(Matrix * p[j][1], Q) \in 0 .. Q - 1
    BY <2>1, Reduced
  <2>3. f[j] = Rem(Matrix * p[j][1], Q)
    BY DEF Rem
  <2>. QED  BY <2>2, <2>3, FieldSize
<1>3. GroupKey(p) = Rem(SumOver(f, Members), Q)
  BY DEF GroupKey, SumOf, SumOver, Rem
<1>. HIDE DEF f
<1>4. SumOver(f, Members) \in Int
  BY <1>1, <1>2, SumInt
<1>5. GroupKey(p) \in 0 .. Q - 1
  BY <1>3, <1>4, Reduced
<1>. QED  BY <1>5, FieldSize

\* The members' shares belong to a secret whose public value is the key.
LEMMA SharesOpenKey ==
  ASSUME NEW p, \A j \in Members : p[j] \in Polynomial,
         NEW S \in SUBSET Members, Cardinality(S) >= Need,
         NEW share, \A i \in S : share[i] = GroupShare(p, i)
  PROVE  /\ \A i \in S : share[i] \in Int
         /\ GroupKey(p) \in 0 .. Q - 1
         /\ Same(Matrix * AtZero(S, share), GroupKey(p))
<1>. DEFINE row(i) == [j \in Members |-> ShareOf(p[j], i)]
            f == [i \in S |-> [j \in Members |-> Lagrange(i, S) * ShareOf(p[j], i)]]
            g == [j \in Members |-> [i \in S |-> Lagrange(i, S) * ShareOf(p[j], i)]]
            rows == SumOfEach(f, S, Members)
            cols == SumOfEach(g, Members, S)
            secret == [j \in Members |-> p[j][1]]
            public == [j \in Members |-> (Matrix * p[j][1]) % Q]
            scaled == [j \in Members |-> Matrix * secret[j]]
<1>1. IsFiniteSet(Members) /\ IsFiniteSet(S) /\ \A i \in Members : i \in Int
  BY MembersInField, FS_Subset
<1>2. Matrix \in Int /\ 1 \in 1 .. Need
  BY ThresholdAssumption DEF ThresholdAssumption
<1>3. \A j \in Members : p[j][1] \in Int
  BY <1>2, PolynomialLength
<1>4. \A i \in S : Lagrange(i, S) \in Int
  BY LagrangeDrops
<1>5. \A j, i \in Members : ShareOf(p[j], i) \in Int
  BY <1>1, ShareSteps
<1>6. \A i \in Members : \A j \in Members : row(i)[j] = ShareOf(p[j], i) /\ row(i)[j] \in Int
  BY <1>5
<1>. HIDE DEF row
<1>7. \A i \in Members : SumOver(row(i), Members) \in Int
  BY <1>1, <1>6, SumInt
<1>8. \A i \in S : share[i] = Rem(SumOver(row(i), Members), Q)
  BY DEF GroupShare, SumOf, SumOver, Rem, row
<1>9. \A i \in S : share[i] \in Int /\ Same(share[i], SumOver(row(i), Members))
  <2>. SUFFICES ASSUME NEW i \in S PROVE share[i] \in Int /\ Same(share[i], SumOver(row(i), Members))
    OBVIOUS
  <2>1. SumOver(row(i), Members) \in Int
    BY <1>7
  <2>2. Rem(SumOver(row(i), Members), Q) \in 0 .. Q - 1
        /\ Same(Rem(SumOver(row(i), Members), Q), SumOver(row(i), Members))
    BY <2>1, Reduced
  <2>. QED  BY <1>8, <2>2, FieldSize
<1>10. \A i \in S : \A j \in Members : f[i][j] = Lagrange(i, S) * ShareOf(p[j], i) /\ f[i][j] \in Int
  <2>1. \A i \in S : \A j \in Members : f[i][j] = Lagrange(i, S) * ShareOf(p[j], i)
    OBVIOUS
  <2>. HIDE DEF f
  <2>. QED  BY <1>4, <1>5, <2>1
<1>. HIDE DEF f
<1>11. ASSUME NEW i \in S
       PROVE  rows[i] \in Int /\ rows[i] = Lagrange(i, S) * SumOver(row(i), Members)
  <2>. DEFINE h == f[i]
  <2>1. \A j \in Members : h[j] = Lagrange(i, S) * row(i)[j] /\ h[j] \in Int
    BY <1>6, <1>10
  <2>2. rows[i] = SumOver(h, Members)
    BY DEF SumOfEach
  <2>. HIDE DEF h
  <2>3. SumOver(h, Members) = Lagrange(i, S) * SumOver(row(i), Members)
    <3>1. Lagrange(i, S) \in Int /\ \A j \in Members : row(i)[j] \in Int
      BY <1>4, <1>6
    <3>. QED  BY <1>1, <2>1, <3>1, SumScales
  <2>4. SumOver(h, Members) \in Int
    BY <1>1, <2>1, SumInt
  <2>. QED  BY <2>2, <2>3, <2>4
<1>. HIDE DEF rows
<1>12. Same(AtZero(S, share), SumOver(rows, S))
  <2>1. \A i \in S : Terms(S, share)[i] = Lagrange(i, S) * share[i] /\ Terms(S, share)[i] \in Int
    BY <1>9, AtZeroInt
  <2>2. ASSUME NEW i \in S PROVE Same(Terms(S, share)[i], rows[i])
    <3>1. SumOver(row(i), Members) \in Int /\ Lagrange(i, S) \in Int
      BY <1>4, <1>7
    <3>2. Same(Lagrange(i, S) * share[i], Lagrange(i, S) * SumOver(row(i), Members))
      BY <1>9, <3>1, SameArith DEF Same
    <3>. QED  BY <1>11, <2>1, <3>2
  <2>. QED  BY <1>1, <1>11, <2>1, <2>2, SameSums DEF AtZero
<1>13. SumOver(rows, S) = SumOver(cols, Members)
  <2>1. \A i \in S : \A j \in Members : f[i][j] \in Int /\ g[j][i] = f[i][j]
    BY <1>10
  <2>. HIDE DEF g
  <2>. QED  BY <1>1, <2>1, SumsSwap DEF rows
<1>14. \A j \in Members : secret[j] = p[j][1] /\ secret[j] \in Int
  BY <1>3
<1>. HIDE DEF secret
<1>15. ASSUME NEW j \in Members
       PROVE  cols[j] \in Int /\ Same(cols[j], secret[j])
  <2>1. g[j] = Terms(S, SharesOf(p[j]))
    BY DEF Terms, SharesOf
  <2>2. cols[j] = AtZero(S, SharesOf(p[j]))
    BY <2>1 DEF AtZero, SumOfEach
  <2>3. \A i \in S : SharesOf(p[j])[i] \in Int
    BY <1>5 DEF SharesOf
  <2>. HIDE DEF cols
  <2>. QED  BY <1>14, <2>2, <2>3, Shamir, AtZeroInt
<1>. HIDE DEF cols
<1>16. Same(SumOver(cols, Members), SumOver(secret, Members))
  BY <1>1, <1>14, <1>15, SameSums
<1>17. \A j \in Members : scaled[j] = Matrix * secret[j] /\ scaled[j] \in Int
  BY <1>2, <1>14
<1>18. \A j \in Members : public[j] = Rem(scaled[j], Q)
  BY <1>14, <1>17 DEF Rem
<1>. HIDE DEF scaled, public
<1>19. \A j \in Members : public[j] \in Int /\ Same(scaled[j], public[j])
  <2>. SUFFICES ASSUME NEW j \in Members PROVE public[j] \in Int /\ Same(scaled[j], public[j])
    OBVIOUS
  <2>1. Rem(scaled[j], Q) \in 0 .. Q - 1 /\ Same(Rem(scaled[j], Q), scaled[j])
    BY <1>17, Reduced
  <2>. QED  BY <1>18, <2>1, FieldSize DEF Same
<1>20. SumOver(scaled, Members) = Matrix * SumOver(secret, Members)
  BY <1>1, <1>2, <1>14, <1>17, SumScales
<1>21. Same(SumOver(scaled, Members), SumOver(public, Members))
  BY <1>1, <1>17, <1>19, SameSums
<1>22. SumOver(public, Members) \in Int /\ SumOver(secret, Members) \in Int /\ SumOver(cols, Members) \in Int
       /\ AtZero(S, share) \in Int
  BY <1>1, <1>9, <1>14, <1>15, <1>19, SumInt, AtZeroInt
<1>23. GroupKey(p) = Rem(SumOver(public, Members), Q)
  BY DEF GroupKey, SumOf, SumOver, Rem, public
<1>24. GroupKey(p) \in 0 .. Q - 1 /\ Same(GroupKey(p), SumOver(public, Members))
  BY <1>22, <1>23, Reduced
<1>25. Same(AtZero(S, share), SumOver(secret, Members))
  BY <1>12, <1>13, <1>16 DEF Same
<1>26. Same(Matrix * AtZero(S, share), Matrix * SumOver(secret, Members))
  BY <1>2, <1>22, <1>25, SameArith DEF Same
<1>27. Same(Matrix * AtZero(S, share), GroupKey(p))
  BY <1>20, <1>21, <1>24, <1>26 DEF Same
<1>. QED  BY <1>9, <1>24, <1>27

-------------------------------------------------------------------------------
(* Signatures.                                                                *)

\* The challenge of a signing after n tokens.
ChallengeAt(s, n) == Challenge(n + 1, Openings(s))

Job == [verbs : SUBSET GroupVerbs, depth : Int, parent : Nat]
IsSession(s) ==
    /\ s = [signers |-> s.signers, job |-> s.job, attempt |-> s.attempt,
            state |-> s.state, mask |-> s.mask, answer |-> s.answer]
    /\ s.signers \in SUBSET Members /\ Cardinality(s.signers) >= Need
    /\ s.job \in Job
    /\ s.state \in [s.signers -> {"initialized", "committed", "opened", "responded"}]
    /\ s.mask \in [s.signers -> Int] /\ s.answer \in [s.signers -> Int]

\* Who responded did so when all masks were known, with the own share.
Answered(s, n, d) ==
    \A i \in s.signers : s.state[i] = "responded" =>
        /\ \A j \in s.signers : s.state[j] \in {"opened", "responded"}
        /\ s.answer[i] = (s.mask[i] + ChallengeAt(s, n) * Lagrange(i, s.signers) * d[i].share) % Q

Verifies(number, signature, key) ==
    signature.c = Challenge(number, (Matrix * signature.z - signature.c * key) % Q)

\* The challenge of a session.
LEMMA ChallengeInt ==
  ASSUME NEW s, IsSession(s), NEW n \in Nat
  PROVE  /\ IsFiniteSet(s.signers) /\ SumOver(s.mask, s.signers) \in Int /\ Matrix \in Int
         /\ Openings(s) = Rem(Matrix * SumOver(s.mask, s.signers), Q) /\ Openings(s) \in Int
         /\ ChallengeAt(s, n) = Rem(n + 1 + Openings(s), Q) /\ ChallengeAt(s, n) \in Int
<1>. DEFINE S == s.signers
            m == s.mask
<1>1. S \in SUBSET Members /\ \A i \in S : m[i] \in Int
  BY DEF IsSession
<1>2. Openings(s) = Rem(Matrix * SumOver(m, S), Q)
  BY DEF Openings, SumOf, SumOver, Rem
<1>3. ChallengeAt(s, n) = Rem(n + 1 + Openings(s), Q)
  BY DEF ChallengeAt, Challenge, Rem
<1>4. IsFiniteSet(S) /\ Matrix \in Int
  BY <1>1, MembersInField, FS_Subset, ThresholdAssumption DEF ThresholdAssumption
<1>. HIDE DEF S, m
<1>5. SumOver(m, S) \in Int
  BY <1>1, <1>4, SumInt
<1>6. Matrix * SumOver(m, S) \in Int
  BY <1>4, <1>5
<1>7. Openings(s) \in Int
  <2>1. Openings(s) \in 0 .. Q - 1
    BY <1>2, <1>6, Reduced
  <2>. QED  BY <2>1, FieldSize
<1>8. n + 1 + Openings(s) \in Int
  BY <1>7
<1>9. ChallengeAt(s, n) \in Int
  <2>1. ChallengeAt(s, n) \in 0 .. Q - 1
    BY <1>3, <1>8, Reduced
  <2>. QED  BY <2>1, FieldSize
<1>. QED  BY <1>2, <1>3, <1>4, <1>5, <1>7, <1>9 DEF S, m

\* What the signers of a session answered adds up to a signature.
LEMMA AnswersVerify ==
  ASSUME NEW s, IsSession(s), NEW n \in Nat, NEW d, Answered(s, n, d),
         \A i \in s.signers : s.state[i] = "responded",
         NEW p, \A j \in Members : p[j] \in Polynomial,
         \A i \in Members : d[i].share = GroupShare(p, i)
  PROVE  /\ SumOf(s.answer, s.signers) % Q \in Int
         /\ Verifies(n + 1, [c |-> ChallengeAt(s, n), z |-> SumOf(s.answer, s.signers) % Q], GroupKey(p))
<1>. DEFINE S == s.signers
            c == ChallengeAt(s, n)
            share == [i \in Members |-> d[i].share]
            A == AtZero(S, share)
            M == SumOver(s.mask, S)
            key == GroupKey(p)
            z == SumOf(s.answer, S) % Q
            part == [i \in S |-> c * Terms(S, share)[i]]
            whole == [i \in S |-> s.mask[i] + part[i]]
<1>1. /\ S \in SUBSET Members /\ Cardinality(S) >= Need /\ IsFiniteSet(S)
      /\ \A i \in S : s.mask[i] \in Int /\ s.answer[i] \in Int
  <2>1. S \in SUBSET Members /\ Cardinality(S) >= Need /\ \A i \in S : s.mask[i] \in Int /\ s.answer[i] \in Int
    BY DEF IsSession
  <2>. QED  BY <2>1, ChallengeInt
<1>2. c \in Int /\ M \in Int /\ Matrix \in Int /\ c = Rem(n + 1 + Rem(Matrix * M, Q), Q)
  BY ChallengeInt
<1>3. \A i \in S : share[i] \in Int /\ share[i] = d[i].share
  <2>1. \A i \in S : share[i] = GroupShare(p, i)
    BY <1>1
  <2>2. \A i \in S : share[i] = d[i].share
    BY <1>1
  <2>. HIDE DEF share, S
  <2>. QED  BY <1>1, <2>1, <2>2, SharesOpenKey
<1>4. Same(Matrix * A, key) /\ key \in 0 .. Q - 1
  <2>1. \A i \in S : share[i] = GroupShare(p, i)
    BY <1>1
  <2>. HIDE DEF share, S
  <2>. QED  BY <1>1, <2>1, SharesOpenKey
<1>5. key \in Int
  BY <1>4, FieldSize
<1>6. \A i \in S : s.answer[i] = Rem(s.mask[i] + c * Lagrange(i, S) * share[i], Q)
  BY <1>3 DEF Answered, Rem
<1>7. z = Rem(SumOver(s.answer, S), Q)
  BY DEF SumOf, SumOver, Rem
<1>. HIDE DEF share, S, c, M, key, z
<1>8. A \in Int /\ \A i \in S : Lagrange(i, S) \in Int /\ Terms(S, share)[i] = Lagrange(i, S) * share[i] /\ Terms(S, share)[i] \in Int
  BY <1>1, <1>3, AtZeroInt
<1>9. \A i \in S : part[i] = c * Terms(S, share)[i] /\ part[i] \in Int
  BY <1>2, <1>8
<1>. HIDE DEF part
<1>10. \A i \in S : whole[i] = s.mask[i] + part[i] /\ whole[i] \in Int
  BY <1>1, <1>9
<1>. HIDE DEF whole
<1>11. ASSUME NEW i \in S PROVE Same(s.answer[i], whole[i])
  <2>1. s.answer[i] = Rem(whole[i], Q)
    <3>. DEFINE l == Lagrange(i, S)
                x == share[i]
    <3>1. l \in Int /\ x \in Int /\ part[i] = c * (l * x) /\ s.answer[i] = Rem(s.mask[i] + c * l * x, Q)
      BY <1>3, <1>6, <1>8, <1>9
    <3>. HIDE DEF l, x
    <3>2. c * l * x = c * (l * x)
      BY <1>2, <3>1
    <3>. QED  BY <1>10, <3>1, <3>2
  <2>. QED  BY <1>10, <2>1, Reduced
<1>12. Same(SumOver(s.answer, S), SumOver(whole, S))
  BY <1>1, <1>10, <1>11, SameSums
<1>13. SumOver(whole, S) = M + c * A
  <2>1. SumOver(whole, S) = SumOver(s.mask, S) + SumOver(part, S)
    BY <1>1, <1>9, <1>10, SumAdds
  <2>2. SumOver(part, S) = c * SumOver(Terms(S, share), S)
    BY <1>1, <1>2, <1>8, <1>9, SumScales
  <2>. QED  BY <2>1, <2>2 DEF M, AtZero
<1>14. z \in Int /\ Same(z, M + c * A)
  <2>1. SumOver(s.answer, S) \in Int
    BY <1>1, SumInt
  <2>2. z \in 0 .. Q - 1 /\ Same(z, SumOver(s.answer, S))
    BY <1>7, <2>1, Reduced
  <2>3. z \in Int
    BY <2>2, FieldSize
  <2>. QED  BY <1>12, <1>13, <2>2, <2>3 DEF Same
<1>. HIDE DEF A
<1>15. Same(Matrix * z - c * key, Matrix * M)
  <2>1. M + c * A \in Int /\ Matrix * A \in Int /\ Matrix * M \in Int /\ c * key \in Int /\ Matrix * z \in Int
    BY <1>2, <1>5, <1>8, <1>14
  <2>2. Same(Matrix * z, Matrix * (M + c * A))
    BY <1>2, <1>14, <2>1, SameArith DEF Same
  <2>3. Same(c * (Matrix * A), c * key)
    BY <1>2, <1>4, <1>5, <2>1, SameArith DEF Same
  <2>. DEFINE u == Matrix * M
              v == c * (Matrix * A)
              w == c * key
  <2>4. Matrix * (M + c * A) = u + v
    BY <1>2, <1>8
  <2>5. u \in Int /\ v \in Int /\ w \in Int /\ Same(v, w)
    BY <1>2, <2>1, <2>3
  <2>. HIDE DEF u, v, w
  <2>6. Same(Matrix * z, u + v)
    BY <2>2, <2>4
  <2>7. u + v \in Int /\ Same(w, v)
    BY <2>5 DEF Same
  <2>8. Same(Matrix * z - w, (u + v) - v)
    <3>1. Matrix * z \in Int
      BY <2>1
    <3>. QED  BY <2>5, <2>6, <2>7, <3>1, SameArith
  <2>9. (u + v) - v = u
    BY <2>5
  <2>. QED  BY <2>8, <2>9 DEF u, w
<1>16. c = Rem(n + 1 + Rem(Matrix * z - c * key, Q), Q)
  BY <1>2, <1>15 DEF Same
<1>17. Verifies(n + 1, [c |-> c, z |-> z], key)
  BY <1>16 DEF Verifies, Challenge, Rem
<1>. QED  BY <1>14, <1>17 DEF S, c, z, key

-------------------------------------------------------------------------------
(* The invariant.                                                             *)

Part == [state : {"initialized", "committed", "shares_sent", "complete", "failed"},
         poly : Polynomial \cup {<< >>}, key : Int, share : Int]
PolysOf(d) == [j \in Members |-> d[j].poly]

\* Who is through the rounds saw the polynomials of all, which stay what they are.
DkgOK(d) ==
    /\ d \in [Members -> Part]
    /\ \A m \in Members : d[m].state # "initialized" => d[m].poly \in Polynomial
    /\ \A m \in Members : d[m].state = "complete" =>
           /\ \A j \in Members : d[j].state # "initialized"
           /\ d[m].key = GroupKey(PolysOf(d)) /\ d[m].share = GroupShare(PolysOf(d), m)

GroupOK(g, d) ==
    g # NoGroup => /\ \A m \in Members : d[m].state = "complete"
                   /\ g.key = GroupKey(PolysOf(d))
SessionOK(s, g, n, d) == s # Idle => g # NoGroup /\ IsSession(s) /\ Answered(s, n, d)
Token == [verbs : SUBSET GroupVerbs, depth : Int, parent : Nat, signature : [c : Int, z : Int]]
TokensOK(t, g) ==
    /\ t \in Seq(Token)
    /\ \A k \in 1 .. Len(t) : g # NoGroup /\ Verifies(k, t[k].signature, g.key)

ThInv ==
    /\ DkgOK(dkg)
    /\ GroupOK(group, dkg)
    /\ SessionOK(session, group, Len(signedTokens), dkg)
    /\ TokensOK(signedTokens, group)

\* One member goes on; who is already through saw the same polynomials.
LEMMA MemberGoesOn ==
  ASSUME NEW d, DkgOK(d), NEW m \in Members, NEW r \in Part,
         r.state # "initialized" => r.poly \in Polynomial,
         d[m].state # "initialized" => r.state # "initialized" /\ r.poly = d[m].poly,
         r.state = "complete" =>
             /\ d[m].state # "initialized"
             /\ \A j \in Members : d[j].state # "initialized"
             /\ r.key = GroupKey(PolysOf(d)) /\ r.share = GroupShare(PolysOf(d), m)
  PROVE  DkgOK([d EXCEPT ![m] = r])
<1>. DEFINE e == [d EXCEPT ![m] = r]
<1>1. e \in [Members -> Part] /\ \A j \in Members : e[j] = IF j = m THEN r ELSE d[j]
  BY DEF DkgOK
<1>. HIDE DEF e
<1>2. \A j \in Members : e[j].state # "initialized" => e[j].poly \in Polynomial
  BY <1>1 DEF DkgOK
<1>3. ASSUME NEW j \in Members, e[j].state = "complete"
      PROVE  /\ \A k \in Members : e[k].state # "initialized"
             /\ e[j].key = GroupKey(PolysOf(e)) /\ e[j].share = GroupShare(PolysOf(e), j)
  <2>1. \A k \in Members : d[k].state # "initialized"
    <3>1. CASE j = m
      BY <1>1, <1>3, <3>1
    <3>2. CASE j # m
      BY <1>1, <1>3, <3>2 DEF DkgOK
    <3>. QED  BY <3>1, <3>2
  <2>2. \A k \in Members : e[k].state # "initialized" /\ e[k].poly = d[k].poly
    BY <1>1, <2>1
  <2>3. PolysOf(e) = PolysOf(d)
    BY <2>2 DEF PolysOf
  <2>4. e[j].key = GroupKey(PolysOf(d)) /\ e[j].share = GroupShare(PolysOf(d), j)
    <3>1. CASE j = m
      BY <1>1, <1>3, <3>1
    <3>2. CASE j # m
      BY <1>1, <1>3, <3>2 DEF DkgOK
    <3>. QED  BY <3>1, <3>2
  <2>. QED  BY <2>2, <2>3, <2>4
<1>. QED  BY <1>1, <1>2, <1>3 DEF DkgOK, e

\* Before all are through there is no group, no signing and no token.
LEMMA NothingSigned ==
  ASSUME ThInv, NEW m \in Members, dkg[m].state # "complete"
  PROVE  group = NoGroup /\ session = Idle /\ \A k \in 1 .. Len(signedTokens) : FALSE
<1>1. group = NoGroup
  BY DEF ThInv, GroupOK
<1>2. session = Idle
  BY <1>1 DEF ThInv, SessionOK
<1>. QED  BY <1>1, <1>2 DEF ThInv, TokensOK

\* A round leaves the invariant if it leaves the members' records in order.
LEMMA RoundStep ==
  ASSUME ThInv, NEW m \in Members, dkg[m].state # "complete",
         DkgOK(dkg'), UNCHANGED <<group, session, signedTokens>>
  PROVE  ThInv'
<1>1. group' = NoGroup /\ session' = Idle
  BY NothingSigned
<1>2. GroupOK(group', dkg') /\ SessionOK(session', group', Len(signedTokens'), dkg')
  BY <1>1 DEF GroupOK, SessionOK
<1>3. TokensOK(signedTokens', group')
  BY DEF ThInv
<1>. QED  BY <1>2, <1>3 DEF ThInv

\* The invariant, one action at a time.
LEMMA RoundOneStep ==
  ASSUME ThInv, NEW m \in Members, RoundOne(m)
  PROVE  ThInv'
<1>1. dkg[m].state = "initialized" /\ dkg \in [Members -> Part]
  BY DEF RoundOne, ThInv, DkgOK
<1>2. PICK poly \in Coefficients : dkg' = [dkg EXCEPT ![m].state = "committed", ![m].poly = poly]
  BY DEF RoundOne
<1>3. poly \in Polynomial
  <2>1. Secrets \cup Slopes \subseteq Int
    BY ThresholdAssumption DEF ThresholdAssumption
  <2>. QED  BY <2>1 DEF Coefficients, Polynomial
<1>. DEFINE r == [dkg[m] EXCEPT !.state = "committed", !.poly = poly]
<1>4. dkg' = [dkg EXCEPT ![m] = r]
  BY <1>2
<1>5. r \in Part /\ r.state = "committed" /\ r.poly = poly
  BY <1>1, <1>3 DEF Part
<1>. HIDE DEF r
<1>6. DkgOK(dkg')
  BY <1>1, <1>3, <1>4, <1>5, MemberGoesOn DEF ThInv
<1>. QED  BY <1>1, <1>6, RoundStep DEF RoundOne

\* Round 2 keeps the polynomials.
LEMMA RoundTwoStep ==
  ASSUME ThInv, NEW m \in Members, RoundTwo(m)
  PROVE  ThInv'
<1>1. dkg[m].state = "committed" /\ dkg \in [Members -> Part] /\ dkg[m].poly \in Polynomial
  BY DEF RoundTwo, ThInv, DkgOK
<1>2. PICK garbled \in BOOLEAN : dkg' = [dkg EXCEPT ![m].state = IF garbled THEN "failed" ELSE "shares_sent"]
  BY DEF RoundTwo
<1>. DEFINE r == [dkg[m] EXCEPT !.state = IF garbled THEN "failed" ELSE "shares_sent"]
<1>4. dkg' = [dkg EXCEPT ![m] = r]
  BY <1>2
<1>5. r \in Part /\ r.state \in {"failed", "shares_sent"} /\ r.poly = dkg[m].poly
  BY <1>1 DEF Part
<1>. HIDE DEF r
<1>6. DkgOK(dkg')
  BY <1>1, <1>4, <1>5, MemberGoesOn DEF ThInv
<1>. QED  BY <1>1, <1>6, RoundStep DEF RoundTwo

\* Round 3 adds up what all sent.
LEMMA RoundThreeStep ==
  ASSUME ThInv, NEW m \in Members, RoundThree(m)
  PROVE  ThInv'
<1>1. dkg[m].state = "shares_sent" /\ dkg \in [Members -> Part] /\ dkg[m].poly \in Polynomial
  BY DEF RoundThree, ThInv, DkgOK
<1>2. \A j \in Members : dkg[j].state # "initialized"
  BY DEF RoundThree, SentShares
<1>. DEFINE share == SumOf([j \in Members |-> ShareOf(dkg[j].poly, m)], Members) % Q
            key == SumOf([j \in Members |-> PublicValue(j)], Members) % Q
            r == [[[dkg[m] EXCEPT !.state = "complete"] EXCEPT !.share = share] EXCEPT !.key = key]
            f == [dkg[m] EXCEPT !.state = "failed"]
<1>3. dkg' = [dkg EXCEPT ![m] = r] \/ dkg' = [dkg EXCEPT ![m] = f]
  BY DEF RoundThree
<1>4. share = GroupShare(PolysOf(dkg), m) /\ key = GroupKey(PolysOf(dkg))
  <2>1. [j \in Members |-> ShareOf(dkg[j].poly, m)] = [j \in Members |-> ShareOf(PolysOf(dkg)[j], m)]
    BY DEF PolysOf
  <2>2. [j \in Members |-> PublicValue(j)] = [j \in Members |-> (Matrix * PolysOf(dkg)[j][1]) % Q]
    BY DEF PolysOf, PublicValue
  <2>. QED  BY <2>1, <2>2 DEF GroupShare, GroupKey
<1>5. share \in Int /\ key \in Int
  <2>1. \A j \in Members : PolysOf(dkg)[j] \in Polynomial
    BY <1>2 DEF PolysOf, ThInv, DkgOK
  <2>2. share \in Int
    BY <1>4, <2>1, GroupShareInt
  <2>3. key \in Int
    BY <1>4, <2>1, GroupKeyInt
  <2>. QED  BY <2>2, <2>3
<1>. HIDE DEF share, key
<1>6. r \in Part /\ r.state = "complete" /\ r.poly = dkg[m].poly /\ r.share = share /\ r.key = key
  BY <1>1, <1>5 DEF Part
<1>7. f \in Part /\ f.state = "failed" /\ f.poly = dkg[m].poly
  BY <1>1 DEF Part
<1>. HIDE DEF r, f
<1>8. DkgOK([dkg EXCEPT ![m] = r])
  BY <1>1, <1>2, <1>4, <1>6, MemberGoesOn DEF ThInv
<1>9. DkgOK([dkg EXCEPT ![m] = f])
  BY <1>1, <1>7, MemberGoesOn DEF ThInv
<1>10. DkgOK(dkg')
  BY <1>3, <1>8, <1>9
<1>. QED  BY <1>1, <1>10, RoundStep DEF RoundThree

\* The group takes the key all computed.
LEMMA CreateGroupStep ==
  ASSUME ThInv, CreateThresholdGroup
  PROVE  ThInv'
<1>1. group = NoGroup /\ \A m \in Members : dkg[m].state = "complete"
  BY DEF CreateThresholdGroup
<1>2. group' = [key |-> dkg[1].key] /\ UNCHANGED <<dkg, session, signedTokens>>
  BY DEF CreateThresholdGroup
<1>3. dkg[1].key = GroupKey(PolysOf(dkg))
  BY <1>1, MembersInField DEF ThInv, DkgOK
<1>4. session = Idle /\ \A k \in 1 .. Len(signedTokens) : FALSE
  BY <1>1 DEF ThInv, SessionOK, TokensOK
<1>5. group'.key = GroupKey(PolysOf(dkg))
  BY <1>2, <1>3
<1>6. GroupOK(group', dkg')
  BY <1>1, <1>2, <1>5 DEF GroupOK
<1>7. SessionOK(session', group', Len(signedTokens'), dkg') /\ TokensOK(signedTokens', group') /\ DkgOK(dkg')
  BY <1>2, <1>4 DEF ThInv, SessionOK, TokensOK
<1>. QED  BY <1>6, <1>7 DEF ThInv

\* The members' records and the tokens stay, and the session is as it should be.
LEMMA SigningStep ==
  ASSUME ThInv, UNCHANGED <<dkg, group, signedTokens>>,
         SessionOK(session', group, Len(signedTokens), dkg)
  PROVE  ThInv'
BY DEF ThInv

\* A signing starts with masks that are not drawn.
LEMMA StartStep ==
  ASSUME ThInv, NEW signers \in SUBSET Members, NEW job \in Job, StartSigning(signers, job)
  PROVE  ThInv'
<1>1. group # NoGroup /\ Cardinality(signers) >= Need /\ UNCHANGED <<dkg, group, signedTokens>>
  BY DEF StartSigning
<1>. DEFINE s == [signers |-> signers, job |-> job, attempt |-> 1,
                  state |-> [i \in signers |-> "initialized"],
                  mask |-> [i \in signers |-> 0], answer |-> [i \in signers |-> 0]]
<1>2. session' = s
  BY DEF StartSigning
<1>3. IsSession(s)
  BY <1>1 DEF IsSession
<1>4. Answered(s, Len(signedTokens), dkg)
  BY DEF Answered
<1>. HIDE DEF s
<1>5. SessionOK(session', group, Len(signedTokens), dkg)
  BY <1>1, <1>2, <1>3, <1>4 DEF SessionOK
<1>. QED  BY <1>1, <1>5, SigningStep

\* A root token is one to sign.
LEMMA RootStep ==
  ASSUME ThInv, NEW signers \in SUBSET Members, NEW depth \in 0 .. GroupDepth,
         CreateThresholdToken(signers, GroupVerbs, depth)
  PROVE  ThInv'
<1>1. RootToken(GroupVerbs, depth) \in Job
  BY DEF RootToken, Job
<1>2. StartSigning(signers, RootToken(GroupVerbs, depth))
  BY DEF CreateThresholdToken
<1>. QED  BY <1>1, <1>2, StartStep

\* So is a narrower one.
LEMMA NarrowerStep ==
  ASSUME ThInv, NEW signers \in SUBSET Members, NEW parent \in DOMAIN signedTokens,
         NEW verbs \in SUBSET GroupVerbs, AttenuateTokenThreshold(signers, parent, verbs)
  PROVE  ThInv'
<1>1. signedTokens \in Seq(Token)
  BY DEF ThInv, TokensOK
<1>2. signedTokens[parent] \in Token /\ parent \in Nat
  BY <1>1
<1>3. Narrower(parent, verbs) \in Job
  BY <1>2 DEF Narrower, Job, Token
<1>4. StartSigning(signers, Narrower(parent, verbs))
  BY DEF AttenuateTokenThreshold
<1>. QED  BY <1>3, <1>4, StartStep

\* A signing that is under way.
LEMMA SigningUnderWay ==
  ASSUME ThInv, session # Idle
  PROVE  /\ group # NoGroup /\ IsSession(session) /\ Answered(session, Len(signedTokens), dkg)
         /\ Len(signedTokens) \in Nat
BY DEF ThInv, SessionOK, TokensOK

\* What becomes of a session when a signer goes on.
LEMMA SessionState ==
  ASSUME NEW s, IsSession(s), NEW i, NEW x
  PROVE  [s EXCEPT !.state[i] = x] =
             [signers |-> s.signers, job |-> s.job, attempt |-> s.attempt,
              state |-> [s.state EXCEPT ![i] = x], mask |-> s.mask, answer |-> s.answer]
<1>1. s = [signers |-> s.signers, job |-> s.job, attempt |-> s.attempt,
           state |-> s.state, mask |-> s.mask, answer |-> s.answer]
  BY DEF IsSession
<1>2. [s EXCEPT !.state[i] = x] = [s EXCEPT !.state = [s.state EXCEPT ![i] = x]]
  BY <1>1
<1>. QED  BY <1>1, <1>2

\* Nobody has responded while a mask is drawn.
LEMMA CommitStep ==
  ASSUME ThInv, NEW i \in Members, SignerCommit(i)
  PROVE  ThInv'
<1>1. i \in session.signers /\ session.state[i] = "initialized" /\ UNCHANGED <<dkg, group, signedTokens>>
  BY DEF SignerCommit
<1>2. session # Idle
  BY <1>1 DEF Idle
<1>3. group # NoGroup /\ IsSession(session) /\ Answered(session, Len(signedTokens), dkg)
  BY <1>2, SigningUnderWay
<1>4. PICK y \in Masks : session' = [session EXCEPT !.state[i] = "committed", !.mask[i] = y]
  BY DEF SignerCommit
<1>5. y \in Int
  BY ThresholdAssumption DEF ThresholdAssumption
<1>. DEFINE state == [session.state EXCEPT ![i] = "committed"]
            mask == [session.mask EXCEPT ![i] = y]
            s == [signers |-> session.signers, job |-> session.job, attempt |-> session.attempt,
                  state |-> state, mask |-> mask, answer |-> session.answer]
<1>6. session' = s
  <2>1. [session EXCEPT !.state[i] = "committed", !.mask[i] = y] = s
    <3>. DEFINE t == [session EXCEPT !.state[i] = "committed"]
    <3>1. t = [signers |-> session.signers, job |-> session.job, attempt |-> session.attempt,
               state |-> state, mask |-> session.mask, answer |-> session.answer]
      BY <1>3, SessionState
    <3>2. [session EXCEPT !.state[i] = "committed", !.mask[i] = y] = [t EXCEPT !.mask[i] = y]
      BY <1>3 DEF IsSession
    <3>. HIDE DEF t
    <3>3. [t EXCEPT !.mask[i] = y] = [t EXCEPT !.mask = mask]
      BY <3>1
    <3>. HIDE DEF state, mask
    <3>. QED  BY <3>1, <3>2, <3>3
  <2>. QED  BY <1>4, <2>1, Zenon
<1>7. /\ state \in [session.signers -> {"initialized", "committed", "opened", "responded"}]
      /\ mask \in [session.signers -> Int]
      /\ \A j \in session.signers : state[j] = IF j = i THEN "committed" ELSE session.state[j]
  BY <1>3, <1>5 DEF IsSession
<1>. HIDE DEF state, mask
<1>8. IsSession(s)
  BY <1>3, <1>7 DEF IsSession
<1>9. Answered(s, Len(signedTokens), dkg)
  <2>. SUFFICES ASSUME NEW j \in session.signers, state[j] = "responded" PROVE FALSE
    BY DEF Answered
  <2>1. session.state[j] = "responded"
    BY <1>7
  <2>2. session.state[i] \in {"opened", "responded"}
    BY <1>1, <1>3, <2>1 DEF Answered
  <2>. QED  BY <1>1, <2>2
<1>. HIDE DEF s
<1>10. SessionOK(session', group, Len(signedTokens), dkg)
  BY <1>3, <1>6, <1>8, <1>9 DEF SessionOK
<1>. QED  BY <1>1, <1>10, SigningStep

\* Nor while one is opened.
LEMMA OpenStep ==
  ASSUME ThInv, NEW i \in Members, SignerOpen(i)
  PROVE  ThInv'
<1>1. i \in session.signers /\ session.state[i] = "committed" /\ UNCHANGED <<dkg, group, signedTokens>>
  BY DEF SignerOpen
<1>2. session # Idle
  BY <1>1 DEF Idle
<1>3. group # NoGroup /\ IsSession(session) /\ Answered(session, Len(signedTokens), dkg)
  BY <1>2, SigningUnderWay
<1>. DEFINE state == [session.state EXCEPT ![i] = "opened"]
            s == [signers |-> session.signers, job |-> session.job, attempt |-> session.attempt,
                  state |-> state, mask |-> session.mask, answer |-> session.answer]
<1>6. session' = s
  BY <1>3, SessionState DEF SignerOpen
<1>7. /\ state \in [session.signers -> {"initialized", "committed", "opened", "responded"}]
      /\ \A j \in session.signers : state[j] = IF j = i THEN "opened" ELSE session.state[j]
  BY <1>3 DEF IsSession
<1>. HIDE DEF state
<1>8. IsSession(s)
  BY <1>3, <1>7 DEF IsSession
<1>9. Answered(s, Len(signedTokens), dkg)
  <2>. SUFFICES ASSUME NEW j \in session.signers, state[j] = "responded" PROVE FALSE
    BY DEF Answered
  <2>1. session.state[j] = "responded"
    BY <1>7
  <2>2. session.state[i] \in {"opened", "responded"}
    BY <1>1, <1>3, <2>1 DEF Answered
  <2>. QED  BY <1>1, <2>2
<1>. HIDE DEF s
<1>10. SessionOK(session', group, Len(signedTokens), dkg)
  BY <1>3, <1>6, <1>8, <1>9 DEF SessionOK
<1>. QED  BY <1>1, <1>10, SigningStep

\* Who responds knows all masks.
LEMMA RespondStep ==
  ASSUME ThInv, NEW i \in Members, SignerRespond(i)
  PROVE  ThInv'
<1>1. /\ i \in session.signers /\ session.state[i] = "opened" /\ UNCHANGED <<dkg, group, signedTokens>>
      /\ \A j \in session.signers : session.state[j] \in {"opened", "responded"}
  BY DEF SignerRespond, AllIn
<1>2. session # Idle
  BY <1>1 DEF Idle
<1>3. /\ group # NoGroup /\ IsSession(session) /\ Answered(session, Len(signedTokens), dkg)
      /\ Len(signedTokens) \in Nat
  BY <1>2, SigningUnderWay
<1>. DEFINE n == Len(signedTokens)
            x == (session.mask[i] + ChallengeOf(session) * Lagrange(i, session.signers) * dkg[i].share) % Q
            state == [session.state EXCEPT ![i] = "responded"]
            answer == [session.answer EXCEPT ![i] = x]
            s == [signers |-> session.signers, job |-> session.job, attempt |-> session.attempt,
                  state |-> state, mask |-> session.mask, answer |-> answer]
<1>4. x = (session.mask[i] + ChallengeAt(session, n) * Lagrange(i, session.signers) * dkg[i].share) % Q
  BY DEF ChallengeOf, ChallengeAt
<1>5. x \in Int
  <2>. DEFINE m == session.mask[i]
              c == ChallengeAt(session, n)
              l == Lagrange(i, session.signers)
              d == dkg[i].share
              y == m + c * l * d
  <2>1. m \in Int /\ session.signers \in SUBSET Members
    BY <1>1, <1>3 DEF IsSession
  <2>2. c \in Int
    BY <1>3, ChallengeInt
  <2>3. l \in Int
    BY <1>1, <2>1, LagrangeDrops
  <2>4. d \in Int
    BY DEF ThInv, DkgOK, Part
  <2>5. x = Rem(y, Q)
    BY <1>4 DEF Rem
  <2>. HIDE DEF m, c, l, d, x
  <2>6. y \in Int
    BY <2>1, <2>2, <2>3, <2>4
  <2>. HIDE DEF y
  <2>7. x \in 0 .. Q - 1
    BY <2>5, <2>6, Reduced
  <2>. QED  BY <2>7, FieldSize
<1>6. session' = s
  <2>1. session' = [session EXCEPT !.state[i] = "responded", !.answer[i] = x]
    BY DEF SignerRespond
  <2>. HIDE DEF x
  <2>2. [session EXCEPT !.state[i] = "responded", !.answer[i] = x] = s
    <3>. DEFINE t == [session EXCEPT !.state[i] = "responded"]
    <3>1. t = [signers |-> session.signers, job |-> session.job, attempt |-> session.attempt,
               state |-> state, mask |-> session.mask, answer |-> session.answer]
      BY <1>3, SessionState
    <3>2. [session EXCEPT !.state[i] = "responded", !.answer[i] = x] = [t EXCEPT !.answer[i] = x]
      BY <1>3 DEF IsSession
    <3>. HIDE DEF t
    <3>3. [t EXCEPT !.answer[i] = x] = [t EXCEPT !.answer = answer]
      BY <3>1
    <3>. HIDE DEF state, answer
    <3>. QED  BY <3>1, <3>2, <3>3
  <2>. QED  BY <2>1, <2>2, Zenon
<1>. HIDE DEF x
<1>7. /\ state \in [session.signers -> {"initialized", "committed", "opened", "responded"}]
      /\ answer \in [session.signers -> Int]
      /\ \A j \in session.signers : state[j] = IF j = i THEN "responded" ELSE session.state[j]
      /\ \A j \in session.signers : answer[j] = IF j = i THEN x ELSE session.answer[j]
  BY <1>3, <1>5 DEF IsSession
<1>. HIDE DEF state, answer
<1>8. IsSession(s)
  BY <1>3, <1>7 DEF IsSession
<1>9. Answered(s, n, dkg)
  <2>1. s.signers = session.signers /\ s.mask = session.mask /\ s.state = state /\ s.answer = answer
    OBVIOUS
  <2>. HIDE DEF s
  <2>2. ChallengeAt(s, n) = ChallengeAt(session, n)
    BY <2>1 DEF ChallengeAt, Challenge, Openings
  <2>3. \A j \in session.signers : state[j] \in {"opened", "responded"}
    BY <1>1, <1>7
  <2>4. ASSUME NEW j \in session.signers, state[j] = "responded"
        PROVE  answer[j] = (session.mask[j] + ChallengeAt(session, n) * Lagrange(j, session.signers) * dkg[j].share) % Q
    <3>1. CASE j = i
      BY <1>4, <1>7, <3>1
    <3>2. CASE j # i
      BY <1>3, <1>7, <2>4, <3>2 DEF Answered
    <3>. QED  BY <3>1, <3>2
  <2>. QED  BY <2>1, <2>2, <2>3, <2>4 DEF Answered
<1>. HIDE DEF s
<1>10. SessionOK(session', group, Len(signedTokens), dkg)
  BY <1>3, <1>6, <1>8, <1>9 DEF SessionOK
<1>. QED  BY <1>1, <1>10, SigningStep

\* After a rejection all start over.
LEMMA RejectStep ==
  ASSUME ThInv, CombineRejects
  PROVE  ThInv'
<1>1. session # Idle /\ UNCHANGED <<dkg, group, signedTokens>>
  BY DEF CombineRejects
<1>2. group # NoGroup /\ IsSession(session)
  BY <1>1, SigningUnderWay
<1>. DEFINE state == [i \in session.signers |-> "initialized"]
            s == [signers |-> session.signers, job |-> session.job, attempt |-> session.attempt + 1,
                  state |-> state, mask |-> session.mask, answer |-> session.answer]
<1>3. session' = Idle \/ session' = s
  <2>1. CASE session.attempt = MaxAttempts
    BY <2>1 DEF CombineRejects
  <2>2. CASE session.attempt # MaxAttempts
    <3>1. session' = [session EXCEPT !.attempt = @ + 1, !.state = state]
      BY <2>2 DEF CombineRejects
    <3>. HIDE DEF state
    <3>2. session = [signers |-> session.signers, job |-> session.job, attempt |-> session.attempt,
                     state |-> session.state, mask |-> session.mask, answer |-> session.answer]
      BY <1>2 DEF IsSession
    <3>. QED  BY <3>1, <3>2
  <2>. QED  BY <2>1, <2>2
<1>4. IsSession(s)
  BY <1>2 DEF IsSession
<1>5. Answered(s, Len(signedTokens), dkg)
  BY DEF Answered
<1>. HIDE DEF s
<1>6. SessionOK(session', group, Len(signedTokens), dkg)
  BY <1>2, <1>3, <1>4, <1>5 DEF SessionOK
<1>. QED  BY <1>1, <1>6, SigningStep

\* What is combined verifies.
LEMMA CombineStep ==
  ASSUME ThInv, Combine
  PROVE  ThInv'
<1>. DEFINE n == Len(signedTokens)
            p == PolysOf(dkg)
            g == SignatureOf(session)
            t == [verbs |-> session.job.verbs, depth |-> session.job.depth, parent |-> session.job.parent,
                  signature |-> g]
<1>1. /\ session # Idle /\ session' = Idle /\ UNCHANGED <<dkg, group>>
      /\ \A i \in session.signers : session.state[i] = "responded"
      /\ signedTokens' = Append(signedTokens, t)
  BY DEF Combine, AllIn
<1>2. /\ group # NoGroup /\ IsSession(session) /\ Answered(session, n, dkg) /\ n \in Nat
  BY <1>1, SigningUnderWay
<1>3. /\ group.key = GroupKey(p) /\ \A m \in Members : dkg[m].state = "complete"
  BY <1>2 DEF ThInv, GroupOK
<1>4. \A m \in Members : p[m] \in Polynomial /\ dkg[m].share = GroupShare(p, m)
  BY <1>3 DEF ThInv, DkgOK, PolysOf
<1>5. g = [c |-> ChallengeAt(session, n), z |-> SumOf(session.answer, session.signers) % Q]
  BY DEF SignatureOf, ChallengeOf, ChallengeAt
<1>. HIDE DEF p, g
<1>6. SumOf(session.answer, session.signers) % Q \in Int /\ Verifies(n + 1, g, group.key)
  <2>. HIDE DEF n
  <2>. QED  BY <1>1, <1>2, <1>3, <1>4, <1>5, AnswersVerify
<1>7. ChallengeAt(session, n) \in Int
  BY <1>2, ChallengeInt
<1>8. t \in Token
  <2>1. g \in [c : Int, z : Int]
    BY <1>5, <1>6, <1>7
  <2>2. session.job \in Job
    BY <1>2 DEF IsSession
  <2>. QED  BY <2>1, <2>2 DEF Token, Job
<1>9. t.signature = g
  OBVIOUS
<1>. HIDE DEF t
<1>10. signedTokens \in Seq(Token) /\ \A k \in 1 .. n : Verifies(k, signedTokens[k].signature, group.key)
  BY DEF ThInv, TokensOK
<1>11. /\ signedTokens' \in Seq(Token) /\ Len(signedTokens') = n + 1
       /\ \A k \in 1 .. n : signedTokens'[k] = signedTokens[k]
       /\ signedTokens'[n + 1] = t
  BY <1>1, <1>8, <1>10
<1>12. \A k \in 1 .. n + 1 : Verifies(k, signedTokens'[k].signature, group.key)
  <2>. SUFFICES ASSUME NEW k \in 1 .. n + 1 PROVE Verifies(k, signedTokens'[k].signature, group.key)
    OBVIOUS
  <2>1. CASE k \in 1 .. n
    BY <1>10, <1>11, <2>1
  <2>2. CASE k = n + 1
    BY <1>6, <1>9, <1>11, <2>2
  <2>. QED  BY <1>2, <2>1, <2>2
<1>13. TokensOK(signedTokens', group')
  BY <1>1, <1>2, <1>11, <1>12 DEF TokensOK
<1>14. SessionOK(session', group', Len(signedTokens'), dkg')
  BY <1>1 DEF SessionOK
<1>15. DkgOK(dkg') /\ GroupOK(group', dkg')
  BY <1>1 DEF ThInv
<1>. QED  BY <1>13, <1>14, <1>15 DEF ThInv

\* The invariant holds at the start.
LEMMA ThStart ==
  ASSUME ThInit
  PROVE  ThInv
<1>1. dkg \in [Members -> Part] /\ \A m \in Members : dkg[m].state = "initialized"
  BY DEF ThInit, Part
<1>2. DkgOK(dkg)
  BY <1>1 DEF DkgOK
<1>3. GroupOK(group, dkg) /\ SessionOK(session, group, Len(signedTokens), dkg) /\ TokensOK(signedTokens, group)
  BY DEF ThInit, GroupOK, SessionOK, TokensOK
<1>. QED  BY <1>2, <1>3 DEF ThInv

\* And after every step.
LEMMA ThStep ==
  ASSUME ThInv, [ThNext]_thvars
  PROVE  ThInv'
<1>1. CASE \E m \in Members : RoundOne(m) \/ RoundTwo(m) \/ RoundThree(m)
  BY <1>1, RoundOneStep, RoundTwoStep, RoundThreeStep
<1>2. CASE CreateThresholdGroup
  BY <1>2, CreateGroupStep
<1>3. CASE \E signers \in SUBSET Members :
             \E depth \in 0 .. GroupDepth : CreateThresholdToken(signers, GroupVerbs, depth)
  BY <1>3, RootStep
<1>4. CASE \E signers \in SUBSET Members :
             \E parent \in DOMAIN signedTokens, verbs \in SUBSET GroupVerbs :
                 AttenuateTokenThreshold(signers, parent, verbs)
  BY <1>4, NarrowerStep
<1>5. CASE \E i \in Members : SignerCommit(i) \/ SignerOpen(i) \/ SignerRespond(i)
  BY <1>5, CommitStep, OpenStep, RespondStep
<1>6. CASE Combine \/ CombineRejects
  BY <1>6, CombineStep, RejectStep
<1>7. CASE UNCHANGED thvars
  BY <1>7 DEF thvars, ThInv
<1>. QED  BY <1>1, <1>2, <1>3, <1>4, <1>5, <1>6, <1>7 DEF ThNext

\* What the invariant says of keys, shares and signatures.
LEMMA ThSound ==
  ASSUME ThInv
  PROVE  ThresholdSigns
<1>. DEFINE done == {m \in Members : dkg[m].state = "complete"}
            p == PolysOf(dkg)
<1>1. \A m \in done : dkg[m].key = GroupKey(p) /\ dkg[m].share = GroupShare(p, m)
  BY DEF ThInv, DkgOK
<1>2. ASSUME NEW signers \in SUBSET done, Cardinality(signers) >= Need
      PROVE  (Matrix * Reconstruct([m \in Members |-> dkg[m].share], signers)) % Q
                 = dkg[CHOOSE m \in signers : TRUE].key
  <2>. DEFINE share == [m \in Members |-> dkg[m].share]
              A == AtZero(signers, share)
  <2>1. signers # {}
    <3>1. Need \in Nat /\ Need > 0
      BY ThresholdAssumption DEF ThresholdAssumption
    <3>2. Cardinality({}) = 0
      BY FS_EmptySet
    <3>. QED  BY <1>2, <3>1, <3>2
  <2>2. dkg[CHOOSE m \in signers : TRUE].key = GroupKey(p)
    <3>1. (CHOOSE m \in signers : TRUE) \in done
      BY <2>1
    <3>. QED  BY <1>1, <3>1
  <2>3. \A m \in Members : p[m] \in Polynomial
    BY <1>2, <2>1 DEF ThInv, DkgOK, PolysOf
  <2>4. signers \in SUBSET Members /\ \A i \in signers : share[i] = GroupShare(p, i)
    BY <1>1
  <2>. HIDE DEF share, p
  <2>5. (\A i \in signers : share[i] \in Int) /\ GroupKey(p) \in 0 .. Q - 1 /\ Same(Matrix * A, GroupKey(p))
    BY <1>2, <2>3, <2>4, SharesOpenKey
  <2>6. A \in Int /\ Matrix \in Int
    BY <2>4, <2>5, AtZeroInt, ThresholdAssumption DEF ThresholdAssumption
  <2>7. Reconstruct(share, signers) = Rem(A, Q)
    BY DEF Reconstruct, AtZero, Terms, SumOf, SumOver, Rem
  <2>. HIDE DEF A
  <2>8. Rem(A, Q) \in Int /\ Same(Rem(A, Q), A)
    <3>1. Rem(A, Q) \in 0 .. Q - 1 /\ Same(Rem(A, Q), A)
      BY <2>6, Reduced
    <3>. QED  BY <3>1, FieldSize
  <2>9. Same(Matrix * Rem(A, Q), Matrix * A)
    BY <2>6, <2>8, SameArith DEF Same
  <2>10. Rem(Matrix * Rem(A, Q), Q) = GroupKey(p)
    BY <2>5, <2>9, GroupKeyInt, FieldSize, Reduced DEF Same
  <2>. QED  BY <2>2, <2>7, <2>10 DEF Rem, share
<1>3. \A k \in DOMAIN signedTokens : SignatureVerifies(k, signedTokens[k].signature)
  <2>1. DOMAIN signedTokens = 1 .. Len(signedTokens)
    BY DEF ThInv, TokensOK
  <2>. QED  BY <2>1 DEF ThInv, TokensOK, SignatureVerifies, Verifies
<1>4. \A m, n \in done : dkg[m].key = dkg[n].key
  BY <1>1
<1>. QED  BY <1>2, <1>3, <1>4 DEF ThresholdSigns

\* The members that complete agree on the key, their shares hold the secret that
\* belongs to it, and whatever signers sign verifies: DKGParticipant,
\* ThresholdSigner and ThresholdCoordinator.
THEOREM ThresholdAlwaysSigns == ThSpec => []ThresholdSigns
<1>1. ThInit => ThInv
  BY ThStart
<1>2. ThInv /\ [ThNext]_thvars => ThInv'
  BY ThStep
<1>3. ThInv => ThresholdSigns
  BY ThSound
<1>. QED  BY <1>1, <1>2, <1>3, PTL DEF ThSpec

===============================================================================
