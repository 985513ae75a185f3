--------------------------- MODULE ToolCallsProofs ---------------------------
(***************************************************************************)
(* Theorems about ToolCalls, for any set of concurrent calls.              *)
(***************************************************************************)
EXTENDS ToolCalls, TLAPS

\* What every call owes its runs to: at most one to the frame that left for
\* the target, and at most one to the callback.
Relayed(r) == IF r \in frames THEN 0 ELSE 1
CalledBack(r) == IF result[r] \in {"callback", "error"} THEN 1 ELSE 0

\* A call that has not begun has left no trace; an answer tells of a run, a
\* resolved future of an answer, and the target's value of that future.
Accounted(r) ==
  /\ stage[r] = "new" => r \notin frames /\ runs[r] = 0
  /\ stage[r] # "done" => result[r] = "none"
  /\ runs[r] <= Relayed(r) + CalledBack(r)
  /\ \A v \in Answers : <<r, v>> \in answers => runs[r] >= 1
  /\ future[r] # "unset" => <<r, future[r]>> \in answers
  /\ result[r] = "value" => <<r, "value">> \in answers

IInv ==
  /\ TypeOK
  /\ PendingIsExact
  /\ \A r \in Requests : Accounted(r)

LEMMA Initially == Init => IInv
<1>1. Init => TypeOK
  <2>. SUFFICES ASSUME Init PROVE TypeOK
    OBVIOUS
  <2>1. [r \in Requests |-> 0] \in [Requests -> 0..2]
    OBVIOUS
  <2>2. pending \subseteq Requests /\ frames \subseteq Requests
        /\ answers \subseteq Requests \X Answers
    BY DEF Init
  <2>. QED  BY <2>1, <2>2 DEF Init, TypeOK
<1>2. Init => PendingIsExact
  BY DEF Init, PendingIsExact
<1>3. ASSUME Init, NEW r \in Requests
      PROVE  Accounted(r)
  BY <1>3 DEF Init, Accounted, Relayed, CalledBack
<1>. QED  BY <1>1, <1>2, <1>3 DEF IInv

-----------------------------------------------------------------------------
(* One lemma for each conjunct of the invariant.                           *)

LEMMA TypeStep == IInv /\ [Next]_vars => TypeOK'
<1>. SUFFICES ASSUME IInv, [Next]_vars PROVE TypeOK'
  OBVIOUS
<1>. USE DEF IInv, TypeOK, Answers
<1>1. CASE UNCHANGED vars
  BY <1>1 DEF vars
<1>2. CASE Connection
  BY <1>2 DEF Connection
<1>3. ASSUME NEW r \in Requests,
             Call(r) \/ SendOk(r) \/ SendFails(r) \/ Answered(r) \/ Timeout(r)
      PROVE  TypeOK'
  BY <1>3 DEF Call, SendOk, SendFails, Answered, Timeout, FallBack, Finish
<1>4. ASSUME NEW r \in Requests, CallbackReturns(r) \/ CallbackFails(r)
      PROVE  TypeOK'
  <2>1. stage[r] = "callback" /\ Accounted(r)
    BY <1>4 DEF CallbackReturns, CallbackFails
  <2>2. runs[r] \in 0..1
    BY <2>1 DEF Accounted, Relayed, CalledBack
  <2>. QED  BY <1>4, <2>2 DEF CallbackReturns, CallbackFails, Finish
<1>5. ASSUME NEW r \in Requests, RunTool(r)
      PROVE  TypeOK'
  <2>1. r \in frames /\ Accounted(r)
    BY <1>5 DEF RunTool
  <2>2. runs[r] \in 0..1
    BY <2>1 DEF Accounted, Relayed, CalledBack
  <2>. QED  BY <1>5, <2>2 DEF RunTool
<1>6. ASSUME NEW r \in Requests, LoseFrame(r)
      PROVE  TypeOK'
  BY <1>6 DEF LoseFrame
<1>7. ASSUME NEW r \in Requests, NEW v \in Answers, ResolvePending(r, v)
      PROVE  TypeOK'
  BY <1>7 DEF ResolvePending
<1>. QED  BY <1>1, <1>2, <1>3, <1>4, <1>5, <1>6, <1>7 DEF Next, Handler

LEMMA PendingStep == IInv /\ [Next]_vars => PendingIsExact'
<1>. SUFFICES ASSUME IInv, [Next]_vars PROVE PendingIsExact'
  OBVIOUS
<1>. USE DEF IInv, TypeOK, PendingIsExact
<1>1. CASE UNCHANGED vars
  BY <1>1 DEF vars
<1>2. CASE Connection
  BY <1>2 DEF Connection
<1>3. ASSUME NEW r \in Requests, Handler(r)
      PROVE  PendingIsExact'
  BY <1>3 DEF Handler, Call, SendOk, SendFails, Answered, Timeout,
              CallbackReturns, CallbackFails, FallBack, Finish
<1>4. ASSUME NEW r \in Requests,
             RunTool(r) \/ LoseFrame(r) \/ \E v \in Answers : ResolvePending(r, v)
      PROVE  PendingIsExact'
  BY <1>4 DEF RunTool, LoseFrame, ResolvePending
<1>. QED  BY <1>1, <1>2, <1>3, <1>4 DEF Next

\* A step of one call leaves the accounts of the others alone.
SameCall(r) ==
  /\ stage'[r] = stage[r] /\ result'[r] = result[r]
  /\ runs'[r] = runs[r] /\ future'[r] = future[r]
  /\ (r \in frames') = (r \in frames)
  /\ \A v \in Answers : (<<r, v>> \in answers') = (<<r, v>> \in answers)

LEMMA SameCallKeeps ==
  ASSUME IInv, NEW r \in Requests, SameCall(r)
  PROVE  Accounted(r)'
<1>1. future[r] # "unset" => future[r] \in Answers
  BY DEF IInv, TypeOK
<1>. QED  BY <1>1 DEF IInv, SameCall, Accounted, Relayed, CalledBack, Answers

LEMMA AccountedStep ==
  ASSUME IInv, [Next]_vars, NEW q \in Requests
  PROVE  Accounted(q)'
<1>. USE DEF IInv, TypeOK
<1>1. CASE UNCHANGED vars \/ Connection
  <2>. SameCall(q)
    BY <1>1 DEF vars, Connection, SameCall
  <2>. QED  BY SameCallKeeps
<1>2. ASSUME NEW r \in Requests, Handler(r)
      PROVE  Accounted(q)'
  <2>. USE DEF Finish, FallBack
  <2>1. CASE q # r
    <3>. SameCall(q)
      BY <1>2, <2>1 DEF SameCall, Handler, Call, SendOk, SendFails, Answered,
                        Timeout, CallbackReturns, CallbackFails
    <3>. QED  BY SameCallKeeps
  <2>2. CASE q = r
    <3>. Accounted(r)
      OBVIOUS
    <3>1. CASE Call(r)
      BY <2>2, <3>1 DEF Call, Accounted, Relayed, CalledBack, Answers
    <3>2. CASE SendOk(r) \/ SendFails(r) \/ Timeout(r)
      BY <2>2, <3>2 DEF SendOk, SendFails, Timeout, Accounted, Relayed,
                        CalledBack, Answers
    <3>3. CASE Answered(r)
      BY <2>2, <3>3 DEF Answered, Accounted, Relayed, CalledBack, Answers
    <3>4. CASE CallbackReturns(r) \/ CallbackFails(r)
      BY <2>2, <3>4 DEF CallbackReturns, CallbackFails, Accounted, Relayed,
                        CalledBack, Answers
    <3>. QED  BY <1>2, <3>1, <3>2, <3>3, <3>4 DEF Handler
  <2>. QED  BY <2>1, <2>2
<1>3. ASSUME NEW r \in Requests, RunTool(r)
      PROVE  Accounted(q)'
  <2>1. CASE q # r
    <3>. SameCall(q)
      BY <1>3, <2>1 DEF SameCall, RunTool
    <3>. QED  BY SameCallKeeps
  <2>2. CASE q = r
    BY <1>3, <2>2 DEF RunTool, Accounted, Relayed, CalledBack, Answers
  <2>. QED  BY <2>1, <2>2
<1>4. ASSUME NEW r \in Requests, LoseFrame(r)
      PROVE  Accounted(q)'
  BY <1>4 DEF LoseFrame, Accounted, Relayed, CalledBack, Answers
<1>5. ASSUME NEW r \in Requests, NEW v \in Answers, ResolvePending(r, v)
      PROVE  Accounted(q)'
  BY <1>5 DEF ResolvePending, Accounted, Relayed, CalledBack, Answers
<1>. QED  BY <1>1, <1>2, <1>3, <1>4, <1>5 DEF Next

LEMMA Inductive == IInv /\ [Next]_vars => IInv'
  BY TypeStep, PendingStep, AccountedStep DEF IInv

LEMMA Invariance == Spec => []IInv
  BY Initially, Inductive, PTL DEF Spec

-----------------------------------------------------------------------------
\* Whatever the target and the connection do, the table of pending calls holds
\* the calls that wait and no other, and a caller that gets the target's value
\* gets that of its own call, which ran once: no fallback ran it again.
THEOREM CallsExact == Spec => []CallsAreExact
<1>1. IInv => AnswerRanOnce
  <2>. SUFFICES ASSUME IInv, NEW r \in Requests, result[r] = "value"
                PROVE  runs[r] = 1 /\ <<r, "value">> \in answers
    BY DEF AnswerRanOnce
  <2>1. Accounted(r) /\ runs[r] \in 0..2
    BY DEF IInv, TypeOK
  <2>. QED  BY <2>1 DEF Accounted, Relayed, CalledBack, Answers
<1>2. IInv => CallsAreExact
  BY <1>1 DEF IInv, CallsAreExact
<1>. QED  BY Invariance, <1>2, PTL

\* A future is resolved at most once, and never after its handler gave up.
THEOREM FutureResolvedOnce == Spec => ResolvedOnce
<1>1. ASSUME IInv, [Next]_vars
      PROVE  \A r \in Requests :
               future'[r] # future[r] =>
                 future[r] = "unset" /\ stage[r] \in {"sending", "waiting"}
  <2>. SUFFICES ASSUME NEW r \in Requests, future'[r] # future[r]
                PROVE  future[r] = "unset" /\ stage[r] \in {"sending", "waiting"}
    OBVIOUS
  <2>1. \E q \in Requests, v \in Answers : ResolvePending(q, v)
    BY <1>1 DEF Next, Handler, Call, SendOk, SendFails, Answered, Timeout,
                CallbackReturns, CallbackFails, RunTool, LoseFrame, Connection, vars
  <2>2. ResolvePending(r, future'[r])
    BY <1>1, <2>1 DEF ResolvePending, IInv, TypeOK
  <2>. QED  BY <1>1, <2>2 DEF ResolvePending, IInv, PendingIsExact
<1>. QED  BY <1>1, Invariance, PTL DEF Spec, ResolvedOnce
=============================================================================
