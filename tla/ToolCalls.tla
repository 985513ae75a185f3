------------------------------ MODULE ToolCalls ------------------------------
(***************************************************************************)
(* POST /tools/call of scripts/qasp_server.py: a tool call is relayed to   *)
(* the target over its websocket (ConnectionManager.send_and_wait, which   *)
(* resolve_pending wakes), then to its callback URL, then echoed.  The     *)
(* calls are to one target; a call has passed the checks of its token.     *)
(*                                                                         *)
(* The target runs the tool for every tool_call frame it receives, as      *)
(* scripts/qasp_client.py does, and an answer may be late, sent twice by   *)
(* another program than that client, or never come.                        *)
(***************************************************************************)
EXTENDS Naturals, FiniteSets

CONSTANT Requests  \* the request ids, one per call

VARIABLES
  online,   \* the target has an entry in _connections
  stage,    \* where the handler of each call is
  pending,  \* ConnectionManager._pending
  future,   \* what each future was resolved with
  frames,   \* tool_call frames on their way to the target
  answers,  \* tool_result frames the target sent
  runs,     \* how often the target ran the tool for a call
  result    \* the call_result of each call

vars == <<online, stage, pending, future, frames, answers, runs, result>>

Answers == {"value", "null"}

Init ==
  /\ online = FALSE
  /\ stage = [r \in Requests |-> "new"]
  /\ pending = {}
  /\ future = [r \in Requests |-> "unset"]
  /\ frames = {}
  /\ answers = {}
  /\ runs = [r \in Requests |-> 0]
  /\ result = [r \in Requests |-> "none"]

Finish(r, res) ==
  /\ stage' = [stage EXCEPT ![r] = "done"]
  /\ result' = [result EXCEPT ![r] = res]

\* Tiers 2 and 3: on to the callback, or the echo when there is none.
FallBack(r) ==
  \/ stage' = [stage EXCEPT ![r] = "callback"] /\ UNCHANGED result
  \/ Finish(r, "echo")

-----------------------------------------------------------------------------
(* The caller's handler.                                                   *)

Call(r) ==
  /\ stage[r] = "new"
  /\ IF online
       THEN /\ pending' = pending \cup {r}
            /\ frames' = frames \cup {r}
            /\ stage' = [stage EXCEPT ![r] = "sending"]
            /\ UNCHANGED result
       ELSE FallBack(r) /\ UNCHANGED <<pending, frames>>
  /\ UNCHANGED <<online, future, answers, runs>>

SendOk(r) ==
  /\ stage[r] = "sending"
  /\ stage' = [stage EXCEPT ![r] = "waiting"]
  /\ UNCHANGED <<online, pending, future, frames, answers, runs, result>>

\* send_json disconnected the target; what was written may have left.
SendFails(r) ==
  /\ stage[r] = "sending"
  /\ online' = FALSE
  /\ pending' = pending \ {r}
  /\ FallBack(r)
  /\ UNCHANGED <<future, frames, answers, runs>>

\* A JSON null is None, and None is how send_and_wait reports a failure.
Answered(r) ==
  /\ stage[r] = "waiting"
  /\ future[r] # "unset"
  /\ pending' = pending \ {r}
  /\ IF future[r] = "null" THEN FallBack(r) ELSE Finish(r, "value")
  /\ UNCHANGED <<online, future, frames, answers, runs>>

\* Mutants: the entry stays; the handler goes on waiting.
TimeoutKeepsEntry(r) ==
  /\ stage[r] = "waiting"
  /\ FallBack(r)
  /\ UNCHANGED <<online, pending, future, frames, answers, runs>>

TimeoutWaitsOn(r) ==
  /\ stage[r] = "waiting"
  /\ UNCHANGED vars

\* wait_for cancels the handler, which may lose an answer of the same moment.
Timeout(r) ==
  /\ stage[r] = "waiting"
  /\ pending' = pending \ {r}
  /\ FallBack(r)
  /\ UNCHANGED <<online, future, frames, answers, runs>>

CallbackReturns(r) ==
  /\ stage[r] = "callback"
  /\ runs' = [runs EXCEPT ![r] = @ + 1]
  /\ Finish(r, "callback")
  /\ UNCHANGED <<online, pending, future, frames, answers>>

\* The request or the response was lost: the result is an error.
CallbackFails(r) ==
  /\ stage[r] = "callback"
  /\ runs' \in {runs, [runs EXCEPT ![r] = @ + 1]}
  /\ Finish(r, "error")
  /\ UNCHANGED <<online, pending, future, frames, answers>>

-----------------------------------------------------------------------------
(* The target, and its listen loop.                                        *)

Connection ==
  /\ online' = ~online
  /\ UNCHANGED <<stage, pending, future, frames, answers, runs, result>>

RunTool(r) ==
  /\ r \in frames
  /\ frames' = frames \ {r}
  /\ runs' = [runs EXCEPT ![r] = @ + 1]
  /\ \E v \in Answers : answers' = answers \cup {<<r, v>>}
  /\ UNCHANGED <<online, stage, pending, future, result>>

LoseFrame(r) ==
  /\ r \in frames
  /\ frames' = frames \ {r}
  /\ UNCHANGED <<online, stage, pending, future, answers, runs, result>>

\* Mutant: a future is set again, which raises out of the listen loop.
ResolveAgain(r, v) ==
  /\ <<r, v>> \in answers
  /\ future' = [future EXCEPT ![r] = v]
  /\ UNCHANGED <<online, stage, pending, frames, answers, runs, result>>

\* The frame stays in answers: the target may repeat it.
ResolvePending(r, v) ==
  /\ <<r, v>> \in answers
  /\ r \in pending
  /\ future[r] = "unset"
  /\ future' = [future EXCEPT ![r] = v]
  /\ UNCHANGED <<online, stage, pending, frames, answers, runs, result>>

-----------------------------------------------------------------------------
Handler(r) ==
  \/ Call(r) \/ SendOk(r) \/ SendFails(r) \/ Answered(r) \/ Timeout(r)
  \/ CallbackReturns(r) \/ CallbackFails(r)

Next ==
  \/ \E r \in Requests :
       \/ Handler(r) \/ RunTool(r) \/ LoseFrame(r)
       \/ \E v \in Answers : ResolvePending(r, v)
  \/ Connection

Spec == Init /\ [][Next]_vars

\* A send ends one way or the other, and so does a wait (30 s) and a callback
\* (30 s).
Fairness ==
  \A r \in Requests :
    /\ WF_vars(SendOk(r) \/ SendFails(r))
    /\ WF_vars(Answered(r) \/ Timeout(r))
    /\ WF_vars(CallbackReturns(r) \/ CallbackFails(r))

FairSpec == Spec /\ Fairness

-----------------------------------------------------------------------------
TypeOK ==
  /\ online \in BOOLEAN
  /\ stage \in [Requests -> {"new", "sending", "waiting", "callback", "done"}]
  /\ pending \subseteq Requests
  /\ future \in [Requests -> Answers \cup {"unset"}]
  /\ frames \subseteq Requests
  /\ answers \subseteq Requests \X Answers
  /\ runs \in [Requests -> 0..2]
  /\ result \in [Requests -> {"none", "value", "callback", "error", "echo"}]

\* _pending holds the calls whose handler is in send_and_wait and no other:
\* no way out of it leaves an entry behind, so the table does not grow.
PendingIsExact ==
  pending = {r \in Requests : stage[r] \in {"sending", "waiting"}}

\* A caller that gets the target's answer gets the answer to its own call,
\* which ran the tool once: no fallback ran it again.
AnswerRanOnce ==
  \A r \in Requests :
    result[r] = "value" => runs[r] = 1 /\ <<r, "value">> \in answers

\* The table holds the calls that wait, and what they return is their own.
CallsAreExact == TypeOK /\ PendingIsExact /\ AnswerRanOnce

\* A future is resolved once, and not after its handler gave up: late and
\* repeated answers change nothing.
ResolvedOnce ==
  [][\A r \in Requests :
       future'[r] # future[r] =>
         future[r] = "unset" /\ stage[r] \in {"sending", "waiting"}]_vars

\* Every call returns, whatever the target does.
CallCompletes ==
  \A r \in Requests : (stage[r] # "new") ~> (stage[r] = "done")
=============================================================================
