---------------------------------- MODULE Client ----------------------------------
(* QASPWebSocketListener of scripts/qasp_client.py: the loop that connects,   *)
(* listens and reconnects, and the coroutines of the application that open,   *)
(* use and close relay sessions over it. The server end is what Relay models, *)
(* reduced to the order of its frames: it grants each request at most once,   *)
(* announces sessions of other agents, and forgets all sessions of the agent  *)
(* when the connection ends. The identifiers of sessions are never reused.    *)
EXTENDS Integers, Sequences, FiniteSetsExt, SequencesExt

CONSTANTS Callers,             \* coroutines of the application
          BaseDelay, MaxDelay, \* reconnect_delay, max_reconnect_delay
          MaxSessions, MaxFails, MaxSent, MaxInbound

ASSUME ClientAssumption ==
    BaseDelay \in Nat /\ MaxDelay \in Nat /\ BaseDelay <= MaxDelay /\ MaxFails \in Nat

VARIABLES loop,        \* where run() is
          running,     \* _running
          ws,          \* _ws: "none", "live", or "ended": a connection that is over
          delay,
          fails,       \* history: failed connections since the last that was made
          stoppedIn,   \* history: where run() was when stop() was called
          closing,     \* close() of the live connection is scheduled
          inbound,     \* frames on their way to the listener
          relayFrames, \* _pending_relay_frames
          granted,     \* keys of _relay_sessions
          nextSeq,     \* _relay_next_seq
          caller,      \* [Callers -> what it awaits]
          opened,      \* sessions the server has given out an identifier for
          waiting,     \* those it holds that wait for their target
          alive,       \* those it holds active
          sent         \* history: data frames that reached an active session

clvars == <<loop, running, ws, delay, fails, stoppedIn, closing, inbound, relayFrames, granted, nextSeq, caller,
            opened, waiting, alive, sent>>
relayVars == <<inbound, relayFrames, granted, nextSeq, caller, opened, waiting, alive, sent>>
loopVars == <<loop, running, ws, delay, fails, stoppedIn, closing>>

Sessions == 1 .. MaxSessions
Free == [await |-> "nothing"]

ClInit ==
    /\ loop = "idle" /\ running = FALSE /\ ws = "none" /\ delay = BaseDelay
    /\ fails = 0 /\ stoppedIn = "nowhere" /\ closing = FALSE
    /\ inbound = << >> /\ relayFrames = << >>
    /\ granted = {} /\ nextSeq = << >>
    /\ caller = [c \in Callers |-> Free]
    /\ opened = {} /\ waiting = {} /\ alive = {} /\ sent = << >>

-------------------------------------------------------------------------------
(* run and stop                                                               *)

Run ==
    /\ loop = "idle"
    /\ loop' = "connecting" /\ running' = TRUE /\ delay' = BaseDelay
    /\ UNCHANGED <<ws, fails, stoppedIn, closing>> /\ UNCHANGED relayVars

Connected ==
    /\ loop = "connecting"
    /\ loop' = "reading" /\ ws' = "live" /\ delay' = BaseDelay /\ fails' = 0
    /\ UNCHANGED <<running, stoppedIn, closing>> /\ UNCHANGED relayVars

Gone == inbound' = << >> /\ alive' = {} /\ waiting' = {} /\ closing' = FALSE

\* An exception, of the connect or of the connection.
ConnectionFails ==
    /\ loop \in {"connecting", "reading"}
    /\ fails < MaxFails
    /\ fails' = fails + 1
    /\ ws' = "none"
    /\ loop' = IF running THEN "asleep" ELSE "returned"
    /\ Gone
    /\ UNCHANGED <<running, delay, stoppedIn, relayFrames, granted, nextSeq, caller, opened, sent>>

\* The iteration over the connection just ends: the server closed it in order,
\* or stop did. No sleep, no on_disconnect, and _ws keeps the old connection.
ConnectionEnds ==
    /\ loop = "reading"
    /\ ws' = "ended"
    /\ loop' = IF running THEN "connecting" ELSE "returned"
    /\ Gone
    /\ UNCHANGED <<running, delay, fails, stoppedIn, relayFrames, granted, nextSeq, caller, opened, sent>>

LoopTest == IF running THEN "connecting" ELSE "returned"
Doubled == IF 2 * delay < MaxDelay THEN 2 * delay ELSE MaxDelay
Wake ==
    /\ loop = "asleep"
    /\ delay' = Doubled
    /\ loop' = LoopTest
    /\ UNCHANGED <<running, ws, fails, stoppedIn, closing>> /\ UNCHANGED relayVars

Stop ==
    /\ running
    /\ running' = FALSE
    /\ stoppedIn' = loop
    /\ closing' = (ws = "live")
    /\ UNCHANGED <<loop, ws, delay, fails>> /\ UNCHANGED relayVars

-------------------------------------------------------------------------------
(* The server                                                                 *)

Frame(kind, s) == [kind |-> kind, session |-> s]
Push(frame) == Len(inbound) < MaxInbound /\ inbound' = Append(inbound, frame)
NewSession == CHOOSE s \in Sessions : s \notin opened

\* It announces a session of another agent, or grants, denies or closes one.
ServerNotifies ==
    /\ loop = "reading" /\ opened # Sessions
    /\ Push(Frame("notify", NewSession))
    /\ opened' = opened \cup {NewSession} /\ waiting' = waiting \cup {NewSession}
    /\ UNCHANGED <<relayFrames, granted, nextSeq, caller, alive, sent>> /\ UNCHANGED loopVars
ServerGrants(s) ==
    /\ loop = "reading" /\ s \in waiting
    /\ waiting' = waiting \ {s}
    /\ Push(Frame("grant", s))
    /\ alive' = alive \cup {s}
    /\ UNCHANGED <<relayFrames, granted, nextSeq, caller, opened, sent>> /\ UNCHANGED loopVars
ServerRelays(s) ==
    /\ loop = "reading" /\ s \in alive
    /\ Push(Frame("data", s))
    /\ UNCHANGED <<relayFrames, granted, nextSeq, caller, opened, alive, waiting, sent>> /\ UNCHANGED loopVars
ServerEnds(s) ==
    /\ loop = "reading" /\ s \in waiting \cup alive
    /\ Push(Frame("close", s))
    /\ alive' = alive \ {s} /\ waiting' = waiting \ {s}
    /\ UNCHANGED <<relayFrames, granted, nextSeq, caller, opened, sent>> /\ UNCHANGED loopVars

-------------------------------------------------------------------------------
(* The listener and the callers                                               *)

\* _handle_relay_bytes: data goes to the callback, the rest to the queue; a
\* grant is kept as well.
HandleRelayBytes ==
    /\ loop = "reading" /\ inbound # << >>
    /\ LET frame == Head(inbound)
       IN  /\ relayFrames' = IF frame.kind = "data" THEN relayFrames ELSE Append(relayFrames, frame)
           /\ granted' = IF frame.kind = "grant" THEN granted \cup {frame.session} ELSE granted
    /\ inbound' = Tail(inbound)
    /\ UNCHANGED <<nextSeq, caller, opened, alive, waiting, sent>> /\ UNCHANGED loopVars

\* open_relay_session: the request is sent, then any grant will do.
OpenRelaySession(c) ==
    /\ caller[c] = Free /\ ws = "live" /\ opened # Sessions
    /\ opened' = opened \cup {NewSession} /\ waiting' = waiting \cup {NewSession}
    /\ caller' = [caller EXCEPT ![c] = [await |-> "grant"]]
    /\ UNCHANGED <<inbound, relayFrames, granted, nextSeq, alive, sent>> /\ UNCHANGED loopVars
AwaitRelayNotify(c) ==
    /\ caller[c] = Free
    /\ caller' = [caller EXCEPT ![c] = [await |-> "notify"]]
    /\ UNCHANGED <<inbound, relayFrames, granted, nextSeq, opened, alive, waiting, sent>> /\ UNCHANGED loopVars

\* _relay_next_seq with the number seq for the session s.
WithNumber(s, seq) == [t \in DOMAIN nextSeq \cup {s} |-> IF t = s THEN seq ELSE nextSeq[t]]
FirstNumberAgain(s) == WithNumber(s, 1)
SetDefault(s) == IF s \in DOMAIN nextSeq THEN nextSeq ELSE WithNumber(s, 1)

\* _await_relay: frames that are not what the caller awaits are thrown away.
AwaitRelay(c) ==
    /\ caller[c].await \in {"grant", "notify"} /\ relayFrames # << >>
    /\ LET frame == Head(relayFrames)
       IN  IF frame.kind # caller[c].await THEN UNCHANGED <<caller, granted, nextSeq>>
           ELSE /\ caller' = [caller EXCEPT ![c] = Free]
                /\ granted' = IF frame.kind = "grant" THEN granted \cup {frame.session} ELSE granted
                /\ nextSeq' = IF frame.kind = "grant" THEN SetDefault(frame.session) ELSE nextSeq
    /\ relayFrames' = Tail(relayFrames)
    /\ UNCHANGED <<inbound, opened, alive, waiting, sent>> /\ UNCHANGED loopVars
AwaitTimesOut(c) ==
    /\ caller[c].await \in {"grant", "notify"}
    /\ caller' = [caller EXCEPT ![c] = Free]
    /\ UNCHANGED <<inbound, relayFrames, granted, nextSeq, opened, alive, waiting, sent>> /\ UNCHANGED loopVars

\* send_relay_data: the number is taken before the send, which raises when the
\* connection has ended.
Number(s) == IF s \in DOMAIN nextSeq THEN nextSeq[s] ELSE 1
SendRelayData(c, s) ==
    /\ caller[c] = Free /\ ws # "none" /\ s \in granted
    /\ Number(s) <= MaxSent
    /\ nextSeq' = WithNumber(s, Number(s) + 1)
    /\ sent' = IF ws = "live" /\ s \in alive THEN Append(sent, [session |-> s, seq |-> Number(s)]) ELSE sent
    /\ UNCHANGED <<inbound, relayFrames, granted, caller, opened, waiting, alive>> /\ UNCHANGED loopVars

\* close_relay_session: the session is forgotten when the send has returned.
CloseRelaySession(c, s) ==
    /\ caller[c] = Free /\ ws = "live" /\ s \in granted
    /\ alive' = alive \ {s}
    /\ caller' = [caller EXCEPT ![c] = [await |-> "closed", session |-> s]]
    /\ UNCHANGED <<inbound, relayFrames, granted, nextSeq, opened, waiting, sent>> /\ UNCHANGED loopVars
CloseReturns(c) ==
    /\ caller[c].await = "closed"
    /\ granted' = granted \ {caller[c].session}
    /\ nextSeq' = Restrict(nextSeq, DOMAIN nextSeq \ {caller[c].session})
    /\ caller' = [caller EXCEPT ![c] = Free]
    /\ UNCHANGED <<inbound, relayFrames, opened, alive, waiting, sent>> /\ UNCHANGED loopVars

\* The two are run apart: stop() and what it does to the loop, and the sessions
\* over a loop that is not stopped.
LoopNext == Run \/ Connected \/ ConnectionFails \/ ConnectionEnds \/ Wake \/ Stop
RelayNext ==
    \/ Run \/ Connected \/ ConnectionFails \/ ConnectionEnds \/ Wake
    \/ ServerNotifies
    \/ \E s \in Sessions : ServerGrants(s) \/ ServerRelays(s) \/ ServerEnds(s)
    \/ HandleRelayBytes
    \/ \E c \in Callers : \/ OpenRelaySession(c) \/ AwaitRelayNotify(c) \/ AwaitRelay(c) \/ AwaitTimesOut(c)
                          \/ CloseReturns(c)
                          \/ \E s \in Sessions : SendRelayData(c, s) \/ CloseRelaySession(c, s)

ClSpec == ClInit /\ [][LoopNext \/ RelayNext]_clvars

-------------------------------------------------------------------------------
(* Properties                                                                 *)

\* However grants, timeouts, closes and reconnections interleave with the
\* senders, an active session gets its data frames numbered upwards: the relay
\* takes none for one it has seen.
NumbersGoUp ==
    \A i, j \in DOMAIN sent : i < j /\ sent[i].session = sent[j].session => sent[i].seq < sent[j].seq

\* stop() ends the loop wherever it finds it, but while it connects: no
\* connection is tried again. The pause doubles with each failure in a row.
StopHolds == ~ running /\ loop = "connecting" => stoppedIn = "connecting"
PowerOf2 ==
    LET power[n \in 0 .. MaxFails] == IF n = 0 THEN 1 ELSE 2 * power[n - 1]
    IN  power
PauseDoubles == loop = "asleep" => delay = Min({BaseDelay * PowerOf2[fails - 1], MaxDelay})
ClientKeepsOrder == NumbersGoUp /\ StopHolds /\ PauseDoubles
===============================================================================
