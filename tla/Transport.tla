-------------------------------- MODULE Transport --------------------------------
(* Two TCPTransports (src/src/qasp/transport/tcp.py), one at each end of a    *)
(* TCP connection, and the StreamManagers that use them                       *)
(* (src/src/qasp/protocol/stream.py). What get_pending_data joins is one      *)
(* message; a message is a length prefix and as many units as it has frames,  *)
(* and TCP delivers the units in order, in chunks of any size. The QASP       *)
(* connection between the two layers neither reorders nor loses (Connection). *)
EXTENDS Integers, Sequences, FiniteSets

CONSTANTS Openers,      \* ends that open streams
          MayStall,     \* a message may stop halfway for longer than a timeout
          MaxStreams,   \* streams an end opens
          MaxFrames,    \* frames an end sends on a stream
          MaxMessage    \* MAX_MESSAGE_SIZE, in frames

ASSUME TransportAssumption == MaxStreams \in Nat /\ MaxMessage \in Nat

Sides == {"client", "server"}
Far(e) == IF e = "client" THEN "server" ELSE "client"
FirstId(e) == IF e = "client" THEN 1 ELSE 2
StreamIds == 1 .. 2 * MaxStreams

VARIABLES
    connected,   \* [Sides -> BOOLEAN]: _connected, with a writer
    stream,      \* [Sides -> [StreamIds -> state]]: "none" is no entry of _streams
    frames,      \* [Sides -> [StreamIds -> frames sent on it]]
    pending,     \* [Sides -> _pending_frames]
    wire,        \* [Sides -> units this end wrote that the other has not read]
    buffer,      \* [Sides -> _receive_buffer]
    expects,     \* [Sides -> where its receive() is suspended]
    got          \* history: [Sides -> results of process_received_data]

tvars == <<connected, stream, frames, pending, wire, buffer, expects, got>>

NotReceiving == [at |-> "idle"]
Receiving(e, place) == expects[e].at = place

TInit ==
    /\ connected = [e \in Sides |-> TRUE]
    /\ stream = [e \in Sides |-> [s \in StreamIds |-> "none"]]
    /\ frames = [e \in Sides |-> [s \in StreamIds |-> 0]]
    /\ pending = [e \in Sides |-> << >>]
    /\ wire = [e \in Sides |-> << >>]
    /\ buffer = [e \in Sides |-> << >>]
    /\ expects = [e \in Sides |-> NotReceiving]
    /\ got = [e \in Sides |-> << >>]

-------------------------------------------------------------------------------
(* Streams                                                                    *)

\* open_stream: the ids of an end go up by two; the peer learns of a stream by
\* its first frame.
NextId(e) == CHOOSE s \in StreamIds : /\ s % 2 = FirstId(e) % 2 /\ stream[e][s] = "none"
                                      /\ \A r \in StreamIds : r % 2 = s % 2 /\ r < s => stream[e][r] # "none"
OpenStream(e) ==
    /\ e \in Openers
    /\ \E s \in StreamIds : s % 2 = FirstId(e) % 2 /\ stream[e][s] = "none"
    /\ stream' = [stream EXCEPT ![e][NextId(e)] = "open"]
    /\ UNCHANGED <<connected, frames, pending, wire, buffer, expects, got>>

IsOpenAnyhow(state) == state \in {"open", "half_closed_remote", "half_closed_local"}
IsOpen(state) == state \in {"open", "half_closed_remote"}
IsReadable(state) == state \in {"open", "half_closed_local"}
LocalEnd(state) == IF state = "open" THEN "half_closed_local"
                   ELSE IF state = "half_closed_remote" THEN "closed" ELSE state
RemoteEnd(state) == IF state = "open" THEN "half_closed_remote"
                    ELSE IF state = "half_closed_local" THEN "closed" ELSE state

\* send; close_stream is a send of nothing with the end flag.
SendFrame(e, s, end) ==
    /\ IsOpen(stream[e][s])
    /\ frames[e][s] < MaxFrames
    /\ frames' = [frames EXCEPT ![e][s] = @ + 1]
    /\ pending' = [pending EXCEPT ![e] = Append(@, [id |-> s, number |-> frames[e][s] + 1, end |-> end])]
    /\ stream' = [stream EXCEPT ![e][s] = IF end THEN LocalEnd(@) ELSE @]
    /\ UNCHANGED <<connected, wire, buffer, expects, got>>

\* One frame of process_received_data; the first that does not parse ends it.
IsFrame(unit) == "id" \in DOMAIN unit
Process(seen, frame) ==
    LET state == IF seen.stream[frame.id] = "none" THEN "open" ELSE seen.stream[frame.id]
    IN  IF IsReadable(state)
        THEN [stream |-> [seen.stream EXCEPT ![frame.id] = IF frame.end THEN RemoteEnd(state) ELSE state],
              results |-> Append(seen.results, frame)]
        ELSE seen
ProcessReceivedData(e, data) ==
    LET seen[i \in 0 .. Len(data)] ==
            IF i = 0 THEN [stream |-> stream[e], results |-> got[e]]
            ELSE IF \A j \in 1 .. i : IsFrame(data[j]) THEN Process(seen[i - 1], data[i])
            ELSE seen[i - 1]
    IN  seen[Len(data)]

-------------------------------------------------------------------------------
(* The transport                                                              *)

\* get_pending_data and send.
Send(e) ==
    /\ connected[e]
    /\ Len(pending[e]) \in 1 .. MaxMessage
    /\ wire' = [wire EXCEPT ![e] = @ \o << [length |-> Len(pending[e])] >> \o pending[e]]
    /\ pending' = [pending EXCEPT ![e] = << >>]
    /\ UNCHANGED <<connected, stream, frames, buffer, expects, got>>

Receive(e) ==
    /\ connected[e]
    /\ Receiving(e, "idle")
    /\ expects' = [expects EXCEPT ![e] = [at |-> "read", prefix |-> TRUE, units |-> 1]]
    /\ UNCHANGED <<connected, stream, frames, pending, wire, buffer, got>>

\* _read_exactly: chunks until there is enough; the rest stays in the buffer.
Short(e) == Len(buffer[e]) < expects[e].units
ReadChunk(e, n) ==
    /\ Receiving(e, "read")
    /\ Short(e)
    /\ n \in 1 .. Len(wire[Far(e)])
    /\ buffer' = [buffer EXCEPT ![e] = @ \o SubSeq(wire[Far(e)], 1, n)]
    /\ wire' = [wire EXCEPT ![Far(e)] = SubSeq(@, n + 1, Len(@))]
    /\ UNCHANGED <<connected, stream, frames, pending, expects, got>>

\* _read_length_prefixed. Whatever stands where the prefix is expected is taken
\* for one; a length of 0 is an empty message.
Lengths(unit) == IF "length" \in DOMAIN unit THEN {unit.length} ELSE 0 .. MaxMessage
ReadPrefix(e) ==
    /\ Receiving(e, "read")
    /\ expects[e].prefix
    /\ ~ Short(e)
    /\ \E n \in Lengths(Head(buffer[e])) :
           expects' = [expects EXCEPT ![e] = IF n = 0 THEN NotReceiving
                                             ELSE [at |-> "read", prefix |-> FALSE, units |-> n]]
    /\ buffer' = [buffer EXCEPT ![e] = Tail(@)]
    /\ UNCHANGED <<connected, stream, frames, pending, wire, got>>
Rest(e) == SubSeq(buffer[e], expects[e].units + 1, Len(buffer[e]))
ReadPayload(e) ==
    /\ Receiving(e, "read")
    /\ ~ expects[e].prefix
    /\ ~ Short(e)
    /\ LET seen == ProcessReceivedData(e, SubSeq(buffer[e], 1, expects[e].units))
       IN  /\ stream' = [stream EXCEPT ![e] = seen.stream]
           /\ got' = [got EXCEPT ![e] = seen.results]
    /\ buffer' = [buffer EXCEPT ![e] = Rest(e)]
    /\ expects' = [expects EXCEPT ![e] = NotReceiving]
    /\ UNCHANGED <<connected, frames, pending, wire>>

\* receive(timeout) is cancelled where it waits. The buffer keeps what was read,
\* a length is forgotten; the transport stays connected and can be read again.
TimedOut(e) ==
    /\ Receiving(e, "read")
    /\ Short(e)
    /\ expects[e].prefix \/ MayStall
    /\ expects' = [expects EXCEPT ![e] = NotReceiving]
    /\ UNCHANGED <<connected, stream, frames, pending, wire, buffer, got>>

\* close, which ends a receive, too.
Close(e) ==
    /\ connected[e]
    /\ connected' = [connected EXCEPT ![e] = FALSE]
    /\ buffer' = [buffer EXCEPT ![e] = << >>]
    /\ expects' = [expects EXCEPT ![e] = NotReceiving]
    /\ UNCHANGED <<stream, frames, pending, wire, got>>

\* The peer has closed and all it wrote was read: IncompleteReadError.
ReadEof(e) ==
    /\ Receiving(e, "read")
    /\ Short(e)
    /\ ~ connected[Far(e)]
    /\ wire[Far(e)] = << >>
    /\ connected' = [connected EXCEPT ![e] = FALSE]
    /\ expects' = [expects EXCEPT ![e] = NotReceiving]
    /\ UNCHANGED <<stream, frames, pending, wire, buffer, got>>

TNext == \E e \in Sides :
    \/ OpenStream(e)
    \/ \E s \in StreamIds, end \in BOOLEAN : SendFrame(e, s, end)
    \/ Send(e)
    \/ Receive(e)
    \/ \E n \in 1 .. MaxMessage + 1 : ReadChunk(e, n)
    \/ ReadPrefix(e)
    \/ ReadPayload(e)
    \/ TimedOut(e)
    \/ Close(e)
    \/ ReadEof(e)

-------------------------------------------------------------------------------
TSpec == TInit /\ [][TNext]_tvars

Delivered(e, s) == Cardinality({i \in DOMAIN got[e] : got[e][i].id = s})
OnStreamSoFar(e, i) == Cardinality({j \in 1 .. i : got[e][j].id = got[e][i].id})
Drained(e) == connected[e] /\ pending[Far(e)] = << >> /\ wire[Far(e)] = << >> /\ buffer[e] = << >>
              /\ (Receiving(e, "idle") \/ expects[e].prefix)

\* Across two layers of framing and any cutting of the bytes, a stream delivers
\* its frames in order, without a gap, and all of them once nothing is under
\* way; an end that holds a stream for closed by its peer has all its peer ever
\* sent on it.
StreamsInOrder ==
    \A e \in Sides :
        /\ \A i \in DOMAIN got[e] : got[e][i].number = OnStreamSoFar(e, i)
        /\ \A s \in StreamIds :
               /\ Drained(e) => Delivered(e, s) = frames[Far(e)][s]
               /\ stream[e][s] \in {"half_closed_remote", "closed"} =>
                      /\ stream[Far(e)][s] \in {"half_closed_local", "closed"}
                      /\ Delivered(e, s) = frames[Far(e)][s]

\* tcp.py says of TCPTransport that it provides "length-prefixed framing for
\* message boundaries": what receive takes for a prefix is one.
BoundariesKept ==
    \A e \in Sides :
        Receiving(e, "read") /\ expects[e].prefix /\ ~ Short(e) => "length" \in DOMAIN Head(buffer[e])
===============================================================================
