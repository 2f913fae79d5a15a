------------------------------ MODULE SpeechRpc ------------------------------
(***************************************************************************)
(* The speech protocol over two pipes: the driver inside Lector            *)
(* (src/speech/proc_driver.rs) calls, one request at a time with a         *)
(* deadline, and the server process (src/proc_server_common.rs,            *)
(* src/native_tts_server.rs) answers.  A frame is a line; both ends bound  *)
(* its length and read it in arbitrary chunks.  The server may be the      *)
(* native one, or a configured program that answers late, twice, or with   *)
(* anything else; the native server may also have another client.          *)
(***************************************************************************)
EXTENDS Naturals, Sequences, FiniteSets, SequencesExt

CONSTANTS
    Limit,       \* MAX_RPC_FRAME_BYTES
    FrameSizes,  \* lengths of the lines written, newline included
    MaxCalls     \* bound on the calls made

VARIABLES
    pairing,     \* "driver-native", "driver-foreign" or "client-native"
    toServer,    \* bytes in the server's stdin pipe
    toDriver,    \* bytes in its stdout pipe
    parent,      \* Lector is alive
    child,       \* the server process is alive
    stuck,       \* the server thread is inside foreign speech code
    \* the driver
    stage,       \* "starting" until initialize returned, "ready", "dropped"
    unavailable,
    legacy,      \* legacy_protocol
    nextId,
    call,        \* the request in progress, or NoCall
    unsent,      \* bytes of it still to write
    expired,     \* its deadline has passed
    responseBuf,
    rate,        \* the rate the driver reports
    \* the server
    lineBuf,     \* FrameBuffer.bytes
    discarding,
    initialized,
    serverRate,
    \* history
    accepted,    \* the last response accepted: the call and the frame
    refused,     \* the driver refused a response for its length
    served,      \* lines the server handled: their length and whether they were too large
    lines        \* lengths of the lines whose last byte the server has read

pipes == <<toServer, toDriver>>
processes == <<pairing, parent, child, stuck>>
driver == <<stage, unavailable, legacy, nextId, call, unsent, expired, responseBuf, rate>>
server == <<lineBuf, discarding, initialized, serverRate>>
history == <<accepted, refused, served, lines>>
vars == <<processes, pipes, driver, server, history>>

NoCall == [id |-> 0, method |-> "none"]
Rates == {1, 2}                       \* 1 is the rate a driver starts from
Methods == {"speak", "stop", "set_rate"}

(* A line of n bytes carrying a payload: only its last byte is a newline.  *)
Line(payload, n) == [i \in 1 .. n |-> [payload |-> payload, size |-> n, newline |-> i = n]]
NewlineAt(bytes) == CHOOSE i \in DOMAIN bytes : bytes[i].newline /\ \A j \in 1 .. i - 1 : ~bytes[j].newline
HasLine(bytes) == \E i \in DOMAIN bytes : bytes[i].newline

Init ==
    /\ pairing \in {"driver-native", "driver-foreign", "client-native"}
    /\ toServer = <<>> /\ toDriver = <<>>
    /\ parent = TRUE /\ child = TRUE /\ stuck = FALSE
    /\ stage = "starting"
    /\ unavailable = FALSE /\ legacy = FALSE
    /\ nextId = 1
    /\ call = NoCall /\ unsent = <<>> /\ expired = FALSE
    /\ responseBuf = <<>>
    /\ rate = 1
    /\ lineBuf = <<>> /\ discarding = FALSE
    /\ initialized = FALSE /\ serverRate = 1
    /\ accepted = [call |-> 0, of |-> 0, size |-> 0]
    /\ refused = 0
    /\ served = <<>> /\ lines = <<>>

-----------------------------------------------------------------------------
(* The driver.                                                             *)

Driving == pairing # "client-native" /\ parent /\ stage # "dropped"

(* call_with_timeout and call_inner up to the first write: a request over  *)
(* the limit is refused but has used up its identifier.                    *)
BeginCall(method, value, size) ==
    /\ Driving
    /\ call = NoCall
    /\ ~unavailable
    /\ nextId <= MaxCalls
    /\ method = "initialize" <=> stage = "starting"
    /\ nextId' = nextId + 1
    /\ \/ /\ size > Limit
          /\ stage' = IF method = "initialize" THEN "dropped" ELSE stage
          /\ child' = (child /\ stage' # "dropped")
          /\ UNCHANGED <<call, unsent, expired>>
       \/ /\ size <= Limit
          /\ call' = [id |-> nextId, method |-> method, value |-> value]
          /\ unsent' = Line([id |-> nextId, method |-> method, value |-> value], size)
          /\ expired' = FALSE
          /\ UNCHANGED <<stage, child>>
    /\ UNCHANGED <<pairing, parent, stuck, pipes, unavailable, legacy, responseBuf, rate, server, history>>

(* A transport failure kills and reaps the child and ends the driver's     *)
(* use; during startup the driver itself is dropped.                       *)
Fail(failure) ==
    /\ unavailable' = TRUE
    /\ child' = FALSE
    /\ call' = NoCall
    /\ stage' = IF stage = "starting" THEN "dropped" ELSE stage
    /\ refused' = IF failure.kind = "too-large" THEN failure.size ELSE refused
    /\ UNCHANGED <<pairing, parent, stuck, legacy, nextId, unsent, expired, rate, server, accepted, served, lines>>
FailTransport(failure) == Fail(failure) /\ UNCHANGED <<pipes, responseBuf>>
TooLarge(bytes) == [kind |-> "too-large", size |-> bytes[Len(bytes)].size]
Broken == [kind |-> "broken", size |-> 0]

Calling == Driving /\ call # NoCall

DeadlinePasses ==
    /\ Calling
    /\ ~expired
    /\ expired' = TRUE
    /\ UNCHANGED <<processes, pipes, stage, unavailable, legacy, nextId, call, unsent, responseBuf, rate, server, history>>
TimeOut == Calling /\ expired /\ FailTransport(Broken)

(* write_request.                                                          *)
WriteRequest(n) ==
    /\ Calling /\ ~expired
    /\ n \in 1 .. Len(unsent)
    /\ child
    /\ toServer' = toServer \o SubSeq(unsent, 1, n)
    /\ unsent' = SubSeq(unsent, n + 1, Len(unsent))
    /\ UNCHANGED <<processes, toDriver, stage, unavailable, legacy, nextId, call, expired, responseBuf, rate, server, history>>
WriteToClosedPipe == Calling /\ ~expired /\ unsent # <<>> /\ ~child /\ FailTransport(Broken)

(* The result of a call that got its response (initialize, Driver::speak,  *)
(* stop and set_rate).                                                     *)
Return(frame, rest) ==
    /\ responseBuf' = rest
    /\ \/ /\ call.method = "initialize"
          /\ \/ frame.kind = "capabilities" /\ stage' = "ready" /\ UNCHANGED <<legacy, child>>
             \/ frame.kind = "method-not-found" /\ stage' = "ready" /\ legacy' = TRUE /\ UNCHANGED child
             \/ frame.kind \notin {"capabilities", "method-not-found"} /\ stage' = "dropped" /\ child' = FALSE /\ UNCHANGED legacy
          /\ UNCHANGED <<rate, unavailable>>
       \/ /\ call.method # "initialize"
          /\ \/ frame.kind \in {"method-not-found", "rpc-error"} /\ UNCHANGED <<rate, unavailable, child>>
             \/ call.method # "set_rate" /\ frame.kind = "null" /\ UNCHANGED <<rate, unavailable, child>>
             \/ call.method = "set_rate" /\ frame.kind = "null" /\ legacy /\ rate' = call.value /\ UNCHANGED <<unavailable, child>>
             \/ call.method = "set_rate" /\ frame.kind = "rate" /\ rate' = frame.value /\ UNCHANGED <<unavailable, child>>
             \/ /\ frame.kind \notin {"method-not-found", "rpc-error"}
                /\ ~(frame.kind = "null" /\ (call.method # "set_rate" \/ legacy))
                /\ ~(frame.kind = "rate" /\ call.method = "set_rate")
                /\ unavailable' = TRUE /\ child' = FALSE /\ UNCHANGED rate
          /\ UNCHANGED <<stage, legacy>>

(* parse_response: anything that is not a response to this very call is a  *)
(* transport failure.                                                      *)
AnswersAnything(frame) == frame.kind # "garbage"                               \* mutant
Answers(frame) == frame.kind # "garbage" /\ frame.id = call.id

(* read_response, one turn of its loop.                                    *)
FitsFrame(n) == n <= Limit
TakeFrame ==
    /\ Calling /\ ~expired /\ unsent = <<>>
    /\ HasLine(responseBuf)
    /\ LET n == NewlineAt(responseBuf)
           frame == responseBuf[n].payload
           rest == SubSeq(responseBuf, n + 1, Len(responseBuf))
       IN  \/ /\ ~FitsFrame(n)
              /\ FailTransport(TooLarge(SubSeq(responseBuf, 1, n)))
           \/ /\ FitsFrame(n) /\ ~Answers(frame)
              /\ Fail(Broken) /\ responseBuf' = rest /\ UNCHANGED pipes
           \/ /\ FitsFrame(n) /\ Answers(frame)
              /\ Return(frame, rest)
              /\ call' = NoCall
              /\ accepted' = [call |-> call.id, of |-> frame.of, size |-> n]
              /\ UNCHANGED <<pairing, parent, stuck, pipes, nextId, unsent, expired, server, refused, served, lines>>
ReadChunk(n) ==
    /\ Calling /\ ~expired /\ unsent = <<>>
    /\ ~HasLine(responseBuf)
    /\ n \in 1 .. Len(toDriver)
    /\ LET chunk == SubSeq(toDriver, 1, n)
           frameEnd == IF HasLine(chunk) THEN NewlineAt(chunk) ELSE n
       IN  \/ /\ ~FitsFrame(Len(responseBuf) + frameEnd)
              /\ Fail(TooLarge(SubSeq(chunk, 1, frameEnd)))
              /\ UNCHANGED <<pipes, responseBuf>>
           \/ /\ FitsFrame(Len(responseBuf) + frameEnd)
              /\ responseBuf' = responseBuf \o chunk
              /\ toDriver' = SubSeq(toDriver, n + 1, Len(toDriver))
              /\ UNCHANGED <<processes, toServer, stage, unavailable, legacy, nextId, call, unsent, expired, rate, server, history>>
BufferFull ==
    /\ Calling /\ ~expired /\ unsent = <<>>
    /\ ~HasLine(responseBuf) /\ Len(responseBuf) >= Limit
    /\ FailTransport(TooLarge(responseBuf))
ReadClosed ==
    /\ Calling /\ ~expired /\ unsent = <<>>
    /\ ~HasLine(responseBuf) /\ toDriver = <<>> /\ ~child
    /\ FailTransport(Broken)

-----------------------------------------------------------------------------
(* The server.                                                             *)

Serving == child /\ ~stuck /\ pairing # "driver-foreign"

(* The requests every server understands (handle_protocol_request), and    *)
(* the native server's answer to any request (handle_request).             *)
Result(request, kind, value) == [id |-> request.id, of |-> request.id, kind |-> kind, value |-> value]
ProtocolMethods == {"initialize", "rpc.discover"}
ProtocolAnswer(request) == Result(request, IF request.method = "initialize" THEN "capabilities" ELSE "document", 0)
Refuses(request) == (request.method = "initialize") = initialized
Answer(request) ==
    CASE request.method = "rpc.discover" -> ProtocolAnswer(request)
      [] request.method # "rpc.discover" /\ Refuses(request) -> Result(request, "rpc-error", 0)
      [] request.method = "initialize" /\ ~Refuses(request) -> ProtocolAnswer(request)
      [] request.method = "set_rate" /\ ~Refuses(request) -> Result(request, "rate", request.value)
      [] request.method \in {"speak", "stop"} /\ ~Refuses(request) -> Result(request, "null", 0)
Reply(frame, size) == toDriver' = toDriver \o Line(frame, size)
ReplyUnlessTooLarge(frame, size) ==
    \/ size <= Limit /\ Reply(frame, size) /\ UNCHANGED child
    \/ size > Limit /\ child' = FALSE /\ UNCHANGED toDriver      \* run_server returns the error

HandleLine(request, size) ==
    /\ served' = Append(served, [size |-> Len(lineBuf) + size, tooLarge |-> FALSE])
    /\ initialized' = (initialized \/ request.method = "initialize")
    /\ serverRate' = IF initialized /\ request.method = "set_rate" THEN request.value ELSE serverRate
    /\ \/ request.id = 0 /\ UNCHANGED <<toDriver, child>>
       \/ request.id # 0 /\ \E n \in FrameSizes : ReplyUnlessTooLarge(Answer(request), n)
HandleTooLarge ==
    /\ served' = Append(served, [size |-> 0, tooLarge |-> TRUE])
    /\ Reply([id |-> 0, of |-> 0, kind |-> "rpc-error", value |-> 0], 1)
    /\ UNCHANGED <<child, initialized, serverRate>>

(* FrameBuffer::push, one segment of the input: up to a newline or to the  *)
(* end of what was read.                                                   *)
Segment(n) == n \in 1 .. Len(toServer) /\ \A i \in 1 .. n - 1 : ~toServer[i].newline
Overflows(n) == Len(lineBuf) + n > Limit
ServerReads(n) ==
    /\ Serving
    /\ Segment(n)
    /\ LET ends == toServer[n].newline IN
       /\ toServer' = SubSeq(toServer, n + 1, Len(toServer))
       /\ lines' = IF ends THEN Append(lines, toServer[n].size) ELSE lines
       /\ \/ /\ discarding /\ ends
             /\ discarding' = FALSE
             /\ HandleTooLarge
             /\ UNCHANGED lineBuf
          \/ /\ ~discarding /\ Overflows(n) /\ ends
             /\ lineBuf' = <<>>
             /\ HandleTooLarge
             /\ UNCHANGED discarding
          \/ /\ ~discarding /\ Overflows(n) /\ ~ends
             /\ lineBuf' = <<>>
             /\ discarding' = TRUE
             /\ UNCHANGED <<served, toDriver, child, initialized, serverRate>>
          \/ /\ discarding /\ ~ends
             /\ UNCHANGED <<lineBuf, discarding, served, toDriver, child, initialized, serverRate>>
          \/ /\ ~discarding /\ ~Overflows(n) /\ ~ends
             /\ lineBuf' = lineBuf \o SubSeq(toServer, 1, n)
             /\ UNCHANGED <<discarding, served, toDriver, child, initialized, serverRate>>
          \/ /\ ~discarding /\ ~Overflows(n) /\ ends
             /\ lineBuf' = <<>>
             /\ HandleLine(toServer[n].payload, n)
             /\ UNCHANGED discarding
    /\ UNCHANGED <<pairing, parent, stuck, driver, accepted, refused>>

(* The native server may never come back from foreign speech code.         *)
GetStuck ==
    /\ Serving /\ initialized
    /\ stuck' = TRUE
    /\ UNCHANGED <<pairing, parent, child, pipes, driver, server, history>>

(* End of file on stdin ends the server loop; the watchdog thread sees     *)
(* the parent change whatever the server thread does.                      *)
Exit == child' = FALSE /\ UNCHANGED <<pairing, parent, stuck, pipes, driver, server, history>>
ReadEof == Serving /\ ~parent /\ toServer = <<>> /\ Exit
Watchdog == pairing # "driver-foreign" /\ child /\ ~parent /\ Exit

-----------------------------------------------------------------------------
(* The environment.                                                        *)

(* A configured program answers requests it has read in full: in its own   *)
(* time, more than once, with a result, an error or something unparseable. *)
ForeignReads ==
    /\ pairing = "driver-foreign" /\ child
    /\ HasLine(toServer)
    /\ lineBuf' = Append(lineBuf, toServer[NewlineAt(toServer)].payload)
    /\ toServer' = SubSeq(toServer, NewlineAt(toServer) + 1, Len(toServer))
    /\ UNCHANGED <<processes, toDriver, driver, discarding, initialized, serverRate, history>>
ForeignAnswers(i, kind, size) ==
    /\ pairing = "driver-foreign" /\ child
    /\ i \in DOMAIN lineBuf
    /\ toDriver = <<>>
    /\ Reply([id |-> lineBuf[i].id, of |-> lineBuf[i].id, kind |-> kind, value |-> 2], size)
    /\ UNCHANGED <<processes, toServer, driver, server, history>>
ServerCrashes == child /\ parent /\ Exit

(* Another client of the native server: lines of any length, back to back. *)
ClientWrites(method, size) ==
    /\ pairing = "client-native" /\ parent
    /\ nextId <= MaxCalls
    /\ nextId' = nextId + 1
    /\ toServer' = toServer \o Line([id |-> nextId - 1, method |-> method, value |-> 2], size)
    /\ UNCHANGED <<processes, toDriver, stage, unavailable, legacy, call, unsent, expired, responseBuf, rate, server, history>>

ParentDies ==
    /\ parent
    /\ parent' = FALSE
    /\ UNCHANGED <<pairing, child, stuck, pipes, driver, server, history>>

ForeignKinds == {"capabilities", "method-not-found", "null", "rate", "rpc-error", "garbage"}
Next ==
    \/ \E size \in FrameSizes :
        \/ BeginCall("initialize", 0, size)
        \/ \E m \in Methods, v \in Rates : BeginCall(m, v, size)
        \/ \E m \in Methods \cup ProtocolMethods : ClientWrites(m, size)
        \/ \E i \in 1 .. MaxCalls, kind \in ForeignKinds : ForeignAnswers(i, kind, size)
    \/ \E n \in 1 .. Limit + 1 : WriteRequest(n) \/ ReadChunk(n) \/ ServerReads(n)
    \/ DeadlinePasses \/ TimeOut \/ WriteToClosedPipe \/ TakeFrame \/ BufferFull \/ ReadClosed
    \/ ReadEof \/ Watchdog \/ GetStuck \/ ForeignReads \/ ServerCrashes \/ ParentDies

Spec == Init /\ [][Next]_vars /\ WF_vars(Watchdog)

-----------------------------------------------------------------------------
(* A response is accepted only for the call that the server was answering, *)
(* however late or often it answers; a line is refused for its length      *)
(* exactly when it is longer than the limit, in whatever pieces it is      *)
(* read, at either end; and the server answers every line in order, so a   *)
(* line too long costs one answer and never the next one                   *)
(* (read_response, parse_response, FrameBuffer::push).                     *)
RpcExact ==
    /\ accepted.of = accepted.call
    /\ accepted.size <= Limit
    /\ refused # 0 => refused > Limit
    /\ Len(served) = Len(lines)
    /\ \A i \in DOMAIN served :
           IF served[i].tooLarge THEN lines[i] > Limit ELSE served[i].size = lines[i] /\ lines[i] <= Limit

Followed == parent \/ pairing = "driver-foreign" \/ ~child

(* A native server does not outlive an abruptly terminated Lector, even    *)
(* while its thread is stuck in foreign speech code                        *)
(* (start_parent_watchdog).                                                *)
ServerFollowsParent == []<>Followed
=============================================================================
