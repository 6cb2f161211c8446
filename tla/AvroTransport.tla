---------------------------- MODULE AvroTransport ----------------------------
(***************************************************************************)
(* The calls of AvroIPC over HTTP: a Requestor on the HTTPTransceiver of   *)
(* ipc.py, a TwistedRequestor on that of txipc.py, a server that reads and *)
(* writes framed messages.  AvroIPC is what it implements.                 *)
(***************************************************************************)
EXTENDS AvroIPC, AvroFraming

CONSTANTS RequestSize,   \* [Messages -> the bytes of a call request]
          AnswerSize,    \* the bytes of a response
          ProtocolSize   \* the bytes of a protocol in either

ASSUME SizeAssumption ==
    RequestSize \in [Messages -> Nat] /\ AnswerSize \in Nat /\ ProtocolSize \in Nat

Bytes(record, n) == [i \in 1 .. n |-> <<"byte", record, i>>]
\* Mutant: a message has no room for the client's protocol.
RequestBytes_NoProtocol(q) ==
    Bytes([q EXCEPT !.clientProtocol = FALSE], RequestSize[q.name])

RequestBytes(q) == Bytes(q, RequestSize[q.name] + IF q.clientProtocol THEN ProtocolSize ELSE 0)
AnswerBytes(a) == Bytes(a, AnswerSize + IF a.match = "BOTH" THEN 0 ELSE ProtocolSize)
Decode(got, Encode(_)) ==
    IF got \in {Closed, <<<<>>>>} THEN None
    ELSE IF got[1] = Encode(got[1][1][2]) THEN got[1][1][2] ELSE None

(* The body of the POST.  The Agent of Twisted fails a request whose body is *)
(* not as long as its producer declared, and sends no more than that length. *)
Body(c) ==
    LET bytes == RequestBytes(request[c]) IN
    IF c[1] \in Blocking THEN WriteFramedMessage(bytes)
    ELSE SubSeq(Produced(bytes), 1, ProducerLength(bytes))
Fits(c) ==
    LET bytes == RequestBytes(request[c]) IN
    c[1] \in Blocking \/ ProducedLength(bytes) = ProducerLength(bytes)

(* do_POST and render_POST: the server reads the message and responds.       *)
Received(c) == Decode(ReadFramedMessage(Body(c)), RequestBytes)

Serve(c) ==
    /\ stage[c] = "sent" /\ Received(c) # None
    /\ Respond(c, Received(c))

(* The transceiver hands the message in the answer to its requestor.         *)
Deliver(c) ==
    /\ stage[c] = "answered" /\ Fits(c)
    /\ LET body == WriteFramedMessage(AnswerBytes(response[c]))
           got == DataReceived(NewProtocol, body)
           a == Decode(IF c[1] \in Blocking THEN ReadFramedMessage(body)
                       ELSE IF got.fired = <<>> THEN Closed ELSE got.fired[1], AnswerBytes)
       IN a # None /\ Receive(c, a)

(* A producer that is paused before its last buffer stays so: resumeProducing*)
(* raises a TypeError.                                                       *)
Stall(c) ==
    /\ stage[c] = "sent" /\ c[1] \notin Blocking
    /\ ProducerWrites(RequestBytes(request[c])) > 1
    /\ Hang(c)

\* The connection is refused, or the Agent fails the request.
Refuse(c) == stage[c] \in {"sent", "answered"} /\ (~up \/ ~Fits(c)) /\ Fail(c)

TransportNext ==
    \/ \E c \in Calls, m \in Messages : Request(c, m)
    \/ \E c \in Calls : Serve(c) \/ Deliver(c) \/ Stall(c) \/ Fail(c)
    \/ \E p \in Protocols : Restart(p)

(* The server of tool.py serves one connection after the other and waits for *)
(* what comes on it, without a timeout.  An HTTPTransceiver connects when it *)
(* is constructed: until a requestor sends over it, its connection is Idle,  *)
(* and so is that of a stalled producer.                                     *)
Idle(r) ==
    /\ r \in Blocking /\ remote_name[r] # None
    /\ \A c \in Calls : c[1] \in Blocking /\ remote_name[c[1]] = remote_name[r] => sends[c] = 0
Held == tool # None /\ ((\E r \in Requestors : Idle(r)) \/ (\E c \in Calls : stage[c] = "dropped"))

(* The server takes what arrives unless a connection holds it, the client    *)
(* what is answered, and a closed port refuses.  As FramingIntact says, Serve*)
(* and Deliver are the steps of AvroIPC: fairness names those.               *)
Progress(c) ==
    \/ ~Held /\ Respond(c, request[c])
    \/ stage[c] = "answered" /\ Fits(c) /\ Receive(c, response[c])
    \/ Refuse(c)

TransportSpec == Init /\ [][TransportNext]_vars /\ \A c \in Calls : WF_vars(Progress(c))

-----------------------------------------------------------------------------
(* Framed calls are calls: no step over HTTP is other than one of AvroIPC.   *)
ImplementsIPC == Spec

(* A request that was sent reaches the server whole, and its answer the      *)
(* Deferred of the client, once, however the bytes arrive; if the connection *)
(* is lost before the last of them, the Deferred fails, once.                *)
FramingIntact ==
    \A c \in Calls :
        /\ stage[c] = "sent" => ReadFramedMessage(Body(c)) = <<RequestBytes(request[c])>>
        /\ stage[c] = "answered" =>
              LET bytes == AnswerBytes(response[c])
                  body == WriteFramedMessage(bytes)
              IN \A n \in 1 .. Len(body) : \A i \in 0 .. n - 1 :
                    LET st == DataReceived(DataReceived(NewProtocol, SubSeq(body, 1, i)),
                                           SubSeq(body, i + 1, n))
                    IN ConnectionLost(st).fired = <<IF n = Len(body) THEN <<bytes>> ELSE Closed>>

(* Every call ends, with a value or with an exception, but one whose server  *)
(* could not encode its error or whose producer was paused: whatever its     *)
(* handshakes, restarts and other calls do, as long as no connection holds   *)
(* the server of tool.py for ever.                                           *)
CallsEnd ==
    <>[]~Held => \A c \in Calls : stage[c] = "sent" ~> stage[c] \in {"done", "dropped"}
=============================================================================
