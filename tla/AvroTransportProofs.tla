------------------------ MODULE AvroTransportProofs ------------------------
(***************************************************************************)
(* The theorems about AvroIPC and AvroTransport, for any number of         *)
(* requestors, calls, restarts, protocols and messages, any sizes of what  *)
(* is sent, of a buffer and of the header before it.                       *)
(***************************************************************************)
EXTENDS AvroTransport, FiniteSetTheorems, SequenceTheorems, NaturalsInduction,
        WellFoundedInduction, TLAPS

(* What holds of every call, by the handshake alone. *)
CallInv(c) ==
    /\ invoked[c] <= 1 /\ sends[c] <= 2
    /\ stage[c] # "done" => result[c] = None
    /\ stage[c] \in {"idle", "sent"} => invoked[c] = 0
    /\ result[c] = "value" => invoked[c] = 1
    /\ stage[c] \in {"sent", "answered"} =>
          request[c] \in CallRequests /\ (sends[c] = 2 => request[c].clientProtocol)
    /\ stage[c] = "answered" =>
          /\ response[c] \in Answers
          /\ response[c].flag # None => invoked[c] = 1
          /\ response[c].match = "NONE" => invoked[c] = 0 /\ ~request[c].clientProtocol
          /\ response[c].match = "BOTH" => request[c].serverHash = response[c].server
          /\ response[c].match = "CLIENT" => request[c].serverHash # response[c].server
          /\ response[c].flag = FALSE /\ response[c].type # None =>
                response[c].type = Signature[response[c].server][request[c].name].response
          /\ restarts = 0 => response[c].server = server

LEMMA NoneIsNoResult == None \notin Results
  BY IPCAssumption

CallsInv == \A c \in Calls : CallInv(c)

LEMMA CallParts ==
    ASSUME NEW c \in Calls
    PROVE /\ c = <<c[1], c[2]>> /\ c[1] \in Requestors /\ c[2] \in 1 .. MaxCalls[c[1]]
          /\ c[2] \in Int
  <1>1. PICK r \in Requestors : c \in {r} \X (1 .. MaxCalls[r])
    BY DEF Calls
  <1>. QED
    BY <1>1

LEMMA IsCall ==
    ASSUME NEW r \in Requestors, NEW n \in 1 .. MaxCalls[r]
    PROVE <<r, n>> \in Calls
  BY DEF Calls

LEMMA NamesOfRequestors ==
    ASSUME TypeOK, NEW r \in Requestors
    PROVE remote_name[r] \in Names
  <1>1. remote_name \in Namings
    BY DEF TypeOK
  <1>. QED
    BY <1>1 DEF Names

-----------------------------------------------------------------------------
(* Each action, what it changes being typed. *)
LEMMA RequestType ==
    ASSUME NEW r \in Requestors, NEW m \in Messages, NEW hash \in Protocols \cup {None},
           NEW send \in BOOLEAN
    PROVE CallRequest(r, m, hash, send) \in CallRequests
  BY IPCAssumption DEF CallRequest, CallRequests

LEMMA AnswerType ==
    ASSUME TypeOK, NEW q \in CallRequests, NEW flag \in BOOLEAN \cup {None},
           NEW type \in Types \cup {"error", None}
    PROVE Answer(q, flag, type) \in Answers
  BY DEF Answer, Answers, Handshake, TypeOK

LEMMA ReadCallType ==
    ASSUME NEW r, NEW m, NEW theirs, NEW a
    PROVE ReadCall(r, m, theirs, a) \in {"value", "misread", "error", "raised"}
  BY DEF ReadCall, ReadResponse

LEMMA DeclaredResponse ==
    ASSUME TypeOK, NEW q \in CallRequests, Performs(q)
    PROVE Signature[server][q.name].response \in Types
  <1>1. /\ server \in Protocols /\ q.name \in Messages
        /\ Signature[server][q.name] # None
    BY DEF TypeOK, Performs, CallRequests
  <1>2. Signature[server] \in [Messages -> Declaration \cup {None}]
    BY <1>1, IPCAssumption
  <1>3. Signature[server][q.name] \in Declaration
    BY <1>1, <1>2
  <1>. QED
    BY <1>3 DEF Declaration

LEMMA RespondsCases ==
    ASSUME TypeOK, NEW c \in Calls, NEW q \in CallRequests, NEW outcome, Responds(c, q, outcome),
           outcome \in {"valid", "invalid", "raises"}
    PROVE \/ /\ stage' = [stage EXCEPT ![c] = "dropped"]
             /\ response' = response /\ Performs(q)
          \/ \E flag \in BOOLEAN \cup {None}, type \in Types \cup {"error", None} :
                /\ Reply(c, q, flag, type)
                /\ flag # None => Performs(q)
                /\ flag = FALSE /\ type # None => type = Signature[server][q.name].response
  <1>. DEFINE declared == Signature[server][q.name]
  <1>1. CASE ~Performs(q)
    <2>1. Reply(c, q, None, None)
      BY <1>1 DEF Responds
    <2>. QED
      BY <2>1
  <1>2. CASE Performs(q) /\ outcome = "valid"
    <2>1. Reply(c, q, FALSE, declared.response)
      BY <1>2 DEF Responds
    <2>. QED
      BY <2>1, <1>2, DeclaredResponse
  <1>3. CASE Performs(q) /\ outcome = "invalid"
    <2>1. Reply(c, q, FALSE, None)
      BY <1>3 DEF Responds
    <2>. QED
      BY <2>1, <1>3
  <1>4. CASE Performs(q) /\ outcome = "raises" /\ declared.errors
    <2>1. Reply(c, q, TRUE, "error")
      BY <1>4 DEF Responds
    <2>. QED
      BY <2>1, <1>4
  <1>5. CASE Performs(q) /\ outcome = "raises" /\ ~declared.errors
    BY <1>5 DEF Responds
  <1>. QED
    BY <1>1, <1>2, <1>3, <1>4, <1>5

-----------------------------------------------------------------------------
Inv == TypeOK /\ CallsInv

\* What a step that leaves the call d alone leaves true of it.
Same(d) ==
    /\ stage'[d] = stage[d] /\ request'[d] = request[d] /\ response'[d] = response[d]
    /\ result'[d] = result[d] /\ sends'[d] = sends[d] /\ invoked'[d] = invoked[d]
    /\ (server' = server /\ restarts' = restarts) \/ restarts' # 0

LEMMA OthersKeepInv ==
    ASSUME NEW d, CallInv(d), Same(d)
    PROVE CallInv(d)'
  BY DEF CallInv, Same

LEMMA FinishKeeps ==
    ASSUME TypeOK, NEW c \in Calls,
           NEW outcome \in Results,
           Finish(c, outcome)
    PROVE /\ stage' \in [Calls -> {"idle", "sent", "answered", "dropped", "done"}]
          /\ request' \in [Calls -> CallRequests \cup {None}]
          /\ response' \in [Calls -> Answers \cup {None}]
          /\ result' \in [Calls -> Results \cup {None}]
          /\ stage'[c] = "done" /\ result'[c] = outcome
          /\ \A d \in Calls \ {c} :
                /\ stage'[d] = stage[d] /\ request'[d] = request[d]
                /\ response'[d] = response[d] /\ result'[d] = result[d]
  BY DEF TypeOK, Finish

LEMMA RequestKeepsInv ==
    ASSUME Inv, NEW c \in Calls, NEW m \in Messages, Request(c, m)
    PROVE Inv'
  <1>. DEFINE r == c[1]  hash == REMOTE_HASHES[remote_name[r]]
              known == Signature[local_protocol[r]][m] # None
  <1>1. TypeOK /\ CallsInv /\ r \in Requestors
    BY CallParts DEF Inv
  <1>2. hash \in Protocols \cup {None} /\ local_protocol[r] \in Protocols
        /\ send_protocol[r] \in BOOLEAN
    BY <1>1, NamesOfRequestors, IPCAssumption DEF TypeOK
  <1>3. CallRequest(r, m, hash, send_protocol[r]) \in CallRequests
    BY <1>2, RequestType, <1>1
  <1>4. /\ stage[c] = "idle" /\ invoked' = invoked
        /\ remote_protocol' = [remote_protocol EXCEPT ![r] =
               IF hash = None THEN local_protocol[r] ELSE @]
        /\ UNCHANGED <<REMOTE_HASHES, remote_name, send_protocol, invoked, host>>
    BY DEF Request
  <1>5. remote_protocol' \in [Requestors -> Protocols \cup {None}]
    BY <1>1, <1>2, <1>4 DEF TypeOK
  <1>6. CASE known
    <2>1. /\ stage' = [stage EXCEPT ![c] = "sent"]
          /\ request' = [request EXCEPT ![c] = CallRequest(r, m, hash, send_protocol[r])]
          /\ sends' = [sends EXCEPT ![c] = 1] /\ UNCHANGED <<response, result>>
      BY <1>6 DEF Request
    <2>2. TypeOK'
      BY <1>1, <1>3, <1>4, <1>5, <2>1 DEF TypeOK, host
    <2>3. CallInv(c)'
      <3>1. stage'[c] = "sent" /\ request'[c] \in CallRequests /\ sends'[c] = 1
            /\ invoked'[c] = 0 /\ result'[c] = None
        BY <1>1, <1>3, <1>4, <2>1 DEF TypeOK, CallsInv, CallInv
      <3>2. stage'[c] # "answered" /\ stage'[c] # "done"
        BY <3>1
      <3>3. sends'[c] # 2 /\ sends'[c] <= 2 /\ invoked'[c] <= 1
        BY <3>1
      <3>4. result'[c] # "value"
        BY <3>1, NoneIsNoResult DEF Results
      <3>. QED
        BY <3>1, <3>2, <3>3, <3>4 DEF CallInv
    <2>4. ASSUME NEW d \in Calls \ {c} PROVE CallInv(d)'
      <3>1. Same(d)
        BY <1>1, <1>4, <2>1 DEF Same, TypeOK, host
      <3>. QED
        BY <1>1, <3>1, OthersKeepInv DEF CallsInv
    <2>. QED
      BY <2>2, <2>3, <2>4 DEF Inv, CallsInv
  <1>7. CASE ~known
    <2>1. Finish(c, "raised") /\ sends' = sends
      BY <1>7 DEF Request
    <2>2. TypeOK'
      BY <1>1, <1>4, <1>5, <2>1, FinishKeeps DEF TypeOK, host, Results
    <2>3. CallInv(c)'
      BY <1>1, <1>4, <2>1, FinishKeeps DEF Results, TypeOK, CallsInv, CallInv
    <2>4. ASSUME NEW d \in Calls \ {c} PROVE CallInv(d)'
      <3>1. Same(d)
        BY <1>1, <1>4, <2>1, FinishKeeps DEF Same, host, Results
      <3>. QED
        BY <1>1, <3>1, OthersKeepInv DEF CallsInv
    <2>. QED
      BY <2>2, <2>3, <2>4 DEF Inv, CallsInv
  <1>. QED
    BY <1>6, <1>7

LEMMA RespondKeepsInv ==
    ASSUME Inv, NEW c \in Calls, Respond(c, request[c])
    PROVE Inv'
  <1>. DEFINE q == request[c]
  <1>1. TypeOK /\ CallsInv /\ CallInv(c)
    BY DEF Inv, CallsInv
  <1>2. /\ stage[c] = "sent" /\ q \in CallRequests /\ invoked[c] = 0
        /\ sends[c] = 2 => q.clientProtocol
    BY <1>1 DEF Respond, CallInv
  <1>3. /\ protocol_cache' = Cached(q)
        /\ invoked' = [invoked EXCEPT ![c] = IF Performs(q) THEN @ + 1 ELSE @]
        /\ up' = ~ForceStop(q)
        /\ UNCHANGED <<client, request, result, sends, server, tool, restarts>>
    BY DEF Respond
  <1>4. PICK outcome \in {"valid", "invalid", "raises"} : Responds(c, q, outcome)
    BY DEF Respond
  <1>5. /\ protocol_cache' \subseteq Protocols /\ up' \in BOOLEAN
        /\ invoked' \in [Calls -> Nat]
        /\ invoked'[c] = IF Performs(q) THEN 1 ELSE 0
        /\ \A d \in Calls \ {c} : invoked'[d] = invoked[d]
    <2>1. q.clientHash \in Protocols
      BY <1>2 DEF CallRequests
    <2>. QED
      BY <1>1, <1>2, <1>3, <2>1 DEF TypeOK, Cached
  <1>6. /\ result[c] = None /\ result'[c] # "value"
        /\ sends'[c] = sends[c] /\ sends[c] <= 2
    BY <1>1, <1>2, <1>3, NoneIsNoResult DEF CallInv, Results
  <1>7. CASE stage' = [stage EXCEPT ![c] = "dropped"] /\ response' = response /\ Performs(q)
    <2>1. TypeOK'
      BY <1>1, <1>3, <1>5, <1>7 DEF TypeOK, client
    <2>2. CallInv(c)'
      <3>1. stage'[c] = "dropped" /\ invoked'[c] <= 1 /\ result'[c] = None
        BY <1>1, <1>3, <1>5, <1>6, <1>7 DEF TypeOK
      <3>. QED
        BY <3>1, <1>6 DEF CallInv
    <2>3. ASSUME NEW d \in Calls \ {c} PROVE CallInv(d)'
      <3>1. Same(d)
        BY <1>1, <1>3, <1>5, <1>7 DEF Same, TypeOK
      <3>. QED
        BY <1>1, <3>1, OthersKeepInv DEF CallsInv
    <2>. QED
      BY <2>1, <2>2, <2>3 DEF Inv, CallsInv
  <1>8. ASSUME NEW flag \in BOOLEAN \cup {None}, NEW type \in Types \cup {"error", None},
               Reply(c, q, flag, type), flag # None => Performs(q),
               flag = FALSE /\ type # None => type = Signature[server][q.name].response
        PROVE Inv'
    <2>1. Answer(q, flag, type) \in Answers
      BY <1>1, <1>2, AnswerType
    <2>2. /\ stage' = [stage EXCEPT ![c] = "answered"]
          /\ response' = [response EXCEPT ![c] = Answer(q, flag, type)]
      BY <1>8 DEF Reply
    <2>3. TypeOK'
      BY <1>1, <1>3, <1>5, <2>1, <2>2 DEF TypeOK, client
    <2>4. CallInv(c)'
      <3>1. /\ stage'[c] = "answered" /\ response'[c] = Answer(q, flag, type)
            /\ request'[c] = q /\ result'[c] = None /\ server' = server
        BY <1>1, <1>3, <1>6, <2>2 DEF TypeOK
      <3>2. /\ response'[c].flag = flag /\ response'[c].type = type
            /\ response'[c].match = Handshake(q) /\ response'[c].server = server
        BY <3>1 DEF Answer
      <3>3. Handshake(q) = "NONE" => ~Performs(q) /\ ~q.clientProtocol
        BY DEF Handshake, Performs
      <3>4. /\ Handshake(q) = "BOTH" => q.serverHash = server
            /\ Handshake(q) = "CLIENT" => q.serverHash # server
        BY DEF Handshake
      <3>5. invoked'[c] <= 1 /\ (Performs(q) => invoked'[c] = 1) /\ (~Performs(q) => invoked'[c] = 0)
        BY <1>5
      <3>6. /\ response'[c].flag # None => invoked'[c] = 1
            /\ response'[c].match = "NONE" => invoked'[c] = 0 /\ ~request'[c].clientProtocol
            /\ response'[c].match = "BOTH" => request'[c].serverHash = response'[c].server
            /\ response'[c].match = "CLIENT" => request'[c].serverHash # response'[c].server
            /\ response'[c].flag = FALSE /\ response'[c].type # None =>
                  response'[c].type = Signature[response'[c].server][request'[c].name].response
            /\ restarts' = 0 => response'[c].server = server'
        BY <3>1, <3>2, <3>3, <3>4, <3>5, <1>8
      <3>. QED
        BY <3>1, <3>5, <3>6, <2>1, <1>2, <1>6 DEF CallInv
    <2>5. ASSUME NEW d \in Calls \ {c} PROVE CallInv(d)'
      <3>1. Same(d)
        BY <1>1, <1>3, <1>5, <2>2 DEF Same, TypeOK
      <3>. QED
        BY <1>1, <3>1, OthersKeepInv DEF CallsInv
    <2>. QED
      BY <2>3, <2>4, <2>5 DEF Inv, CallsInv
  <1>. QED
    BY <1>1, <1>2, <1>4, <1>7, <1>8, RespondsCases

\* A call that ends, with whatever the requestor has learnt.
LEMMA EndKeepsInv ==
    ASSUME Inv, NEW c \in Calls, NEW outcome \in Results, Finish(c, outcome),
           outcome = "value" => invoked[c] = 1,
           REMOTE_HASHES' \in [Names -> Protocols \cup {None}],
           remote_protocol' \in [Requestors -> Protocols \cup {None}],
           send_protocol' \in [Requestors -> BOOLEAN],
           UNCHANGED <<remote_name, sends, invoked, host>>
    PROVE Inv'
  <1>1. TypeOK /\ CallsInv /\ CallInv(c)
    BY DEF Inv, CallsInv
  <1>2. TypeOK'
    BY <1>1, FinishKeeps DEF TypeOK, host
  <1>3. CallInv(c)'
    <2>1. /\ stage'[c] = "done" /\ result'[c] = outcome
          /\ invoked'[c] = invoked[c] /\ sends'[c] = sends[c]
      BY <1>1, FinishKeeps
    <2>. QED
      BY <2>1, <1>1 DEF CallInv
  <1>4. ASSUME NEW d \in Calls \ {c} PROVE CallInv(d)'
    <2>1. Same(d)
      BY <1>1, FinishKeeps DEF Same, host
    <2>. QED
      BY <1>1, <2>1, OthersKeepInv DEF CallsInv
  <1>. QED
    BY <1>2, <1>3, <1>4 DEF Inv, CallsInv

LEMMA LearnType ==
    ASSUME TypeOK, NEW r \in Requestors, NEW p \in Protocols, Learn(r, p)
    PROVE /\ REMOTE_HASHES' \in [Names -> Protocols \cup {None}]
          /\ remote_protocol' \in [Requestors -> Protocols \cup {None}]
  BY DEF TypeOK, Learn

\* A value is read from an answer that has a flag.
LEMMA ValueHasFlag ==
    ASSUME NEW r, NEW m, NEW theirs, NEW a, ReadCall(r, m, theirs, a) = "value"
    PROVE a.flag # None
  BY DEF ReadCall

LEMMA ReceiveKeepsInv ==
    ASSUME Inv, NEW c \in Calls, Receive(c, response[c])
    PROVE Inv'
  <1>. DEFINE a == response[c]  r == c[1]
  <1>1. TypeOK /\ CallsInv /\ CallInv(c) /\ r \in Requestors
    BY CallParts DEF Inv, CallsInv
  <1>2. /\ stage[c] = "answered" /\ a \in Answers /\ request[c] \in CallRequests
        /\ a.flag # None => invoked[c] = 1
        /\ a.match = "NONE" => invoked[c] = 0 /\ ~request[c].clientProtocol
        /\ UNCHANGED <<remote_name, invoked, host>>
    <2>1. stage[c] = "answered" /\ UNCHANGED <<remote_name, invoked, host>>
      BY DEF Receive
    <2>. QED
      BY <1>1, <2>1 DEF CallInv
  <1>3. a.server \in Protocols /\ \A theirs : ReadCall(r, request[c].name, theirs, a) \in Results
    <2>1. a.server \in Protocols
      BY <1>2 DEF Answers
    <2>. QED
      BY <2>1, ReadCallType DEF Results
  <1>4. \A theirs : ReadCall(r, request[c].name, theirs, a) = "value" => invoked[c] = 1
    BY <1>2, ValueHasFlag
  <1>5. CASE Matched(c, a)
    <2>1. /\ Finish(c, ReadCall(r, request[c].name, remote_protocol[r], a))
          /\ send_protocol' = [send_protocol EXCEPT ![r] = FALSE]
          /\ UNCHANGED <<REMOTE_HASHES, remote_protocol, sends>>
      BY <1>5 DEF Matched
    <2>2. send_protocol' \in [Requestors -> BOOLEAN]
      BY <1>1, <2>1 DEF TypeOK
    <2>3. REMOTE_HASHES' \in [Names -> Protocols \cup {None}]
          /\ remote_protocol' \in [Requestors -> Protocols \cup {None}]
      BY <1>1, <2>1 DEF TypeOK
    <2>. QED
      BY <1>2, <1>3, <1>4, <2>1, <2>2, <2>3, EndKeepsInv
  <1>6. CASE ServerDiffers(c, a)
    <2>1. /\ Finish(c, ReadCall(r, request[c].name, a.server, a))
          /\ Learn(r, a.server) /\ UNCHANGED <<send_protocol, sends>>
      BY <1>6 DEF ServerDiffers
    <2>2. send_protocol' \in [Requestors -> BOOLEAN]
      BY <1>1, <2>1 DEF TypeOK
    <2>. QED
      BY <1>1, <1>2, <1>3, <1>4, <2>1, <2>2, LearnType, EndKeepsInv
  <1>7. CASE HandshakeFailure(c, a)
    <2>1. /\ Finish(c, "handshake failure")
          /\ UNCHANGED <<REMOTE_HASHES, remote_protocol, send_protocol, sends>>
      BY <1>7 DEF HandshakeFailure
    <2>2. /\ REMOTE_HASHES' \in [Names -> Protocols \cup {None}]
          /\ remote_protocol' \in [Requestors -> Protocols \cup {None}]
          /\ send_protocol' \in [Requestors -> BOOLEAN]
      BY <1>1, <2>1 DEF TypeOK
    <2>3. "handshake failure" \in Results
      BY DEF Results
    <2>. QED
      BY <1>2, <2>1, <2>2, <2>3, EndKeepsInv
  <1>8. CASE ClientUnknown(c, a)
    <2>1. /\ a.match = "NONE" /\ Learn(r, a.server)
          /\ send_protocol' = [send_protocol EXCEPT ![r] = TRUE]
          /\ stage' = [stage EXCEPT ![c] = "sent"]
          /\ request' = [request EXCEPT ![c] = CallRequest(r, request[c].name, a.server, TRUE)]
          /\ sends' = [sends EXCEPT ![c] = sends[c] + 1]
          /\ response' = [response EXCEPT ![c] = None] /\ UNCHANGED result
      BY <1>8 DEF ClientUnknown
    <2>2. request[c].name \in Messages
      BY <1>2 DEF CallRequests
    <2>3. CallRequest(r, request[c].name, a.server, TRUE) \in CallRequests
      BY <1>1, <1>3, <2>2, RequestType
    <2>4. TypeOK'
      <3>1. /\ REMOTE_HASHES' \in [Names -> Protocols \cup {None}]
            /\ remote_protocol' \in [Requestors -> Protocols \cup {None}]
        BY <1>1, <1>3, <2>1, LearnType
      <3>2. send_protocol' \in [Requestors -> BOOLEAN]
        BY <1>1, <2>1 DEF TypeOK
      <3>3. stage' \in [Calls -> {"idle", "sent", "answered", "dropped", "done"}]
        BY <1>1, <2>1 DEF TypeOK
      <3>4. request' \in [Calls -> CallRequests \cup {None}]
        BY <1>1, <2>1, <2>3 DEF TypeOK
      <3>5. response' \in [Calls -> Answers \cup {None}]
        BY <1>1, <2>1 DEF TypeOK
      <3>6. sends' \in [Calls -> Nat]
        BY <1>1, <2>1 DEF TypeOK
      <3>7. /\ remote_name' = remote_name /\ invoked' = invoked /\ result' = result
            /\ server' = server /\ protocol_cache' = protocol_cache /\ tool' = tool
            /\ up' = up /\ restarts' = restarts
        BY <1>2, <2>1 DEF host
      <3>. QED
        BY <1>1, <3>1, <3>2, <3>3, <3>4, <3>5, <3>6, <3>7 DEF TypeOK
    <2>5. CallInv(c)'
      <3>1. sends[c] <= 2 /\ sends[c] # 2 /\ sends[c] \in Nat /\ invoked[c] = 0 /\ result[c] = None
        BY <1>1, <1>2, <2>1 DEF CallInv, TypeOK
      <3>2. /\ stage'[c] = "sent" /\ sends'[c] <= 2 /\ invoked'[c] = 0 /\ result'[c] = None
            /\ request'[c] = CallRequest(r, request[c].name, a.server, TRUE)
        BY <1>1, <1>2, <2>1, <3>1 DEF TypeOK
      <3>3. request'[c].clientProtocol = TRUE
        BY <3>2 DEF CallRequest
      <3>4. stage'[c] # "answered" /\ stage'[c] # "done" /\ invoked'[c] <= 1
        BY <3>2
      <3>6. result'[c] # "value"
        BY <3>2, NoneIsNoResult DEF Results
      <3>5. request'[c] \in CallRequests
        BY <2>3, <3>2
      <3>. QED
        BY <3>2, <3>3, <3>4, <3>5, <3>6 DEF CallInv
    <2>6. ASSUME NEW d \in Calls \ {c} PROVE CallInv(d)'
      <3>1. Same(d)
        BY <1>1, <1>2, <2>1 DEF Same, TypeOK, host
      <3>. QED
        BY <1>1, <3>1, OthersKeepInv DEF CallsInv
    <2>. QED
      BY <2>4, <2>5, <2>6 DEF Inv, CallsInv
  <1>. QED
    BY <1>5, <1>6, <1>7, <1>8 DEF Receive

LEMMA HangKeepsInv ==
    ASSUME Inv, NEW c \in Calls, Hang(c)
    PROVE Inv'
  <1>1. TypeOK /\ CallsInv /\ CallInv(c)
    BY DEF Inv, CallsInv
  <1>2. /\ stage[c] = "sent" /\ stage' = [stage EXCEPT ![c] = "dropped"]
        /\ UNCHANGED <<client, request, response, result, sends, invoked, host>>
    BY DEF Hang
  <1>3. TypeOK'
    BY <1>1, <1>2 DEF TypeOK, client, host
  <1>4. CallInv(c)'
    <2>1. /\ stage'[c] = "dropped" /\ invoked'[c] = 0 /\ result'[c] = None
          /\ sends'[c] <= 2
      BY <1>1, <1>2 DEF CallInv, TypeOK
    <2>2. invoked'[c] <= 1
      BY <2>1
    <2>3. result'[c] # "value"
      BY <2>1, NoneIsNoResult DEF Results
    <2>. QED
      BY <2>1, <2>2, <2>3 DEF CallInv
  <1>5. ASSUME NEW d \in Calls \ {c} PROVE CallInv(d)'
    <2>1. Same(d)
      BY <1>1, <1>2 DEF Same, TypeOK, host
    <2>. QED
      BY <1>1, <2>1, OthersKeepInv DEF CallsInv
  <1>. QED
    BY <1>3, <1>4, <1>5 DEF Inv, CallsInv

LEMMA FailKeepsInv ==
    ASSUME Inv, NEW c \in Calls, Fail(c)
    PROVE Inv'
  <1>1. Finish(c, "raised") /\ UNCHANGED <<client, sends, invoked, host>>
    BY DEF Fail
  <1>2. /\ REMOTE_HASHES' \in [Names -> Protocols \cup {None}]
        /\ remote_protocol' \in [Requestors -> Protocols \cup {None}]
        /\ send_protocol' \in [Requestors -> BOOLEAN]
        /\ remote_name' = remote_name
    BY <1>1 DEF Inv, TypeOK, client
  <1>3. "raised" \in Results
    BY DEF Results
  <1>. QED
    BY <1>1, <1>2, <1>3, EndKeepsInv

LEMMA RestartKeepsInv ==
    ASSUME Inv, NEW p \in Protocols, Restart(p)
    PROVE Inv'
  <1>1. /\ server' = p /\ protocol_cache' = {p} /\ up' = TRUE /\ restarts' = restarts + 1
        /\ UNCHANGED <<client, call, tool>>
    BY DEF Restart
  <1>2. TypeOK'
    BY <1>1 DEF Inv, TypeOK, client, call
  <1>3. restarts' # 0
    BY <1>1 DEF Inv, TypeOK
  <1>4. ASSUME NEW d \in Calls PROVE CallInv(d)'
    <2>1. Same(d)
      BY <1>1, <1>3 DEF Same, call
    <2>. QED
      BY <2>1, OthersKeepInv DEF Inv, CallsInv
  <1>. QED
    BY <1>2, <1>4 DEF Inv, CallsInv

LEMMA InitInv ==
    ASSUME Init
    PROVE Inv
  <1>1. TypeOK
    <2>1. remote_name \in Namings /\ REMOTE_HASHES \in [Names -> Protocols \cup {None}]
      BY DEF Init
    <2>2. server \in Protocols /\ protocol_cache \subseteq Protocols /\ tool \in Tools
      BY IPCAssumption DEF Init
    <2>. QED
      BY <2>1, <2>2 DEF Init, TypeOK
  <1>2. ASSUME NEW c \in Calls PROVE CallInv(c)
    <2>1. /\ stage[c] = "idle" /\ result[c] = None /\ sends[c] = 0 /\ invoked[c] = 0
      BY DEF Init
    <2>2. result[c] # "value"
      BY <2>1, NoneIsNoResult DEF Results
    <2>. QED
      BY <2>1, <2>2 DEF CallInv
  <1>. QED
    BY <1>1, <1>2 DEF Inv, CallsInv

LEMMA NextKeepsInv == Inv /\ [Next]_vars => Inv'
  <1>. SUFFICES ASSUME Inv, [Next]_vars PROVE Inv'
    OBVIOUS
  <1>1. CASE Next
    <2>1. CASE \E c \in Calls, m \in Messages : Request(c, m)
      BY <2>1, RequestKeepsInv
    <2>2. CASE \E c \in Calls : Respond(c, request[c])
      BY <2>2, RespondKeepsInv
    <2>3. CASE \E c \in Calls : Receive(c, response[c])
      BY <2>3, ReceiveKeepsInv
    <2>4. CASE \E c \in Calls : Hang(c)
      BY <2>4, HangKeepsInv
    <2>5. CASE \E c \in Calls : Fail(c)
      BY <2>5, FailKeepsInv
    <2>6. CASE \E p \in Protocols : Restart(p)
      BY <2>6, RestartKeepsInv
    <2>. QED
      BY <1>1, <2>1, <2>2, <2>3, <2>4, <2>5, <2>6 DEF Next
  <1>2. CASE UNCHANGED vars
    <2>1. TypeOK'
      BY <1>2 DEF Inv, TypeOK, vars, client, call, host
    <2>2. ASSUME NEW d \in Calls PROVE CallInv(d)'
      <3>1. Same(d)
        BY <1>2 DEF Same, vars, call, host
      <3>. QED
        BY <3>1, OthersKeepInv DEF Inv, CallsInv
    <2>. QED
      BY <2>1, <2>2 DEF Inv, CallsInv
  <1>. QED
    BY <1>1, <1>2

LEMMA SpecInv == Spec => []Inv
  <1>1. Init => Inv
    BY InitInv
  <1>. QED
    BY <1>1, NextKeepsInv, PTL DEF Spec

-----------------------------------------------------------------------------
(* The variables keep their types. *)
THEOREM TypeCorrect == Spec => []TypeOK
  <1>1. Inv => TypeOK
    BY DEF Inv
  <1>. QED
    BY <1>1, SpecInv, PTL

(* However requests, answers, failures and restarts follow each other, a     *)
(* message is performed at most once for each call of it, and a call that    *)
(* returned a value was performed (the invoke of Responder.respond).         *)
THEOREM CallsArePerformedOnce == Spec => []PerformedOnce
  <1>1. Inv => PerformedOnce
    BY DEF Inv, CallsInv, CallInv, PerformedOnce
  <1>. QED
    BY <1>1, SpecInv, PTL

(* request() calls itself again once at most: the request that it sends      *)
(* again carries the client's protocol, which the server then knows.         *)
THEOREM RequestsAreSentTwice == Spec => []TwoSends
  <1>1. Inv => TwoSends
    BY DEF Inv, CallsInv, CallInv, TwoSends
  <1>. QED
    BY <1>1, SpecInv, PTL

-----------------------------------------------------------------------------
(* What the requestors know.  A requestor that shares its remote name with   *)
(* no other has its protocol of the server beside the hash, and its requests *)
(* were made from that hash; while the server is not restarted, a hash is    *)
(* the server's, and a requestor that sends its protocol knows it.           *)
Hash(r) == REMOTE_HASHES[remote_name[r]]

KnowsInv(r) ==
    /\ ~Shares(r) => IF Hash(r) = None THEN remote_protocol[r] \in {None, local_protocol[r]}
                     ELSE remote_protocol[r] = Hash(r)
    /\ restarts = 0 /\ send_protocol[r] =>
          Hash(r) = server /\ \E n \in 1 .. MaxCalls[r] : sends[<<r, n>>] = 2
    /\ r \in Blocking => \A n, k \in 1 .. MaxCalls[r] :
          n < k /\ stage[<<r, k>>] # "idle" => stage[<<r, n>>] = "done"

UnderWayInv(c) ==
    /\ stage[c] = "idle" => sends[c] = 0
    /\ stage[c] \in {"sent", "answered"} =>
          /\ sends[c] \in {1, 2}
          /\ ~Shares(c[1]) /\ Hash(c[1]) = None => request[c].serverHash = local_protocol[c[1]]
          /\ ~Shares(c[1]) /\ Hash(c[1]) # None /\ c[1] \in Blocking => request[c].serverHash = Hash(c[1])
          /\ restarts = 0 /\ (sends[c] = 2 \/ (c[1] \in Blocking /\ send_protocol[c[1]])) =>
                request[c].serverHash = server /\ request[c].clientProtocol
    /\ result[c] = "misread" => Shares(c[1]) \/ (c[1] \notin Blocking /\ restarts > 0)
    /\ result[c] = "handshake failure" =>
          \/ restarts > 0
          \/ c[1] \notin Blocking /\ \E n \in 1 .. MaxCalls[c[1]] : n # c[2] /\ sends[<<c[1], n>>] = 2

HandshakeInv ==
    /\ restarts = 0 => \A n \in Names : REMOTE_HASHES[n] \in {None, server}
    /\ \A r \in Requestors : KnowsInv(r)
    /\ \A c \in Calls : UnderWayInv(c)

\* What every step leaves alone, or takes forwards.
Frame ==
    /\ remote_name' = remote_name /\ restarts' \in Nat
    /\ (restarts' = restarts /\ server' = server) \/ restarts' # 0
    /\ \A d \in Calls :
          /\ sends[d] = 2 => sends'[d] = 2
          /\ stage'[d] = "idle" <=> stage[d] = "idle"
          /\ stage[d] = "done" => stage'[d] = "done"

LEMMA KnowsKept ==
    ASSUME NEW r \in Requestors, KnowsInv(r), Frame, Hash(r)' = Hash(r),
           remote_protocol'[r] = remote_protocol[r], send_protocol'[r] => send_protocol[r]
    PROVE KnowsInv(r)'
  <1>1. Shares(r)' = Shares(r)
    BY DEF Shares, Frame
  <1>2. \A n \in 1 .. MaxCalls[r] : <<r, n>> \in Calls
    BY IsCall
  <1>3. restarts' = 0 /\ send_protocol'[r] =>
          Hash(r)' = server' /\ \E n \in 1 .. MaxCalls[r] : sends'[<<r, n>>] = 2
    BY <1>2 DEF KnowsInv, Frame
  <1>4. r \in Blocking => \A n, k \in 1 .. MaxCalls[r] :
          n < k /\ stage'[<<r, k>>] # "idle" => stage'[<<r, n>>] = "done"
    BY <1>2 DEF KnowsInv, Frame
  <1>5. ~Shares(r)' => IF Hash(r)' = None THEN remote_protocol'[r] \in {None, local_protocol[r]}
                     ELSE remote_protocol'[r] = Hash(r)'
    BY <1>1 DEF KnowsInv
  <1>. QED
    BY <1>3, <1>4, <1>5 DEF KnowsInv

LEMMA UnderWayKept ==
    ASSUME NEW d \in Calls, UnderWayInv(d), Frame, Same(d),
           ~Shares(d[1]) /\ stage[d] \in {"sent", "answered"} =>
               \/ Hash(d[1])' = Hash(d[1])
               \/ d[1] \notin Blocking /\ Hash(d[1])' # None,
           stage[d] \in {"sent", "answered"} /\ d[1] \in Blocking /\ send_protocol'[d[1]] => send_protocol[d[1]]
    PROVE UnderWayInv(d)'
  <1>. DEFINE r == d[1]
  <1>1. Shares(r)' = Shares(r)
    BY DEF Shares, Frame
  <1>2. \A n \in 1 .. MaxCalls[r] : <<r, n>> \in Calls
    BY CallParts, IsCall
  <1>3. /\ stage'[d] = stage[d] /\ request'[d] = request[d] /\ result'[d] = result[d]
        /\ sends'[d] = sends[d]
    BY DEF Same
  <1>4. stage'[d] \in {"sent", "answered"} =>
          /\ sends'[d] \in {1, 2}
          /\ ~Shares(r)' /\ Hash(r)' = None => request'[d].serverHash = local_protocol[r]
          /\ ~Shares(r)' /\ Hash(r)' # None /\ r \in Blocking => request'[d].serverHash = Hash(r)'
    <2>. SUFFICES ASSUME stage[d] \in {"sent", "answered"}
         PROVE /\ sends[d] \in {1, 2}
               /\ ~Shares(r) /\ Hash(r)' = None => request[d].serverHash = local_protocol[r]
               /\ ~Shares(r) /\ Hash(r)' # None /\ r \in Blocking => request[d].serverHash = Hash(r)'
      BY <1>1, <1>3
    <2>1. /\ sends[d] \in {1, 2}
          /\ ~Shares(r) /\ Hash(r) = None => request[d].serverHash = local_protocol[r]
          /\ ~Shares(r) /\ Hash(r) # None /\ r \in Blocking => request[d].serverHash = Hash(r)
      BY DEF UnderWayInv
    <2>2. ~Shares(r) => Hash(r)' = Hash(r) \/ (r \notin Blocking /\ Hash(r)' # None)
      OBVIOUS
    <2>. QED
      BY <2>1, <2>2
  <1>5. stage'[d] \in {"sent", "answered"} /\ restarts' = 0
            /\ (sends'[d] = 2 \/ (r \in Blocking /\ send_protocol'[r])) =>
          request'[d].serverHash = server' /\ request'[d].clientProtocol
    BY <1>3 DEF UnderWayInv, Frame
  <1>6. result'[d] = "misread" => Shares(r)' \/ (r \notin Blocking /\ restarts' > 0)
    BY <1>1, <1>3 DEF UnderWayInv, Frame
  <1>7. result'[d] = "handshake failure" =>
          \/ restarts' > 0
          \/ r \notin Blocking /\ \E n \in 1 .. MaxCalls[r] : n # d[2] /\ sends'[<<r, n>>] = 2
    <2>1. CASE restarts' # 0
      <3>1. restarts' \in Nat
        BY DEF Frame
      <3>2. restarts' > 0
        BY <2>1, <3>1
      <3>. QED
        BY <3>2
    <2>2. CASE restarts' = 0
      BY <1>2, <1>3, <2>2 DEF UnderWayInv, Frame
    <2>. QED
      BY <2>1, <2>2
  <1>8. stage'[d] = "idle" => sends'[d] = 0
    BY <1>3 DEF UnderWayInv
  <1>. QED
    BY <1>4, <1>5, <1>6, <1>7, <1>8 DEF UnderWayInv

LEMMA RequestKeepsHandshake ==
    ASSUME Inv, HandshakeInv, NEW c \in Calls, NEW m \in Messages, Request(c, m)
    PROVE HandshakeInv'
  <1>. DEFINE r == c[1]
  <1>1. /\ stage[c] = "idle" /\ \A n \in 1 .. c[2] - 1 : stage[<<r, n>>] # "idle"
        /\ r \in Blocking => \A n \in 1 .. c[2] - 1 : stage[<<r, n>>] = "done"
        /\ remote_protocol' = [remote_protocol EXCEPT ![r] = IF Hash(r) = None THEN local_protocol[r] ELSE @]
        /\ UNCHANGED <<REMOTE_HASHES, remote_name, send_protocol, invoked, server, restarts>>
    BY DEF Request, Hash, host
  <1>2. /\ TypeOK /\ r \in Requestors /\ c[2] \in 1 .. MaxCalls[r] /\ c = <<r, c[2]>>
        /\ sends[c] = 0 /\ KnowsInv(r) /\ CallInv(c) /\ UnderWayInv(c) /\ c[2] \in Int
    BY <1>1, CallParts DEF Inv, HandshakeInv, UnderWayInv, CallsInv
  <1>3. /\ Hash(r) \in Protocols \cup {None} /\ local_protocol[r] \in Protocols /\ None \notin Protocols
    BY <1>2, NamesOfRequestors, IPCAssumption DEF TypeOK, Hash
  <1>4. \A q : Hash(q)' = Hash(q) /\ Shares(q)' = Shares(q)
    BY <1>1 DEF Hash, Shares
  <1>5. \/ /\ stage' = [stage EXCEPT ![c] = "sent"]
           /\ request' = [request EXCEPT ![c] = CallRequest(r, m, Hash(r), send_protocol[r])]
           /\ sends' = [sends EXCEPT ![c] = 1] /\ UNCHANGED <<response, result>>
        \/ Finish(c, "raised") /\ sends' = sends
    BY DEF Request, Hash
  <1>6. /\ stage'[c] \in {"sent", "done"}
        /\ stage'[c] = "done" => result'[c] = "raised"
        /\ stage'[c] = "sent" =>
              sends'[c] = 1 /\ result'[c] = None /\ request'[c] = CallRequest(r, m, Hash(r), send_protocol[r])
        /\ \A d \in Calls \ {c} : Same(d)
    <2>1. CASE /\ stage' = [stage EXCEPT ![c] = "sent"]
               /\ request' = [request EXCEPT ![c] = CallRequest(r, m, Hash(r), send_protocol[r])]
               /\ sends' = [sends EXCEPT ![c] = 1] /\ UNCHANGED <<response, result>>
      BY <1>1, <1>2, <2>1 DEF TypeOK, Same, CallInv
    <2>2. CASE Finish(c, "raised") /\ sends' = sends
      <3>1. "raised" \in Results
        BY DEF Results
      <3>. QED
        BY <1>1, <1>2, <2>2, <3>1, FinishKeeps DEF Same
    <2>. QED
      BY <1>5, <2>1, <2>2
  <1>7. KnowsInv(r)'
    <2>1. remote_protocol'[r] = IF Hash(r) = None THEN local_protocol[r] ELSE remote_protocol[r]
      BY <1>1, <1>2 DEF TypeOK
    <2>2. \A n \in 1 .. MaxCalls[r] : <<r, n>> \in Calls /\ (n # c[2] => <<r, n>> \in Calls \ {c})
      BY <1>2, IsCall
    <2>3. restarts' = 0 /\ send_protocol'[r] =>
            Hash(r)' = server' /\ \E n \in 1 .. MaxCalls[r] : sends'[<<r, n>>] = 2
      <3>. SUFFICES ASSUME restarts = 0, send_protocol[r] 
           PROVE Hash(r) = server /\ \E n \in 1 .. MaxCalls[r] : sends'[<<r, n>>] = 2
        BY <1>1, <1>4
      <3>1. Hash(r) = server /\ \E n \in 1 .. MaxCalls[r] : sends[<<r, n>>] = 2
        BY <1>2 DEF KnowsInv
      <3>2. PICK n \in 1 .. MaxCalls[r] : sends[<<r, n>>] = 2
        BY <3>1
      <3>3. <<r, n>> \in Calls \ {c}
        BY <1>2, <2>2, <3>2
      <3>4. sends'[<<r, n>>] = 2
        BY <1>6, <3>2, <3>3 DEF Same
      <3>. QED
        BY <3>1, <3>4
    <2>4. r \in Blocking => \A n, k \in 1 .. MaxCalls[r] :
            n < k /\ stage'[<<r, k>>] # "idle" => stage'[<<r, n>>] = "done"
      <3>. SUFFICES ASSUME r \in Blocking, NEW n \in 1 .. MaxCalls[r], NEW k \in 1 .. MaxCalls[r],
                           n < k, stage'[<<r, k>>] # "idle"
           PROVE stage'[<<r, n>>] = "done"
        OBVIOUS
      <3>0. \A i \in 1 .. MaxCalls[r] : i # c[2] => stage'[<<r, i>>] = stage[<<r, i>>]
        BY <1>6, <2>2 DEF Same
      <3>1. CASE n = c[2]
        <4>1. stage[<<r, k>>] # "idle"
          BY <3>0, <3>1
        <4>. QED
          BY <1>1, <1>2, <3>1, <4>1 DEF KnowsInv
      <3>2. CASE k = c[2]
        <4>1. n \in 1 .. c[2] - 1
          BY <1>2, <3>2
        <4>. QED
          BY <1>1, <3>0, <3>2, <4>1
      <3>3. CASE n # c[2] /\ k # c[2]
        BY <1>2, <3>0, <3>3 DEF KnowsInv
      <3>. QED
        BY <3>1, <3>2, <3>3
    <2>5. ~Shares(r)' => IF Hash(r)' = None THEN remote_protocol'[r] \in {None, local_protocol[r]}
                         ELSE remote_protocol'[r] = Hash(r)'
      BY <1>2, <1>4, <2>1 DEF KnowsInv
    <2>. QED
      BY <2>3, <2>4, <2>5 DEF KnowsInv
  <1>8. ASSUME NEW q \in Requestors \ {r} PROVE KnowsInv(q)'
    <2>1. KnowsInv(q)
      BY DEF HandshakeInv
    <2>2. remote_protocol'[q] = remote_protocol[q] /\ send_protocol' = send_protocol
      BY <1>1, <1>2 DEF TypeOK
    <2>3. \A n \in 1 .. MaxCalls[q] : sends'[<<q, n>>] = sends[<<q, n>>] /\ stage'[<<q, n>>] = stage[<<q, n>>]
      <3>1. \A n \in 1 .. MaxCalls[q] : <<q, n>> \in Calls \ {c}
        BY <1>2, IsCall
      <3>. QED
        BY <1>6, <3>1 DEF Same
    <2>. QED
      BY <1>1, <1>4, <2>1, <2>2, <2>3 DEF KnowsInv
  <1>9. \A d \in Calls : sends[d] = 2 => sends'[d] = 2
    BY <1>2, <1>6 DEF Same
  <1>10. UnderWayInv(c)'
    <2>1. result'[c] \notin {"misread", "handshake failure"} /\ stage'[c] # "idle"
      BY <1>6, NoneIsNoResult DEF Results
    <2>2. ASSUME stage'[c] \in {"sent", "answered"}
          PROVE /\ sends'[c] = 1
                /\ request'[c].serverHash = IF Hash(r) = None THEN local_protocol[r] ELSE Hash(r)
                /\ request'[c].clientProtocol = send_protocol[r]
      BY <1>6, <2>2 DEF CallRequest
    <2>3. restarts = 0 /\ send_protocol[r] => Hash(r) = server /\ server # None
      BY <1>2, <1>3 DEF KnowsInv, TypeOK
    <2>4. stage'[c] \in {"sent", "answered"} =>
          /\ sends'[c] \in {1, 2}
          /\ ~Shares(r)' /\ Hash(r)' = None => request'[c].serverHash = local_protocol[r]
          /\ ~Shares(r)' /\ Hash(r)' # None /\ r \in Blocking => request'[c].serverHash = Hash(r)'
          /\ restarts' = 0 /\ (sends'[c] = 2 \/ (r \in Blocking /\ send_protocol'[r])) =>
                request'[c].serverHash = server' /\ request'[c].clientProtocol
      BY <1>1, <1>4, <2>2, <2>3
    <2>. QED
      BY <2>1, <2>4 DEF UnderWayInv
  <1>11. ASSUME NEW d \in Calls \ {c} PROVE UnderWayInv(d)'
    <2>1. Same(d) /\ UnderWayInv(d)
      BY <1>6 DEF HandshakeInv
    <2>2. \A n \in 1 .. MaxCalls[d[1]] : <<d[1], n>> \in Calls
      BY CallParts, IsCall
    <2>. QED
      BY <1>1, <1>4, <1>9, <2>1, <2>2 DEF UnderWayInv, Same
  <1>12. restarts' = 0 => \A n \in Names : REMOTE_HASHES'[n] \in {None, server'}
    BY <1>1 DEF HandshakeInv
  <1>. QED
    BY <1>7, <1>8, <1>10, <1>11, <1>12 DEF HandshakeInv

\* A step in which no requestor learns anything.
LEMMA QuietKeeps ==
    ASSUME HandshakeInv, Frame, REMOTE_HASHES' = REMOTE_HASHES, remote_protocol' = remote_protocol,
           \A q \in Requestors : send_protocol'[q] => send_protocol[q],
           \A d \in Calls : Same(d) \/ UnderWayInv(d)'
    PROVE HandshakeInv'
  <1>1. \A q : Hash(q)' = Hash(q)
    BY DEF Hash, Frame
  <1>2. \A r \in Requestors : KnowsInv(r)'
    BY <1>1, KnowsKept DEF HandshakeInv
  <1>3. ASSUME NEW d \in Calls PROVE UnderWayInv(d)'
    <2>1. d[1] \in Requestors /\ UnderWayInv(d)
      BY CallParts DEF HandshakeInv
    <2>. QED
      BY <1>1, <2>1, UnderWayKept
  <1>4. restarts' = 0 => \A n \in Names : REMOTE_HASHES'[n] \in {None, server'}
    BY DEF HandshakeInv, Frame
  <1>. QED
    BY <1>2, <1>3, <1>4 DEF HandshakeInv

LEMMA RespondKeepsHandshake ==
    ASSUME Inv, HandshakeInv, NEW c \in Calls, Respond(c, request[c])
    PROVE HandshakeInv'
  <1>1. TypeOK /\ CallInv(c) /\ UnderWayInv(c) /\ stage[c] = "sent" /\ request[c] \in CallRequests
    BY DEF Inv, CallsInv, HandshakeInv, Respond, CallInv
  <1>2. /\ UNCHANGED <<client, request, result, sends, server, tool, restarts>>
        /\ invoked' = [invoked EXCEPT ![c] = IF Performs(request[c]) THEN @ + 1 ELSE @]
    BY DEF Respond
  <1>3. /\ stage'[c] \in {"answered", "dropped"}
        /\ \A d \in Calls \ {c} : stage'[d] = stage[d] /\ response'[d] = response[d]
    <2>1. PICK outcome \in {"valid", "invalid", "raises"} : Responds(c, request[c], outcome)
      BY DEF Respond
    <2>2. \/ stage' = [stage EXCEPT ![c] = "dropped"] /\ response' = response
          \/ \E flag \in BOOLEAN \cup {None}, type \in Types \cup {"error", None} :
                Reply(c, request[c], flag, type)
      BY <1>1, <2>1, RespondsCases
    <2>. QED
      BY <1>1, <2>2 DEF TypeOK, Reply
  <1>4. \A d \in Calls \ {c} : Same(d)
    BY <1>1, <1>2, <1>3 DEF Same, TypeOK
  <1>5. Frame
    BY <1>1, <1>2, <1>3 DEF Frame, TypeOK, client
  <1>6. UnderWayInv(c)'
    <2>1. \A q : Hash(q)' = Hash(q) /\ Shares(q)' = Shares(q)
      BY <1>2 DEF Hash, Shares, client
    <2>2. result[c] = None /\ None # "misread" /\ None # "handshake failure"
      BY <1>1, NoneIsNoResult DEF CallInv, Results
    <2>. QED
      BY <1>1, <1>2, <1>3, <2>1, <2>2 DEF UnderWayInv, client
  <1>. QED
    BY <1>2, <1>4, <1>5, <1>6, QuietKeeps DEF client

LEMMA HangKeepsHandshake ==
    ASSUME Inv, HandshakeInv, NEW c \in Calls, Hang(c)
    PROVE HandshakeInv'
  <1>1. TypeOK /\ CallInv(c)
    BY DEF Inv, CallsInv
  <1>2. /\ stage[c] = "sent" /\ stage' = [stage EXCEPT ![c] = "dropped"]
        /\ UNCHANGED <<client, request, response, result, sends, invoked, host>>
    BY DEF Hang
  <1>3. \A d \in Calls \ {c} : Same(d)
    BY <1>1, <1>2 DEF Same, TypeOK, host
  <1>4. Frame
    BY <1>1, <1>2 DEF Frame, TypeOK, client, host
  <1>5. UnderWayInv(c)'
    <2>1. stage'[c] = "dropped" /\ result'[c] = None
      BY <1>1, <1>2 DEF TypeOK, CallInv
    <2>. QED
      BY <2>1, NoneIsNoResult DEF UnderWayInv, Results
  <1>. QED
    BY <1>2, <1>3, <1>4, <1>5, QuietKeeps DEF client

LEMMA FailKeepsHandshake ==
    ASSUME Inv, HandshakeInv, NEW c \in Calls, Fail(c)
    PROVE HandshakeInv'
  <1>1. TypeOK /\ Outstanding(c) /\ Finish(c, "raised") /\ UNCHANGED <<client, sends, invoked, host>>
    BY DEF Inv, Fail
  <1>2. /\ stage'[c] = "done" /\ result'[c] = "raised"
        /\ \A d \in Calls \ {c} :
                /\ stage'[d] = stage[d] /\ request'[d] = request[d]
                /\ response'[d] = response[d] /\ result'[d] = result[d]
    BY <1>1, FinishKeeps DEF Results
  <1>3. \A d \in Calls \ {c} : Same(d)
    BY <1>1, <1>2 DEF Same, host
  <1>4. Frame
    BY <1>1, <1>2 DEF Frame, TypeOK, client, host, Outstanding
  <1>5. UnderWayInv(c)'
    BY <1>2 DEF UnderWayInv
  <1>. QED
    BY <1>1, <1>3, <1>4, <1>5, QuietKeeps DEF client

LEMMA RestartKeepsHandshake ==
    ASSUME Inv, HandshakeInv, NEW p \in Protocols, Restart(p)
    PROVE HandshakeInv'
  <1>1. TypeOK /\ restarts' = restarts + 1 /\ UNCHANGED <<client, call>>
    BY DEF Restart, Inv
  <1>2. restarts' \in Nat /\ restarts' # 0
    BY <1>1 DEF TypeOK
  <1>3. Frame
    BY <1>1, <1>2 DEF Frame, client, call
  <1>4. \A d \in Calls : Same(d)
    BY <1>1, <1>2 DEF Same, call
  <1>. QED
    BY <1>1, <1>3, <1>4, QuietKeeps DEF client

-----------------------------------------------------------------------------
\* A Requestor waits for its answer.
LEMMA BlockingAlone ==
    ASSUME HandshakeInv, NEW c \in Calls, NEW d \in Calls \ {c}, c[1] = d[1], c[1] \in Blocking,
           stage[c] \in {"sent", "answered"}
    PROVE stage[d] \notin {"sent", "answered"}
  <1>1. /\ c = <<c[1], c[2]>> /\ d = <<c[1], d[2]>> /\ c[1] \in Requestors
        /\ c[2] \in 1 .. MaxCalls[c[1]] /\ d[2] \in 1 .. MaxCalls[c[1]] /\ c[2] \in Int /\ d[2] \in Int
    BY CallParts
  <1>2. \A n, k \in 1 .. MaxCalls[c[1]] :
          n < k /\ stage[<<c[1], k>>] # "idle" => stage[<<c[1], n>>] = "done"
    BY <1>1 DEF HandshakeInv, KnowsInv
  <1>3. c[2] < d[2] \/ d[2] < c[2]
    BY <1>1
  <1>. QED
    BY <1>1, <1>2, <1>3

\* What is known of an answer that has arrived.
LEMMA AnswerParts ==
    ASSUME Inv, NEW c \in Calls, Receive(c, response[c])
    PROVE /\ TypeOK /\ c[1] \in Requestors /\ c = <<c[1], c[2]>> /\ c[2] \in 1 .. MaxCalls[c[1]]
          /\ stage[c] = "answered" /\ request[c] \in CallRequests /\ response[c] \in Answers
          /\ response[c].server \in Protocols /\ None \notin Protocols
          /\ UNCHANGED <<remote_name, invoked, server, restarts>>
          /\ response[c].match = "NONE" => ~request[c].clientProtocol
          /\ response[c].match = "BOTH" => request[c].serverHash = response[c].server
          /\ response[c].match = "CLIENT" => request[c].serverHash # response[c].server
          /\ response[c].flag = FALSE /\ response[c].type # None =>
                response[c].type = Signature[response[c].server][request[c].name].response
          /\ restarts = 0 => response[c].server = server
          /\ sends[c] = 2 => request[c].clientProtocol
          /\ restarts \in Nat /\ sends \in [Calls -> Nat]
  <1>1. TypeOK /\ CallInv(c) /\ stage[c] = "answered"
    BY DEF Inv, CallsInv, Receive
  <1>2. UNCHANGED <<remote_name, invoked, server, restarts>>
    BY DEF Receive, host
  <1>3. response[c] \in Answers /\ response[c].server \in Protocols
    BY <1>1 DEF CallInv, Answers
  <1>. QED
    BY <1>1, <1>2, <1>3, CallParts, IPCAssumption DEF CallInv, TypeOK

\* What was written under a protocol is not misread under it.
LEMMA NotMisread ==
    ASSUME NEW r, NEW m, NEW theirs, NEW a,
           a.flag = FALSE /\ a.type # None => a.type = Signature[a.server][m].response,
           a.flag \in BOOLEAN \cup {None},
           theirs = a.server \/ theirs = None
    PROVE ReadCall(r, m, theirs, a) # "misread"
  <1>. SUFFICES ASSUME ReadCall(r, m, theirs, a) = "misread" PROVE FALSE
    OBVIOUS
  <1>1. a.flag # None /\ theirs # None /\ Signature[theirs][m] # None
    BY DEF ReadCall
  <1>. QED
    BY <1>1 DEF ReadCall, ReadResponse

\* A call that ends with the answer, the requestor having learnt nothing new.
LEMMA EndKeepsHandshake ==
    ASSUME Inv, HandshakeInv, NEW c \in Calls, stage[c] = "answered", NEW outcome \in Results, Finish(c, outcome),
           outcome = "misread" => Shares(c[1]) \/ (c[1] \notin Blocking /\ restarts > 0),
           outcome = "handshake failure" =>
               \/ restarts > 0
               \/ c[1] \notin Blocking /\ \E n \in 1 .. MaxCalls[c[1]] : n # c[2] /\ sends[<<c[1], n>>] = 2,
           UNCHANGED <<remote_name, sends, invoked, server, restarts>>
    PROVE /\ Frame /\ UnderWayInv(c)' /\ \A d \in Calls \ {c} : Same(d)
  <1>1. TypeOK
    BY DEF Inv
  <1>2. /\ stage'[c] = "done" /\ result'[c] = outcome
        /\ \A d \in Calls \ {c} :
                /\ stage'[d] = stage[d] /\ request'[d] = request[d]
                /\ response'[d] = response[d] /\ result'[d] = result[d]
    BY <1>1, FinishKeeps
  <1>3. \A d \in Calls \ {c} : Same(d)
    BY <1>1, <1>2 DEF Same
  <1>4. Frame
    BY <1>1, <1>2 DEF Frame, TypeOK
  <1>5. UnderWayInv(c)'
    <2>1. Shares(c[1])' = Shares(c[1])
      BY DEF Shares
    <2>. QED
      BY <1>2, <2>1 DEF UnderWayInv
  <1>. QED
    BY <1>3, <1>4, <1>5

LEMMA MatchedKeepsHandshake ==
    ASSUME Inv, HandshakeInv, NEW c \in Calls, Receive(c, response[c]), Matched(c, response[c])
    PROVE HandshakeInv'
  <1>. DEFINE r == c[1]  a == response[c]
              outcome == ReadCall(r, request[c].name, remote_protocol[r], a)
  <1>1. /\ a.match = "BOTH" /\ send_protocol' = [send_protocol EXCEPT ![r] = FALSE]
        /\ Finish(c, outcome) /\ UNCHANGED <<REMOTE_HASHES, remote_protocol, sends>>
    BY DEF Matched
  <1>2. /\ TypeOK /\ r \in Requestors /\ stage[c] = "answered" /\ restarts \in Nat
        /\ UNCHANGED <<remote_name, invoked, server, restarts>> /\ a \in Answers
        /\ request[c].serverHash = a.server /\ None \notin Protocols /\ a.server \in Protocols
        /\ a.flag = FALSE /\ a.type # None => a.type = Signature[a.server][request[c].name].response
        /\ restarts = 0 => a.server = server
    BY <1>1, AnswerParts
  <1>3. outcome = "misread" => Shares(r) \/ (r \notin Blocking /\ restarts > 0)
    <2>. SUFFICES ASSUME ~Shares(r), r \in Blocking \/ restarts = 0 PROVE outcome # "misread"
      BY <1>2
    <2>1. KnowsInv(r) /\ UnderWayInv(c) /\ (restarts = 0 => Hash(r) \in {None, server})
      BY <1>2, NamesOfRequestors DEF HandshakeInv, Hash
    <2>0. a.flag \in BOOLEAN \cup {None}
      BY <1>2 DEF Answers
    <2>2. CASE Hash(r) = None
      <3>1. request[c].serverHash = local_protocol[r] /\ remote_protocol[r] \in {None, local_protocol[r]}
        BY <1>2, <2>1, <2>2 DEF KnowsInv, UnderWayInv
      <3>2. remote_protocol[r] = a.server \/ remote_protocol[r] = None
        BY <1>2, <3>1
      <3>. QED
        BY <1>2, <2>0, <3>2, NotMisread
    <2>3. CASE Hash(r) # None
      <3>1. remote_protocol[r] = Hash(r)
        BY <2>1, <2>3 DEF KnowsInv
      <3>2. Hash(r) = a.server
        BY <1>2, <2>1, <2>3 DEF UnderWayInv
      <3>. QED
        BY <1>2, <2>0, <3>1, <3>2, NotMisread
    <2>. QED
      BY <2>2, <2>3
  <1>4. outcome \in Results /\ outcome # "handshake failure"
    BY ReadCallType DEF Results
  <1>5. /\ Frame /\ UnderWayInv(c)' /\ \A d \in Calls \ {c} : Same(d)
    BY <1>1, <1>2, <1>3, <1>4, EndKeepsHandshake
  <1>6. \A q \in Requestors : send_protocol'[q] => send_protocol[q]
    BY <1>1, <1>2 DEF TypeOK
  <1>. QED
    BY <1>1, <1>5, <1>6, QuietKeeps

LEMMA HandshakeFailureKeepsHandshake ==
    ASSUME Inv, HandshakeInv, NEW c \in Calls, Receive(c, response[c]), HandshakeFailure(c, response[c])
    PROVE HandshakeInv'
  <1>. DEFINE r == c[1]  a == response[c]
  <1>1. /\ a.match \in {"CLIENT", "NONE"} /\ send_protocol[r]
        /\ Finish(c, "handshake failure")
        /\ UNCHANGED <<REMOTE_HASHES, remote_protocol, send_protocol, sends>>
    BY DEF HandshakeFailure
  <1>2. /\ TypeOK /\ r \in Requestors /\ stage[c] = "answered" /\ restarts \in Nat
        /\ UNCHANGED <<remote_name, invoked, server, restarts>>
        /\ c = <<r, c[2]>>
        /\ a.match = "NONE" => ~request[c].clientProtocol
        /\ a.match = "CLIENT" => request[c].serverHash # a.server
        /\ restarts = 0 => a.server = server
    BY AnswerParts
  <1>3. ASSUME restarts = 0
        PROVE r \notin Blocking /\ \E n \in 1 .. MaxCalls[r] : n # c[2] /\ sends[<<r, n>>] = 2
    <2>1. KnowsInv(r) /\ UnderWayInv(c)
      BY <1>2 DEF HandshakeInv
    <2>2. ~(request[c].serverHash = server /\ request[c].clientProtocol)
      BY <1>1, <1>2, <1>3
    <2>3. r \notin Blocking /\ sends[c] # 2
      BY <1>1, <1>2, <1>3, <2>1, <2>2 DEF UnderWayInv
    <2>4. PICK n \in 1 .. MaxCalls[r] : sends[<<r, n>>] = 2
      BY <1>1, <1>3, <2>1 DEF KnowsInv
    <2>5. n # c[2]
      BY <1>2, <2>3, <2>4
    <2>. QED
      BY <2>3, <2>4, <2>5
  <1>4. "handshake failure" \in Results /\ "handshake failure" # "misread"
    BY DEF Results
  <1>6. \/ restarts > 0
        \/ r \notin Blocking /\ \E n \in 1 .. MaxCalls[r] : n # c[2] /\ sends[<<r, n>>] = 2
    <2>1. restarts = 0 \/ restarts > 0
      BY <1>2
    <2>. QED
      BY <1>3, <2>1
  <1>5. /\ Frame /\ UnderWayInv(c)' /\ \A d \in Calls \ {c} : Same(d)
    BY <1>1, <1>2, <1>4, <1>6, EndKeepsHandshake
  <1>. QED
    BY <1>1, <1>5, QuietKeeps

\* A requestor that learns the protocol of the server.
LEMMA LearnKeepsHandshake ==
    ASSUME Inv, HandshakeInv, NEW c \in Calls, Receive(c, response[c]), Learn(c[1], response[c].server),
           Frame, UnderWayInv(c)', \A d \in Calls \ {c} : Same(d),
           \A q \in Requestors \ {c[1]} : send_protocol'[q] = send_protocol[q],
           send_protocol'[c[1]] => send_protocol[c[1]] \/ sends'[c] = 2
    PROVE HandshakeInv'
  <1>. DEFINE r == c[1]  p == response[c].server
  <1>1. /\ TypeOK /\ r \in Requestors /\ c = <<r, c[2]>> /\ c[2] \in 1 .. MaxCalls[r]
        /\ stage[c] = "answered" /\ p \in Protocols /\ None \notin Protocols
        /\ UNCHANGED <<remote_name, invoked, server, restarts>>
        /\ restarts = 0 => p = server
    BY AnswerParts
  <1>2. /\ \A n \in Names : REMOTE_HASHES'[n] = IF n = remote_name[r] THEN p ELSE REMOTE_HASHES[n]
        /\ remote_protocol'[r] = p
        /\ \A q \in Requestors \ {r} : remote_protocol'[q] = remote_protocol[q]
    BY <1>1 DEF Learn, TypeOK
  <1>3. /\ Hash(r)' = p
        /\ \A q \in Requestors : ~Shares(q) /\ q # r => Hash(q)' = Hash(q)
        /\ \A q \in Requestors : Hash(q)' \in {p, Hash(q)}
        /\ \A q \in Requestors : Shares(q)' = Shares(q)
    <2>1. \A q \in Requestors : remote_name[q] \in Names
      BY <1>1, NamesOfRequestors
    <2>2. \A q \in Requestors : ~Shares(q) /\ q # r => remote_name[r] # remote_name[q]
      BY <1>1 DEF Shares
    <2>3. \A q \in Requestors : Shares(q)' = Shares(q)
      BY <1>1 DEF Shares
    <2>. QED
      BY <1>1, <1>2, <2>1, <2>2, <2>3 DEF Hash
  <1>4. restarts' = 0 => \A n \in Names : REMOTE_HASHES'[n] \in {None, server'}
    BY <1>1, <1>2 DEF HandshakeInv
  <1>5. ASSUME NEW q \in Requestors PROVE KnowsInv(q)'
    <2>1. KnowsInv(q) /\ \A n \in 1 .. MaxCalls[q] : <<q, n>> \in Calls
      BY IsCall DEF HandshakeInv
    <2>2. ~Shares(q)' => IF Hash(q)' = None THEN remote_protocol'[q] \in {None, local_protocol[q]}
                         ELSE remote_protocol'[q] = Hash(q)'
      <3>1. CASE q = r
        BY <1>1, <1>2, <1>3, <3>1
      <3>2. CASE q # r
        BY <1>2, <1>3, <2>1, <3>2 DEF KnowsInv
      <3>. QED
        BY <3>1, <3>2
    <2>3. restarts' = 0 /\ send_protocol'[q] =>
            Hash(q)' = server' /\ \E n \in 1 .. MaxCalls[q] : sends'[<<q, n>>] = 2
      <3>. SUFFICES ASSUME restarts = 0, send_protocol'[q]
           PROVE Hash(q)' = server /\ \E n \in 1 .. MaxCalls[q] : sends'[<<q, n>>] = 2
        BY <1>1
      <3>1. CASE send_protocol[q]
        <4>1. Hash(q) = server /\ \E n \in 1 .. MaxCalls[q] : sends[<<q, n>>] = 2
          BY <2>1, <3>1 DEF KnowsInv
        <4>2. \E n \in 1 .. MaxCalls[q] : sends'[<<q, n>>] = 2
          BY <2>1, <4>1 DEF Frame
        <4>. QED
          BY <1>1, <1>3, <4>1, <4>2
      <3>2. CASE ~send_protocol[q]
        <4>1. q = r /\ sends'[c] = 2
          BY <3>2
        <4>. QED
          BY <1>1, <1>3, <4>1
      <3>. QED
        BY <3>1, <3>2
    <2>4. q \in Blocking => \A n, k \in 1 .. MaxCalls[q] :
            n < k /\ stage'[<<q, k>>] # "idle" => stage'[<<q, n>>] = "done"
      BY <2>1 DEF KnowsInv, Frame
    <2>. QED
      BY <2>2, <2>3, <2>4 DEF KnowsInv
  <1>6. ASSUME NEW d \in Calls \ {c} PROVE UnderWayInv(d)'
    <2>1. d[1] \in Requestors /\ UnderWayInv(d) /\ Same(d)
      BY CallParts DEF HandshakeInv
    <2>2. stage[d] \in {"sent", "answered"} /\ d[1] = r => d[1] \notin Blocking
      BY <1>1, BlockingAlone
    <2>3. ~Shares(d[1]) /\ stage[d] \in {"sent", "answered"} =>
               \/ Hash(d[1])' = Hash(d[1])
               \/ d[1] \notin Blocking /\ Hash(d[1])' # None
      BY <1>1, <1>3, <2>1, <2>2
    <2>4. stage[d] \in {"sent", "answered"} /\ d[1] \in Blocking /\ send_protocol'[d[1]] => send_protocol[d[1]]
      BY <2>1, <2>2
    <2>. QED
      BY <2>1, <2>3, <2>4, UnderWayKept
  <1>. QED
    BY <1>4, <1>5, <1>6 DEF HandshakeInv

LEMMA ServerDiffersKeepsHandshake ==
    ASSUME Inv, HandshakeInv, NEW c \in Calls, Receive(c, response[c]), ServerDiffers(c, response[c])
    PROVE HandshakeInv'
  <1>. DEFINE r == c[1]  a == response[c]  outcome == ReadCall(r, request[c].name, a.server, a)
  <1>1. /\ Learn(r, a.server) /\ Finish(c, outcome) /\ UNCHANGED <<send_protocol, sends>>
    BY DEF ServerDiffers
  <1>2. /\ stage[c] = "answered" /\ a \in Answers
        /\ UNCHANGED <<remote_name, invoked, server, restarts>>
        /\ a.flag = FALSE /\ a.type # None => a.type = Signature[a.server][request[c].name].response
    BY AnswerParts
  <1>3. outcome \in Results /\ outcome # "handshake failure" /\ outcome # "misread"
    <2>1. a.flag \in BOOLEAN \cup {None}
      BY <1>2 DEF Answers
    <2>2. outcome \in {"value", "misread", "error", "raised"}
      BY ReadCallType
    <2>3. outcome # "misread"
      BY <1>2, <2>1, NotMisread
    <2>. QED
      BY <2>2, <2>3 DEF Results
  <1>4. /\ Frame /\ UnderWayInv(c)' /\ \A d \in Calls \ {c} : Same(d)
    BY <1>1, <1>2, <1>3, EndKeepsHandshake
  <1>. QED
    BY <1>1, <1>4, LearnKeepsHandshake

LEMMA ClientUnknownKeepsHandshake ==
    ASSUME Inv, HandshakeInv, NEW c \in Calls, Receive(c, response[c]), ClientUnknown(c, response[c])
    PROVE HandshakeInv'
  <1>. DEFINE r == c[1]  p == response[c].server
  <1>1. /\ response[c].match = "NONE" /\ Learn(r, p)
        /\ send_protocol' = [send_protocol EXCEPT ![r] = TRUE]
        /\ stage' = [stage EXCEPT ![c] = "sent"]
        /\ request' = [request EXCEPT ![c] = CallRequest(r, request[c].name, p, TRUE)]
        /\ sends' = [sends EXCEPT ![c] = sends[c] + 1]
        /\ response' = [response EXCEPT ![c] = None] /\ UNCHANGED result
    BY DEF ClientUnknown
  <1>2. /\ TypeOK /\ r \in Requestors /\ stage[c] = "answered" /\ p \in Protocols /\ None \notin Protocols
        /\ UNCHANGED <<remote_name, invoked, server, restarts>> /\ restarts \in Nat
        /\ ~request[c].clientProtocol /\ sends[c] # 2
        /\ restarts = 0 => p = server
    BY <1>1, AnswerParts
  <1>3. UnderWayInv(c) /\ sends[c] = 1 /\ result[c] = None
    <2>1. UnderWayInv(c) /\ CallInv(c)
      BY DEF HandshakeInv, Inv, CallsInv
    <2>. QED
      BY <1>2, <2>1 DEF UnderWayInv, CallInv
  <1>4. /\ stage'[c] = "sent" /\ sends'[c] = 2 /\ result'[c] = None /\ send_protocol'[r] = TRUE
        /\ request'[c] = CallRequest(r, request[c].name, p, TRUE)
    BY <1>1, <1>2, <1>3 DEF TypeOK
  <1>5. \A d \in Calls \ {c} : Same(d)
    BY <1>1, <1>2 DEF Same, TypeOK
  <1>6. Frame
    <2>1. \A d \in Calls :
          /\ sends[d] = 2 => sends'[d] = 2
          /\ stage'[d] = "idle" <=> stage[d] = "idle"
          /\ stage[d] = "done" => stage'[d] = "done"
      BY <1>2, <1>4, <1>5 DEF Same
    <2>. QED
      BY <1>2, <2>1 DEF Frame
  <1>7. UnderWayInv(c)'
    <2>1. request'[c].serverHash = p /\ request'[c].clientProtocol = TRUE
      BY <1>2, <1>4 DEF CallRequest
    <2>2. Hash(r)' = p
      <3>1. remote_name[r] \in Names /\ DOMAIN REMOTE_HASHES = Names
        BY <1>2, NamesOfRequestors DEF TypeOK
      <3>2. REMOTE_HASHES' = [REMOTE_HASHES EXCEPT ![remote_name[r]] = p]
        BY <1>1 DEF Learn
      <3>. QED
        BY <1>2, <3>1, <3>2 DEF Hash
    <2>3. result'[c] \notin {"misread", "handshake failure"}
      BY <1>4, NoneIsNoResult DEF Results
    <2>. QED
      BY <1>2, <1>4, <2>1, <2>2, <2>3 DEF UnderWayInv
  <1>8. \A q \in Requestors \ {r} : send_protocol'[q] = send_protocol[q]
    BY <1>1, <1>2 DEF TypeOK
  <1>. QED
    BY <1>1, <1>4, <1>5, <1>6, <1>7, <1>8, LearnKeepsHandshake

LEMMA InitHandshake == Init => HandshakeInv
  <1>. SUFFICES ASSUME Init PROVE HandshakeInv
    OBVIOUS
  <1>1. Inv /\ TypeOK
    BY InitInv DEF Inv
  <1>2. \A n \in Names : REMOTE_HASHES[n] \in {None, server}
    BY DEF Init
  <1>3. ASSUME NEW r \in Requestors PROVE KnowsInv(r)
    <2>1. Hash(r) = None /\ remote_protocol[r] = None /\ send_protocol[r] = FALSE
      BY <1>1, NamesOfRequestors DEF Init, Hash
    <2>2. \A n \in 1 .. MaxCalls[r] : stage[<<r, n>>] = "idle"
      BY IsCall DEF Init
    <2>. QED
      BY <2>1, <2>2 DEF KnowsInv
  <1>4. ASSUME NEW c \in Calls PROVE UnderWayInv(c)
    <2>1. stage[c] = "idle" /\ sends[c] = 0 /\ result[c] = None
      BY DEF Init
    <2>2. result[c] \notin {"misread", "handshake failure"}
      BY <2>1, NoneIsNoResult DEF Results
    <2>. QED
      BY <2>1, <2>2 DEF UnderWayInv
  <1>. QED
    BY <1>2, <1>3, <1>4 DEF HandshakeInv

LEMMA NextKeepsHandshake == Inv /\ HandshakeInv /\ [Next]_vars => HandshakeInv'
  <1>. SUFFICES ASSUME Inv, HandshakeInv, [Next]_vars PROVE HandshakeInv'
    OBVIOUS
  <1>1. CASE \E c \in Calls, m \in Messages : Request(c, m)
    BY <1>1, RequestKeepsHandshake
  <1>2. CASE \E c \in Calls : Respond(c, request[c])
    BY <1>2, RespondKeepsHandshake
  <1>3. ASSUME NEW c \in Calls, Receive(c, response[c]) PROVE HandshakeInv'
    <2>1. CASE Matched(c, response[c])
      BY <1>3, <2>1, MatchedKeepsHandshake
    <2>2. CASE ServerDiffers(c, response[c])
      BY <1>3, <2>2, ServerDiffersKeepsHandshake
    <2>3. CASE ClientUnknown(c, response[c])
      BY <1>3, <2>3, ClientUnknownKeepsHandshake
    <2>4. CASE HandshakeFailure(c, response[c])
      BY <1>3, <2>4, HandshakeFailureKeepsHandshake
    <2>. QED
      BY <1>3, <2>1, <2>2, <2>3, <2>4 DEF Receive
  <1>4. CASE \E c \in Calls : Hang(c)
    BY <1>4, HangKeepsHandshake
  <1>5. CASE \E c \in Calls : Fail(c)
    BY <1>5, FailKeepsHandshake
  <1>6. CASE \E p \in Protocols : Restart(p)
    BY <1>6, RestartKeepsHandshake
  <1>7. CASE UNCHANGED vars
    <2>1. Frame /\ \A d \in Calls : Same(d)
      BY <1>7 DEF vars, client, call, host, Frame, Same, Inv, TypeOK
    <2>. QED
      BY <1>7, <2>1, QuietKeeps DEF vars, client
  <1>. QED
    BY <1>1, <1>2, <1>3, <1>4, <1>5, <1>6, <1>7 DEF Next

LEMMA HandshakeAlways == Spec => []HandshakeInv
  BY SpecInv, InitHandshake, NextKeepsHandshake, PTL DEF Spec

(* A requestor reads an answer under the protocol of the server that wrote   *)
(* it (read_handshake_response sets remote_protocol with the hash), for any  *)
(* protocols, restarts, lost answers and failed handshakes, unless it shares *)
(* its remote name or has several calls under way over a restart.            *)
THEOREM AnswersAreReadAsWritten == Spec => []ReadAsWritten
  <1>1. HandshakeInv => ReadAsWritten
    BY DEF HandshakeInv, UnderWayInv, ReadAsWritten
  <1>. QED
    BY <1>1, HandshakeAlways, PTL

(* The handshake fails (the AvroException at the end of                      *)
(* read_handshake_response) only after a restart, or while another call of a *)
(* TwistedRequestor had its request sent again.                              *)
THEOREM HandshakesAgree == Spec => []HandshakeAgrees
  <1>1. HandshakeInv => HandshakeAgrees
    BY DEF HandshakeInv, UnderWayInv, HandshakeAgrees
  <1>. QED
    BY <1>1, HandshakeAlways, PTL

-----------------------------------------------------------------------------
(* FlattenSeq, a recursive function over the buffers of a message, by        *)
(* induction over their number.                                              *)

LEMMA LeastNumber ==
    ASSUME NEW S, S \subseteq Nat, S # {}
    PROVE  \E n \in S : \A m \in S : n <= m
<1> DEFINE less == OpToRel(<, Nat)
<1>1. IsWellFoundedOn(less, Nat)
  BY NatLessThanWellFounded
<1>2. \A i, j \in Nat : i < j => <<i, j>> \in less
  BY DEF OpToRel
<1> HIDE DEF less
<1>3. PICK n \in S : \A m \in S : <<m, n>> \notin less
  BY <1>1, WFMin
<1>4. ASSUME NEW m \in S PROVE n <= m
  <2>1. m \in Nat /\ n \in Nat
    OBVIOUS
  <2>2. ~ (m < n)
    BY <1>2, <1>3, <2>1
  <2> QED
    BY <2>1, <2>2
<1> QED
  BY <1>4

LEMMA InductionOnNat ==
    ASSUME NEW S, 0 \in S, \A n \in Nat : n \in S => n + 1 \in S
    PROVE  Nat \subseteq S
<1> SUFFICES ASSUME Nat \ S # {} PROVE FALSE
  OBVIOUS
<1>1. PICK n \in Nat \ S : \A m \in Nat \ S : n <= m
  BY LeastNumber
<1>2. n # 0 /\ n - 1 \in Nat
  BY <1>1
<1>3. n - 1 \in S
  BY <1>1, <1>2
<1> QED
  BY <1>1, <1>2, <1>3

(* f[i] joins the first i sequences of s. *)
Joins(f, s) ==
    f = [i \in 1 .. Len(s) |-> IF i = 1 THEN s[i] ELSE f[i - 1] \o s[i]]

LEMMA JoinsExist ==
    ASSUME NEW S, NEW s \in Seq(Seq(S))
    PROVE  \E f \in [1 .. Len(s) -> Seq(S)] : Joins(f, s)
<1> DEFINE Up(n) == {f \in [1 .. n -> Seq(S)] :
                        \A i \in 1 .. n : f[i] = IF i = 1 THEN s[i] ELSE f[i - 1] \o s[i]}
           Good == {n \in Nat : n <= Len(s) => Up(n) # {}}
<1>1. Len(s) \in Nat /\ \A i \in 1 .. Len(s) : s[i] \in Seq(S)
  BY LenProperties, ElementOfSeq
<1>2. 0 \in Good
  <2>1. [i \in 1 .. 0 |-> <<>>] \in Up(0)
    OBVIOUS
  <2> QED
    BY <2>1
<1> HIDE DEF Up
<1>3. ASSUME NEW n \in Nat, n \in Good PROVE n + 1 \in Good
  <2> SUFFICES ASSUME n + 1 <= Len(s) PROVE Up(n + 1) # {}
    OBVIOUS
  <2>1. PICK f \in Up(n) : TRUE
    BY <1>1, <1>3
  <2>2. f \in [1 .. n -> Seq(S)]
        /\ \A i \in 1 .. n : f[i] = IF i = 1 THEN s[i] ELSE f[i - 1] \o s[i]
    BY <2>1 DEF Up
  <2> DEFINE last == IF n = 0 THEN s[n + 1] ELSE f[n] \o s[n + 1]
             g == [i \in 1 .. n + 1 |-> IF i = n + 1 THEN last ELSE f[i]]
  <2>3. s[n + 1] \in Seq(S)
    BY <1>1
  <2>4. last \in Seq(S)
    <3>1. CASE n = 0
      BY <2>3, <3>1
    <3>2. CASE n # 0
      <4>1. f[n] \in Seq(S)
        BY <2>2, <3>2
      <4> QED
        BY <2>3, <3>2, <4>1, ConcatProperties
    <3> QED
      BY <3>1, <3>2
  <2> HIDE DEF last
  <2>5. g \in [1 .. n + 1 -> Seq(S)]
    BY <2>2, <2>4
  <2>6. ASSUME NEW i \in 1 .. n + 1
        PROVE  g[i] = IF i = 1 THEN s[i] ELSE g[i - 1] \o s[i]
    <3>1. CASE i = n + 1 /\ n = 0
      BY <3>1 DEF last
    <3>2. CASE i = n + 1 /\ n # 0
      <4>1. g[i] = last /\ g[i - 1] = f[n] /\ i # 1 /\ i = n + 1
        BY <3>2
      <4> QED
        BY <3>2, <4>1 DEF last
    <3>3. CASE i # n + 1
      <4>1. i \in 1 .. n /\ g[i] = f[i] /\ (i # 1 => g[i - 1] = f[i - 1])
        BY <3>3
      <4> QED
        BY <2>2, <4>1
    <3> QED
      BY <3>1, <3>2, <3>3
  <2> HIDE DEF g
  <2>7. g \in Up(n + 1)
    BY <2>5, <2>6 DEF Up
  <2> QED
    BY <2>7
<1>4. Len(s) \in Good
  <2> HIDE DEF Good
  <2>1. Nat \subseteq Good
    BY <1>2, <1>3, InductionOnNat
  <2> QED
    BY <1>1, <2>1 DEF Good
<1>5. PICK f \in Up(Len(s)) : TRUE
  <2>1. Len(s) <= Len(s)
    BY <1>1
  <2> QED
    BY <1>4, <2>1
<1>6. f \in [1 .. Len(s) -> Seq(S)] /\ Joins(f, s)
  BY <1>5 DEF Joins, Up
<1> QED
  BY <1>6

LEMMA JoinsUnique ==
    ASSUME NEW S, NEW s \in Seq(Seq(S)), NEW f, NEW g, Joins(f, s), Joins(g, s)
    PROVE  f = g
<1> DEFINE Good == {n \in Nat : n \in 1 .. Len(s) => f[n] = g[n]}
<1>1. Len(s) \in Nat
  BY LenProperties
<1>2. \A i \in 1 .. Len(s) : /\ f[i] = IF i = 1 THEN s[i] ELSE f[i - 1] \o s[i]
                             /\ g[i] = IF i = 1 THEN s[i] ELSE g[i - 1] \o s[i]
  BY DEF Joins
<1>3. 0 \in Good
  OBVIOUS
<1>4. ASSUME NEW n \in Nat, n \in Good PROVE n + 1 \in Good
  <2> SUFFICES ASSUME n + 1 \in 1 .. Len(s) PROVE f[n + 1] = g[n + 1]
    OBVIOUS
  <2>1. CASE n = 0
    <3>1. n + 1 = 1
      BY <2>1
    <3> QED
      BY <1>2, <3>1
  <2>2. CASE n # 0
    <3>1. n \in 1 .. Len(s) /\ n + 1 # 1 /\ (n + 1) - 1 = n
      BY <1>1, <2>2
    <3>2. f[n] = g[n]
      BY <1>4, <3>1
    <3> DEFINE m == n + 1
    <3>3. m \in 1 .. Len(s) /\ m # 1 /\ m - 1 = n
      BY <3>1
    <3> HIDE DEF m
    <3>4. f[m] = f[n] \o s[m] /\ g[m] = g[n] \o s[m]
      BY <1>2, <3>3
    <3> QED
      BY <3>2, <3>4 DEF m
  <2> QED
    BY <2>1, <2>2
<1>5. \A i \in 1 .. Len(s) : f[i] = g[i]
  <2> HIDE DEF Good
  <2>1. Nat \subseteq Good
    BY <1>3, <1>4, InductionOnNat
  <2> QED
    BY <1>1, <2>1 DEF Good
<1>6. /\ f = [i \in 1 .. Len(s) |-> f[i]]
      /\ g = [i \in 1 .. Len(s) |-> g[i]]
  <2>1. f = [i \in 1 .. Len(s) |-> IF i = 1 THEN s[i] ELSE f[i - 1] \o s[i]]
    BY DEF Joins
  <2>2. g = [i \in 1 .. Len(s) |-> IF i = 1 THEN s[i] ELSE g[i - 1] \o s[i]]
    BY DEF Joins
  <2> QED
    BY <1>2, <2>1, <2>2, Zenon
<1> QED
  BY <1>5, <1>6

(* Any function that joins gives the result. *)
LEMMA FlattenIs ==
    ASSUME NEW S, NEW s \in Seq(Seq(S)), NEW f, Joins(f, s), s # <<>>
    PROVE  FlattenSeq(s) = f[Len(s)]
<1> DEFINE Rec(g) == g = [i \in 1 .. Len(s) |-> IF i = 1 THEN s[i] ELSE g[i - 1] \o s[i]]
           flatten == CHOOSE g : Rec(g)
<1>1. Len(s) # 0
  BY EmptySeq
<1>2. FlattenSeq(s) = flatten[Len(s)]
  BY <1>1 DEF FlattenSeq
<1>3. Rec(f)
  BY Zenon DEF Joins
<1> HIDE DEF Rec
<1>4. Rec(flatten)
  BY <1>3, Zenon
<1>5. Joins(flatten, s)
  BY <1>4, Zenon DEF Joins, Rec
<1> HIDE DEF flatten
<1>6. flatten = f
  BY <1>5, JoinsUnique
<1> QED
  BY <1>2, <1>6

LEMMA FlattenType ==
    ASSUME NEW S, NEW s \in Seq(Seq(S))
    PROVE  FlattenSeq(s) \in Seq(S) /\ FlattenSeq(<<>>) = <<>>
<1>1. FlattenSeq(<<>>) = <<>>
  BY EmptySeq DEF FlattenSeq
<1>2. CASE s = <<>>
  BY <1>1, <1>2, EmptySeq
<1>3. CASE s # <<>>
  <2>1. PICK f \in [1 .. Len(s) -> Seq(S)] : Joins(f, s)
    BY JoinsExist
  <2>2. Len(s) \in 1 .. Len(s)
    BY <1>3, EmptySeq
  <2>3. f[Len(s)] \in Seq(S)
    BY <2>1, <2>2
  <2>4. FlattenSeq(s) = f[Len(s)]
    BY <1>3, <2>1, FlattenIs
  <2> QED
    BY <1>1, <2>3, <2>4, Zenon
<1> QED
  BY <1>2, <1>3

(* A buffer at the end comes last. *)
LEMMA FlattenAppend ==
    ASSUME NEW S, NEW s \in Seq(Seq(S)), NEW b \in Seq(S)
    PROVE  FlattenSeq(Append(s, b)) = FlattenSeq(s) \o b
<1> DEFINE t == Append(s, b)
           n == Len(s)
<1>1. /\ n \in Nat /\ t \in Seq(Seq(S)) /\ Len(t) = n + 1
      /\ t[n + 1] = b /\ \A i \in 1 .. n : t[i] = s[i]
  BY LenProperties, AppendProperties
<1> HIDE DEF t
<1>2. PICK f \in [1 .. n -> Seq(S)] : Joins(f, s)
  BY JoinsExist
<1> DEFINE last == IF n = 0 THEN b ELSE f[n] \o b
           g == [i \in 1 .. n + 1 |-> IF i = n + 1 THEN last ELSE f[i]]
<1>3. \A i \in 1 .. n : f[i] = IF i = 1 THEN s[i] ELSE f[i - 1] \o s[i]
  BY <1>2 DEF Joins
<1> HIDE DEF n
<1>4. ASSUME NEW i \in 1 .. n + 1 PROVE g[i] = IF i = 1 THEN t[i] ELSE g[i - 1] \o t[i]
  <2>1. CASE i = n + 1 /\ n = 0
    BY <1>1, <2>1
  <2>2. CASE i = n + 1 /\ n # 0
    <3>1. g[i] = f[n] \o b /\ g[i - 1] = f[n] /\ i # 1 /\ t[i] = b
      BY <1>1, <2>2
    <3> HIDE DEF g
    <3>2. g[i] = g[i - 1] \o t[i]
      BY <3>1, Zenon
    <3> QED
      BY <3>1, <3>2, Zenon
  <2>3. CASE i # n + 1
    <3>0. n \in Nat /\ i \in 1 .. n /\ (i # 1 => i - 1 \in 1 .. n + 1 /\ i - 1 # n + 1)
      BY <1>1, <2>3
    <3>1. i \in 1 .. n /\ g[i] = f[i] /\ t[i] = s[i] /\ (i # 1 => g[i - 1] = f[i - 1])
      BY <1>1, <2>3, <3>0
    <3> QED
      BY <1>3, <3>1
  <2> QED
    BY <2>1, <2>2, <2>3
<1>5. g[n + 1] = last
  BY <1>1
<1>6. g = [i \in 1 .. n + 1 |-> IF i = 1 THEN t[i] ELSE g[i - 1] \o t[i]]
  <2>1. g = [i \in 1 .. n + 1 |-> g[i]]
    OBVIOUS
  <2> HIDE DEF g
  <2> QED
    BY <1>4, <2>1
<1> HIDE DEF g
<1>7. Joins(g, t) /\ t # <<>>
  <2>1. Len(t) # 0 /\ Len(<<>>) = 0
    BY <1>1, EmptySeq
  <2>2. t # <<>>
    BY <2>1
  <2>3. Joins(g, t)
    BY <1>1, <1>6 DEF Joins
  <2> QED
    BY <2>2, <2>3
<1>8. FlattenSeq(t) = last
  BY <1>1, <1>5, <1>7, FlattenIs
<1>9. CASE n = 0
  <2>1. s = <<>>
    BY <1>9, EmptySeq DEF n
  <2> QED
    BY <1>8, <1>9, <2>1, FlattenType, ConcatEmptySeq DEF t
<1>10. CASE n # 0
  <2>1. s # <<>>
    BY <1>10, EmptySeq DEF n
  <2>2. FlattenSeq(s) = f[n]
    BY <1>2, <2>1, FlattenIs DEF n
  <2> QED
    BY <1>8, <1>10, <2>2 DEF t
<1> QED
  BY <1>9, <1>10

-----------------------------------------------------------------------------
(* Where the buffers of a message lie.  The first j buffers hold so many of  *)
(* its bytes, and are so long with their headers; this many have any.        *)
Covered(size, j) == IF j * BUFFER_SIZE < size THEN j * BUFFER_SIZE ELSE size
Offset(size, j)  == j * BUFFER_HEADER_LENGTH + Covered(size, j)
Count(size)      == Ceiling(size, BUFFER_SIZE)

LEMMA Division ==
    ASSUME NEW e \in Nat, NEW c \in Nat \ {0}
    PROVE  e \div c \in Nat /\ c * (e \div c) <= e /\ e < c * (e \div c) + c
  OBVIOUS

LEMMA Multiples ==
    ASSUME NEW c \in Nat, NEW i \in Nat, NEW j \in Nat, i <= j
    PROVE  i * c \in Nat /\ j * c \in Nat /\ i * c <= j * c /\ j * c = i * c + (j - i) * c
<1>1. PICK d \in Nat : j = i + d
  <2>1. j - i \in Nat /\ j = i + (j - i)
    OBVIOUS
  <2> QED
    BY <2>1
<1>2. i * c \in Nat /\ d * c \in Nat /\ (i + d) * c = i * c + d * c
  OBVIOUS
<1> QED
  BY <1>1, <1>2

LEMMA CountFacts ==
    ASSUME NEW size \in Nat
    PROVE  /\ Count(size) \in Nat /\ size <= Count(size) * BUFFER_SIZE
           /\ \A j \in Nat : j < Count(size) => j * BUFFER_SIZE < size
<1>1. BUFFER_SIZE \in Nat \ {0}
  BY FramingAssumption
<1> DEFINE e == size + BUFFER_SIZE - 1
           n == Count(size)
<1>2. e \in Nat /\ n = e \div BUFFER_SIZE
  BY <1>1 DEF Count, Ceiling
<1>3. n \in Nat /\ BUFFER_SIZE * n <= e /\ e < BUFFER_SIZE * n + BUFFER_SIZE
  BY <1>1, <1>2, Division
<1> HIDE DEF n
<1>4. BUFFER_SIZE * n = n * BUFFER_SIZE /\ n * BUFFER_SIZE \in Nat
  BY <1>1, <1>3
<1>5. size <= n * BUFFER_SIZE
  BY <1>1, <1>3, <1>4
<1>6. ASSUME NEW j \in Nat, j < n PROVE j * BUFFER_SIZE < size
  <2>1. j + 1 <= n /\ (j + 1) * BUFFER_SIZE = j * BUFFER_SIZE + BUFFER_SIZE
    BY <1>1, <1>3, <1>6
  <2>2. (j + 1) * BUFFER_SIZE <= n * BUFFER_SIZE
    BY <1>1, <1>3, <2>1, Multiples
  <2>3. j * BUFFER_SIZE \in Nat
    BY <1>1
  <2> QED
    BY <1>1, <1>3, <1>4, <2>1, <2>2, <2>3
<1> QED
  BY <1>3, <1>5, <1>6 DEF n

LEMMA CoveredFacts ==
    ASSUME NEW size \in Nat, NEW j \in Nat
    PROVE  /\ Covered(size, j) \in 0 .. size /\ Covered(size, 0) = 0
           /\ Covered(size, j) <= Covered(size, j + 1)
           /\ j < Count(size) => Covered(size, j) = j * BUFFER_SIZE
                                  /\ Covered(size, j) < Covered(size, j + 1)
           /\ j >= Count(size) => Covered(size, j) = size
<1>1. BUFFER_SIZE \in Nat \ {0} /\ Count(size) \in Nat
  BY FramingAssumption, CountFacts
<1>2. /\ j * BUFFER_SIZE \in Nat /\ (j + 1) * BUFFER_SIZE = j * BUFFER_SIZE + BUFFER_SIZE
      /\ 0 * BUFFER_SIZE = 0
  BY <1>1
<1>3. j < Count(size) => j * BUFFER_SIZE < size
  BY CountFacts
<1>4. j >= Count(size) => j * BUFFER_SIZE >= size
  <2> SUFFICES ASSUME j >= Count(size) PROVE j * BUFFER_SIZE >= size
    OBVIOUS
  <2>1. size <= Count(size) * BUFFER_SIZE /\ Count(size) * BUFFER_SIZE <= j * BUFFER_SIZE
    BY <1>1, CountFacts, Multiples
  <2>2. Count(size) * BUFFER_SIZE \in Nat
    BY <1>1
  <2> QED
    BY <1>2, <2>1, <2>2
<1> QED
  BY <1>1, <1>2, <1>3, <1>4 DEF Covered

LEMMA OffsetFacts ==
    ASSUME NEW size \in Nat, NEW j \in Nat
    PROVE  /\ Offset(size, 0) = 0 /\ Offset(size, j) \in Nat
           /\ Offset(size, j + 1) =
                 Offset(size, j) + BUFFER_HEADER_LENGTH + (Covered(size, j + 1) - Covered(size, j))
           /\ Covered(size, j + 1) - Covered(size, j) \in Nat
<1>1. /\ BUFFER_HEADER_LENGTH \in Nat \ {0}
      /\ Covered(size, j) \in Nat /\ Covered(size, 0) = 0
      /\ Covered(size, j + 1) \in Nat /\ Covered(size, j) <= Covered(size, j + 1)
  <2>1. Covered(size, j + 1) \in 0 .. size
    BY CoveredFacts
  <2>2. /\ Covered(size, j) \in 0 .. size /\ Covered(size, 0) = 0
        /\ Covered(size, j) <= Covered(size, j + 1)
    BY CoveredFacts
  <2> QED
    BY <2>1, <2>2, FramingAssumption
<1>2. /\ j * BUFFER_HEADER_LENGTH \in Nat /\ 0 * BUFFER_HEADER_LENGTH = 0
      /\ (j + 1) * BUFFER_HEADER_LENGTH = j * BUFFER_HEADER_LENGTH + BUFFER_HEADER_LENGTH
  BY <1>1
<1> QED
  BY <1>1, <1>2 DEF Offset

(* Later buffers lie behind, with a header each. *)
LEMMA OffsetGrows ==
    ASSUME NEW size \in Nat, NEW i \in Nat, NEW j \in Nat, i <= j
    PROVE  /\ (j - i) * BUFFER_HEADER_LENGTH \in Nat
           /\ Offset(size, i) + (j - i) * BUFFER_HEADER_LENGTH <= Offset(size, j)
<1>1. BUFFER_SIZE \in Nat /\ BUFFER_HEADER_LENGTH \in Nat
  BY FramingAssumption
<1>2. i * BUFFER_SIZE <= j * BUFFER_SIZE /\ i * BUFFER_SIZE \in Nat /\ j * BUFFER_SIZE \in Nat
  BY <1>1, Multiples
<1>3. Covered(size, i) <= Covered(size, j) /\ Covered(size, i) \in Nat /\ Covered(size, j) \in Nat
  BY <1>2 DEF Covered
<1>4. /\ j * BUFFER_HEADER_LENGTH = i * BUFFER_HEADER_LENGTH + (j - i) * BUFFER_HEADER_LENGTH
      /\ i * BUFFER_HEADER_LENGTH \in Nat /\ j * BUFFER_HEADER_LENGTH \in Nat
  BY <1>1, Multiples
<1>5. (j - i) * BUFFER_HEADER_LENGTH \in Nat
  <2>1. j - i \in Nat
    OBVIOUS
  <2> QED
    BY <1>1, <2>1
<1> QED
  BY <1>3, <1>4, <1>5 DEF Offset


-----------------------------------------------------------------------------
(* What WriteBuffers writes.                                                 *)
HasLengths(S) == \A n, i \in Nat : <<"length", n, i>> \in S
Size(m, j) == Covered(Len(m), j + 1) - Covered(Len(m), j)
At(m, j)   == Offset(Len(m), j)

(* Bytes that begin with n buffers of a message, or with a part of them: the *)
(* header of a buffer names its size, and the bytes of the message follow.   *)
Framed(bytes, m, n) ==
    \A j \in 0 .. n - 1 :
        /\ At(m, j) + 1 <= Len(bytes) => bytes[At(m, j) + 1][2] = Size(m, j)
        /\ \A i \in 1 .. Size(m, j) :
              At(m, j) + BUFFER_HEADER_LENGTH + i <= Len(bytes) =>
                  bytes[At(m, j) + BUFFER_HEADER_LENGTH + i] = m[Covered(Len(m), j) + i]

LEMMA PlaceFacts ==
    ASSUME NEW S, NEW m \in Seq(S), NEW j \in Nat
    PROVE  /\ Len(m) \in Nat /\ At(m, j) \in Nat /\ At(m, 0) = 0 /\ Size(m, j) \in Nat
           /\ At(m, j + 1) = At(m, j) + BUFFER_HEADER_LENGTH + Size(m, j)
           /\ Covered(Len(m), j) \in 0 .. Len(m) /\ Covered(Len(m), 0) = 0
           /\ Covered(Len(m), j + 1) = Covered(Len(m), j) + Size(m, j)
           /\ Covered(Len(m), j + 1) \in 0 .. Len(m)
           /\ BUFFER_HEADER_LENGTH \in Nat \ {0} /\ Count(Len(m)) \in Nat
           /\ j < Count(Len(m)) => Size(m, j) # 0
           /\ j >= Count(Len(m)) => Size(m, j) = 0 /\ Covered(Len(m), j) = Len(m)
<1>1. Len(m) \in Nat
  BY LenProperties
<1>2. /\ Offset(Len(m), j) \in Nat /\ Offset(Len(m), 0) = 0
      /\ Offset(Len(m), j + 1) = Offset(Len(m), j) + BUFFER_HEADER_LENGTH + Size(m, j)
      /\ Size(m, j) \in Nat
  BY <1>1, OffsetFacts DEF Size
<1>3. /\ Covered(Len(m), j) \in 0 .. Len(m) /\ Covered(Len(m), 0) = 0
      /\ j < Count(Len(m)) => Covered(Len(m), j) < Covered(Len(m), j + 1)
      /\ j >= Count(Len(m)) => Covered(Len(m), j) = Len(m)
  BY <1>1, CoveredFacts
<1>4. /\ Covered(Len(m), j + 1) \in 0 .. Len(m)
      /\ j + 1 >= Count(Len(m)) => Covered(Len(m), j + 1) = Len(m)
  <2>1. j + 1 \in Nat
    OBVIOUS
  <2> QED
    BY <1>1, <2>1, CoveredFacts
<1>5. Count(Len(m)) \in Nat
  BY <1>1, CountFacts
<1>6. Size(m, j) = Covered(Len(m), j + 1) - Covered(Len(m), j)
  BY DEF Size
<1>7. BUFFER_HEADER_LENGTH \in Nat \ {0}
  BY FramingAssumption
<1>8. Covered(Len(m), j + 1) = Covered(Len(m), j) + Size(m, j)
  BY <1>1, <1>3, <1>4, <1>6
<1>9. j < Count(Len(m)) => Size(m, j) # 0
  BY <1>1, <1>3, <1>4, <1>6
<1>10. j >= Count(Len(m)) => Size(m, j) = 0 /\ Covered(Len(m), j) = Len(m)
  BY <1>1, <1>3, <1>4, <1>5, <1>6
<1> QED
  BY <1>1, <1>2, <1>3, <1>4, <1>5, <1>7, <1>8, <1>9, <1>10 DEF At

LEMMA SliceIs ==
    ASSUME NEW S, NEW m \in Seq(S), NEW j \in Nat
    PROVE  LET chunk == Slice(m, j * BUFFER_SIZE, (j + 1) * BUFFER_SIZE) IN
           /\ chunk \in Seq(S) /\ Len(chunk) = Size(m, j)
           /\ \A i \in 1 .. Size(m, j) : chunk[i] = m[Covered(Len(m), j) + i]
<1> DEFINE from == j * BUFFER_SIZE
           to == (j + 1) * BUFFER_SIZE
           end == Covered(Len(m), j + 1)
           chunk == Slice(m, from, to)
<1>1. from \in Nat /\ to \in Nat /\ from < to /\ Len(m) \in Nat
  <2>1. BUFFER_SIZE \in Nat \ {0}
    BY FramingAssumption
  <2>2. (j + 1) * BUFFER_SIZE = j * BUFFER_SIZE + BUFFER_SIZE /\ j * BUFFER_SIZE \in Nat
    BY <2>1
  <2> QED
    BY <2>1, <2>2, LenProperties
<1>2. /\ chunk = SubSeq(m, from + 1, end)
      /\ Covered(Len(m), j) = IF from < Len(m) THEN from ELSE Len(m)
      /\ end = IF to < Len(m) THEN to ELSE Len(m)
  BY DEF Slice, Covered
<1>3. Size(m, j) = end - Covered(Len(m), j)
  BY DEF Size
<1> HIDE DEF from, to, end, chunk
<1>4. end \in 0 .. Len(m) /\ Size(m, j) = IF from + 1 <= end THEN end - from ELSE 0
  <2>1. CASE from < Len(m)
    BY <1>1, <1>2, <1>3, <2>1
  <2>2. CASE ~(from < Len(m))
    <3>1. end = Len(m) /\ Covered(Len(m), j) = Len(m)
      BY <1>1, <1>2, <2>2
    <3> QED
      BY <1>1, <1>3, <2>2, <3>1
  <2> QED
    BY <2>1, <2>2
<1>5. \A i \in from + 1 .. end : m[i] \in S
  BY <1>1, <1>4, ElementOfSeq
<1>6. /\ chunk \in Seq(S) /\ Len(chunk) = IF from + 1 <= end THEN end - (from + 1) + 1 ELSE 0
      /\ \A i \in 1 .. end - (from + 1) + 1 : chunk[i] = m[from + 1 + i - 1]
  BY <1>1, <1>2, <1>4, <1>5, SubSeqProperties
<1>7. Len(chunk) = Size(m, j)
  BY <1>1, <1>4, <1>6
<1>8. ASSUME NEW i \in 1 .. Size(m, j) PROVE chunk[i] = m[Covered(Len(m), j) + i]
  <2>1. /\ i \in 1 .. end - (from + 1) + 1 /\ from + 1 + i - 1 = Covered(Len(m), j) + i
    BY <1>1, <1>2, <1>4
  <2> QED
    BY <1>6, <2>1
<1> QED
  BY <1>6, <1>7, <1>8 DEF chunk, from, to

LEMMA HeaderIs ==
    ASSUME NEW S, HasLengths(S), NEW n \in Nat
    PROVE  Header(n) \in Seq(S) /\ Len(Header(n)) = BUFFER_HEADER_LENGTH /\ Header(n)[1][2] = n
<1>1. BUFFER_HEADER_LENGTH \in Nat \ {0}
  BY FramingAssumption
<1>2. \A i \in 1 .. BUFFER_HEADER_LENGTH : <<"length", n, i>> \in S
  BY <1>1 DEF HasLengths
<1>3. Header(n) \in Seq(S) /\ Len(Header(n)) = BUFFER_HEADER_LENGTH
  BY <1>1, <1>2 DEF Header
<1>4. Header(n)[1] = <<"length", n, 1>>
  BY <1>1 DEF Header
<1> QED
  BY <1>3, <1>4

(* A buffer more. *)
LEMMA BuffersGrow ==
    ASSUME NEW S, HasLengths(S), NEW m \in Seq(S), NEW n \in Nat
    PROVE  LET chunk == Slice(m, n * BUFFER_SIZE, (n + 1) * BUFFER_SIZE) IN
           /\ WriteBuffers(m, 0) = <<>>
           /\ WriteBuffers(m, n) \in Seq(S)
           /\ WriteBuffers(m, n + 1) = WriteBuffers(m, n) \o WriteBuffer(chunk)
           /\ WriteBuffer(chunk) \in Seq(S)
<1> DEFINE Buffer(i) == WriteBuffer(Slice(m, (i - 1) * BUFFER_SIZE, i * BUFFER_SIZE))
           All(k) == [i \in 1 .. k |-> Buffer(i)]
<1>1. ASSUME NEW i \in Nat \ {0} PROVE Buffer(i) \in Seq(S)
  <2> DEFINE j == i - 1
             chunk == Slice(m, j * BUFFER_SIZE, (j + 1) * BUFFER_SIZE)
  <2>1. j \in Nat /\ j + 1 = i
    OBVIOUS
  <2>2. Buffer(i) = WriteBuffer(chunk)
    BY <2>1
  <2> HIDE DEF j
  <2>3. chunk \in Seq(S) /\ Len(chunk) \in Nat
    BY <2>1, SliceIs, LenProperties
  <2> HIDE DEF chunk, Buffer
  <2>4. Header(Len(chunk)) \in Seq(S)
    BY <2>3, HeaderIs
  <2> QED
    BY <2>2, <2>3, <2>4, ConcatProperties DEF WriteBuffer
<1>2. WriteBuffers(m, n) = FlattenSeq(All(n)) /\ WriteBuffers(m, n + 1) = FlattenSeq(All(n + 1))
      /\ WriteBuffers(m, 0) = FlattenSeq(All(0))
  BY Zenon DEF WriteBuffers
<1>3. Buffer(n + 1) = WriteBuffer(Slice(m, n * BUFFER_SIZE, (n + 1) * BUFFER_SIZE))
  <2>1. (n + 1) - 1 = n
    OBVIOUS
  <2> QED
    BY <2>1, Zenon
<1> HIDE DEF Buffer
<1>4. All(n) \in Seq(Seq(S))
  BY <1>1
<1>5. All(n + 1) = Append(All(n), Buffer(n + 1))
  <2> DEFINE t == Append(All(n), Buffer(n + 1))
  <2>1. /\ t \in Seq(Seq(S)) /\ Len(t) = n + 1 /\ Len(All(n)) = n
        /\ t[n + 1] = Buffer(n + 1) /\ \A i \in 1 .. n : t[i] = All(n)[i]
    BY <1>1, <1>4, AppendProperties
  <2>2. /\ All(n + 1) \in Seq(Seq(S)) /\ Len(All(n + 1)) = n + 1
    BY <1>1
  <2>3. \A i \in 1 .. n + 1 : t[i] = All(n + 1)[i]
    BY <2>1
  <2> HIDE DEF t, All
  <2>4. t = All(n + 1)
    BY <2>1, <2>2, <2>3, SeqEqual
  <2> QED
    BY <2>4 DEF t
<1>6. All(0) = <<>>
  OBVIOUS
<1>7. Buffer(n + 1) \in Seq(S)
  BY <1>1
<1> HIDE DEF All
<1> QED
  BY <1>2, <1>3, <1>4, <1>5, <1>6, <1>7, FlattenAppend, FlattenType

LEMMA AtGrows ==
    ASSUME NEW S, NEW m \in Seq(S), NEW i \in Nat, NEW j \in Nat, i <= j
    PROVE  At(m, i) <= At(m, j) /\ At(m, i) \in Nat /\ At(m, j) \in Nat
<1>1. Len(m) \in Nat
  BY LenProperties
<1>2. /\ (j - i) * BUFFER_HEADER_LENGTH \in Nat
      /\ Offset(Len(m), i) + (j - i) * BUFFER_HEADER_LENGTH <= Offset(Len(m), j)
  BY <1>1, OffsetGrows
<1>3. At(m, i) \in Nat /\ At(m, j) \in Nat
  BY PlaceFacts
<1> QED
  BY <1>2, <1>3 DEF At

LEMMA BufferIs ==
    ASSUME NEW S, HasLengths(S), NEW m \in Seq(S), NEW n \in Nat
    PROVE  LET b == WriteBuffer(Slice(m, n * BUFFER_SIZE, (n + 1) * BUFFER_SIZE)) IN
           /\ Len(b) = BUFFER_HEADER_LENGTH + Size(m, n) /\ b[1][2] = Size(m, n)
           /\ \A i \in 1 .. Size(m, n) : b[BUFFER_HEADER_LENGTH + i] = m[Covered(Len(m), n) + i]
           /\ Size(m, n) = 0 => b = Header(0)
<1> DEFINE chunk == Slice(m, n * BUFFER_SIZE, (n + 1) * BUFFER_SIZE)
<1>1. /\ chunk \in Seq(S) /\ Len(chunk) = Size(m, n)
      /\ \A i \in 1 .. Size(m, n) : chunk[i] = m[Covered(Len(m), n) + i]
  BY SliceIs
<1>2. Size(m, n) \in Nat /\ BUFFER_HEADER_LENGTH \in Nat \ {0}
  BY PlaceFacts
<1>3. /\ Header(Size(m, n)) \in Seq(S) /\ Len(Header(Size(m, n))) = BUFFER_HEADER_LENGTH
      /\ Header(Size(m, n))[1][2] = Size(m, n)
  BY <1>2, HeaderIs
<1> DEFINE h == Header(Size(m, n))
           b == h \o chunk
<1> HIDE DEF chunk, h
<1>4. WriteBuffer(chunk) = b
  BY <1>1 DEF WriteBuffer, h
<1>5. /\ Len(b) = BUFFER_HEADER_LENGTH + Size(m, n)
      /\ \A i \in 1 .. BUFFER_HEADER_LENGTH + Size(m, n) :
            b[i] = IF i <= BUFFER_HEADER_LENGTH THEN h[i] ELSE chunk[i - BUFFER_HEADER_LENGTH]
  <2>1. h \in Seq(S) /\ Len(h) = BUFFER_HEADER_LENGTH
    BY <1>3 DEF h
  <2>2. /\ Len(b) = Len(h) + Len(chunk)
        /\ \A i \in 1 .. Len(h) + Len(chunk) :
              b[i] = IF i <= Len(h) THEN h[i] ELSE chunk[i - Len(h)]
    BY <1>1, <2>1, ConcatProperties
  <2> QED
    BY <1>1, <2>1, <2>2
<1> HIDE DEF b
<1>6. b[1][2] = Size(m, n)
  BY <1>2, <1>3, <1>5 DEF h
<1>7. ASSUME NEW i \in 1 .. Size(m, n)
      PROVE  b[BUFFER_HEADER_LENGTH + i] = m[Covered(Len(m), n) + i]
  <2> DEFINE x == BUFFER_HEADER_LENGTH + i
  <2>1. /\ x \in 1 .. BUFFER_HEADER_LENGTH + Size(m, n) /\ ~(x <= BUFFER_HEADER_LENGTH)
        /\ x - BUFFER_HEADER_LENGTH = i
    BY <1>2
  <2> HIDE DEF x
  <2>2. b[x] = chunk[i]
    BY <1>5, <2>1
  <2> QED
    BY <1>1, <2>2 DEF x
<1>8. Size(m, n) = 0 => b = Header(0)
  <2> SUFFICES ASSUME Size(m, n) = 0 PROVE b = Header(0)
    OBVIOUS
  <2>1. chunk = <<>>
    BY <1>1, EmptySeq
  <2> QED
    BY <1>3, <2>1, ConcatEmptySeq DEF b, h
<1> QED
  BY <1>4, <1>5, <1>6, <1>7, <1>8 DEF chunk

LEMMA BuffersAre ==
    ASSUME NEW S, HasLengths(S), NEW m \in Seq(S), NEW n \in Nat
    PROVE  /\ WriteBuffers(m, n) \in Seq(S) /\ Len(WriteBuffers(m, n)) = At(m, n)
           /\ Framed(WriteBuffers(m, n), m, n)
<1> DEFINE Good == {k \in Nat : /\ Len(WriteBuffers(m, k)) = At(m, k)
                                /\ Framed(WriteBuffers(m, k), m, k)}
<1>1. 0 \in Good
  <2>1. WriteBuffers(m, 0) = <<>> /\ At(m, 0) = 0
    BY BuffersGrow, PlaceFacts
  <2>2. Framed(<<>>, m, 0)
    BY DEF Framed
  <2> QED
    BY <2>1, <2>2, EmptySeq
<1>2. ASSUME NEW k \in Nat, k \in Good PROVE k + 1 \in Good
  <2> DEFINE w == WriteBuffers(m, k)
             b == WriteBuffer(Slice(m, k * BUFFER_SIZE, (k + 1) * BUFFER_SIZE))
             v == w \o b
             H == BUFFER_HEADER_LENGTH
  <2>1. w \in Seq(S) /\ b \in Seq(S) /\ WriteBuffers(m, k + 1) = v
    BY BuffersGrow
  <2>2. /\ Len(b) = H + Size(m, k) /\ b[1][2] = Size(m, k)
        /\ \A i \in 1 .. Size(m, k) : b[H + i] = m[Covered(Len(m), k) + i]
    BY BufferIs
  <2>3. Len(w) = At(m, k) /\ Framed(w, m, k)
    BY <1>2
  <2>4. /\ H \in Nat \ {0} /\ Size(m, k) \in Nat /\ At(m, k) \in Nat
        /\ At(m, k + 1) = At(m, k) + H + Size(m, k)
    BY PlaceFacts
  <2> HIDE DEF w, b, H
  <2>5. /\ Len(v) = At(m, k) + H + Size(m, k)
        /\ \A x \in 1 .. At(m, k) : v[x] = w[x]
        /\ \A x \in 1 .. H + Size(m, k) : v[At(m, k) + x] = b[x]
    <3>1. /\ Len(v) = Len(w) + Len(b)
          /\ \A x \in 1 .. Len(w) + Len(b) : v[x] = IF x <= Len(w) THEN w[x] ELSE b[x - Len(w)]
      BY <2>1, ConcatProperties
    <3> HIDE DEF v
    <3>2. ASSUME NEW x \in 1 .. H + Size(m, k) PROVE v[At(m, k) + x] = b[x]
      <4> DEFINE y == At(m, k) + x
      <4>1. y \in 1 .. Len(w) + Len(b) /\ ~(y <= Len(w)) /\ y - Len(w) = x
        BY <2>2, <2>3, <2>4
      <4> HIDE DEF y
      <4>2. v[y] = b[x]
        BY <3>1, <4>1
      <4> QED
        BY <4>2 DEF y
    <3>3. \A x \in 1 .. At(m, k) : x \in 1 .. Len(w) + Len(b) /\ x <= Len(w)
      BY <2>2, <2>3, <2>4
    <3> QED
      BY <2>2, <2>3, <2>4, <3>1, <3>2, <3>3
  <2> HIDE DEF v
  <2>6. ASSUME NEW j \in 0 .. (k + 1) - 1
        PROVE  /\ v[At(m, j) + 1][2] = Size(m, j)
               /\ \A i \in 1 .. Size(m, j) :
                     v[At(m, j) + H + i] = m[Covered(Len(m), j) + i]
    <3>1. CASE j = k
      <4>1. v[At(m, k) + 1] = b[1]
        BY <2>4, <2>5
      <4>2. ASSUME NEW i \in 1 .. Size(m, k) PROVE v[At(m, k) + H + i] = b[H + i]
        <5>1. H + i \in 1 .. H + Size(m, k) /\ At(m, k) + (H + i) = At(m, k) + H + i
          BY <2>4
        <5> QED
          BY <2>5, <5>1
      <4> QED
        BY <2>2, <3>1, <4>1, <4>2
    <3>2. CASE j # k
      <4>1. j \in 0 .. k - 1 /\ j \in Nat /\ j + 1 \in Nat /\ j + 1 <= k
        BY <3>2
      <4>2. /\ At(m, j) \in Nat /\ Size(m, j) \in Nat
            /\ At(m, j + 1) = At(m, j) + H + Size(m, j)
        BY <4>1, PlaceFacts DEF H
      <4>3. At(m, j + 1) <= At(m, k)
        BY <4>1, AtGrows
      <4>4. /\ At(m, j) + 1 <= At(m, k) => w[At(m, j) + 1][2] = Size(m, j)
            /\ \A i \in 1 .. Size(m, j) : At(m, j) + H + i <= At(m, k) =>
                  w[At(m, j) + H + i] = m[Covered(Len(m), j) + i]
        BY <2>3, <4>1 DEF Framed, H
      <4>5. At(m, j) + 1 \in 1 .. At(m, k)
        BY <2>4, <4>2, <4>3
      <4>6. ASSUME NEW i \in 1 .. Size(m, j) PROVE At(m, j) + H + i \in 1 .. At(m, k)
        BY <2>4, <4>2, <4>3
      <4>7. v[At(m, j) + 1][2] = Size(m, j)
        BY <2>5, <4>4, <4>5
      <4>8. ASSUME NEW i \in 1 .. Size(m, j)
            PROVE  v[At(m, j) + H + i] = m[Covered(Len(m), j) + i]
        BY <2>5, <4>4, <4>6
      <4> QED
        BY <4>7, <4>8
    <3> QED
      BY <3>1, <3>2
  <2>7. Framed(v, m, k + 1)
    BY <2>6 DEF Framed, H
  <2> QED
    BY <2>1, <2>4, <2>5, <2>7
<1> HIDE DEF Good
<1>3. n \in Good
  BY <1>1, <1>2, InductionOnNat
<1> QED
  BY <1>3, BuffersGrow DEF Good

(* What follows the last byte of a message are headers of no bytes: its end. *)
LEMMA EndIsABuffer ==
    ASSUME NEW S, HasLengths(S), NEW m \in Seq(S), NEW n \in Nat, n >= Count(Len(m))
    PROVE  WriteBuffers(m, n + 1) = WriteBuffers(m, n) \o Header(0)
<1> DEFINE b == WriteBuffer(Slice(m, n * BUFFER_SIZE, (n + 1) * BUFFER_SIZE))
<1>1. Size(m, n) = 0
  BY PlaceFacts
<1>2. b = Header(0)
  BY <1>1, BufferIs
<1>3. WriteBuffers(m, n + 1) = WriteBuffers(m, n) \o b
  BY BuffersGrow
<1> QED
  BY <1>2, <1>3, Zenon

LEMMA FramedMessageIs ==
    ASSUME NEW S, HasLengths(S), NEW m \in Seq(S)
    PROVE  WriteFramedMessage(m) = WriteBuffers(m, Count(Len(m)) + 1)
<1>1. Count(Len(m)) \in Nat
  BY LenProperties, CountFacts
<1>2. WriteBuffers(m, Count(Len(m)) + 1) = WriteBuffers(m, Count(Len(m))) \o Header(0)
  <2>1. Count(Len(m)) >= Count(Len(m))
    BY <1>1
  <2> QED
    BY <1>1, <2>1, EndIsABuffer
<1> QED
  BY <1>2 DEF WriteFramedMessage, Count

-----------------------------------------------------------------------------
(* TakeBuffers is TakeBuffer again and again: FoldLeft takes the greatest of *)
(* the numbers that are left, and does not look at it.                       *)
LEMMA MaxIs ==
    ASSUME NEW S, S \subseteq Nat, S # {}, NEW n \in Nat, \A s \in S : s <= n
    PROVE  Max(S) \in S /\ \A s \in S : s <= Max(S)
<1> DEFINE room == {n - s : s \in S}
<1>1. room \subseteq Nat /\ room # {}
  <2>1. \A s \in S : n - s \in Nat
    OBVIOUS
  <2>2. \A r \in room : r \in Nat
    BY <2>1
  <2>3. PICK s \in S : TRUE
    OBVIOUS
  <2>4. n - s \in room
    OBVIOUS
  <2> QED
    BY <2>2, <2>4
<1>2. PICK r \in room : \A m \in room : r <= m
  <2> HIDE DEF room
  <2> QED
    BY <1>1, LeastNumber
<1>3. PICK t \in S : r = n - t
  BY <1>2
<1>4. ASSUME NEW s \in S PROVE t >= s
  <2>1. n - s \in room
    OBVIOUS
  <2>2. n - t <= n - s
    BY <1>2, <1>3, <2>1
  <2>3. s \in Nat /\ t \in Nat
    OBVIOUS
  <2> QED
    BY <2>2, <2>3
<1> DEFINE Top(x) == \A y \in S : x >= y
           top == CHOOSE x \in S : Top(x)
<1>5. t \in S /\ Top(t)
  BY <1>4
<1> HIDE DEF Top
<1>6. top \in S /\ Top(top)
  BY <1>5
<1>7. Max(S) = top
  BY DEF Max, Top
<1> HIDE DEF top
<1>8. \A s \in S : top >= s
  BY <1>6 DEF Top
<1>9. \A s \in S : s <= top
  <2> TAKE s \in S
  <2>1. s \in Nat /\ top \in Nat /\ top >= s
    BY <1>6, <1>8
  <2> QED
    BY <2>1
<1> QED
  BY <1>6, <1>7, <1>9


Iterates(f, st, n) == f = [i \in 0 .. n |-> IF i = 0 THEN st ELSE TakeBuffer(f[i - 1])]

LEMMA IteratesIs ==
    ASSUME NEW f, NEW st, NEW n \in Nat, Iterates(f, st, n)
    PROVE  f[0] = st /\ \A i \in 0 .. n - 1 : f[i + 1] = TakeBuffer(f[i])
<1>1. \A i \in 0 .. n : f[i] = IF i = 0 THEN st ELSE TakeBuffer(f[i - 1])
  BY DEF Iterates
<1>2. ASSUME NEW i \in 0 .. n - 1 PROVE f[i + 1] = TakeBuffer(f[i])
  <2> DEFINE j == i + 1
  <2>1. j \in 0 .. n /\ j # 0 /\ j - 1 = i
    OBVIOUS
  <2> HIDE DEF j
  <2>2. f[j] = TakeBuffer(f[i])
    BY <1>1, <2>1
  <2> QED
    BY <2>2 DEF j
<1> QED
  BY <1>1, <1>2

LEMMA IteratesExist ==
    ASSUME NEW st, NEW n \in Nat
    PROVE  \E f : Iterates(f, st, n)
<1> DEFINE Good == {k \in Nat : \E f : Iterates(f, st, k)}
<1>1. 0 \in Good
  <2> DEFINE f == [i \in 0 .. 0 |-> st]
  <2>1. f = [i \in 0 .. 0 |-> IF i = 0 THEN st ELSE TakeBuffer(f[i - 1])]
    OBVIOUS
  <2> HIDE DEF f
  <2>2. Iterates(f, st, 0)
    BY <2>1 DEF Iterates
  <2> QED
    BY <2>2
<1>2. ASSUME NEW k \in Nat, k \in Good PROVE k + 1 \in Good
  <2>1. PICK f : Iterates(f, st, k)
    BY <1>2
  <2> DEFINE g == [i \in 0 .. k + 1 |-> IF i = k + 1 THEN TakeBuffer(f[k]) ELSE f[i]]
  <2>2. f[0] = st /\ \A i \in 0 .. k - 1 : f[i + 1] = TakeBuffer(f[i])
    BY <2>1, IteratesIs
  <2>3. ASSUME NEW i \in 0 .. k + 1 PROVE g[i] = IF i = 0 THEN st ELSE TakeBuffer(g[i - 1])
    <3>1. CASE i = 0
      BY <2>2, <3>1
    <3>2. CASE i = k + 1
      <4>1. g[i] = TakeBuffer(f[k]) /\ i - 1 = k /\ k \in 0 .. k + 1 /\ k # k + 1 /\ i # 0
        BY <3>2
      <4>2. g[i - 1] = f[k]
        BY <4>1
      <4> HIDE DEF g
      <4> QED
        BY <4>1, <4>2
    <3>3. CASE i # 0 /\ i # k + 1
      <4> DEFINE j == i - 1
      <4>1. j \in 0 .. k - 1 /\ j + 1 = i /\ j \in 0 .. k + 1 /\ j # k + 1
        BY <3>3
      <4> HIDE DEF j
      <4>2. g[i] = f[i] /\ g[j] = f[j]
        BY <3>3, <4>1
      <4> HIDE DEF g
      <4>3. f[i] = TakeBuffer(f[j])
        BY <2>2, <4>1
      <4> QED
        BY <3>3, <4>2, <4>3 DEF j
    <3> QED
      BY <3>1, <3>2, <3>3
  <2>4. g = [i \in 0 .. k + 1 |-> IF i = 0 THEN st ELSE TakeBuffer(g[i - 1])]
    <3>1. g = [i \in 0 .. k + 1 |-> g[i]]
      OBVIOUS
    <3> HIDE DEF g
    <3> QED
      BY <2>3, <3>1
  <2> HIDE DEF g
  <2>5. Iterates(g, st, k + 1)
    BY <2>4 DEF Iterates
  <2> QED
    BY <2>5
<1> HIDE DEF Good
<1>3. n \in Good
  BY <1>1, <1>2, InductionOnNat
<1> QED
  BY <1>3 DEF Good

LEMMA WithoutGreatest ==
    ASSUME NEW n \in Nat, NEW s \in SUBSET (1 .. n), s # {}
    PROVE  /\ Cardinality(s) \in 1 .. n /\ s \ {Max(s)} \in SUBSET (1 .. n)
           /\ Cardinality(s \ {Max(s)}) = Cardinality(s) - 1
<1>1. Max(s) \in s
  <2>1. s \subseteq Nat /\ \A x \in s : x <= n
    OBVIOUS
  <2> QED
    BY <2>1, MaxIs
<1>2. IsFiniteSet(1 .. n) /\ Cardinality(1 .. n) = n
  BY FS_Interval
<1>3. IsFiniteSet(s) /\ Cardinality(s) <= n
  BY <1>2, FS_Subset
<1>4. Cardinality(s) \in Nat /\ Cardinality(s) # 0
  BY <1>3, FS_CardinalityType, FS_EmptySet
<1>5. Cardinality(s \ {Max(s)}) = Cardinality(s) - 1
  BY <1>1, <1>3, FS_RemoveElement
<1>6. Cardinality(s) \in 1 .. n
  BY <1>3, <1>4
<1>7. s \ {Max(s)} \in SUBSET (1 .. n)
  OBVIOUS
<1> QED
  BY <1>5, <1>6, <1>7

LEMMA FoldIs ==
    ASSUME NEW st, NEW n \in Nat, NEW f, Iterates(f, st, n)
    PROVE  FoldLeft(LAMBDA s, i : TakeBuffer(s), st, [i \in 1 .. n |-> i]) = f[n]
<1> DEFINE Rec(it) == it = [s \in SUBSET (1 .. n) |->
                              IF s = {} THEN st ELSE TakeBuffer(it[s \ {Max(s)}])]
           fold == CHOOSE it : Rec(it)
           g == [s \in SUBSET (1 .. n) |-> f[Cardinality(s)]]
<1>1. FoldLeft(LAMBDA s, i : TakeBuffer(s), st, [i \in 1 .. n |-> i]) = fold[1 .. n]
  BY DEF FoldLeft, MapThenFoldSet
<1>2. f[0] = st /\ \A i \in 0 .. n - 1 : f[i + 1] = TakeBuffer(f[i])
  BY IteratesIs
<1>3. ASSUME NEW s \in SUBSET (1 .. n)
      PROVE  g[s] = IF s = {} THEN st ELSE TakeBuffer(g[s \ {Max(s)}])
  <2>1. CASE s = {}
    BY <1>2, <2>1, FS_EmptySet
  <2>2. CASE s # {}
    <3> DEFINE c == Cardinality(s)
               r == s \ {Max(s)}
    <3>1. c \in 1 .. n /\ r \in SUBSET (1 .. n) /\ Cardinality(r) = c - 1
      BY <2>2, WithoutGreatest
    <3>2. g[s] = f[c] /\ g[r] = f[c - 1]
      BY <3>1
    <3> HIDE DEF c, r, g
    <3>3. f[c] = TakeBuffer(f[c - 1])
      <4>1. c - 1 \in 0 .. n - 1 /\ (c - 1) + 1 = c
        BY <3>1
      <4> QED
        BY <1>2, <4>1
    <3> QED
      BY <2>2, <3>2, <3>3 DEF r
  <2> QED
    BY <2>1, <2>2
<1>4. Rec(g)
  <2>1. g = [s \in SUBSET (1 .. n) |-> g[s]]
    OBVIOUS
  <2> HIDE DEF g
  <2> QED
    BY <1>3, <2>1
<1> HIDE DEF g, Rec
<1>5. Rec(fold)
  BY <1>4
<1> HIDE DEF fold
<1>6. \A s \in SUBSET (1 .. n) : fold[s] = IF s = {} THEN st ELSE TakeBuffer(fold[s \ {Max(s)}])
  BY <1>5 DEF Rec
<1> DEFINE Good == {k \in Nat : k <= n => fold[1 .. k] = f[k]}
<1>7. 0 \in Good
  <2>1. 1 .. 0 = {} /\ {} \in SUBSET (1 .. n)
    OBVIOUS
  <2> QED
    BY <1>2, <1>6, <2>1
<1>8. ASSUME NEW k \in Nat, k \in Good PROVE k + 1 \in Good
  <2> SUFFICES ASSUME k + 1 <= n PROVE fold[1 .. k + 1] = f[k + 1]
    OBVIOUS
  <2> DEFINE s == 1 .. k + 1
  <2>1. s \in SUBSET (1 .. n) /\ s # {} /\ k + 1 \in s /\ \A x \in s : x <= k + 1
    OBVIOUS
  <2>2. Max(s) = k + 1
    <3>1. s \subseteq Nat
      OBVIOUS
    <3> HIDE DEF s
    <3>2. Max(s) \in s /\ \A x \in s : x <= Max(s)
      BY <2>1, <3>1, MaxIs
    <3>3. Max(s) <= k + 1 /\ k + 1 <= Max(s) /\ Max(s) \in Nat
      BY <2>1, <3>1, <3>2
    <3> QED
      BY <3>3
  <2>3. s \ {k + 1} = 1 .. k
    OBVIOUS
  <2> HIDE DEF s
  <2>4. fold[s] = TakeBuffer(fold[1 .. k])
    BY <1>6, <2>1, <2>2, <2>3
  <2>5. fold[1 .. k] = f[k]
    BY <1>8
  <2>6. f[k + 1] = TakeBuffer(f[k])
    <3>1. k \in 0 .. n - 1
      OBVIOUS
    <3> QED
      BY <1>2, <3>1
  <2> QED
    BY <2>4, <2>5, <2>6 DEF s
<1>9. n \in Good
  <2> HIDE DEF Good
  <2> QED
    BY <1>7, <1>8, InductionOnNat
<1>10. fold[1 .. n] = f[n]
  BY <1>9
<1> QED
  BY <1>1, <1>10, Zenon

LEMMA TakesAre ==
    ASSUME NEW st, NEW n \in Nat, n = Len(st.rest) \div BUFFER_HEADER_LENGTH,
           NEW f, Iterates(f, st, n)
    PROVE  TakeBuffers(st) = f[n]
  BY FoldIs DEF TakeBuffers

-----------------------------------------------------------------------------
(* Where pieces of sequences come from. *)
LEMMA PieceIs ==
    ASSUME NEW S, NEW s \in Seq(S), NEW a \in 0 .. Len(s), NEW b \in a .. Len(s)
    PROVE  /\ SubSeq(s, a + 1, b) \in Seq(S) /\ Len(SubSeq(s, a + 1, b)) = b - a
           /\ \A i \in 1 .. b - a : SubSeq(s, a + 1, b)[i] = s[a + i]
<1>1. Len(s) \in Nat /\ \A i \in a + 1 .. b : s[i] \in S
  BY LenProperties, ElementOfSeq
<1>2. /\ SubSeq(s, a + 1, b) \in Seq(S)
      /\ Len(SubSeq(s, a + 1, b)) = IF a + 1 <= b THEN b - (a + 1) + 1 ELSE 0
      /\ \A i \in 1 .. b - (a + 1) + 1 : SubSeq(s, a + 1, b)[i] = s[a + 1 + i - 1]
  BY <1>1, SubSeqProperties
<1>3. ASSUME NEW i \in 1 .. b - a PROVE SubSeq(s, a + 1, b)[i] = s[a + i]
  <2>1. i \in 1 .. b - (a + 1) + 1 /\ a + 1 + i - 1 = a + i
    BY <1>1
  <2> QED
    BY <1>2, <2>1
<1> QED
  BY <1>1, <1>2, <1>3

LEMMA PieceOfRest ==
    ASSUME NEW S, NEW s \in Seq(S), NEW a \in 0 .. Len(s), NEW d \in 0 .. Len(s) - a
    PROVE  SubSeq(SubSeq(s, a + 1, Len(s)), d + 1, Len(s) - a) = SubSeq(s, (a + d) + 1, Len(s))
<1> DEFINE r == SubSeq(s, a + 1, Len(s))
           t == SubSeq(r, d + 1, Len(s) - a)
           u == SubSeq(s, (a + d) + 1, Len(s))
<1>1. Len(s) \in Nat /\ Len(s) \in a .. Len(s) /\ a + d \in 0 .. Len(s) /\ Len(s) \in a + d .. Len(s)
  BY LenProperties
<1>2. r \in Seq(S) /\ Len(r) = Len(s) - a /\ \A i \in 1 .. Len(s) - a : r[i] = s[a + i]
  BY <1>1, PieceIs
<1> HIDE DEF r
<1>3. d \in 0 .. Len(r) /\ Len(s) - a \in d .. Len(r)
  BY <1>1, <1>2
<1>4. /\ t \in Seq(S) /\ Len(t) = (Len(s) - a) - d
      /\ \A i \in 1 .. (Len(s) - a) - d : t[i] = r[d + i]
  BY <1>2, <1>3, PieceIs
<1>5. /\ u \in Seq(S) /\ Len(u) = Len(s) - (a + d)
      /\ \A i \in 1 .. Len(s) - (a + d) : u[i] = s[(a + d) + i]
  BY <1>1, PieceIs
<1> HIDE DEF t, u
<1>6. (Len(s) - a) - d = Len(s) - (a + d)
  BY <1>1
<1>7. ASSUME NEW i \in 1 .. Len(t) PROVE t[i] = u[i]
  <2>1. d + i \in 1 .. Len(s) - a /\ a + (d + i) = (a + d) + i
    BY <1>1, <1>4, <1>6
  <2>2. t[i] = r[d + i] /\ u[i] = s[(a + d) + i]
    BY <1>4, <1>5, <1>6
  <2>3. r[d + i] = s[a + (d + i)]
    BY <1>2, <2>1
  <2> QED
    BY <2>1, <2>2, <2>3
<1>8. t = u
  BY <1>4, <1>5, <1>6, <1>7, SeqEqual
<1> QED
  BY <1>8 DEF t, u, r

(* A reader that has taken j buffers of what it received, and no more.       *)
Taken(st, m, bytes, j) ==
    /\ {"rest", "message", "ended"} \subseteq DOMAIN st /\ st.ended \in BOOLEAN
    /\ At(m, j) <= Len(bytes)
    /\ st.message = SubSeq(m, 1, Covered(Len(m), j))
    /\ st.rest = SubSeq(bytes, At(m, j) + 1, Len(bytes))
    /\ "fired" \in DOMAIN st => st.fired = <<>>

LEMMA TakeOne ==
    ASSUME NEW S, NEW m \in Seq(S), NEW bytes \in Seq(S), Framed(bytes, m, Count(Len(m)) + 1),
           NEW j \in 0 .. Count(Len(m)), NEW st, Taken(st, m, bytes, j), ~st.ended
    PROVE  LET t == TakeBuffer(st) IN
           /\ Len(bytes) < At(m, j + 1) => t = st
           /\ Len(bytes) >= At(m, j + 1) /\ j = Count(Len(m)) =>
                 Taken(t, m, bytes, j) /\ t.ended = TRUE
           /\ Len(bytes) >= At(m, j + 1) /\ j < Count(Len(m)) =>
                 Taken(t, m, bytes, j + 1) /\ t.ended = FALSE
<1> DEFINE H == BUFFER_HEADER_LENGTH
           n == Len(bytes)
           a == At(m, j)
           size == Size(m, j)
           r == st.rest
           t == TakeBuffer(st)
           last == Count(Len(m))
<1>1. /\ j \in Nat /\ n \in Nat /\ a \in Nat /\ size \in Nat /\ H \in Nat \ {0} /\ last \in Nat
      /\ At(m, j + 1) = a + H + size /\ Len(m) \in Nat
      /\ Covered(Len(m), j) \in 0 .. Len(m) /\ Covered(Len(m), j + 1) \in 0 .. Len(m)
      /\ Covered(Len(m), j + 1) = Covered(Len(m), j) + size
      /\ j < last => size # 0
      /\ j >= last => size = 0
  <2>1. j \in Nat
    BY PlaceFacts
  <2> QED
    BY <2>1, PlaceFacts, LenProperties
<1>2. /\ a <= n /\ r = SubSeq(bytes, a + 1, n) /\ st.ended = FALSE
      /\ {"rest", "message", "ended"} \subseteq DOMAIN st
      /\ st.message = SubSeq(m, 1, Covered(Len(m), j))
      /\ "fired" \in DOMAIN st => st.fired = <<>>
  BY DEF Taken
<1>3. r \in Seq(S) /\ Len(r) = n - a /\ \A i \in 1 .. n - a : r[i] = bytes[a + i]
  <2>1. a \in 0 .. n /\ n \in a .. n
    BY <1>1, <1>2
  <2> QED
    BY <1>2, <2>1, PieceIs
<1>4. /\ a + 1 <= n => bytes[a + 1][2] = size
      /\ \A i \in 1 .. size : a + H + i <= n => bytes[a + H + i] = m[Covered(Len(m), j) + i]
  <2>1. j \in 0 .. (last + 1) - 1
    BY <1>1
  <2> QED
    BY <2>1 DEF Framed
<1>5. t = IF Len(r) < H THEN st
          ELSE IF r[1][2] = 0 THEN [st EXCEPT !.ended = TRUE]
          ELSE IF Len(r) < H + r[1][2] THEN st
          ELSE [st EXCEPT !.message = st.message \o SubSeq(r, H + 1, H + r[1][2]),
                          !.rest = SubSeq(r, H + r[1][2] + 1, Len(r))]
  BY <1>2 DEF TakeBuffer
<1> HIDE DEF H, n, a, size, r, t, last
<1>6. Len(r) >= H => r[1][2] = size
  <2> SUFFICES ASSUME Len(r) >= H PROVE r[1][2] = size
    OBVIOUS
  <2>1. 1 \in 1 .. n - a /\ a + 1 <= n
    BY <1>1, <1>2, <1>3
  <2> QED
    BY <1>3, <1>4, <2>1
<1>7. CASE n < At(m, j + 1)
  <2>1. CASE Len(r) < H
    BY <1>1, <1>5, <1>7, <2>1 DEF n, t, last
  <2>2. CASE ~(Len(r) < H)
    <3>1. r[1][2] = size /\ size # 0 /\ Len(r) < H + size
      BY <1>1, <1>2, <1>3, <1>6, <1>7, <2>2
    <3>2. t = st
      BY <1>5, <2>2, <3>1
    <3> QED
      BY <1>1, <1>7, <3>2 DEF n, t, last
  <2> QED
    BY <2>1, <2>2
<1>8. CASE n >= At(m, j + 1)
  <2>1. ~(Len(r) < H) /\ r[1][2] = size /\ ~(Len(r) < H + size)
    <3>1. Len(r) >= H + size /\ Len(r) >= H
      BY <1>1, <1>2, <1>3, <1>8
    <3>2. ~(Len(r) < H) /\ ~(Len(r) < H + size)
      BY <1>1, <1>3, <3>1, SMTT(20)
    <3>3. r[1][2] = size
      BY <1>6, <3>1, Zenon
    <3> QED
      BY <3>2, <3>3
  <2>2. CASE j = last
    <3>1. size = 0
      BY <1>1, <2>2
    <3>2. t = [st EXCEPT !.ended = TRUE]
      BY <1>5, <2>1, <3>1
    <3>3. /\ t.ended = TRUE /\ t.message = st.message /\ t.rest = r /\ DOMAIN t = DOMAIN st
          /\ "fired" \in DOMAIN st => t.fired = st.fired
      BY <1>2, <3>2 DEF r
    <3>4. Taken(t, m, bytes, j)
      BY <1>2, <3>3 DEF Taken, a, n
    <3> QED
      BY <1>1, <1>8, <2>2, <3>3, <3>4 DEF n, t, last
  <2>3. CASE j < last
    <3> DEFINE chunk == SubSeq(r, H + 1, H + size)
    <3>1. size # 0
      BY <1>1, <2>3
    <3>2. t = [st EXCEPT !.message = st.message \o chunk,
                         !.rest = SubSeq(r, H + size + 1, Len(r))]
      BY <1>5, <2>1, <3>1
    <3>3. /\ t.ended = FALSE /\ t.message = st.message \o chunk
          /\ t.rest = SubSeq(r, H + size + 1, Len(r)) /\ DOMAIN t = DOMAIN st
          /\ "fired" \in DOMAIN st => t.fired = st.fired
      BY <1>2, <3>2
    <3>4. SubSeq(r, H + size + 1, Len(r)) = SubSeq(bytes, At(m, j + 1) + 1, n)
      <4> DEFINE d == H + size
      <4>1. a \in 0 .. n /\ d \in 0 .. n - a /\ a + d = At(m, j + 1)
        BY <1>1, <1>2, <1>3, <2>1
      <4> HIDE DEF d
      <4>2. SubSeq(SubSeq(bytes, a + 1, n), d + 1, n - a) = SubSeq(bytes, (a + d) + 1, n)
        BY <4>1, PieceOfRest DEF n
      <4> QED
        BY <1>2, <1>3, <4>1, <4>2 DEF d
    <3>5. chunk = SubSeq(m, Covered(Len(m), j) + 1, Covered(Len(m), j + 1))
      <4> DEFINE c == Covered(Len(m), j)
                 u == SubSeq(m, c + 1, c + size)
      <4>1. H \in 0 .. Len(r) /\ H + size \in H .. Len(r)
        BY <1>1, <1>3, <2>1
      <4>2. /\ chunk \in Seq(S) /\ Len(chunk) = (H + size) - H
            /\ \A i \in 1 .. (H + size) - H : chunk[i] = r[H + i]
        BY <1>3, <4>1, PieceIs
      <4>3. c \in 0 .. Len(m) /\ c + size \in c .. Len(m)
        BY <1>1
      <4>4. u \in Seq(S) /\ Len(u) = (c + size) - c /\ \A i \in 1 .. (c + size) - c : u[i] = m[c + i]
        BY <4>3, PieceIs
      <4> HIDE DEF chunk, u
      <4>5. (H + size) - H = size /\ (c + size) - c = size
        BY <1>1, <4>3
      <4>6. ASSUME NEW i \in 1 .. size PROVE chunk[i] = u[i]
        <5>1. H + i \in 1 .. n - a /\ a + H + i <= n /\ a + (H + i) = a + H + i
          BY <1>1, <1>2, <1>3, <2>1
        <5>2. r[H + i] = bytes[a + H + i]
          BY <1>3, <5>1
        <5>3. bytes[a + H + i] = m[c + i]
          BY <1>4, <5>1
        <5> QED
          BY <4>2, <4>4, <4>5, <5>2, <5>3
      <4>7. chunk = u
        BY <4>2, <4>4, <4>5, <4>6, SeqEqual
      <4> QED
        BY <1>1, <4>7 DEF u
    <3>6. st.message \o chunk = SubSeq(m, 1, Covered(Len(m), j + 1))
      <4> DEFINE c == Covered(Len(m), j)
                 e == Covered(Len(m), j + 1)
      <4>1. 1 \in 1 .. Len(m) + 1 /\ c \in 1 - 1 .. Len(m) /\ e \in c .. Len(m)
        BY <1>1
      <4> HIDE DEF c, e
      <4>2. SubSeq(m, 1, c) \o SubSeq(m, c + 1, e) = SubSeq(m, 1, e)
        BY <4>1, ConcatAdjacentSubSeq
      <4> QED
        BY <1>2, <3>5, <4>2 DEF c, e
    <3> HIDE DEF chunk
    <3>7. Taken(t, m, bytes, j + 1)
      BY <1>2, <1>8, <3>3, <3>4, <3>6 DEF Taken, n
    <3> QED
      BY <1>1, <1>8, <2>3, <3>3, <3>7 DEF n, t, last
  <2>4. j = last \/ j < last
    BY <1>1 DEF last
  <2> QED
    BY <2>2, <2>3, <2>4
<1> QED
  BY <1>1, <1>7, <1>8 DEF n

(* What TakeBuffers leaves of bytes: it has ended with the message if and    *)
(* only if they reach behind the last header.                                *)
Read(st, m, bytes) ==
    \E j \in 0 .. Count(Len(m)) :
        /\ Taken(st, m, bytes, j)
        /\ IF Len(bytes) >= At(m, Count(Len(m)) + 1)
           THEN st.ended = TRUE /\ j = Count(Len(m)) ELSE st.ended = FALSE

(* On the way there: each round but the last takes a buffer more.            *)
Reached(st, m, bytes, i) ==
    \E j \in 0 .. Count(Len(m)) :
        /\ Taken(st, m, bytes, j)
        /\ \/ st.ended = TRUE /\ j = Count(Len(m)) /\ Len(bytes) >= At(m, Count(Len(m)) + 1)
           \/ st.ended = FALSE /\ (Len(bytes) < At(m, j + 1) \/ j >= i)

LEMMA TakesAll ==
    ASSUME NEW S, NEW m \in Seq(S), NEW bytes \in Seq(S), Framed(bytes, m, Count(Len(m)) + 1),
           NEW k \in 0 .. Count(Len(m)), NEW st, Taken(st, m, bytes, k), ~st.ended
    PROVE  Read(TakeBuffers(st), m, bytes)
<1> DEFINE last == Count(Len(m))
           N == Len(st.rest) \div BUFFER_HEADER_LENGTH
           H == BUFFER_HEADER_LENGTH
           L == Len(bytes)
<1>1. /\ last \in Nat /\ k \in Nat /\ H \in Nat \ {0} /\ L \in Nat
      /\ \A j \in Nat : At(m, j) \in Nat
  <2>1. \A j \in Nat : At(m, j) \in Nat
    BY PlaceFacts
  <2>2. last \in Nat /\ H \in Nat \ {0}
    BY PlaceFacts
  <2> QED
    BY <2>1, <2>2, LenProperties
<1>2. At(m, k) <= L /\ Len(st.rest) = L - At(m, k)
  <2>1. At(m, k) <= L /\ st.rest = SubSeq(bytes, At(m, k) + 1, L)
    BY DEF Taken
  <2>2. At(m, k) \in 0 .. L /\ L \in At(m, k) .. L
    BY <1>1, <2>1
  <2> HIDE DEF L
  <2>3. Len(SubSeq(bytes, At(m, k) + 1, L)) = L - At(m, k)
    BY <2>2, PieceIs DEF L
  <2> QED
    BY <2>1, <2>3
<1>3. N \in Nat /\ Len(st.rest) < H * N + H
  <2>1. Len(st.rest) \in Nat
    <3>1. At(m, k) \in Nat /\ L \in Nat
      BY <1>1
    <3> HIDE DEF L
    <3> QED
      BY <1>2, <3>1
  <2> QED
    BY <1>1, <2>1, Division
<1>4. PICK f : Iterates(f, st, N)
  <2> HIDE DEF N
  <2> QED
    BY <1>3, IteratesExist
<1>5. TakeBuffers(st) = f[N]
  BY <1>3, <1>4, TakesAre
<1> HIDE DEF last, N, H, L
<1>6. f[0] = st /\ \A i \in 0 .. N - 1 : f[i + 1] = TakeBuffer(f[i])
  BY <1>3, <1>4, IteratesIs
<1> DEFINE Good == {i \in Nat : i <= N => Reached(f[i], m, bytes, k + i)}
<1>7. 0 \in Good
  <2>1. st.ended = FALSE /\ k >= k + 0 /\ k \in 0 .. last
    BY <1>1 DEF Taken, last
  <2> DEFINE e == k + 0
  <2>2. Taken(f[0], m, bytes, k) /\ f[0].ended = FALSE /\ k >= e
    BY <1>6, <2>1
  <2> HIDE DEF e
  <2>3. Reached(f[0], m, bytes, e)
    BY <2>1, <2>2 DEF Reached, last
  <2> QED
    <3>1. 0 \in Nat
      OBVIOUS
    <3> QED
      BY <2>3, <3>1, Zenon DEF e
<1>8. ASSUME NEW i \in Nat, i \in Good PROVE i + 1 \in Good
  <2> SUFFICES ASSUME i + 1 <= N PROVE Reached(f[i + 1], m, bytes, k + (i + 1))
    OBVIOUS
  <2> DEFINE s == f[i]
             t == f[i + 1]
  <2>1. i <= N /\ i \in 0 .. N - 1
    BY <1>3
  <2>2. Reached(s, m, bytes, k + i) /\ t = TakeBuffer(s)
    BY <1>6, <1>8, <2>1
  <2> HIDE DEF s, t
  <2>3. PICK j \in 0 .. last :
           /\ Taken(s, m, bytes, j)
           /\ \/ s.ended = TRUE /\ j = last /\ L >= At(m, last + 1)
              \/ s.ended = FALSE /\ (L < At(m, j + 1) \/ j >= k + i)
    BY <2>2 DEF Reached, last, L
  <2>4. CASE s.ended = TRUE
    <3>1. t = s
      BY <2>2, <2>4 DEF TakeBuffer
    <3>2. Taken(t, m, bytes, j) /\ t.ended = TRUE /\ j = last /\ L >= At(m, last + 1)
      BY <2>3, <2>4, <3>1
    <3> QED
      BY <3>2 DEF Reached, last, L, t
  <2>5. CASE s.ended = FALSE
    <3>1. /\ Taken(s, m, bytes, j) /\ ~s.ended /\ j \in 0 .. Count(Len(m))
          /\ L < At(m, j + 1) \/ j >= k + i
      BY <2>3, <2>5 DEF last
    <3>2. /\ L < At(m, j + 1) => t = s
          /\ L >= At(m, j + 1) /\ j = last => Taken(t, m, bytes, j) /\ t.ended = TRUE
          /\ L >= At(m, j + 1) /\ j < last => Taken(t, m, bytes, j + 1) /\ t.ended = FALSE
      BY <2>2, <3>1, TakeOne DEF L, last
    <3>3. CASE L < At(m, j + 1)
      <4>1. Taken(t, m, bytes, j) /\ t.ended = FALSE /\ L < At(m, j + 1)
        BY <2>5, <3>1, <3>2, <3>3
      <4> QED
        BY <4>1 DEF Reached, last, L, t
    <3>4. CASE ~(L < At(m, j + 1))
      <4>1. At(m, j + 1) \in Nat /\ L >= At(m, j + 1) /\ j >= k + i
        <5>1. j + 1 \in Nat
          BY <1>1
        <5> QED
          BY <1>1, <3>1, <3>4, <5>1
      <4>2. CASE j = last
        <5>1. Taken(t, m, bytes, j) /\ t.ended = TRUE /\ L >= At(m, last + 1)
          BY <3>2, <4>1, <4>2
        <5> QED
          BY <4>2, <5>1 DEF Reached, last, L, t
      <4>3. CASE j # last
        <5>1. j < last /\ j + 1 \in 0 .. last /\ j + 1 >= k + (i + 1)
          BY <1>1, <4>1, <4>3
        <5>2. Taken(t, m, bytes, j + 1) /\ t.ended = FALSE
          BY <3>2, <4>1, <5>1
        <5> DEFINE e == j + 1
        <5>3. e \in 0 .. last /\ e >= k + (i + 1) /\ Taken(t, m, bytes, e)
          BY <5>1, <5>2
        <5> HIDE DEF e
        <5> QED
          BY <5>2, <5>3 DEF Reached, last, t
      <4> QED
        BY <4>2, <4>3
    <3> QED
      BY <3>3, <3>4
  <2> QED
    BY <2>3, <2>4, <2>5
<1> HIDE DEF Good
<1>9. N \in Good
  BY <1>3, <1>7, <1>8, InductionOnNat
<1>10. PICK j \in 0 .. last :
          /\ Taken(f[N], m, bytes, j)
          /\ \/ f[N].ended = TRUE /\ j = last /\ L >= At(m, last + 1)
             \/ f[N].ended = FALSE /\ (L < At(m, j + 1) \/ j >= k + N)
  <2>1. N <= N
    BY <1>3
  <2>2. Reached(f[N], m, bytes, k + N)
    BY <1>9, <2>1 DEF Good
  <2> QED
    BY <2>2 DEF Reached, last, L
<1>11. CASE f[N].ended = TRUE
  <2>1. Taken(f[N], m, bytes, j) /\ j = last /\ L >= At(m, last + 1)
    BY <1>10, <1>11
  <2> QED
    BY <1>5, <1>11, <2>1 DEF Read, L, last
<1>12. CASE f[N].ended = FALSE
  <2>1. Taken(f[N], m, bytes, j) /\ (L < At(m, j + 1) \/ j >= k + N)
    BY <1>10, <1>12
  <2>2. /\ At(m, j + 1) \in Nat /\ At(m, j + 1) <= At(m, last + 1) /\ At(m, last + 1) \in Nat
        /\ j \in Nat
    <3>1. j + 1 \in Nat /\ last + 1 \in Nat /\ j + 1 <= last + 1
      BY <1>1
    <3> QED
      BY <3>1, AtGrows
  <2>3. ASSUME j >= k + N PROVE L < At(m, j + 1)
    <3> DEFINE d == (j + 1) - k
               x == d * H
               y == (N + 1) * H
    <3>1. /\ j + 1 \in Nat /\ k <= j + 1 /\ d \in Nat /\ N + 1 \in Nat /\ N + 1 <= d
      BY <1>1, <1>3, <2>2, <2>3
    <3>2. x \in Nat /\ At(m, k) + x <= At(m, j + 1)
      BY <1>1, <3>1, OffsetGrows, LenProperties DEF At, H
    <3>3. y <= x /\ y \in Nat
      BY <1>1, <3>1, Multiples
    <3>4. y = H * N + H
      BY <1>1, <1>3
    <3>5. At(m, k) \in Nat
      BY <1>1
    <3> HIDE DEF d, x, y
    <3>6. Len(st.rest) < y
      BY <1>3, <3>4, Zenon
    <3>7. L < At(m, k) + y
      BY <1>1, <1>2, <3>3, <3>5, <3>6
    <3>8. At(m, k) + y <= At(m, k) + x
      BY <3>2, <3>3, <3>5
    <3>9. L \in Nat /\ At(m, j + 1) \in Nat
      BY <1>1, <2>2
    <3> QED
      BY <3>2, <3>3, <3>5, <3>7, <3>8, <3>9
  <2>4. L < At(m, j + 1)
    BY <2>1, <2>3
  <2>5. ~(L >= At(m, last + 1))
    BY <1>1, <2>2, <2>4
  <2> QED
    BY <1>5, <1>12, <2>1, <2>5 DEF Read, L, last
<1> QED
  BY <1>10, <1>11, <1>12

LEMMA FramedPart ==
    ASSUME NEW S, NEW m \in Seq(S), NEW bytes \in Seq(S), NEW n \in Nat, Framed(bytes, m, n),
           NEW b \in 0 .. Len(bytes), NEW k \in Nat, k <= n
    PROVE  /\ SubSeq(bytes, 1, b) \in Seq(S) /\ Len(SubSeq(bytes, 1, b)) = b
           /\ Framed(SubSeq(bytes, 1, b), m, k)
<1> DEFINE part == SubSeq(bytes, 1, b)
<1>1. Len(bytes) \in Nat /\ 0 \in 0 .. Len(bytes) /\ b \in Nat
  BY LenProperties
<1>2. part \in Seq(S) /\ Len(part) = b /\ \A i \in 1 .. b : part[i] = bytes[i]
  <2>1. b \in 0 .. Len(bytes) /\ 0 + 1 = 1 /\ b - 0 = b
    OBVIOUS
  <2>2. /\ SubSeq(bytes, 0 + 1, b) \in Seq(S) /\ Len(SubSeq(bytes, 0 + 1, b)) = b - 0
        /\ \A i \in 1 .. b - 0 : SubSeq(bytes, 0 + 1, b)[i] = bytes[0 + i]
    BY <1>1, PieceIs
  <2>3. \A i \in 1 .. b : 0 + i = i
    OBVIOUS
  <2> QED
    BY <2>1, <2>2, <2>3
<1> HIDE DEF part
<1>3. ASSUME NEW j \in 0 .. k - 1
      PROVE  /\ At(m, j) + 1 <= Len(part) => part[At(m, j) + 1][2] = Size(m, j)
             /\ \A i \in 1 .. Size(m, j) :
                   At(m, j) + BUFFER_HEADER_LENGTH + i <= Len(part) =>
                       part[At(m, j) + BUFFER_HEADER_LENGTH + i] = m[Covered(Len(m), j) + i]
  <2>1. j \in 0 .. n - 1 /\ j \in Nat
    OBVIOUS
  <2>2. At(m, j) \in Nat /\ BUFFER_HEADER_LENGTH \in Nat
    BY <2>1, PlaceFacts
  <2>3. /\ At(m, j) + 1 <= Len(bytes) => bytes[At(m, j) + 1][2] = Size(m, j)
        /\ \A i \in 1 .. Size(m, j) :
              At(m, j) + BUFFER_HEADER_LENGTH + i <= Len(bytes) =>
                  bytes[At(m, j) + BUFFER_HEADER_LENGTH + i] = m[Covered(Len(m), j) + i]
    BY <2>1 DEF Framed
  <2>4. ASSUME At(m, j) + 1 <= Len(part) PROVE part[At(m, j) + 1][2] = Size(m, j)
    <3>1. At(m, j) + 1 \in 1 .. b /\ At(m, j) + 1 <= Len(bytes)
      BY <1>1, <1>2, <2>2, <2>4
    <3> QED
      BY <1>2, <2>3, <3>1
  <2>5. ASSUME NEW i \in 1 .. Size(m, j), At(m, j) + BUFFER_HEADER_LENGTH + i <= Len(part)
        PROVE  part[At(m, j) + BUFFER_HEADER_LENGTH + i] = m[Covered(Len(m), j) + i]
    <3> DEFINE x == At(m, j) + BUFFER_HEADER_LENGTH + i
    <3>1. i \in Nat /\ i >= 1
      <4>1. Size(m, j) \in Nat
        BY <2>1, PlaceFacts
      <4> QED
        BY <4>1
    <3>2. x \in 1 .. b /\ x <= Len(bytes)
      BY <1>1, <1>2, <2>2, <2>5, <3>1
    <3> HIDE DEF x
    <3>3. part[x] = bytes[x]
      BY <1>2, <3>2
    <3> QED
      BY <2>3, <3>2, <3>3 DEF x
  <2> QED
    BY <2>4, <2>5
<1>4. Framed(part, m, k)
  BY <1>3 DEF Framed
<1> QED
  BY <1>2, <1>4 DEF part

(* A reader that gets the whole of a message has it. *)
LEMMA ReadsWhole ==
    ASSUME NEW S, NEW m \in Seq(S), NEW bytes \in Seq(S), Framed(bytes, m, Count(Len(m)) + 1),
           Len(bytes) >= At(m, Count(Len(m)) + 1)
    PROVE  ReadFramedMessage(bytes) = <<m>>
<1> DEFINE st == [Empty EXCEPT !.rest = bytes]
           t == TakeBuffers(st)
<1>1. /\ DOMAIN st = {"rest", "message", "ended"} /\ st.rest = bytes /\ st.message = <<>>
      /\ st.ended = FALSE /\ "fired" \notin DOMAIN st
  BY DEF Empty
<1> HIDE DEF st
<1>2. Taken(st, m, bytes, 0) /\ 0 \in 0 .. Count(Len(m))
  <2>1. 0 \in Nat
    OBVIOUS
  <2>2. At(m, 0) = 0 /\ Covered(Len(m), 0) = 0 /\ Count(Len(m)) \in Nat
    BY <2>1, PlaceFacts
  <2>3. SubSeq(m, 1, 0) = <<>>
    BY SubSeqEmpty
  <2>4. SubSeq(bytes, 0 + 1, Len(bytes)) = bytes
    BY SubSeqFull
  <2>5. Len(bytes) \in Nat
    BY LenProperties
  <2>6. SubSeq(bytes, At(m, 0) + 1, Len(bytes)) = bytes /\ SubSeq(m, 1, Covered(Len(m), 0)) = <<>>
    BY <2>2, <2>3, <2>4
  <2>7. At(m, 0) <= Len(bytes) /\ 0 \in 0 .. Count(Len(m))
    BY <2>2, <2>5
  <2> QED
    BY <1>1, <2>6, <2>7 DEF Taken
<1>3. Read(t, m, bytes)
  BY <1>1, <1>2, TakesAll
<1> HIDE DEF t
<1>4. t.ended = TRUE /\ t.message = SubSeq(m, 1, Covered(Len(m), Count(Len(m))))
  BY <1>3 DEF Read, Taken
<1>5. SubSeq(m, 1, Covered(Len(m), Count(Len(m)))) = m
  <2>1. Count(Len(m)) \in Nat /\ Count(Len(m)) >= Count(Len(m))
    BY LenProperties, CountFacts
  <2>2. Covered(Len(m), Count(Len(m))) = Len(m)
    BY <2>1, PlaceFacts
  <2> QED
    BY <2>2, SubSeqFull
<1> QED
  BY <1>4, <1>5 DEF ReadFramedMessage, t, st

-----------------------------------------------------------------------------
(* What is written is read. *)
LEMMA WrittenIs ==
    ASSUME NEW S, HasLengths(S), NEW m \in Seq(S)
    PROVE  /\ WriteFramedMessage(m) \in Seq(S)
           /\ Len(WriteFramedMessage(m)) = At(m, Count(Len(m)) + 1)
           /\ Framed(WriteFramedMessage(m), m, Count(Len(m)) + 1)
<1>1. Count(Len(m)) + 1 \in Nat
  BY LenProperties, CountFacts
<1>2. WriteFramedMessage(m) = WriteBuffers(m, Count(Len(m)) + 1)
  BY FramedMessageIs
<1> QED
  BY <1>1, <1>2, BuffersAre

LEMMA WrittenIsRead ==
    ASSUME NEW S, HasLengths(S), NEW m \in Seq(S)
    PROVE  ReadFramedMessage(WriteFramedMessage(m)) = <<m>>
<1> DEFINE bytes == WriteFramedMessage(m)
<1>1. /\ bytes \in Seq(S) /\ Len(bytes) = At(m, Count(Len(m)) + 1)
      /\ Framed(bytes, m, Count(Len(m)) + 1)
  BY WrittenIs
<1>2. Len(bytes) >= At(m, Count(Len(m)) + 1)
  BY <1>1, LenProperties
<1> HIDE DEF bytes
<1>3. ReadFramedMessage(bytes) = <<m>>
  BY <1>1, <1>2, ReadsWhole
<1> QED
  BY <1>3 DEF bytes

(* The producer writes all of the message, and the length it declares ends   *)
(* behind the header that ends it, and within what it writes.                *)
LEMMA ProducerFacts ==
    ASSUME NEW S, NEW m \in Seq(S)
    PROVE  /\ ProducerWrites(m) \in Nat /\ Count(Len(m)) <= ProducerWrites(m)
           /\ ProducerLength(m) \in Nat
           /\ At(m, Count(Len(m)) + 1) <= ProducerLength(m)
           /\ ProducerLength(m) <= At(m, ProducerWrites(m) + 1)
<1> DEFINE B == BUFFER_SIZE
           H == BUFFER_HEADER_LENGTH
           n == Len(m)
           q == n \div B
           P == ProducerLength(m)
           W == ProducerWrites(m)
           c == Count(n)
<1>1. B \in Nat \ {0} /\ H \in Nat \ {0} /\ n \in Nat
  BY FramingAssumption, LenProperties
<1>2. q \in Nat /\ B * q <= n /\ n < B * q + B
  BY <1>1, Division
<1>3. P = n + (q + 2) * H
  BY DEF ProducerLength
<1>4. W = Count(P)
  BY DEF ProducerWrites, Count
<1>5. c \in Nat /\ n <= c * B /\ \A j \in Nat : j < c => j * B < n
  BY <1>1, CountFacts
<1> HIDE DEF B, H, n, q, P, W, c
<1>6. (q + 2) * H \in Nat /\ q + 2 \in Nat /\ (q + 2) * H >= 1 /\ P \in Nat /\ P > n
  <2>1. q + 2 \in Nat /\ 1 <= q + 2 /\ 1 \in Nat
    BY <1>2
  <2>2. (q + 2) * H \in Nat /\ 1 * H <= (q + 2) * H
    BY <1>1, <2>1, Multiples
  <2>3. 1 * H = H
    BY <1>1
  <2> DEFINE x == (q + 2) * H
  <2>4. x \in Nat /\ x >= 1
    BY <1>1, <2>2, <2>3
  <2> HIDE DEF x
  <2>5. P = n + x
    BY <1>3 DEF x
  <2>6. P \in Nat /\ P > n
    BY <1>1, <2>4, <2>5
  <2> QED
    BY <2>1, <2>4, <2>6 DEF x
<1>7. W \in Nat /\ P <= W * B /\ W * B \in Nat
  <2>1. W \in Nat /\ P <= W * B
    BY <1>4, <1>6, CountFacts DEF B
  <2> QED
    BY <1>1, <2>1
<1>8. c <= W
  <2> SUFFICES ASSUME ~(c <= W) PROVE FALSE
    OBVIOUS
  <2>1. W < c
    BY <1>5, <1>7
  <2>2. W * B < n
    BY <1>5, <1>7, <2>1
  <2> QED
    BY <1>1, <1>6, <1>7, <2>2
<1>9. q + 1 <= W
  <2> SUFFICES ASSUME ~(q + 1 <= W) PROVE FALSE
    OBVIOUS
  <2>1. W <= q
    BY <1>2, <1>7
  <2>2. W * B <= q * B /\ q * B \in Nat
    BY <1>1, <1>2, <1>7, <2>1, Multiples
  <2>3. q * B = B * q
    BY <1>1, <1>2
  <2> QED
    BY <1>1, <1>2, <1>6, <1>7, <2>2, <2>3
<1>10. c <= q + 1
  <2> SUFFICES ASSUME ~(c <= q + 1) PROVE FALSE
    OBVIOUS
  <2>1. q + 1 \in Nat /\ q + 1 < c
    BY <1>2, <1>5
  <2>2. (q + 1) * B < n
    BY <1>5, <2>1
  <2>3. (q + 1) * B = B * q + B /\ B * q \in Nat
    BY <1>1, <1>2
  <2> QED
    BY <1>1, <1>2, <2>2, <2>3
<1>11. /\ At(m, c + 1) = (c + 1) * H + n /\ At(m, W + 1) = (W + 1) * H + n
       /\ c + 1 \in Nat /\ W + 1 \in Nat
  <2>1. c + 1 \in Nat /\ W + 1 \in Nat /\ c + 1 >= c /\ W + 1 >= c
    BY <1>5, <1>7, <1>8
  <2>2. Covered(n, c + 1) = n /\ Covered(n, W + 1) = n
    BY <1>1, <2>1, CoveredFacts DEF c
  <2> QED
    BY <2>1, <2>2 DEF At, Offset, n, H
<1>12. (c + 1) * H <= (q + 2) * H /\ (c + 1) * H \in Nat
  <2>1. c + 1 <= q + 2
    BY <1>2, <1>5, <1>10
  <2> QED
    BY <1>1, <1>6, <1>11, <2>1, Multiples
<1>13. (q + 2) * H <= (W + 1) * H /\ (W + 1) * H \in Nat
  <2>1. q + 2 <= W + 1
    BY <1>2, <1>7, <1>9
  <2> QED
    BY <1>1, <1>6, <1>11, <2>1, Multiples
<1>14. At(m, c + 1) <= P /\ P <= At(m, W + 1)
  <2> DEFINE x == (c + 1) * H
             y == (q + 2) * H
             z == (W + 1) * H
  <2>1. /\ x \in Nat /\ y \in Nat /\ z \in Nat /\ x <= y /\ y <= z
        /\ P = n + y /\ At(m, c + 1) = x + n /\ At(m, W + 1) = z + n
    BY <1>3, <1>6, <1>11, <1>12, <1>13
  <2> HIDE DEF x, y, z
  <2> QED
    BY <1>1, <2>1
<1> QED
  BY <1>6, <1>7, <1>8, <1>14 DEF P, W, c, n

LEMMA ProducedIsRead ==
    ASSUME NEW S, HasLengths(S), NEW m \in Seq(S)
    PROVE  ReadFramedMessage(SubSeq(Produced(m), 1, ProducerLength(m))) = <<m>>
<1> DEFINE W == ProducerWrites(m)
           P == ProducerLength(m)
           last == Count(Len(m))
           all == Produced(m)
           sent == SubSeq(all, 1, P)
<1>1. /\ W \in Nat /\ last <= W /\ P \in Nat /\ At(m, last + 1) <= P /\ P <= At(m, W + 1)
  BY ProducerFacts
<1>2. last \in Nat
  BY LenProperties, CountFacts
<1>3. all = WriteBuffers(m, W + 1)
  <2>1. W >= Count(Len(m))
    BY <1>1, <1>2
  <2>2. WriteBuffers(m, W + 1) = WriteBuffers(m, W) \o Header(0)
    BY <1>1, <2>1, EndIsABuffer
  <2> QED
    BY <2>2 DEF Produced
<1>4. all \in Seq(S) /\ Len(all) = At(m, W + 1) /\ Framed(all, m, W + 1)
  <2>1. W + 1 \in Nat
    BY <1>1
  <2> QED
    BY <1>3, <2>1, BuffersAre
<1> HIDE DEF all, W, P, last
<1>5. sent \in Seq(S) /\ Len(sent) = P /\ Framed(sent, m, last + 1)
  <2>1. /\ W + 1 \in Nat /\ last + 1 \in Nat /\ last + 1 <= W + 1 /\ P \in 0 .. Len(all)
    <3>1. Len(all) \in Nat
      BY <1>4, LenProperties
    <3> QED
      BY <1>1, <1>2, <1>4, <3>1
  <2> QED
    BY <1>4, <2>1, FramedPart
<1>6. Len(sent) >= At(m, last + 1)
  <2>1. At(m, last + 1) \in Nat
    <3>1. last + 1 \in Nat
      BY <1>2
    <3> QED
      BY <3>1, PlaceFacts
  <2> HIDE DEF sent
  <2> QED
    BY <1>1, <1>5, <2>1
<1> HIDE DEF sent
<1>7. ReadFramedMessage(sent) = <<m>>
  BY <1>5, <1>6, ReadsWhole DEF last
<1> QED
  BY <1>7 DEF sent, all, P

-----------------------------------------------------------------------------
(* A message that arrives in pieces. *)
LEMMA TakesKeepFields ==
    ASSUME NEW st, Len(st.rest) \in Nat
    PROVE  DOMAIN TakeBuffers(st) = DOMAIN st
<1> DEFINE n == Len(st.rest) \div BUFFER_HEADER_LENGTH
<1>1. n \in Nat
  BY FramingAssumption, Division
<1>2. PICK f : Iterates(f, st, n)
  <2> HIDE DEF n
  <2> QED
    BY <1>1, IteratesExist
<1>3. TakeBuffers(st) = f[n]
  BY <1>1, <1>2, TakesAre
<1> HIDE DEF n
<1>4. f[0] = st /\ \A i \in 0 .. n - 1 : f[i + 1] = TakeBuffer(f[i])
  BY <1>1, <1>2, IteratesIs
<1> DEFINE Good == {i \in Nat : i <= n => DOMAIN f[i] = DOMAIN st}
<1>5. 0 \in Good
  BY <1>4
<1>6. ASSUME NEW i \in Nat, i \in Good PROVE i + 1 \in Good
  <2> SUFFICES ASSUME i + 1 <= n PROVE DOMAIN f[i + 1] = DOMAIN st
    OBVIOUS
  <2>1. i <= n /\ i \in 0 .. n - 1
    BY <1>1
  <2>2. f[i + 1] = TakeBuffer(f[i]) /\ DOMAIN f[i] = DOMAIN st
    BY <1>4, <1>6, <2>1
  <2> DEFINE s == f[i]
  <2> HIDE DEF s
  <2>3. DOMAIN TakeBuffer(s) = DOMAIN s
    BY DEF TakeBuffer
  <2> QED
    BY <2>2, <2>3 DEF s
<1> HIDE DEF Good
<1>7. n \in Good
  BY <1>1, <1>5, <1>6, InductionOnNat
<1>8. n <= n
  BY <1>1
<1> QED
  BY <1>3, <1>7, <1>8 DEF Good

LEMMA PieceOfPart ==
    ASSUME NEW S, NEW s \in Seq(S), NEW b \in 0 .. Len(s), NEW a \in 0 .. b
    PROVE  SubSeq(SubSeq(s, 1, b), a + 1, b) = SubSeq(s, a + 1, b)
<1> DEFINE r == SubSeq(s, 1, b)
           t == SubSeq(r, a + 1, b)
           u == SubSeq(s, a + 1, b)
<1>1. Len(s) \in Nat /\ a \in Nat /\ b \in Nat /\ a \in 0 .. Len(s) /\ b \in a .. Len(s)
  BY LenProperties
<1>2. r \in Seq(S) /\ Len(r) = b /\ \A i \in 1 .. b : r[i] = s[i]
  <2>1. 0 \in 0 .. Len(s) /\ b \in 0 .. Len(s) /\ 0 + 1 = 1 /\ b - 0 = b /\ \A i \in 1 .. b : 0 + i = i
    BY <1>1
  <2>2. /\ SubSeq(s, 0 + 1, b) \in Seq(S) /\ Len(SubSeq(s, 0 + 1, b)) = b - 0
        /\ \A i \in 1 .. b - 0 : SubSeq(s, 0 + 1, b)[i] = s[0 + i]
    BY <2>1, PieceIs
  <2> QED
    BY <2>1, <2>2
<1> HIDE DEF r
<1>3. t \in Seq(S) /\ Len(t) = b - a /\ \A i \in 1 .. b - a : t[i] = r[a + i]
  <2>1. a \in 0 .. Len(r) /\ b \in a .. Len(r)
    BY <1>1, <1>2
  <2> QED
    BY <1>2, <2>1, PieceIs
<1>4. u \in Seq(S) /\ Len(u) = b - a /\ \A i \in 1 .. b - a : u[i] = s[a + i]
  BY <1>1, PieceIs
<1> HIDE DEF t, u
<1>5. ASSUME NEW i \in 1 .. b - a PROVE t[i] = u[i]
  <2>1. a + i \in 1 .. b
    BY <1>1
  <2> QED
    BY <1>2, <1>3, <1>4, <2>1
<1>6. t = u
  BY <1>3, <1>4, <1>5, SeqEqual
<1> QED
  BY <1>6 DEF t, u, r

LEMMA NextPiece ==
    ASSUME NEW S, NEW m \in Seq(S), NEW body \in Seq(S), Framed(body, m, Count(Len(m)) + 1),
           NEW b \in 0 .. Len(body), NEW a \in 0 .. b,
           NEW j \in 0 .. Count(Len(m)), NEW st, Taken(st, m, SubSeq(body, 1, a), j),
           ~st.ended, "fired" \in DOMAIN st
    PROVE  LET got == TakeBuffers([st EXCEPT !.rest = @ \o SubSeq(body, a + 1, b), !.ended = FALSE])
           IN /\ Read(got, m, SubSeq(body, 1, b)) /\ "fired" \in DOMAIN got
<1> DEFINE d == SubSeq(body, a + 1, b)
           pa == SubSeq(body, 1, a)
           pb == SubSeq(body, 1, b)
           new == [st EXCEPT !.rest = @ \o d, !.ended = FALSE]
           last == Count(Len(m))
<1>1. /\ Len(body) \in Nat /\ a \in Nat /\ b \in Nat /\ a \in 0 .. Len(body) /\ last \in Nat
      /\ last + 1 \in Nat /\ last + 1 <= last + 1
  <2>1. last \in Nat
    BY LenProperties, CountFacts
  <2>2. Len(body) \in Nat
    BY LenProperties
  <2> HIDE DEF last
  <2> QED
    BY <2>1, <2>2
<1>2. /\ pa \in Seq(S) /\ Len(pa) = a
      /\ pb \in Seq(S) /\ Len(pb) = b /\ Framed(pb, m, last + 1)
  BY <1>1, FramedPart
<1>3. /\ {"rest", "message", "ended", "fired"} \subseteq DOMAIN st
      /\ At(m, j) <= a /\ st.message = SubSeq(m, 1, Covered(Len(m), j))
      /\ st.rest = SubSeq(pa, At(m, j) + 1, a) /\ st.fired = <<>>
  BY <1>2 DEF Taken
<1>4. DOMAIN new = DOMAIN st /\ new.message = st.message /\ new.fired = st.fired
      /\ new.ended = FALSE /\ new.rest = st.rest \o d
  BY <1>3
<1> HIDE DEF new
<1>5. At(m, j) \in 0 .. a /\ At(m, j) \in Nat
  <2>1. j \in Nat
    BY <1>1
  <2>2. At(m, j) \in Nat
    BY <2>1, PlaceFacts
  <2> QED
    BY <1>1, <1>3, <2>2
<1>6. st.rest = SubSeq(body, At(m, j) + 1, a)
  BY <1>1, <1>3, <1>5, PieceOfPart
<1>7. st.rest \o d = SubSeq(body, At(m, j) + 1, b)
  <2> DEFINE x == At(m, j) + 1
  <2>1. x \in 1 .. Len(body) + 1 /\ a \in x - 1 .. Len(body) /\ b \in a .. Len(body)
    BY <1>1, <1>5
  <2> HIDE DEF x
  <2>2. SubSeq(body, x, a) \o SubSeq(body, a + 1, b) = SubSeq(body, x, b)
    BY <2>1, ConcatAdjacentSubSeq
  <2> QED
    BY <1>6, <2>2 DEF x
<1>8. SubSeq(body, At(m, j) + 1, b) = SubSeq(pb, At(m, j) + 1, b)
  <2>1. At(m, j) \in 0 .. b
    BY <1>1, <1>5
  <2> QED
    BY <1>1, <2>1, PieceOfPart
<1>9. Taken(new, m, pb, j)
  <2>1. At(m, j) <= b
    BY <1>1, <1>5
  <2> HIDE DEF pb, d
  <2> QED
    BY <1>2, <1>3, <1>4, <1>7, <1>8, <2>1 DEF Taken
<1>10. Len(new.rest) \in Nat
  <2>1. new.rest = SubSeq(body, At(m, j) + 1, b)
    BY <1>4, <1>7
  <2>2. At(m, j) \in 0 .. Len(body) /\ b \in At(m, j) .. Len(body)
    BY <1>1, <1>5
  <2>3. Len(SubSeq(body, At(m, j) + 1, b)) = b - At(m, j)
    BY <2>2, PieceIs
  <2> QED
    BY <1>1, <1>5, <2>1, <2>2, <2>3
<1> HIDE DEF pa, pb, d
<1>11. Read(TakeBuffers(new), m, pb)
  BY <1>2, <1>4, <1>9, TakesAll DEF last
<1>12. DOMAIN TakeBuffers(new) = DOMAIN st
  BY <1>4, <1>10, TakesKeepFields
<1> QED
  BY <1>3, <1>11, <1>12 DEF new, pb, d

(* A protocol that has had the first a bytes of a message, and not its end.  *)
Waits(st, m, body, a) ==
    /\ "fired" \in DOMAIN st /\ st.ended = FALSE /\ st.fired = <<>>
    /\ \E k \in 0 .. Count(Len(m)) : Taken(st, m, SubSeq(body, 1, a), k)

(* What the protocol is after a piece that follows those it has had.         *)
LEMMA ReceivedPiece ==
    ASSUME NEW S, NEW m \in Seq(S), NEW body \in Seq(S), Framed(body, m, Count(Len(m)) + 1),
           Len(body) = At(m, Count(Len(m)) + 1),
           NEW b \in 0 .. Len(body), NEW a \in 0 .. b, NEW st, Waits(st, m, body, a),
           NEW d, d = SubSeq(body, a + 1, b)
    PROVE  LET t == DataReceived(st, d) IN
           /\ b = Len(body) => t.ended = TRUE /\ t.fired = <<<<m>>>>
           /\ b # Len(body) => Waits(t, m, body, b)
<1> DEFINE got == TakeBuffers([st EXCEPT !.rest = @ \o d, !.ended = FALSE])
           t == DataReceived(st, d)
           last == Count(Len(m))
           pb == SubSeq(body, 1, b)
<1>1. Read(got, m, pb) /\ "fired" \in DOMAIN got
  <2>1. PICK j \in 0 .. Count(Len(m)) : Taken(st, m, SubSeq(body, 1, a), j)
    BY DEF Waits
  <2>2. ~st.ended /\ "fired" \in DOMAIN st
    BY DEF Waits
  <2>3. LET g == TakeBuffers([st EXCEPT !.rest = @ \o SubSeq(body, a + 1, b), !.ended = FALSE])
        IN Read(g, m, SubSeq(body, 1, b)) /\ "fired" \in DOMAIN g
    BY <2>1, <2>2, NextPiece
  <2> QED
    BY <2>3
<1>2. t = IF got.ended THEN [got EXCEPT !.fired = Append(@, <<got.message>>)] ELSE got
  BY DEF DataReceived
<1> HIDE DEF got, t, last, pb
<1>3. Len(pb) = b /\ Len(body) \in Nat /\ b \in Nat
  <2>1. last \in Nat
    BY LenProperties, CountFacts DEF last
  <2>2. last + 1 \in Nat /\ last + 1 <= last + 1
    BY <2>1
  <2> QED
    BY <2>2, FramedPart, LenProperties DEF last, pb
<1>4. PICK k \in 0 .. last :
         /\ Taken(got, m, pb, k)
         /\ IF b >= Len(body) THEN got.ended = TRUE /\ k = last ELSE got.ended = FALSE
  BY <1>1, <1>3 DEF Read, last
<1>5. got.fired = <<>> /\ "ended" \in DOMAIN got /\ got.message = SubSeq(m, 1, Covered(Len(m), k))
  BY <1>1, <1>4 DEF Taken
<1>6. CASE b = Len(body)
  <2>1. got.ended = TRUE /\ k = last
    BY <1>3, <1>4, <1>6
  <2>2. got.message = m
    <3>1. last \in Nat /\ last >= last
      BY LenProperties, CountFacts DEF last
    <3>2. Covered(Len(m), last) = Len(m)
      BY <3>1, PlaceFacts DEF last
    <3> QED
      BY <1>5, <2>1, <3>2, SubSeqFull
  <2>3. t = [got EXCEPT !.fired = Append(<<>>, <<m>>)]
    BY <1>2, <1>5, <2>1, <2>2
  <2>4. Append(<<>>, <<m>>) = <<<<m>>>>
    OBVIOUS
  <2>5. t.fired = <<<<m>>>> /\ t.ended = TRUE /\ "fired" \in DOMAIN t
    BY <1>1, <1>5, <2>1, <2>3, <2>4
  <2> QED
    BY <1>6, <2>5 DEF t
<1>7. CASE b # Len(body)
  <2>1. got.ended = FALSE
    BY <1>3, <1>4, <1>7
  <2>2. t = got
    BY <1>2, <2>1
  <2> QED
    BY <1>1, <1>4, <1>5, <1>7, <2>1, <2>2 DEF t, pb, last, Waits
<1> QED
  BY <1>6, <1>7

LEMMA NothingTaken ==
    ASSUME NEW S, NEW m \in Seq(S), NEW body
    PROVE  Waits(NewProtocol, m, body, 0)
<1>1. 0 \in Nat
  OBVIOUS
<1>2. At(m, 0) = 0 /\ Covered(Len(m), 0) = 0 /\ Count(Len(m)) \in Nat
  BY <1>1, PlaceFacts
<1>3. SubSeq(body, 1, 0) = <<>> /\ SubSeq(m, 1, 0) = <<>> /\ SubSeq(<<>>, 1, 0) = <<>>
  BY SubSeqEmpty
<1>4. SubSeq(<<>>, At(m, 0) + 1, Len(<<>>)) = <<>> /\ At(m, 0) <= Len(<<>>)
  <2>1. At(m, 0) + 1 = 1 /\ Len(<<>>) = 0
    BY <1>2
  <2> QED
    BY <1>2, <1>3, <2>1
<1>5. Taken(NewProtocol, m, SubSeq(body, 1, 0), 0) /\ 0 \in 0 .. Count(Len(m))
  BY <1>2, <1>3, <1>4 DEF Taken, NewProtocol
<1>6. "fired" \in DOMAIN NewProtocol /\ NewProtocol.ended = FALSE /\ NewProtocol.fired = <<>>
  BY DEF NewProtocol
<1> QED
  BY <1>5, <1>6 DEF Waits

LEMMA PiecesAreRead ==
    ASSUME NEW S, HasLengths(S), NEW m \in Seq(S)
    PROVE  LET body == WriteFramedMessage(m)
           IN \A n \in 1 .. Len(body) : \A i \in 0 .. n - 1 :
                 LET st == DataReceived(DataReceived(NewProtocol, SubSeq(body, 1, i)),
                                        SubSeq(body, i + 1, n))
                 IN ConnectionLost(st).fired = <<IF n = Len(body) THEN <<m>> ELSE Closed>>
<1> DEFINE body == WriteFramedMessage(m)
<1>1. /\ body \in Seq(S) /\ Len(body) = At(m, Count(Len(m)) + 1) /\ Len(body) \in Nat
      /\ Framed(body, m, Count(Len(m)) + 1)
  BY WrittenIs, LenProperties
<1> HIDE DEF body
<1> SUFFICES ASSUME NEW n \in 1 .. Len(body), NEW i \in 0 .. n - 1
             PROVE  ConnectionLost(DataReceived(DataReceived(NewProtocol, SubSeq(body, 1, i)),
                                                SubSeq(body, i + 1, n))).fired
                        = <<IF n = Len(body) THEN <<m>> ELSE Closed>>
  BY DEF body
<1> DEFINE one == DataReceived(NewProtocol, SubSeq(body, 1, i))
           two == DataReceived(one, SubSeq(body, i + 1, n))
<1>2. i \in 0 .. Len(body) /\ 0 \in 0 .. i /\ i # Len(body) /\ n \in 0 .. Len(body) /\ i \in 0 .. n
  BY <1>1
<1>3. Waits(one, m, body, i)
  <2>1. Waits(NewProtocol, m, body, 0)
    BY NothingTaken
  <2>2. SubSeq(body, 1, i) = SubSeq(body, 0 + 1, i)
    OBVIOUS
  <2> QED
    BY <1>1, <1>2, <2>1, <2>2, ReceivedPiece
<1> HIDE DEF one
<1>4. /\ n = Len(body) => two.ended = TRUE /\ two.fired = <<<<m>>>>
      /\ n # Len(body) => Waits(two, m, body, n)
  BY <1>1, <1>2, <1>3, ReceivedPiece
<1> HIDE DEF two
<1>5. ConnectionLost(two).fired = <<IF n = Len(body) THEN <<m>> ELSE Closed>>
  <2>1. CASE n = Len(body)
    BY <1>4, <2>1 DEF ConnectionLost
  <2>2. CASE n # Len(body)
    <3>1. "fired" \in DOMAIN two /\ two.ended = FALSE /\ two.fired = <<>>
      BY <1>4, <2>2 DEF Waits
    <3>2. ConnectionLost(two) = [two EXCEPT !.fired = Append(<<>>, Closed)]
      BY <3>1 DEF ConnectionLost
    <3>3. Append(<<>>, Closed) = <<Closed>>
      BY DEF Closed
    <3>4. ConnectionLost(two).fired = <<Closed>>
      BY <3>1, <3>2, <3>3
    <3> QED
      BY <2>2, <3>4
  <2> QED
    BY <2>1, <2>2
<1> QED
  BY <1>5 DEF two, one

(* The whole of a message in one piece. *)
LEMMA PieceIsRead ==
    ASSUME NEW S, HasLengths(S), NEW m \in Seq(S)
    PROVE  DataReceived(NewProtocol, WriteFramedMessage(m)).fired = <<<<m>>>>
<1> DEFINE body == WriteFramedMessage(m)
<1>1. /\ body \in Seq(S) /\ Len(body) = At(m, Count(Len(m)) + 1) /\ Len(body) \in Nat
      /\ Framed(body, m, Count(Len(m)) + 1)
  BY WrittenIs, LenProperties
<1> HIDE DEF body
<1>2. ASSUME NEW b \in 0 .. Len(body), NEW a \in 0 .. Len(body), NEW st,
             Waits(st, m, body, a), a <= b, b = Len(body)
      PROVE  DataReceived(st, SubSeq(body, a + 1, b)).fired = <<<<m>>>>
  <2> DEFINE t == DataReceived(st, SubSeq(body, a + 1, b))
  <2>1. b \in 0 .. Len(body) /\ a \in 0 .. b /\ Waits(st, m, body, a)
    BY <1>1, <1>2
  <2>2. /\ b = Len(body) => t.ended = TRUE /\ t.fired = <<<<m>>>>
        /\ b # Len(body) => Waits(t, m, body, b)
    BY <1>1, <2>1, ReceivedPiece
  <2> QED
    BY <1>2, <2>2
<1>3. DataReceived(NewProtocol, SubSeq(body, 0 + 1, Len(body))).fired = <<<<m>>>>
  <2>1. Waits(NewProtocol, m, body, 0)
    BY NothingTaken
  <2>2. 0 \in 0 .. Len(body) /\ 0 <= Len(body) /\ Len(body) \in 0 .. Len(body)
    BY <1>1
  <2> QED
    BY <1>2, <2>1, <2>2
<1>4. SubSeq(body, 0 + 1, Len(body)) = body
  BY <1>1, SubSeqFull
<1> QED
  BY <1>3, <1>4 DEF body

-----------------------------------------------------------------------------
(* The requests and the responses of calls as bytes. *)
Alphabet(record) == {"length", "byte"} \X (Nat \cup {record}) \X Nat

LEMMA BytesAre ==
    ASSUME NEW record, NEW n \in Nat
    PROVE  /\ HasLengths(Alphabet(record)) /\ Bytes(record, n) \in Seq(Alphabet(record))
           /\ n = 0 => Bytes(record, n) = <<>>
           /\ n # 0 => Bytes(record, n) # <<>> /\ Bytes(record, n)[1][2] = record
<1> DEFINE b == Bytes(record, n)
<1>1. HasLengths(Alphabet(record))
  BY DEF HasLengths, Alphabet
<1>2. \A i \in 1 .. n : <<"byte", record, i>> \in Alphabet(record)
  BY DEF Alphabet
<1>3. b \in Seq(Alphabet(record)) /\ Len(b) = n
  BY <1>2 DEF Bytes
<1>4. n # 0 => b[1] = <<"byte", record, 1>>
  BY DEF Bytes
<1> HIDE DEF b
<1>5. n = 0 => b = <<>>
  BY <1>3, EmptySeq
<1>6. n # 0 => b # <<>>
  BY <1>3, EmptySeq
<1>7. n # 0 => b[1][2] = record
  BY <1>4
<1> QED
  BY <1>1, <1>3, <1>5, <1>6, <1>7 DEF b

LEMMA RequestBytesAre ==
    ASSUME NEW q \in CallRequests
    PROVE  /\ HasLengths(Alphabet(q)) /\ RequestBytes(q) \in Seq(Alphabet(q))
           /\ Decode(<<RequestBytes(q)>>, RequestBytes) \in {None, q}
<1> DEFINE n == RequestSize[q.name] + IF q.clientProtocol THEN ProtocolSize ELSE 0
           b == RequestBytes(q)
<1>1. n \in Nat
  <2>1. RequestSize[q.name] \in Nat /\ ProtocolSize \in Nat
    BY SizeAssumption DEF CallRequests
  <2> QED
    BY <2>1
<1>2. b = Bytes(q, n)
  BY DEF RequestBytes
<1> HIDE DEF n, b
<1>3. /\ HasLengths(Alphabet(q)) /\ b \in Seq(Alphabet(q))
      /\ n = 0 => b = <<>>
      /\ n # 0 => b # <<>> /\ b[1][2] = q
  BY <1>1, <1>2, BytesAre
<1>4. Decode(<<b>>, RequestBytes) =
         IF <<b>> \in {Closed, <<<<>>>>} THEN None
         ELSE IF b = RequestBytes(b[1][2]) THEN b[1][2] ELSE None
  BY DEF Decode
<1>5. CASE n = 0
  <2>1. <<b>> = <<<<>>>>
    BY <1>3, <1>5
  <2> QED
    BY <1>3, <1>4, <2>1 DEF b
<1>6. CASE n # 0
  BY <1>3, <1>4, <1>6 DEF b
<1> QED
  BY <1>5, <1>6

LEMMA AnswerBytesAre ==
    ASSUME NEW a
    PROVE  /\ HasLengths(Alphabet(a)) /\ AnswerBytes(a) \in Seq(Alphabet(a))
           /\ Decode(<<AnswerBytes(a)>>, AnswerBytes) \in {None, a}
<1> DEFINE n == AnswerSize + IF a.match = "BOTH" THEN 0 ELSE ProtocolSize
           b == AnswerBytes(a)
<1>1. n \in Nat
  BY SizeAssumption
<1>2. b = Bytes(a, n)
  BY DEF AnswerBytes
<1> HIDE DEF n, b
<1>3. /\ HasLengths(Alphabet(a)) /\ b \in Seq(Alphabet(a))
      /\ n = 0 => b = <<>>
      /\ n # 0 => b # <<>> /\ b[1][2] = a
  BY <1>1, <1>2, BytesAre
<1>4. Decode(<<b>>, AnswerBytes) =
         IF <<b>> \in {Closed, <<<<>>>>} THEN None
         ELSE IF b = AnswerBytes(b[1][2]) THEN b[1][2] ELSE None
  BY DEF Decode
<1>5. CASE n = 0
  <2>1. <<b>> = <<<<>>>>
    BY <1>3, <1>5
  <2> QED
    BY <1>3, <1>4, <2>1 DEF b
<1>6. CASE n # 0
  BY <1>3, <1>4, <1>6 DEF b
<1> QED
  BY <1>5, <1>6

LEMMA BodyIsRead ==
    ASSUME NEW c, request[c] \in CallRequests
    PROVE  ReadFramedMessage(Body(c)) = <<RequestBytes(request[c])>>
<1> DEFINE q == request[c]
           bytes == RequestBytes(q)
<1>1. HasLengths(Alphabet(q)) /\ bytes \in Seq(Alphabet(q))
  BY RequestBytesAre
<1> HIDE DEF bytes
<1>2. ReadFramedMessage(WriteFramedMessage(bytes)) = <<bytes>>
  BY <1>1, WrittenIsRead
<1>3. ReadFramedMessage(SubSeq(Produced(bytes), 1, ProducerLength(bytes))) = <<bytes>>
  BY <1>1, ProducedIsRead
<1> QED
  BY <1>2, <1>3 DEF Body, bytes

-----------------------------------------------------------------------------
(* The steps over HTTP are steps of AvroIPC. *)
LEMMA ServeResponds ==
    ASSUME Inv, NEW c \in Calls, Serve(c)
    PROVE  Respond(c, request[c])
<1>1. stage[c] = "sent" /\ request[c] \in CallRequests
  BY DEF Inv, CallsInv, CallInv, Serve
<1>2. Received(c) \in {None, request[c]}
  BY <1>1, BodyIsRead, RequestBytesAre DEF Received
<1> QED
  BY <1>2 DEF Serve

LEMMA DeliverReceives ==
    ASSUME NEW c \in Calls, Deliver(c)
    PROVE  Receive(c, response[c])
<1> DEFINE m == AnswerBytes(response[c])
           body == WriteFramedMessage(m)
           got == DataReceived(NewProtocol, body)
           read == IF c[1] \in Blocking THEN ReadFramedMessage(body)
                   ELSE IF got.fired = <<>> THEN Closed ELSE got.fired[1]
           a == Decode(read, AnswerBytes)
<1>1. a # None /\ Receive(c, a)
  BY DEF Deliver
<1>2. HasLengths(Alphabet(response[c])) /\ m \in Seq(Alphabet(response[c]))
  BY AnswerBytesAre
<1>3. read = <<m>>
  <2> HIDE DEF m
  <2>1. ReadFramedMessage(body) = <<m>>
    BY <1>2, WrittenIsRead
  <2>2. got.fired = <<<<m>>>>
    BY <1>2, PieceIsRead
  <2> HIDE DEF body, got
  <2>3. got.fired # <<>> /\ got.fired[1] = <<m>>
    BY <2>2
  <2> QED
    BY <2>1, <2>3
<1> HIDE DEF read
<1>4. a \in {None, response[c]}
  BY <1>3, AnswerBytesAre
<1> HIDE DEF a
<1> QED
  BY <1>1, <1>4

LEMMA StepsAreSteps ==
    Inv /\ [TransportNext]_vars => [Next]_vars
<1> SUFFICES ASSUME Inv, TransportNext PROVE Next
  OBVIOUS
<1>1. CASE \E c \in Calls, m \in Messages : Request(c, m)
  BY <1>1 DEF Next
<1>2. CASE \E c \in Calls : Serve(c)
  BY <1>2, ServeResponds DEF Next
<1>3. CASE \E c \in Calls : Deliver(c)
  BY <1>3, DeliverReceives DEF Next
<1>4. CASE \E c \in Calls : Stall(c)
  BY <1>4 DEF Next, Stall
<1>5. CASE \E c \in Calls : Fail(c)
  BY <1>5 DEF Next
<1>6. CASE \E p \in Protocols : Restart(p)
  BY <1>6 DEF Next
<1> QED
  BY <1>1, <1>2, <1>3, <1>4, <1>5, <1>6 DEF TransportNext

LEMMA TransportInv == TransportSpec => []Inv
<1>1. Init => Inv
  BY InitInv
<1>2. Inv /\ [TransportNext]_vars => Inv'
  BY StepsAreSteps, NextKeepsInv
<1> QED
  BY <1>1, <1>2, PTL DEF TransportSpec

(* What a framed call does is what AvroIPC says of calls: however long the   *)
(* messages are, for any size of a buffer and of a header (write_framed_     *)
(* message, read_framed_message, RequestStreamingProducer, AvroProtocol).    *)
THEOREM FramedCallsAreCalls == TransportSpec => ImplementsIPC
<1>1. TransportSpec => [][Next]_vars
  BY TransportInv, StepsAreSteps, PTL DEF TransportSpec
<1> QED
  BY <1>1, PTL DEF TransportSpec, ImplementsIPC, Spec

(* And so every theorem about calls holds of calls over HTTP.                *)
THEOREM FramedCallsAgree ==
    TransportSpec => [](PerformedOnce /\ TwoSends /\ ReadAsWritten /\ HandshakeAgrees)
  BY FramedCallsAreCalls, CallsArePerformedOnce, RequestsAreSentTwice, AnswersAreReadAsWritten,
     HandshakesAgree, PTL DEF ImplementsIPC

(* A framed request is read whole, by whichever transceiver it was framed;   *)
(* its answer fires the Deferred of AvroProtocol once with the whole message *)
(* wherever dataReceived is given it in two, and connectionLost fires it     *)
(* once with an error when the end had not come.                             *)
THEOREM FramingStaysIntact == TransportSpec => []FramingIntact
<1>1. Inv => FramingIntact
  <2> SUFFICES ASSUME Inv, NEW c \in Calls
               PROVE  /\ stage[c] = "sent" =>
                            ReadFramedMessage(Body(c)) = <<RequestBytes(request[c])>>
                      /\ stage[c] = "answered" =>
                            LET bytes == AnswerBytes(response[c])
                                body == WriteFramedMessage(bytes)
                            IN \A n \in 1 .. Len(body) : \A i \in 0 .. n - 1 :
                                  LET st == DataReceived(DataReceived(NewProtocol, SubSeq(body, 1, i)),
                                                         SubSeq(body, i + 1, n))
                                  IN ConnectionLost(st).fired =
                                        <<IF n = Len(body) THEN <<bytes>> ELSE Closed>>
    BY DEF FramingIntact
  <2>1. stage[c] = "sent" => request[c] \in CallRequests
    BY DEF Inv, CallsInv, CallInv
  <2> DEFINE bytes == AnswerBytes(response[c])
  <2>2. HasLengths(Alphabet(response[c])) /\ bytes \in Seq(Alphabet(response[c]))
    BY AnswerBytesAre
  <2> HIDE DEF bytes
  <2>3. LET body == WriteFramedMessage(bytes)
        IN \A n \in 1 .. Len(body) : \A i \in 0 .. n - 1 :
              LET st == DataReceived(DataReceived(NewProtocol, SubSeq(body, 1, i)),
                                     SubSeq(body, i + 1, n))
              IN ConnectionLost(st).fired = <<IF n = Len(body) THEN <<bytes>> ELSE Closed>>
    BY <2>2, PiecesAreRead
  <2>4. stage[c] = "sent" => ReadFramedMessage(Body(c)) = <<RequestBytes(request[c])>>
    BY <2>1, BodyIsRead
  <2> QED
    BY <2>3, <2>4, Zenon DEF bytes
<1> QED
  BY <1>1, TransportInv, PTL
=============================================================================
