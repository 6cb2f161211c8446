------------------------------- MODULE AvroIPC -------------------------------
(***************************************************************************)
(* ipc.py, the TwistedRequestor of txipc.py and the server of tool.py:     *)
(* requestors call the messages of a server through the handshake that     *)
(* tells each side the protocol of the other.  A protocol stands for its   *)
(* text and for its MD5.  A call is <<requestor, number>>; the requests    *)
(* and responses are whole here (AvroTransport frames them).               *)
(***************************************************************************)
EXTENDS Integers

CONSTANTS
    None,
    Requestors,
    Blocking,        \* those that are a Requestor, the others TwistedRequestors
    Namings,         \* the remote names that transceivers may give the requestors
                     \* (None for a requestor that is not there)
    Protocols,
    local_protocol,  \* of a requestor
    Messages,
    Served,          \* the protocols the server may first be started with
    Tools,           \* the messages a server of tool.py may be run for; None for other servers
    Signature,       \* [Protocols -> [Messages -> what the protocol declares, or None]]
    Resolvable,      \* pairs of a writer's and a reader's type
    MaxCalls,        \* bound: [Requestors -> the calls of one]
    MaxRestarts      \* bound: restarts of the server

Types == UNION {{t[1], t[2]} : t \in Resolvable}
Results == {"value", "misread", "error", "raised", "handshake failure"}
Declaration == [request : Types, response : Types, errors : BOOLEAN]
Names == {naming[r] : naming \in Namings, r \in Requestors}

ASSUME IPCAssumption ==
    /\ Blocking \subseteq Requestors
    /\ local_protocol \in [Requestors -> Protocols] /\ \A naming \in Namings : DOMAIN naming = Requestors
    /\ Signature \in [Protocols -> [Messages -> Declaration \cup {None}]]
    /\ Served \subseteq Protocols /\ Tools \subseteq Messages \cup {None}
    /\ None \notin Protocols \cup Types \cup Messages \cup Declaration \cup Results \cup BOOLEAN
    /\ MaxCalls \in [Requestors -> Nat] /\ MaxRestarts \in Nat

VARIABLES
    REMOTE_HASHES,    \* of the client's process
    remote_name,      \* of the transceiver of a requestor, which others may share
    remote_protocol, send_protocol,                    \* of a requestor
    stage, request, response, result, sends, invoked,  \* of a call
    server,           \* the protocol of the responder
    protocol_cache,   \* the protocols it knows
    tool,             \* the message after which the server of tool.py ends, or None
    up, restarts

client == <<REMOTE_HASHES, remote_name, remote_protocol, send_protocol>>
call == <<stage, request, response, result, sends, invoked>>
host == <<server, protocol_cache, tool, up, restarts>>
vars == <<client, call, host>>

Calls == UNION {{r} \X (1 .. MaxCalls[r]) : r \in Requestors}

Init ==
    /\ REMOTE_HASHES = [n \in Names |-> None] /\ remote_name \in Namings
    /\ remote_protocol = [r \in Requestors |-> None]
    /\ send_protocol = [r \in Requestors |-> FALSE]
    /\ stage = [c \in Calls |-> "idle"]
    /\ request = [c \in Calls |-> None] /\ response = [c \in Calls |-> None]
    /\ result = [c \in Calls |-> None]
    /\ sends = [c \in Calls |-> 0] /\ invoked = [c \in Calls |-> 0]
    /\ server \in Served /\ tool \in Tools
    /\ protocol_cache = {server}
    /\ up = TRUE /\ restarts = 0

-----------------------------------------------------------------------------
Outstanding(c) == stage[c] \in {"sent", "answered", "dropped"}
Finish(c, outcome) ==
    /\ stage' = [stage EXCEPT ![c] = "done"]
    /\ request' = [request EXCEPT ![c] = None] /\ response' = [response EXCEPT ![c] = None]
    /\ result' = [result EXCEPT ![c] = outcome]

(* What request() sends, the client knowing the server by this hash: without *)
(* one it guesses that the server has the client's own protocol.             *)
CallRequest(r, m, hash, send) ==
    [clientHash |-> local_protocol[r],
     serverHash |-> IF hash = None THEN local_protocol[r] ELSE hash,
     clientProtocol |-> send, name |-> m]

(* BaseRequestor.request; a Requestor waits for the answer. *)
Request(c, m) ==
    LET r == c[1]
        hash == REMOTE_HASHES[remote_name[r]]
    IN /\ stage[c] = "idle" /\ remote_name[r] # None
       /\ \A n \in 1 .. c[2] - 1 : stage[<<r, n>>] # "idle"
       /\ r \in Blocking => \A n \in 1 .. c[2] - 1 : stage[<<r, n>>] = "done"
       /\ remote_protocol' = [remote_protocol EXCEPT ![r] =
              IF hash = None THEN local_protocol[r] ELSE @]
       /\ IF Signature[local_protocol[r]][m] = None
          THEN Finish(c, "raised") /\ UNCHANGED sends
          ELSE /\ stage' = [stage EXCEPT ![c] = "sent"]
               /\ request' = [request EXCEPT ![c] =
                      CallRequest(r, m, hash, send_protocol[r])]
               /\ sends' = [sends EXCEPT ![c] = 1]
               /\ UNCHANGED <<response, result>>
       /\ UNCHANGED <<REMOTE_HASHES, remote_name, send_protocol, invoked, host>>

-----------------------------------------------------------------------------
(* Responder.respond.  A response is a handshake, perhaps followed by a flag *)
(* (an error?) and the type of what was written under it.                    *)
Handshake(q) ==
    IF q.clientHash \notin protocol_cache /\ ~q.clientProtocol THEN "NONE"
    ELSE IF q.serverHash = server THEN "BOTH" ELSE "CLIENT"

Cached(q) == protocol_cache \cup IF q.clientProtocol THEN {q.clientHash} ELSE {}

Answer(q, flag, type) ==
    [match |-> Handshake(q), server |-> server, flag |-> flag, type |-> type]

Reply(c, q, flag, type) ==
    /\ stage' = [stage EXCEPT ![c] = "answered"]
    /\ response' = [response EXCEPT ![c] = Answer(q, flag, type)]

(* Mutant: the message is performed before the handshake is looked at. *)
Performs_Always(q) == Signature[server][q.name] # None

(* The message is performed if the client's protocol is known and its        *)
(* request can be read under the server's.                                   *)
Performs(q) ==
    /\ Handshake(q) # "NONE"
    /\ Signature[server][q.name] # None
    /\ <<Signature[q.clientHash][q.name].request, Signature[server][q.name].request>> \in Resolvable

(* The doc of respond promises an error to the client; but a system error is *)
(* encoded into a buffer of its own, and what is returned had been written   *)
(* before: the handshake, or a flag without its value.                       *)
Responds(c, q, outcome) ==
    LET declared == Signature[server][q.name] IN
    CASE ~Performs(q) -> Reply(c, q, None, None)
      [] Performs(q) /\ outcome = "valid" -> Reply(c, q, FALSE, declared.response)
      [] Performs(q) /\ outcome = "invalid" -> Reply(c, q, FALSE, None)
      [] Performs(q) /\ outcome = "raises" /\ declared.errors -> Reply(c, q, TRUE, "error")
      [] Performs(q) /\ outcome = "raises" /\ ~declared.errors ->
            \* write_error(None, ...): not an AvroException, it leaves respond
            stage' = [stage EXCEPT ![c] = "dropped"] /\ UNCHANGED response

(* The responder of tool.py returns its datum for its message and None for   *)
(* the others; its server ends when it has written the response.             *)
ToolInvokes(q, outcome) ==
    /\ tool # None => outcome # "raises"
    /\ tool \notin {None, q.name} /\ Performs(q) =>
          (outcome = "valid" <=> Signature[server][q.name].response = "null")
ForceStop(q) == Performs(q) /\ q.name = tool

(* A server handles one request. *)
Respond(c, q) ==
    /\ up /\ stage[c] = "sent"
    /\ \E outcome \in {"valid", "invalid", "raises"} :
          /\ ToolInvokes(q, outcome)
          /\ Responds(c, q, outcome)
    /\ protocol_cache' = Cached(q)
    /\ invoked' = [invoked EXCEPT ![c] = IF Performs(q) THEN @ + 1 ELSE @]
    /\ up' = ~ForceStop(q)
    /\ UNCHANGED <<client, request, result, sends, server, tool, restarts>>

-----------------------------------------------------------------------------
(* What was written under another schema is misread; a null is read from     *)
(* nothing.                                                                  *)
ReadResponse(writers, readers, a) ==
    IF <<writers, readers>> \notin Resolvable THEN "raised"
    ELSE IF a.type = None THEN IF writers = "null" THEN "value" ELSE "raised"
    ELSE IF a.type = writers THEN "value" ELSE "misread"

(* read_call_response, the server's protocol being taken to be "theirs".     *)
ReadCall(r, m, theirs, a) ==
    LET ours == Signature[local_protocol[r]][m]
        declared == Signature[theirs][m]
    IN IF a.flag = None \/ theirs = None THEN "raised"
       ELSE IF declared = None THEN "raised"
       ELSE IF a.flag THEN IF declared.errors /\ ours.errors THEN "error" ELSE "raised"
       ELSE ReadResponse(declared.response, ours.response, a)

(* Mutant: the client keeps what it thought the server's protocol was. *)
Learn_HashOnly(r, p) ==
    /\ REMOTE_HASHES' = [REMOTE_HASHES EXCEPT ![remote_name[r]] = p]
    /\ UNCHANGED remote_protocol

Learn(r, p) ==
    /\ REMOTE_HASHES' = [REMOTE_HASHES EXCEPT ![remote_name[r]] = p]
    /\ remote_protocol' = [remote_protocol EXCEPT ![r] = p]

(* read_handshake_response, and the rest of issue_request. *)
Matched(c, a) ==
    /\ a.match = "BOTH"
    /\ send_protocol' = [send_protocol EXCEPT ![c[1]] = FALSE]
    /\ Finish(c, ReadCall(c[1], request[c].name, remote_protocol[c[1]], a))
    /\ UNCHANGED <<REMOTE_HASHES, remote_protocol, sends>>

ServerDiffers(c, a) ==
    /\ a.match = "CLIENT" /\ ~send_protocol[c[1]]
    /\ Learn(c[1], a.server)
    /\ Finish(c, ReadCall(c[1], request[c].name, a.server, a))
    /\ UNCHANGED <<send_protocol, sends>>

\* Mutant: the request is sent again without the protocol.
ClientUnknown_Plain(c, a) ==
    /\ a.match = "NONE" /\ ~send_protocol[c[1]]
    /\ Learn(c[1], a.server)
    /\ stage' = [stage EXCEPT ![c] = "sent"]
    /\ request' = [request EXCEPT ![c] = CallRequest(c[1], @.name, a.server, FALSE)]
    /\ sends' = [sends EXCEPT ![c] = @ + 1]
    /\ response' = [response EXCEPT ![c] = None]
    /\ UNCHANGED <<send_protocol, result>>

\* Mutant: the client sends its protocol, but not the server's hash.
ClientUnknown_OldHash(c, a) ==
    /\ a.match = "NONE" /\ ~send_protocol[c[1]]
    /\ send_protocol' = [send_protocol EXCEPT ![c[1]] = TRUE]
    /\ stage' = [stage EXCEPT ![c] = "sent"]
    /\ request' = [request EXCEPT ![c].clientProtocol = TRUE]
    /\ response' = [response EXCEPT ![c] = None]
    /\ sends' = [sends EXCEPT ![c] = @ + 1]
    /\ UNCHANGED <<REMOTE_HASHES, remote_protocol, result>>

ClientUnknown(c, a) ==
    /\ a.match = "NONE" /\ ~send_protocol[c[1]]
    /\ Learn(c[1], a.server)
    /\ send_protocol' = [send_protocol EXCEPT ![c[1]] = TRUE]
    /\ stage' = [stage EXCEPT ![c] = "sent"]
    /\ request' = [request EXCEPT ![c] = CallRequest(c[1], @.name, a.server, TRUE)]
    /\ sends' = [sends EXCEPT ![c] = @ + 1]
    /\ response' = [response EXCEPT ![c] = None]
    /\ UNCHANGED result

\* Mutant: only an answer with the server's protocol is a failure.
HandshakeFailure_ClientOnly(c, a) ==
    /\ a.match = "CLIENT" /\ send_protocol[c[1]]
    /\ Finish(c, "handshake failure")
    /\ UNCHANGED <<REMOTE_HASHES, remote_protocol, send_protocol, sends>>

\* The requestor stays as it is, and so will its next request.
HandshakeFailure(c, a) ==
    /\ a.match \in {"CLIENT", "NONE"} /\ send_protocol[c[1]]
    /\ Finish(c, "handshake failure")
    /\ UNCHANGED <<REMOTE_HASHES, remote_protocol, send_protocol, sends>>

Receive(c, a) ==
    /\ stage[c] = "answered"
    /\ Matched(c, a) \/ ServerDiffers(c, a) \/ ClientUnknown(c, a) \/ HandshakeFailure(c, a)
    /\ UNCHANGED <<remote_name, invoked, host>>

-----------------------------------------------------------------------------
\* The transport neither delivers the request nor fails.
Hang(c) ==
    /\ stage[c] = "sent"
    /\ stage' = [stage EXCEPT ![c] = "dropped"]
    /\ UNCHANGED <<client, request, response, result, sends, invoked, host>>

\* The transport fails, before or after the server has had the request.
Fail(c) ==
    /\ Outstanding(c)
    /\ Finish(c, "raised")
    /\ UNCHANGED <<client, sends, invoked, host>>

\* The server is stopped, or had ended, and started, perhaps with another protocol.
Restart(p) ==
    /\ restarts < MaxRestarts
    /\ server' = p /\ protocol_cache' = {p} /\ up' = TRUE /\ restarts' = restarts + 1
    /\ UNCHANGED <<client, call, tool>>

Next ==
    \/ \E c \in Calls, m \in Messages : Request(c, m)
    \/ \E c \in Calls : Respond(c, request[c]) \/ Receive(c, response[c]) \/ Hang(c) \/ Fail(c)
    \/ \E p \in Protocols : Restart(p)

Spec == Init /\ [][Next]_vars

-----------------------------------------------------------------------------
CallRequests == [clientHash : Protocols, serverHash : Protocols, clientProtocol : BOOLEAN,
                 name : Messages]
Answers == [match : {"BOTH", "CLIENT", "NONE"}, server : Protocols,
            flag : BOOLEAN \cup {None}, type : Types \cup {"error", None}]

TypeOK ==
    /\ REMOTE_HASHES \in [Names -> Protocols \cup {None}] /\ remote_name \in Namings
    /\ remote_protocol \in [Requestors -> Protocols \cup {None}]
    /\ send_protocol \in [Requestors -> BOOLEAN]
    /\ stage \in [Calls -> {"idle", "sent", "answered", "dropped", "done"}]
    /\ request \in [Calls -> CallRequests \cup {None}]
    /\ response \in [Calls -> Answers \cup {None}]
    /\ result \in [Calls -> Results \cup {None}]
    /\ sends \in [Calls -> Nat] /\ invoked \in [Calls -> Nat]
    /\ server \in Protocols /\ protocol_cache \subseteq Protocols
    /\ tool \in Tools /\ up \in BOOLEAN /\ restarts \in Nat

Shares(r) == \E s \in Requestors \ {r} : remote_name[s] = remote_name[r]

(* A client never takes the bytes of one type for those of another: it reads *)
(* an answer under the protocol of the server that wrote it, whatever        *)
(* restarts of the server, lost answers and failed handshakes came before.   *)
(* Only a requestor that shares its remote name with another may, for the    *)
(* hashes are by name and the protocols by requestor, and one that has       *)
(* several calls under way while the server is restarted.                    *)
ReadAsWritten ==
    \A c \in Calls : result[c] = "misread" =>
        Shares(c[1]) \/ (c[1] \notin Blocking /\ restarts > 0)

(* A message is performed at most once for each call of it, although the     *)
(* handshake may send the request twice; and a call that returns a value was *)
(* performed.                                                                *)
PerformedOnce ==
    \A c \in Calls : invoked[c] <= 1 /\ (result[c] = "value" => invoked[c] = 1)

(* One request is sent again at most, whoever else talks to the server.      *)
TwoSends == \A c \in Calls : sends[c] <= 2

(* A handshake fails only if the server was restarted, or another call of    *)
(* the requestor was sending its protocol at the time.                       *)
HandshakeAgrees ==
    \A c \in Calls : result[c] = "handshake failure" =>
        \/ restarts > 0
        \/ c[1] \notin Blocking /\ \E n \in 1 .. MaxCalls[c[1]] : n # c[2] /\ sends[<<c[1], n>>] = 2
=============================================================================
