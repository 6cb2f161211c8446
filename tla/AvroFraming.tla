----------------------------- MODULE AvroFraming -----------------------------
(***************************************************************************)
(* The framing of ipc.py and txipc.py: a message is cut into buffers, each *)
(* behind its length in BUFFER_HEADER_LENGTH bytes, and a length of zero   *)
(* ends it.  A byte of a length is <<"length", n, i>>, one of a message    *)
(* <<"byte", message, i>>.                                                 *)
(***************************************************************************)
EXTENDS Integers, Sequences, SequencesExt

CONSTANTS BUFFER_SIZE, BUFFER_HEADER_LENGTH

ASSUME FramingAssumption == BUFFER_SIZE \in Nat \ {0} /\ BUFFER_HEADER_LENGTH \in Nat \ {0}

Header(n) == [i \in 1 .. BUFFER_HEADER_LENGTH |-> <<"length", n, i>>]
WriteBuffer(chunk) == Header(Len(chunk)) \o chunk

\* message[from : to] of Python, which is shorter at the end of the message.
Slice(message, from, to) == SubSeq(message, from + 1, IF to < Len(message) THEN to ELSE Len(message))
Ceiling(n, d) == (n + d - 1) \div d

\* The first n buffers of BUFFER_SIZE bytes.
WriteBuffers(message, n) ==
    FlattenSeq([i \in 1 .. n |->
        WriteBuffer(Slice(message, (i - 1) * BUFFER_SIZE, i * BUFFER_SIZE))])

\* FramedWriter.write_framed_message
WriteFramedMessage(message) ==
    WriteBuffers(message, Ceiling(Len(message), BUFFER_SIZE)) \o Header(0)

-----------------------------------------------------------------------------
(* RequestStreamingProducer: the length it declares allows for the headers,  *)
(* and what it has sent is counted against that length, so that it may write *)
(* a buffer more than the message has; that buffer is empty.                 *)
ProducerLength(message) ==
    Len(message) + (Len(message) \div BUFFER_SIZE + 2) * BUFFER_HEADER_LENGTH
ProducerWrites(message) == Ceiling(ProducerLength(message), BUFFER_SIZE)
ProducedLength(message) == Len(message) + (ProducerWrites(message) + 1) * BUFFER_HEADER_LENGTH
Produced(message) == WriteBuffers(message, ProducerWrites(message)) \o Header(0)

-----------------------------------------------------------------------------
(* The buffers at the front of what has been received: rest is what follows  *)
(* them, ended that a length of zero does.                                   *)
TakeBuffer(st) ==
    LET n == st.rest[1][2]
        size == BUFFER_HEADER_LENGTH + n
    IN IF st.ended \/ Len(st.rest) < BUFFER_HEADER_LENGTH THEN st
       ELSE IF n = 0 THEN [st EXCEPT !.ended = TRUE]
       ELSE IF Len(st.rest) < size THEN st
       ELSE [st EXCEPT !.message = @ \o SubSeq(st.rest, BUFFER_HEADER_LENGTH + 1, size),
                       !.rest = SubSeq(st.rest, size + 1, Len(st.rest))]

TakeBuffers(st) ==
    FoldLeft(LAMBDA s, i : TakeBuffer(s), st,
             [i \in 1 .. Len(st.rest) \div BUFFER_HEADER_LENGTH |-> i])

Empty == [rest |-> <<>>, message |-> <<>>, ended |-> FALSE]

(* FramedReader.read_framed_message: <<the message>>, or Closed if the input  *)
(* ends before it does (ConnectionClosedException).                          *)
Closed == <<>>
ReadFramedMessage(bytes) ==
    LET st == TakeBuffers([Empty EXCEPT !.rest = bytes])
    IN IF st.ended THEN <<st.message>> ELSE Closed

(* AvroProtocol, with what it has handed to its Deferred ("fired"): the      *)
(* message, or Closed for an errback.                                        *)
NewProtocol == [rest |-> <<>>, message |-> <<>>, ended |-> FALSE, fired |-> <<>>]

\* Mutant: one buffer is taken for each chunk.
DataReceived_One(st, data) ==
    LET got == TakeBuffer([st EXCEPT !.rest = @ \o data, !.ended = FALSE])
    IN IF got.ended THEN [got EXCEPT !.fired = Append(@, <<got.message>>)] ELSE got

DataReceived(st, data) ==
    LET got == TakeBuffers([st EXCEPT !.rest = @ \o data, !.ended = FALSE])
    IN IF got.ended THEN [got EXCEPT !.fired = Append(@, <<got.message>>)] ELSE got

ConnectionLost(st) == IF st.ended THEN st ELSE [st EXCEPT !.fired = Append(@, Closed)]
=============================================================================
