-------------------------- MODULE MCAvroTransport --------------------------
EXTENDS AvroTransport, TLC

CONSTANTS blocking, other, twisted, P, Q, get, put

(* Two requestors on one transceiver, or on one each. *)
MCNamings == {(blocking :> 1 @@ other :> 1 @@ twisted :> None),
              (blocking :> 1 @@ other :> 2 @@ twisted :> None),
              (blocking :> 1 @@ other :> None @@ twisted :> 2)}
MCLocal == (blocking :> Q @@ other :> P @@ twisted :> P)
MCMaxCalls == (blocking :> 1 @@ other :> 2 @@ twisted :> 2)

(* What the protocols differ in: a response that is promoted one way and not *)
(* the other, errors that are declared, a message that only one of them has. *)
MCSignature ==
    (P :> (get :> [request |-> "null", response |-> "int", errors |-> TRUE]
           @@ put :> [request |-> "int", response |-> "null", errors |-> FALSE])
     @@ Q :> (get :> [request |-> "null", response |-> "long", errors |-> FALSE] @@ put :> None))
MCResolvable == {<<t, t>> : t \in {"null", "int", "long"}} \cup {<<"int", "long">>}

MCRequestSize == (get :> 2 @@ put :> 7)
=============================================================================
