--------------------------- MODULE ExchangeAbstract ---------------------------
(***************************************************************************)
(* What one request/response exchange over the transport promises its    *)
(* caller, without sockets, chunks or bytes read (spec section 4.3): the  *)
(* caller connects, sends its request, receives and disconnects, in that  *)
(* order; a send that reports success has delivered the whole header and *)
(* body and returns the body length; a send that fails has delivered at   *)
(* most a prefix of them, never other bytes; a failed connect or send     *)
(* skips the receive.                                                      *)
(***************************************************************************)
EXTENDS Integers, Sequences

CONSTANTS
    HdrOut,       \* the request header
    MsgOut        \* the request body

VARIABLES
    stage,        \* "connect", "send", "recv", "close" or "done"
    toPeer,       \* what the peer has received
    sendRet       \* what the send returned, -2 before it returns

Message == HdrOut \o MsgOut
Prefixes == {SubSeq(Message, 1, i) : i \in 0..Len(Message)}

Init == stage = "connect" /\ toPeer = <<>> /\ sendRet = -2

(* The connection is made, or the exchange ends at once.                 *)
Connect ==
    /\ stage = "connect"
    /\ stage' \in {"send", "done"}
    /\ UNCHANGED <<toPeer, sendRet>>

(* The whole request is delivered and the body length returned.          *)
SendOk ==
    /\ stage = "send"
    /\ stage' = "recv"
    /\ toPeer' = Message
    /\ sendRet' = Len(MsgOut)

(* The send fails after delivering a prefix of the request.              *)
SendFail ==
    /\ stage = "send"
    /\ stage' = "close"
    /\ toPeer' \in Prefixes
    /\ sendRet' = -1

(* The receive ends, with the response or with an error.                 *)
RecvEnd ==
    /\ stage = "recv"
    /\ stage' = "close"
    /\ UNCHANGED <<toPeer, sendRet>>

(* The caller disconnects.                                               *)
Disconnect ==
    /\ stage = "close"
    /\ stage' = "done"
    /\ UNCHANGED <<toPeer, sendRet>>

Next == Connect \/ SendOk \/ SendFail \/ RecvEnd \/ Disconnect

Spec == Init /\ [][Next]_<<stage, toPeer, sendRet>>

=============================================================================
