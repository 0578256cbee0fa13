----------------------------- MODULE MCTransport -----------------------------
(* Small instances of the transport model: two body bytes, a two-byte    *)
(* request header and a two-byte request body.                           *)
EXTENDS TransportProofs

MCBodyBytes == <<"b1", "b2">>
MCHdrOut == <<"h1", "h2">>
MCMsgOut == <<"m1", "m2">>
=============================================================================
