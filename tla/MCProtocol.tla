------------------------------ MODULE MCProtocol ------------------------------
(* Small instances of the DI state machine.                              *)
EXTENDS Protocol
=============================================================================
