------------------------------ MODULE Protocol ------------------------------
(***************************************************************************)
(* The Device Initialize (DI) part of the protocol state machine: the    *)
(* message step msg10 (src/lib/prot/di/msg10.c) and the state driver     *)
(* that runs the steps in their fixed order, hands each built message to *)
(* sdoConSendMessage and reads the reply.  The driver and the steps      *)
(* msg11-msg13 are not part of src/ and follow the spec (section 4.4):   *)
(* a step that fails aborts the session; a step that succeeds moves to  *)
(* its one successor.  A message written to sdow is a sequence of        *)
(* abstract tokens.  The send is judged by the transport's own check of *)
(* the write result (TransportOps!WriteResult).                          *)
(***************************************************************************)
EXTENDS Integers, Sequences, TransportOps

CONSTANTS
    TlsModes,     \* values of the ssl argument the session may use
    MaxSessions   \* bound on the sessions the caller starts

ASSUME ProtocolAssumption == TlsModes \subseteq BOOLEAN /\ MaxSessions \in Nat \ {0}

VARIABLES
    state,   \* ps->state
    phase,   \* "build", "send", "recv", "done" or "aborted"
    sdow,    \* the message written into ps->sdow
    peer,    \* the messages the manufacturer received, as written
    tls,     \* the session's connection is TLS
    sessions \* sessions started so far

vars == <<state, phase, sdow, peer, tls, sessions>>

-----------------------------------------------------------------------------
(* The DI states in protocol order (spec: linear, no branching).         *)
Order == <<"SDO_STATE_DI_APP_START", "SDO_STATE_DI_SET_CREDENTIALS",
           "SDO_STATE_DI_SET_HMAC", "SDO_STATE_DI_DONE", "SDO_STATE_DONE">>
States == {Order[i] : i \in 1..Len(Order)}
Idx(s) == CHOOSE i \in 1..Len(Order) : Order[i] = s
Succ(s) == Order[Idx(s) + 1]

(* The messages the device sends: DI.AppStart { "m": String } and        *)
(* DI.SetHMAC.                                                            *)
Msg10Full == <<"block10", "begin", "tag_m", "mstring", "end">>
Msg12Full == <<"block12", "begin", "tag_hmac", "hmac", "end">>
FullMsgs == {Msg10Full, Msg12Full}

(* msg10, lines 30-79: sdoWNextBlock, sdoWBeginObject and sdoWriteTag    *)
(* "m" (lines 35-37); then the m-string, from ps_get_m_string or, in    *)
(* the TPM build, from a file read into a fresh byte array (lines       *)
(* 41-67), which may fail (mok = FALSE) and jumps to err leaving sdow    *)
(* half written and the state as it was; else sdoWEndObject and the     *)
(* state SDO_STATE_DI_SET_CREDENTIALS (lines 71-75).                     *)
Msg10IgnoresError(s, mok) ==
    [ret |-> 0, state |-> "SDO_STATE_DI_SET_CREDENTIALS",
     sdow |-> <<"block10", "begin", "tag_m">>
              \o (IF mok THEN <<"mstring">> ELSE <<>>) \o <<"end">>]
Msg10Result(s, mok) ==
    LET head == <<"block10", "begin", "tag_m">>
    IN IF ~mok THEN [ret |-> -1, state |-> s, sdow |-> head]
       ELSE [ret |-> 0, state |-> "SDO_STATE_DI_SET_CREDENTIALS",
             sdow |-> head \o <<"mstring", "end">>]

(* Where the driver goes when a step fails: the session is aborted     *)
(* (spec: no partial-state retry).                                       *)
FailPhaseRetries(p) == p
FailPhase(p) == "aborted"

-----------------------------------------------------------------------------
Init ==
    /\ state = "SDO_STATE_DI_APP_START"
    /\ phase = "build"
    /\ sdow = <<>>
    /\ peer = <<>>
    /\ tls \in TlsModes
    /\ sessions = 1

(* The driver runs msg10 in SDO_STATE_DI_APP_START; a failure ends the  *)
(* session.                                                               *)
Msg10(mok) ==
    LET r == Msg10Result(state, mok)
    IN /\ phase = "build" /\ state = "SDO_STATE_DI_APP_START"
       /\ sdow' = r.sdow
       /\ state' = r.state
       /\ phase' = IF r.ret = 0 THEN "send" ELSE FailPhase(phase)
       /\ UNCHANGED <<peer, tls, sessions>>

(* msg12 (spec): DI.SetHMAC is built; the state moves on only after it  *)
(* is sent.                                                              *)
Msg12(ok) ==
    /\ phase = "build" /\ state = "SDO_STATE_DI_SET_HMAC"
    /\ sdow' = IF ok THEN Msg12Full ELSE <<"block12", "begin">>
    /\ phase' = IF ok THEN "send" ELSE FailPhase(phase)
    /\ UNCHANGED <<state, peer, tls, sessions>>

(* The driver hands sdow to sdoConSendMessage; n is what the socket      *)
(* write returns.  The peer receives what was written; the transport's  *)
(* verdict decides whether the session goes on.                          *)
SendMsg(n) ==
    LET r == WriteResult(tls, n, Len(sdow))
        got == SubSeq(sdow, 1, IF n > 0 THEN n ELSE 0)
    IN /\ phase = "send"
       /\ peer' = IF n > 0 THEN Append(peer, got) ELSE peer
       /\ phase' = IF r = "ok" THEN "recv" ELSE FailPhase(phase)
       /\ state' = IF r = "ok" /\ state = "SDO_STATE_DI_SET_HMAC" THEN Succ(state)
                   ELSE state
       /\ UNCHANGED <<sdow, tls, sessions>>

(* msg11 / msg13 (spec): the reply is read and consumed.  The           *)
(* manufacturer answers only a complete message; reading may fail.      *)
RecvMsg(ok) ==
    /\ phase = "recv"
    /\ ok => peer # <<>> /\ peer[Len(peer)] \in FullMsgs
    /\ state' = IF ok THEN Succ(state) ELSE state
    /\ phase' = IF ~ok THEN FailPhase(phase)
                ELSE IF Succ(state) = "SDO_STATE_DONE" THEN "done" ELSE "build"
    /\ UNCHANGED <<sdow, peer, tls, sessions>>

(* Fault: the new session keeps the aborted session's state.            *)
RestartKeepsState(t) ==
    /\ phase = "aborted" /\ sessions < MaxSessions
    /\ phase' = "build"
    /\ sdow' = <<>> /\ peer' = <<>> /\ tls' = t
    /\ sessions' = sessions + 1 /\ UNCHANGED state
(* The caller restarts the whole session after an abort (spec: no      *)
(* partial retry; a new session starts from the first state).           *)
Restart(t) ==
    /\ phase = "aborted" /\ sessions < MaxSessions
    /\ state' = "SDO_STATE_DI_APP_START" /\ phase' = "build"
    /\ sdow' = <<>> /\ peer' = <<>> /\ tls' = t
    /\ sessions' = sessions + 1

Next ==
    \/ \E t \in TlsModes : Restart(t)
    \/ \E mok \in BOOLEAN : Msg10(mok)
    \/ \E ok \in BOOLEAN : Msg12(ok)
    \/ \E n \in -1..Len(Msg10Full) : n <= Len(sdow) /\ SendMsg(n)
    \/ \E ok \in BOOLEAN : RecvMsg(ok)

(* One sequential session: each step runs when the previous one returns. *)
Spec == Init /\ [][Next]_vars /\ WF_vars(Next)

-----------------------------------------------------------------------------
TypeOK ==
    /\ state \in States
    /\ phase \in {"build", "send", "recv", "done", "aborted"}
    /\ sdow \in Seq({"block10", "block12", "begin", "tag_m", "tag_hmac",
                     "mstring", "hmac", "end"})
    /\ tls \in BOOLEAN
    /\ sessions \in 1..MaxSessions

(* Only complete messages are handed to sdoConSendMessage: a step whose *)
(* m-string could not be produced never sends its half-written sdow.     *)
NoPartialSend == phase = "send" => sdow \in FullMsgs

(* Within a session the state only ever moves to its declared          *)
(* successor (spec: a fixed linear order, no skipping, no backward      *)
(* transition); only a new session starts again from the first state.   *)
LinearOrder ==
    [][sessions' = sessions => state' = state \/ state' = Succ(state)]_vars

(* DI ends: it completes, or the caller's last session aborts; no step  *)
(* leaves the driver stuck between messages.                             *)
Terminates == <>(phase = "done" \/ (phase = "aborted" /\ sessions = MaxSessions))

(* The state leaves SDO_STATE_DI_APP_START only once the manufacturer   *)
(* has received the whole DI.AppStart (spec: state transitions occur    *)
(* strictly after a step's I/O succeeds).                                *)
StateAfterIO ==
    state # "SDO_STATE_DI_APP_START" => \E i \in 1..Len(peer) : peer[i] = Msg10Full

-----------------------------------------------------------------------------
(* The driver implements the abstract DI state machine: hiding messages, *)
(* the connection and the step phases, every step of msg10, msg12, the  *)
(* send, the receive and a restart is an advance by one state, a new     *)
(* session, or no change of the protocol state.                          *)
Abs == INSTANCE DIAbstract WITH state <- state, sessions <- sessions
ImplementsDI == Abs!Spec

=============================================================================
