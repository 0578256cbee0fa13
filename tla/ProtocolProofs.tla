--------------------------- MODULE ProtocolProofs ---------------------------
(***************************************************************************)
(* Proofs about the DI driver model (module Protocol), for every bound on *)
(* the sessions and every set of connection modes: its type, that only   *)
(* complete messages are sent, that the state only moves to its          *)
(* successor, and that it implements the abstract DI state machine.      *)
(*                                                                         *)
(* None of these is inductive on its own.  What makes them so is where   *)
(* each phase of a step can find the protocol state (PhaseStates): a    *)
(* message is built only in the two states whose step sends one, and    *)
(* sent and answered only in the state that step moved to; so the       *)
(* successor taken on a reply always exists.                            *)
(***************************************************************************)
EXTENDS Protocol, SequenceTheorems, TLAPS

S1 == "SDO_STATE_DI_APP_START"
S2 == "SDO_STATE_DI_SET_CREDENTIALS"
S3 == "SDO_STATE_DI_SET_HMAC"
S4 == "SDO_STATE_DI_DONE"
S5 == "SDO_STATE_DONE"

(* The states each phase of a step can be in.                            *)
PhaseStates ==
    /\ phase = "build" => state \in {S1, S3}
    /\ phase = "send" => state \in {S2, S3}
    /\ phase = "recv" => state \in {S2, S4}

(* The inductive invariant.                                              *)
IInv == TypeOK /\ NoPartialSend /\ PhaseStates

Tokens == {"block10", "block12", "begin", "tag_m", "tag_hmac", "mstring",
           "hmac", "end"}

-----------------------------------------------------------------------------
(* The successor of each state that has one, and the position of every *)
(* state in Order.                                                       *)
LEMMA SuccValues ==
    /\ Succ(S1) = S2 /\ Succ(S2) = S3 /\ Succ(S3) = S4 /\ Succ(S4) = S5
    /\ Order[1] = S1 /\ Order[Len(Order)] = S5
    /\ States = {S1, S2, S3, S4, S5}
  <1>1. Idx(S1) = 1
    BY DEF Idx, Order, S1
  <1>2. Idx(S2) = 2
    BY DEF Idx, Order, S2
  <1>3. Idx(S3) = 3
    BY DEF Idx, Order, S3
  <1>4. Idx(S4) = 4
    BY DEF Idx, Order, S4
  <1>5. States = {S1, S2, S3, S4, S5}
    BY DEF States, Order, S1, S2, S3, S4, S5
  <1>6. QED
    BY <1>1, <1>2, <1>3, <1>4, <1>5 DEF Succ, Order, S1, S2, S3, S4, S5

(* The positions DIAbstract computes are the driver's own.               *)
LEMMA AbsValues ==
    /\ Abs!Last = S5
    /\ Abs!Position(S1) = 1 /\ Abs!Position(S2) = 2
    /\ Abs!Position(S3) = 3 /\ Abs!Position(S4) = 4
  BY SuccValues DEF Abs!Last, Abs!Position, Idx, Order, S1, S2, S3, S4, S5

(* A move of the driver to the successor of a state before the last is *)
(* an Advance of the abstract machine.                                   *)
LEMMA AdvanceStep ==
  ASSUME NEW s \in {S1, S2, S3, S4}, state = s, state' = Succ(s),
         sessions' = sessions
  PROVE  Abs!Advance
  <1>1. s # Abs!Last
    BY AbsValues DEF S1, S2, S3, S4, S5
  <1>2. Order[Abs!Position(s) + 1] = Succ(s)
    BY AbsValues, SuccValues DEF Order, S1, S2, S3, S4, S5
  <1>3. QED
    BY <1>1, <1>2 DEF Abs!Advance

(* The messages a step writes are sequences of message tokens.          *)
LEMMA MsgTypes ==
    /\ Msg10Full \in Seq(Tokens) /\ Msg12Full \in Seq(Tokens)
    /\ <<"block10", "begin", "tag_m">> \in Seq(Tokens)
    /\ <<"block12", "begin">> \in Seq(Tokens)
    /\ <<"block10", "begin", "tag_m">> \o <<"mstring", "end">> = Msg10Full
  <1>1. Msg10Full \in Seq(Tokens)
    BY DEF Msg10Full, Tokens
  <1>2. Msg12Full \in Seq(Tokens)
    BY DEF Msg12Full, Tokens
  <1>3. <<"block10", "begin", "tag_m">> \in Seq(Tokens)
    BY DEF Tokens
  <1>4. <<"block12", "begin">> \in Seq(Tokens)
    BY DEF Tokens
  <1>5. <<"block10", "begin", "tag_m">> \o <<"mstring", "end">> = Msg10Full
    <2> DEFINE h == <<"block10", "begin", "tag_m">>
               t == <<"mstring", "end">>
    <2>1. h \in Seq(Tokens) /\ t \in Seq(Tokens)
      BY DEF Tokens
    <2>2. Len(h \o t) = 5 /\ \A i \in 1..5 : (h \o t)[i] = Msg10Full[i]
      BY <2>1 DEF Msg10Full
    <2>3. h \o t \in Seq(Tokens)
      BY <2>1
    <2>4. Len(Msg10Full) = 5
      BY DEF Msg10Full
    <2>5. QED
      BY <2>2, <2>3, <2>4, <1>1, SeqEqual
  <1>6. QED
    BY <1>1, <1>2, <1>3, <1>4, <1>5

-----------------------------------------------------------------------------
LEMMA InitIInv == Init => IInv
  BY SuccValues, ProtocolAssumption DEF Init, IInv, TypeOK, NoPartialSend,
     PhaseStates, S1

(* Every step keeps IInv: one case per action of Next.                   *)
LEMMA NextIInv == IInv /\ [Next]_vars => IInv'
  <1> SUFFICES ASSUME IInv, [Next]_vars PROVE IInv'
    OBVIOUS
  <1> USE SuccValues, MsgTypes, ProtocolAssumption
          DEF IInv, TypeOK, NoPartialSend, PhaseStates, FullMsgs, Tokens
  <1>1. ASSUME NEW t \in TlsModes, Restart(t) PROVE IInv'
    BY <1>1 DEF Restart, S1
  <1>2. ASSUME NEW mok \in BOOLEAN, Msg10(mok) PROVE IInv'
    <2>1. CASE mok
      <3>1. sdow' = Msg10Full /\ state' = S2 /\ phase' = "send"
        BY <1>2, <2>1 DEF Msg10, Msg10Result, S2
      <3>2. UNCHANGED <<peer, tls, sessions>>
        BY <1>2 DEF Msg10
      <3>3. QED
        BY <3>1, <3>2
    <2>2. CASE ~mok
      <3>1. sdow' = <<"block10", "begin", "tag_m">> /\ state' = state
            /\ phase' = "aborted"
        BY <1>2, <2>2 DEF Msg10, Msg10Result, FailPhase
      <3>2. UNCHANGED <<peer, tls, sessions>>
        BY <1>2 DEF Msg10
      <3>3. QED
        BY <3>1, <3>2
    <2>3. QED
      BY <2>1, <2>2
  <1>3. ASSUME NEW ok \in BOOLEAN, Msg12(ok) PROVE IInv'
    BY <1>3 DEF Msg12, FailPhase, S3
  <1>4. ASSUME NEW n \in -1..Len(Msg10Full), n <= Len(sdow), SendMsg(n)
        PROVE IInv'
    BY <1>4 DEF SendMsg, FailPhase, S2, S3, S4
  <1>5. ASSUME NEW ok \in BOOLEAN, RecvMsg(ok) PROVE IInv'
    BY <1>5 DEF RecvMsg, FailPhase, S2, S3, S4, S5
  <1>6. CASE UNCHANGED vars
    BY <1>6 DEF vars
  <1>7. QED
    BY <1>1, <1>2, <1>3, <1>4, <1>5, <1>6 DEF Next

(* Within a session a step leaves the state or moves it to Succ.        *)
LEMMA NextLinear ==
    IInv /\ [Next]_vars => (sessions' = sessions => state' = state \/ state' = Succ(state))
  <1> SUFFICES ASSUME IInv, [Next]_vars, sessions' = sessions
               PROVE  state' = state \/ state' = Succ(state)
    OBVIOUS
  <1> USE ProtocolAssumption DEF IInv, TypeOK
  <1>1. ASSUME NEW t \in TlsModes, Restart(t) PROVE FALSE
    BY <1>1 DEF Restart
  <1>2. ASSUME NEW mok \in BOOLEAN, Msg10(mok)
        PROVE state' = state \/ state' = Succ(state)
    BY <1>2, SuccValues DEF Msg10, Msg10Result, PhaseStates, S1, S2
  <1>3. QED
    BY <1>1, <1>2 DEF Next, Msg12, SendMsg, RecvMsg, vars

(* Each step is a step of the abstract DI machine or leaves its state   *)
(* and session count alone.                                              *)
LEMMA NextRefines == IInv /\ [Next]_vars => [Abs!Next]_<<state, sessions>>
  <1> SUFFICES ASSUME IInv, [Next]_vars
               PROVE  [Abs!Next]_<<state, sessions>>
    OBVIOUS
  <1> USE ProtocolAssumption DEF IInv, TypeOK, PhaseStates
  <1>1. ASSUME NEW t \in TlsModes, Restart(t) PROVE Abs!StartOver
    BY <1>1, SuccValues DEF Restart, Abs!StartOver, S1
  <1>2. ASSUME NEW mok \in BOOLEAN, Msg10(mok) PROVE [Abs!Next]_<<state, sessions>>
    <2>1. CASE mok
      <3>1. state = S1 /\ state' = Succ(S1) /\ sessions' = sessions
        BY <1>2, <2>1, SuccValues DEF Msg10, Msg10Result, S1, S2
      <3>2. QED
        BY <3>1, AdvanceStep DEF Abs!Next
    <2>2. CASE ~mok
      BY <1>2, <2>2 DEF Msg10, Msg10Result
    <2>3. QED
      BY <2>1, <2>2
  <1>3. ASSUME NEW ok \in BOOLEAN, Msg12(ok) PROVE UNCHANGED <<state, sessions>>
    BY <1>3 DEF Msg12
  <1>4. ASSUME NEW n \in -1..Len(Msg10Full), n <= Len(sdow), SendMsg(n)
        PROVE [Abs!Next]_<<state, sessions>>
    <2>1. CASE state' = state
      BY <1>4, <2>1 DEF SendMsg
    <2>2. CASE state' # state
      <3>1. state = S3 /\ state' = Succ(S3) /\ sessions' = sessions
        BY <1>4, <2>2 DEF SendMsg, S3
      <3>2. QED
        BY <3>1, AdvanceStep DEF Abs!Next
    <2>3. QED
      BY <2>1, <2>2
  <1>5. ASSUME NEW ok \in BOOLEAN, RecvMsg(ok) PROVE [Abs!Next]_<<state, sessions>>
    <2>1. CASE ~ok
      BY <1>5, <2>1 DEF RecvMsg
    <2>2. CASE ok
      <3>1. state \in {S2, S4} /\ state' = Succ(state) /\ sessions' = sessions
        BY <1>5, <2>2 DEF RecvMsg
      <3>2. QED
        BY <3>1, AdvanceStep DEF Abs!Next
    <2>3. QED
      BY <2>1, <2>2
  <1>6. CASE UNCHANGED vars
    BY <1>6 DEF vars
  <1>7. QED
    BY <1>1, <1>2, <1>3, <1>4, <1>5, <1>6 DEF Next, Abs!Next

-----------------------------------------------------------------------------
(* IInv holds in every reachable state of the driver.                    *)
THEOREM Invariance == Spec => []IInv
  BY InitIInv, NextIInv, PTL DEF Spec

(* The driver's variables keep their types: the protocol state is one   *)
(* of the DI states and the session count stays within its bound.       *)
THEOREM TypeCorrect == Spec => []TypeOK
  BY Invariance, PTL DEF IInv

(* msg10 and msg12 hand sdoConSendMessage only complete messages: a     *)
(* step that failed to build its message never reaches the send.         *)
THEOREM CompleteSends == Spec => []NoPartialSend
  BY Invariance, PTL DEF IInv

(* Within a session the driver's state only moves to its successor.     *)
THEOREM LinearOrderHolds == Spec => LinearOrder
  BY Invariance, NextLinear, PTL DEF Spec, LinearOrder

(* The driver (msg10, the send, the receive, msg12 and restarts)        *)
(* implements the abstract DI state machine of DIAbstract.               *)
THEOREM Refinement == Spec => ImplementsDI
  <1>1. Init => Abs!Init
    BY SuccValues DEF Init, Abs!Init, S1
  <1>2. QED
    BY <1>1, Invariance, NextRefines, PTL DEF Spec, ImplementsDI, Abs!Spec

=============================================================================
