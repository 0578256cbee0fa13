--------------------------- MODULE TransportProofs ---------------------------
(***************************************************************************)
(* Proofs about the transport model (module Transport) for every header   *)
(* size, response shape and request.  Each result is stated for the path *)
(* on which the code keeps its promise; the other path is a finding,      *)
(* shown by a counterexample run:                                          *)
(*  - on the plain-socket path, sdoConSendMessage reports success only     *)
(*    after the whole header and body reached the peer (SendFaithful); on  *)
(*    the TLS path a short write is reported as success;                   *)
(*  - on the TLS path, the connection is closed exactly once (CloseOnce);  *)
(*    on the plain path a failed write closes it inside sdoConSendMessage  *)
(*    and the caller closes it again;                                      *)
(*  - on the plain-socket path the transport implements the abstract       *)
(*    exchange of module ExchangeAbstract (RefinementPlain), with the      *)
(*    receive loops and the peer's writes as stuttering steps.             *)
(* None of the arguments looks at the bytes of the response, so the      *)
(* recursive functions that build it are never unfolded.                  *)
(***************************************************************************)
EXTENDS Transport, SequenceTheorems, TLAPS

(* Only the plain-socket path (ssl = NULL) or only the TLS path is used. *)
PlainOnly == TlsModes = {FALSE}
TlsOnly == TlsModes = {TRUE}

(* Before sdoConSendMessage returns, nothing was sent and its result is  *)
(* the initial -2; afterwards both are left alone.                        *)
SendInv ==
    /\ pc \in Phase
    /\ tls = FALSE
    /\ sendRet \in Int
    /\ pc \in {"connect", "send"} => toPeer = <<>> /\ sendRet = -2
    /\ SendFaithful

(* Until the caller's sdoConDisconnect nothing closed the connection,    *)
(* and every connection made is a TLS one.                                *)
CloseInv ==
    /\ pc \in Phase
    /\ closes \in Nat
    /\ pc # "connect" => tls
    /\ pc # "done" => closes = 0
    /\ CloseOnce

-----------------------------------------------------------------------------
(* On the plain path a write is accepted only when it wrote everything.  *)
LEMMA PlainWriteOk ==
  ASSUME NEW n \in Int, NEW len \in Nat, n <= len,
         WriteResult(FALSE, n, len) = "ok"
  PROVE  n = len /\ n > 0
  BY DEF WriteResult

(* On the TLS path a write result never asks to close the connection.   *)
LEMMA TlsWriteKeeps ==
  ASSUME NEW n, NEW len
  PROVE  WriteResult(TRUE, n, len) # "err_close"
  BY DEF WriteResult

(* What sdoConSendMessage hands the peer when both writes are complete. *)
LEMMA FullSend ==
  ASSUME NEW hn \in Int, NEW bn \in Int, hn = Len(HdrOut), bn = Len(MsgOut)
  PROVE  <<>> \o SubSeq(HdrOut, 1, IF hn > 0 THEN hn ELSE 0)
              \o SubSeq(MsgOut, 1, IF bn > 0 THEN bn ELSE 0) = HdrOut \o MsgOut
  <1>1. HdrOut \in Seq(STRING) /\ MsgOut \in Seq(STRING)
        /\ Len(HdrOut) > 0 /\ Len(MsgOut) > 0
    BY OutAssumption
  <1>2. SubSeq(HdrOut, 1, IF hn > 0 THEN hn ELSE 0) = HdrOut
    BY <1>1, SubSeqFull
  <1>3. SubSeq(MsgOut, 1, IF bn > 0 THEN bn ELSE 0) = MsgOut
    BY <1>1, SubSeqFull
  <1>4. <<>> \o HdrOut = HdrOut
    BY <1>1, ConcatEmptySeq
  <1>5. QED
    BY <1>2, <1>3, <1>4

-----------------------------------------------------------------------------
LEMMA SendInvInit == Init => SendInv
  BY DEF Init, SendInv, Phase, SendFaithful

LEMMA SendInvNext ==
  ASSUME PlainOnly
  PROVE  SendInv /\ [Next]_vars => SendInv'
  <1> SUFFICES ASSUME SendInv, [Next]_vars PROVE SendInv'
    OBVIOUS
  <1> USE DEF SendInv, Phase, SendFaithful
  <1>1. ASSUME NEW t \in TlsModes, NEW ok \in BOOLEAN, sdoConConnect(t, ok)
        PROVE  SendInv'
    BY <1>1 DEF PlainOnly, sdoConConnect
  <1>2. ASSUME NEW hn \in WriteOutcomes(Len(HdrOut)),
               NEW bn \in WriteOutcomes(Len(MsgOut)),
               sdoConSendMessage(hn, bn)
        PROVE  SendInv'
    <2>1. Len(HdrOut) \in Nat /\ Len(MsgOut) \in Nat
      BY OutAssumption
    <2>2. hn \in Int /\ bn \in Int /\ hn <= Len(HdrOut) /\ bn <= Len(MsgOut)
      BY <2>1 DEF WriteOutcomes
    <2>3. toPeer = <<>> /\ tls = FALSE /\ tls' = FALSE /\ pc' \in Phase
      BY <1>2 DEF sdoConSendMessage
    <2>4. sendRet' >= 0 => /\ WriteResult(FALSE, hn, Len(HdrOut)) = "ok"
                           /\ WriteResult(FALSE, bn, Len(MsgOut)) = "ok"
                           /\ sendRet' = bn
      <3>1. sendRet' = IF /\ WriteResult(FALSE, hn, Len(HdrOut)) = "ok"
                          /\ WriteResult(FALSE, bn, Len(MsgOut)) = "ok"
                       THEN bn ELSE -1
        BY <1>2, <2>3 DEF sdoConSendMessage
      <3>2. CASE /\ WriteResult(FALSE, hn, Len(HdrOut)) = "ok"
                 /\ WriteResult(FALSE, bn, Len(MsgOut)) = "ok"
        BY <3>1, <3>2
      <3>3. CASE ~(/\ WriteResult(FALSE, hn, Len(HdrOut)) = "ok"
                   /\ WriteResult(FALSE, bn, Len(MsgOut)) = "ok")
        <4>1. sendRet' = -1
          BY <3>1, <3>3
        <4>2. QED
          BY <4>1
      <3>4. QED
        BY <3>2, <3>3
    <2>5. sendRet' >= 0 => toPeer' = HdrOut \o MsgOut
      <3> SUFFICES ASSUME sendRet' >= 0 PROVE toPeer' = HdrOut \o MsgOut
        OBVIOUS
      <3>1. hn = Len(HdrOut) /\ bn = Len(MsgOut)
        BY <2>1, <2>2, <2>4, PlainWriteOk
      <3>2. toPeer' = <<>> \o SubSeq(HdrOut, 1, IF hn > 0 THEN hn ELSE 0)
                          \o SubSeq(MsgOut, 1, IF bn > 0 THEN bn ELSE 0)
        BY <1>2, <2>3, <2>4 DEF sdoConSendMessage
      <3>3. QED
        BY <2>2, <3>1, <3>2, FullSend
    <2>6. sendRet' \in Int
      BY <1>2, <2>2 DEF sdoConSendMessage
    <2>7. pc' \notin {"connect", "send"}
      BY <1>2 DEF sdoConSendMessage
    <2>8. QED
      BY <2>3, <2>5, <2>6, <2>7
  <1>3. ASSUME NEW e \in BOOLEAN, RecvHeaderLine(e) PROVE SendInv'
    BY <1>3 DEF RecvHeaderLine
  <1>4. CASE sdoConRecvMsgBody
    BY <1>4 DEF sdoConRecvMsgBody
  <1>5. ASSUME NEW n \in -1..Len(BodyBytes), RecvBodyRead(n) PROVE SendInv'
    BY <1>5 DEF RecvBodyRead
  <1>6. CASE sdoConDisconnect
    BY <1>6 DEF sdoConDisconnect
  <1>7. ASSUME NEW k \in 1..Len(peerRem), PeerWrite(k) PROVE SendInv'
    BY <1>7 DEF PeerWrite
  <1>8. CASE PeerClose
    BY <1>8 DEF PeerClose
  <1>9. CASE UNCHANGED vars
    BY <1>9 DEF vars
  <1>10. QED
    BY <1>1, <1>2, <1>3, <1>4, <1>5, <1>6, <1>7, <1>8, <1>9
       DEF Next, Client, Peer

(* On the plain-socket path every reachable state satisfies SendInv:    *)
(* nothing reaches the peer and no result is recorded before            *)
(* sdoConSendMessage runs, and a non-negative result means the whole    *)
(* request was delivered.                                                *)
THEOREM SendInvariance ==
  ASSUME PlainOnly
  PROVE  Spec => []SendInv
  BY SendInvInit, SendInvNext, PTL DEF Spec

(* On the plain-socket path, whenever sdoConSendMessage has returned a  *)
(* non-negative result the peer has received exactly the whole header    *)
(* followed by the whole body: the short-write checks of lines 396-400  *)
(* and 432-435 leave no partial send reported as success.                *)
THEOREM SendFaithfulPlain ==
  ASSUME PlainOnly
  PROVE  Spec => []SendFaithful
  <1>1. SendInv => SendFaithful
    BY DEF SendInv
  <1>2. QED
    BY <1>1, SendInvariance, PTL

-----------------------------------------------------------------------------
LEMMA CloseInvInit == Init => CloseInv
  BY DEF Init, CloseInv, Phase, CloseOnce

LEMMA CloseInvNext ==
  ASSUME TlsOnly
  PROVE  CloseInv /\ [Next]_vars => CloseInv'
  <1> SUFFICES ASSUME CloseInv, [Next]_vars PROVE CloseInv'
    OBVIOUS
  <1> USE DEF CloseInv, Phase, CloseOnce
  <1>1. ASSUME NEW t \in TlsModes, NEW ok \in BOOLEAN, sdoConConnect(t, ok)
        PROVE  CloseInv'
    BY <1>1 DEF TlsOnly, sdoConConnect
  <1>2. ASSUME NEW hn \in WriteOutcomes(Len(HdrOut)),
               NEW bn \in WriteOutcomes(Len(MsgOut)),
               sdoConSendMessage(hn, bn)
        PROVE  CloseInv'
    <2>1. tls /\ closes = 0
      BY <1>2 DEF sdoConSendMessage
    <2>2. WriteResult(tls, hn, Len(HdrOut)) # "err_close"
          /\ WriteResult(tls, bn, Len(MsgOut)) # "err_close"
      BY <2>1, TlsWriteKeeps
    <2>3. closes' = 0 /\ pc' \in {"hdr", "close"} /\ tls' = tls
      BY <1>2, <2>1, <2>2 DEF sdoConSendMessage
    <2>4. QED
      BY <2>1, <2>3
  <1>3. ASSUME NEW e \in BOOLEAN, RecvHeaderLine(e) PROVE CloseInv'
    BY <1>3 DEF RecvHeaderLine
  <1>4. CASE sdoConRecvMsgBody
    BY <1>4 DEF sdoConRecvMsgBody
  <1>5. ASSUME NEW n \in -1..Len(BodyBytes), RecvBodyRead(n) PROVE CloseInv'
    BY <1>5 DEF RecvBodyRead
  <1>6. CASE sdoConDisconnect
    BY <1>6 DEF sdoConDisconnect
  <1>7. ASSUME NEW k \in 1..Len(peerRem), PeerWrite(k) PROVE CloseInv'
    BY <1>7 DEF PeerWrite
  <1>8. CASE PeerClose
    BY <1>8 DEF PeerClose
  <1>9. CASE UNCHANGED vars
    BY <1>9 DEF vars
  <1>10. QED
    BY <1>1, <1>2, <1>3, <1>4, <1>5, <1>6, <1>7, <1>8, <1>9
       DEF Next, Client, Peer

(* On the TLS path every reachable state satisfies CloseInv: every      *)
(* connection is a TLS one and nothing closes it before the caller's    *)
(* sdoConDisconnect.                                                     *)
THEOREM CloseInvariance ==
  ASSUME TlsOnly
  PROVE  Spec => []CloseInv
  BY CloseInvInit, CloseInvNext, PTL DEF Spec

(* On the TLS path the connection is closed exactly once, by the        *)
(* caller's sdoConDisconnect: sdoConSendMessage never closes the handle  *)
(* itself there, whatever the write results.                             *)
THEOREM CloseOnceTls ==
  ASSUME TlsOnly
  PROVE  Spec => []CloseOnce
  <1>1. CloseInv => CloseOnce
    BY DEF CloseInv
  <1>2. QED
    BY <1>1, CloseInvariance, PTL

-----------------------------------------------------------------------------
(* The request as sequences of strings, with its two parts non-empty.   *)
LEMMA OutSeqs ==
  /\ HdrOut \in Seq(STRING) /\ MsgOut \in Seq(STRING)
  /\ Len(HdrOut) \in Nat \ {0} /\ Len(MsgOut) \in Nat \ {0}
  /\ HdrOut \o MsgOut \in Seq(STRING)
  /\ Len(HdrOut \o MsgOut) = Len(HdrOut) + Len(MsgOut)
  BY OutAssumption, ConcatProperties

(* A prefix of the header is a prefix of the request.                   *)
LEMMA HdrPrefix ==
  ASSUME NEW m \in 0..Len(HdrOut)
  PROVE  SubSeq(HdrOut, 1, m) = SubSeq(HdrOut \o MsgOut, 1, m)
  <1>1. CASE m = 0
    BY <1>1, SubSeqEmpty
  <1>2. CASE m > 0
    BY <1>2, OutSeqs, SubSeqOfConcat1
  <1>3. QED
    BY <1>1, <1>2

(* The header followed by a prefix of the body is a prefix of the       *)
(* request.                                                              *)
LEMMA MsgPrefix ==
  ASSUME NEW m \in 0..Len(MsgOut)
  PROVE  HdrOut \o SubSeq(MsgOut, 1, m)
           = SubSeq(HdrOut \o MsgOut, 1, Len(HdrOut) + m)
  <1> DEFINE L == Len(HdrOut)
             Msg == HdrOut \o MsgOut
  <1>1. SubSeq(Msg, 1, L) = HdrOut
    BY OutSeqs, SubSeqOfConcat1, SubSeqFull
  <1>2. CASE m = 0
    <2>1. SubSeq(MsgOut, 1, m) = <<>>
      BY <1>2, SubSeqEmpty
    <2>2. HdrOut \o <<>> = HdrOut
      BY OutSeqs, ConcatEmptySeq
    <2>3. QED
      BY <1>1, <1>2, <2>1, <2>2
  <1>3. CASE m > 0
    <2>1. SubSeq(Msg, L + 1, L + m) = SubSeq(MsgOut, 1, m)
      BY <1>3, OutSeqs, SubSeqOfConcat2
    <2>2. SubSeq(Msg, 1, L) \o SubSeq(Msg, L + 1, L + m) = SubSeq(Msg, 1, L + m)
      <3>1. /\ Msg \in Seq(STRING)
            /\ 1 \in 1..Len(Msg) + 1
            /\ L \in 1 - 1..Len(Msg)
            /\ L + m \in L..Len(Msg)
        BY <1>3, OutSeqs
      <3>2. QED
        BY <3>1, ConcatAdjacentSubSeq
    <2>3. QED
      BY <1>1, <2>1, <2>2
  <1>4. QED
    BY <1>2, <1>3

(* On the plain path, what a failed sdoConSendMessage delivered is a    *)
(* prefix of the request.                                                 *)
LEMMA FailedSendPrefix ==
  ASSUME NEW hn \in WriteOutcomes(Len(HdrOut)), NEW bn \in WriteOutcomes(Len(MsgOut)),
         ~(/\ WriteResult(FALSE, hn, Len(HdrOut)) = "ok"
           /\ WriteResult(FALSE, bn, Len(MsgOut)) = "ok")
  PROVE  (IF WriteResult(FALSE, hn, Len(HdrOut)) = "ok"
          THEN <<>> \o SubSeq(HdrOut, 1, IF hn > 0 THEN hn ELSE 0)
                    \o SubSeq(MsgOut, 1, IF bn > 0 THEN bn ELSE 0)
          ELSE <<>> \o SubSeq(HdrOut, 1, IF hn > 0 THEN hn ELSE 0))
         \in Exchange!Prefixes
  <1> DEFINE mh == IF hn > 0 THEN hn ELSE 0
             mb == IF bn > 0 THEN bn ELSE 0
  <1>1. hn \in -1..Len(HdrOut) /\ bn \in -1..Len(MsgOut)
    BY OutSeqs DEF WriteOutcomes
  <1>2. CASE WriteResult(FALSE, hn, Len(HdrOut)) = "ok"
    <2>1. hn = Len(HdrOut)
      <3>1. hn \in Int /\ Len(HdrOut) \in Nat /\ hn <= Len(HdrOut)
        BY <1>1, OutSeqs
      <3>2. QED
        BY <3>1, <1>2, PlainWriteOk
    <2>2. mb \in 0..Len(MsgOut) - 1
      BY <1>1, <1>2, OutSeqs DEF WriteResult
    <2>3. SubSeq(HdrOut, 1, mh) = HdrOut
      BY <2>1, OutSeqs, SubSeqFull
    <2>4. <<>> \o HdrOut = HdrOut
      BY OutSeqs, ConcatEmptySeq
    <2>5. HdrOut \o SubSeq(MsgOut, 1, mb)
            = SubSeq(HdrOut \o MsgOut, 1, Len(HdrOut) + mb)
      BY <2>2, OutSeqs, MsgPrefix
    <2>6. Len(HdrOut) + mb \in 0..Len(HdrOut \o MsgOut)
      BY <2>2, OutSeqs
    <2>7. QED
      BY <1>2, <2>3, <2>4, <2>5, <2>6 DEF Exchange!Prefixes, Exchange!Message
  <1>3. CASE WriteResult(FALSE, hn, Len(HdrOut)) # "ok"
    <2>1. mh \in 0..Len(HdrOut)
      BY <1>1, OutSeqs
    <2>2. SubSeq(HdrOut, 1, mh) \in Seq(STRING)
      BY <2>1, OutSeqs, SubSeqProperties
    <2>3. <<>> \o SubSeq(HdrOut, 1, mh) = SubSeq(HdrOut \o MsgOut, 1, mh)
      BY <2>1, <2>2, HdrPrefix, ConcatEmptySeq
    <2>4. mh \in 0..Len(HdrOut \o MsgOut)
      BY <2>1, OutSeqs
    <2>5. QED
      BY <1>3, <2>3, <2>4 DEF Exchange!Prefixes, Exchange!Message
  <1>4. QED
    BY <1>2, <1>3

(* Every step of the plain-path transport is a step of the abstract     *)
(* exchange or leaves the caller's view unchanged: the receive loops and *)
(* the peer's writes are invisible to the caller.                         *)
LEMMA NextRefines ==
  ASSUME PlainOnly
  PROVE  SendInv /\ [Next]_vars => [Exchange!Next]_<<Stage(pc), toPeer, sendRet>>
  <1> SUFFICES ASSUME SendInv, [Next]_vars
               PROVE  [Exchange!Next]_<<Stage(pc), toPeer, sendRet>>
    OBVIOUS
  <1> USE DEF SendInv, Phase, Stage
  <1>1. ASSUME NEW t \in TlsModes, NEW ok \in BOOLEAN, sdoConConnect(t, ok)
        PROVE  Exchange!Connect
    BY <1>1 DEF sdoConConnect, Exchange!Connect
  <1>2. ASSUME NEW hn \in WriteOutcomes(Len(HdrOut)),
               NEW bn \in WriteOutcomes(Len(MsgOut)),
               sdoConSendMessage(hn, bn)
        PROVE  Exchange!SendOk \/ Exchange!SendFail
    <2> DEFINE hr == WriteResult(FALSE, hn, Len(HdrOut))
               br == WriteResult(FALSE, bn, Len(MsgOut))
    <2>1. pc = "send" /\ toPeer = <<>> /\ tls = FALSE
      BY <1>2 DEF sdoConSendMessage
    <2>2. CASE hr = "ok" /\ br = "ok"
      <3>1. hn = Len(HdrOut) /\ bn = Len(MsgOut)
        <4>1. hn \in Int /\ bn \in Int /\ hn <= Len(HdrOut) /\ bn <= Len(MsgOut)
              /\ Len(HdrOut) \in Nat /\ Len(MsgOut) \in Nat
          BY OutSeqs DEF WriteOutcomes
        <4>2. QED
          BY <2>2, <4>1, PlainWriteOk
      <3>2. toPeer' = <<>> \o SubSeq(HdrOut, 1, IF hn > 0 THEN hn ELSE 0)
                          \o SubSeq(MsgOut, 1, IF bn > 0 THEN bn ELSE 0)
            /\ sendRet' = bn /\ pc' = "hdr"
        BY <1>2, <2>1, <2>2 DEF sdoConSendMessage
      <3>3. toPeer' = HdrOut \o MsgOut
        <4>1. hn \in Int /\ bn \in Int
          BY OutSeqs DEF WriteOutcomes
        <4>2. QED
          BY <3>1, <3>2, <4>1, FullSend
      <3>4. QED
        BY <2>1, <3>1, <3>2, <3>3 DEF Exchange!SendOk, Exchange!Message
    <2>3. CASE ~(hr = "ok" /\ br = "ok")
      <3>1. toPeer' = (IF hr = "ok"
                       THEN <<>> \o SubSeq(HdrOut, 1, IF hn > 0 THEN hn ELSE 0)
                                 \o SubSeq(MsgOut, 1, IF bn > 0 THEN bn ELSE 0)
                       ELSE <<>> \o SubSeq(HdrOut, 1, IF hn > 0 THEN hn ELSE 0))
            /\ sendRet' = -1 /\ pc' = "close"
        BY <1>2, <2>1, <2>3 DEF sdoConSendMessage
      <3>2. toPeer' \in Exchange!Prefixes
        BY <2>3, <3>1, FailedSendPrefix
      <3>3. QED
        BY <2>1, <3>1, <3>2 DEF Exchange!SendFail
    <2>4. QED
      BY <2>2, <2>3
  <1>3. ASSUME NEW e \in BOOLEAN, RecvHeaderLine(e)
        PROVE  Exchange!RecvEnd \/ UNCHANGED <<Stage(pc), toPeer, sendRet>>
    BY <1>3 DEF RecvHeaderLine, Exchange!RecvEnd
  <1>4. CASE sdoConRecvMsgBody
    <2>1. CASE msglen = 0
      <3>1. Exchange!RecvEnd
        BY <1>4, <2>1 DEF sdoConRecvMsgBody, Exchange!RecvEnd
      <3>2. QED
        BY <3>1 DEF Exchange!Next
    <2>2. CASE msglen # 0
      BY <1>4, <2>2 DEF sdoConRecvMsgBody
    <2>3. QED
      BY <2>1, <2>2
  <1>5. ASSUME NEW n \in -1..Len(BodyBytes), RecvBodyRead(n)
        PROVE  Exchange!RecvEnd \/ UNCHANGED <<Stage(pc), toPeer, sendRet>>
    BY <1>5 DEF RecvBodyRead, Exchange!RecvEnd
  <1>6. CASE sdoConDisconnect
    <2>1. Exchange!Disconnect
      BY <1>6 DEF sdoConDisconnect, Exchange!Disconnect
    <2>2. QED
      BY <2>1 DEF Exchange!Next
  <1>7. ASSUME NEW k \in 1..Len(peerRem), PeerWrite(k)
        PROVE  UNCHANGED <<Stage(pc), toPeer, sendRet>>
    BY <1>7 DEF PeerWrite
  <1>8. CASE PeerClose
    BY <1>8 DEF PeerClose
  <1>9. CASE UNCHANGED vars
    BY <1>9 DEF vars
  <1>10. QED
    BY <1>1, <1>2, <1>3, <1>4, <1>5, <1>6, <1>7, <1>8, <1>9
       DEF Next, Client, Peer, Exchange!Next

(* On the plain-socket path the transport implements the abstract        *)
(* exchange: connect, send, receive and disconnect happen in order, a    *)
(* send that reports success delivered the whole request and returned    *)
(* the body length, and a failed send delivered a prefix of the request. *)
THEOREM RefinementPlain ==
  ASSUME PlainOnly
  PROVE  Spec => ImplementsExchange
  <1>1. Init => Exchange!Init
    BY DEF Init, Exchange!Init, Stage
  <1>2. QED
    BY <1>1, SendInvariance, SendInvNext, NextRefines, PTL
       DEF Spec, ImplementsExchange, Exchange!Spec
-----------------------------------------------------------------------------
(* The bytes a header line is made of.                                   *)
LineBytes == {"x", "r", "n"}

(* The content of a header line, and the line as the peer writes it.    *)
LEMMA RawLineShape ==
  ASSUME NEW l \in Line
  PROVE  LET c == Xs(l.len)
             cr == IF l.cr THEN <<"r">> ELSE <<>>
         IN  /\ l.len \in Nat \ {0}
             /\ c \in Seq(LineBytes) /\ Len(c) = l.len
             /\ \A i \in 1..l.len : c[i] = "x"
             /\ cr \in Seq(LineBytes) /\ Len(cr) = IF l.cr THEN 1 ELSE 0
             /\ c \o cr \in Seq(LineBytes) /\ Len(c \o cr) = l.len + Len(cr)
             /\ RawLine(l) = (c \o cr) \o <<"n">>
             /\ RawLine(l) \in Seq(LineBytes)
             /\ Len(RawLine(l)) = l.len + Len(cr) + 1
  <1> DEFINE c == Xs(l.len)
             cr == IF l.cr THEN <<"r">> ELSE <<>>
  <1>1. l.len \in Nat \ {0} /\ l.cr \in BOOLEAN
    BY DEF Line
  <1>2. c \in Seq(LineBytes) /\ Len(c) = l.len /\ \A i \in 1..l.len : c[i] = "x"
    BY <1>1 DEF Xs, LineBytes
  <1>3. cr \in Seq(LineBytes) /\ Len(cr) = IF l.cr THEN 1 ELSE 0
    <2>1. CASE l.cr
      <3>1. cr = <<"r">>
        BY <2>1
      <3>2. QED
        BY <2>1, <3>1 DEF LineBytes
    <2>2. CASE ~l.cr
      <3>1. cr = <<>>
        BY <2>2
      <3>2. QED
        BY <2>2, <3>1, EmptySeq
    <2>3. QED
      BY <2>1, <2>2
  <1>4. c \o cr \in Seq(LineBytes) /\ Len(c \o cr) = l.len + Len(cr)
    BY <1>2, <1>3, ConcatProperties
  <1>5. <<"n">> \in Seq(LineBytes) /\ Len(<<"n">>) = 1
    BY DEF LineBytes
  <1>6. (c \o cr) \o <<"n">> \in Seq(LineBytes)
        /\ Len((c \o cr) \o <<"n">>) = l.len + Len(cr) + 1
    BY <1>4, <1>5, ConcatProperties
  <1>7. RawLine(l) = (c \o cr) \o <<"n">>
    BY DEF RawLine
  <1>8. QED
    BY <1>1, <1>2, <1>3, <1>4, <1>6, <1>7

(* readUntilNewLine when fewer than size - 1 bytes were kept: the "\n"  *)
(* goes, and then a "\r" before it.                                     *)
LEMMA ReadUntilNewLineStrip ==
  ASSUME NEW raw, NEW size \in Int, NEW k \in Int, NEW t,
         MinOf(Len(raw), size - 1) = k, k < size - 1, k >= 1,
         SubSeq(SubSeq(raw, 1, k), 1, k - 1) = t
  PROVE  ReadUntilNewLine(raw, size)
           = IF Len(t) >= 1 /\ t[Len(t)] = "r" THEN SubSeq(t, 1, Len(t) - 1) ELSE t
  BY DEF ReadUntilNewLine

(* readUntilNewLine when size - 1 bytes were kept: nothing is stripped.  *)
LEMMA ReadUntilNewLineKeep ==
  ASSUME NEW raw, NEW size \in Int, NEW k \in Int,
         MinOf(Len(raw), size - 1) = k, ~(k < size - 1)
  PROVE  ReadUntilNewLine(raw, size) = SubSeq(raw, 1, k)
  BY DEF ReadUntilNewLine

(* readUntilNewLine on a whole line that fits in the buffer with room to *)
(* spare returns exactly its content, without the "\n" and the "\r".    *)
LEMMA ReadShortLine ==
  ASSUME NEW l \in Line, Len(RawLine(l)) < HdrSize - 1
  PROVE  ReadUntilNewLine(RawLine(l), HdrSize) = Xs(l.len)
  <1> DEFINE c == Xs(l.len)
             cr == IF l.cr THEN <<"r">> ELSE <<>>
             raw == RawLine(l)
             s1 == c \o cr
  <1>1. /\ l.len \in Nat \ {0}
        /\ c \in Seq(LineBytes) /\ Len(c) = l.len
        /\ \A i \in 1..l.len : c[i] = "x"
        /\ cr \in Seq(LineBytes) /\ Len(cr) = IF l.cr THEN 1 ELSE 0
        /\ s1 \in Seq(LineBytes) /\ Len(s1) = l.len + Len(cr)
        /\ raw = s1 \o <<"n">> /\ raw \in Seq(LineBytes)
        /\ Len(raw) = Len(s1) + 1
    BY RawLineShape
  <1>2. HdrSize \in Nat \ {0}
    BY HdrSizeAssumption
  <1>3. SubSeq(raw, 1, Len(raw)) = raw
    BY <1>1, SubSeqFull
  <1>4. SubSeq(raw, 1, Len(raw) - 1) = s1
    <2>1. Len(s1) \in 1..Len(s1)
      BY <1>1
    <2>2. SubSeq(s1 \o <<"n">>, 1, Len(s1)) = SubSeq(s1, 1, Len(s1))
      BY <1>1, <2>1, SubSeqOfConcat1 DEF LineBytes
    <2>3. QED
      BY <1>1, <2>2, SubSeqFull
  <1>5. MinOf(Len(raw), HdrSize - 1) = Len(raw)
    BY <1>1, <1>2 DEF MinOf
  <1>6. ReadUntilNewLine(raw, HdrSize)
          = IF Len(s1) >= 1 /\ s1[Len(s1)] = "r"
            THEN SubSeq(s1, 1, Len(s1) - 1) ELSE s1
    <2>1. HdrSize \in Int /\ Len(raw) \in Int /\ Len(raw) < HdrSize - 1 /\ Len(raw) >= 1
      BY <1>1, <1>2
    <2>2. SubSeq(SubSeq(raw, 1, Len(raw)), 1, Len(raw) - 1) = s1
      BY <1>3, <1>4, Zenon
    <2>3. QED
      BY <1>2, <1>5, <2>1, <2>2, ReadUntilNewLineStrip, Zenon
  <1>7. CASE l.cr
    <2>1. s1 = c \o <<"r">> /\ Len(s1) = l.len + 1
      BY <1>1, <1>7
    <2>2. s1[Len(s1)] = "r"
      BY <1>1, <2>1, ConcatProperties DEF LineBytes
    <2>3. SubSeq(s1, 1, Len(s1) - 1) = c
      <3>1. l.len \in 1..Len(c)
        BY <1>1
      <3>2. SubSeq(c \o <<"r">>, 1, l.len) = SubSeq(c, 1, l.len)
        BY <1>1, <3>1, SubSeqOfConcat1 DEF LineBytes
      <3>3. QED
        BY <1>1, <2>1, <3>2, SubSeqFull
    <2>4. Len(s1) >= 1
      BY <1>1, <2>1
    <2>5. QED
      BY <1>6, <2>2, <2>3, <2>4
  <1>8. CASE ~l.cr
    <2>1. cr = <<>>
      BY <1>8
    <2>2. s1 = c
      BY <1>1, <2>1, ConcatEmptySeq
    <2>3. Len(s1) >= 1 /\ s1[Len(s1)] = "x"
      BY <1>1, <2>2
    <2>4. ~(Len(s1) >= 1 /\ s1[Len(s1)] = "r")
      BY <2>3
    <2>5. ReadUntilNewLine(raw, HdrSize) = s1
      BY <1>6, <2>4
    <2>6. QED
      BY <2>2, <2>5
  <1>9. QED
    BY <1>7, <1>8

(* readUntilNewLine on a line that does not fit with room to spare keeps *)
(* size - 1 bytes, which is a whole buffer.                              *)
LEMMA ReadLongLine ==
  ASSUME NEW l \in Line, Len(RawLine(l)) >= HdrSize - 1
  PROVE  Len(ReadUntilNewLine(RawLine(l), HdrSize)) = HdrSize - 1
  <1> DEFINE raw == RawLine(l)
             cap == HdrSize - 1
  <1>1. raw \in Seq(LineBytes) /\ Len(raw) \in Nat
    BY RawLineShape
  <1>2. HdrSize \in Nat \ {0} /\ cap \in Nat
    BY HdrSizeAssumption
  <1>3. MinOf(Len(raw), cap) = cap
    BY <1>1, <1>2 DEF MinOf
  <1>4. ReadUntilNewLine(raw, HdrSize) = SubSeq(raw, 1, cap)
    BY <1>2, <1>3, ReadUntilNewLineKeep
  <1>5. \A i \in 1..cap : raw[i] \in LineBytes
    <2>1. TAKE i \in 1..cap
    <2>2. i \in 1..Len(raw)
      BY <1>1, <1>2
    <2>3. QED
      BY <1>1, <2>2, ElementOfSeq
  <1>6. Len(SubSeq(raw, 1, cap)) = cap
    BY <1>2, <1>5, SubSeqProperties
  <1>7. QED
    BY <1>4, <1>6

(* One iteration of the header loop on a line the peer wrote appends     *)
(* exactly that line's content and "\n" to hdr, or refuses the header:   *)
(* readUntilNewLine's truncation at size - 1 bytes never lets a cut line, *)
(* a stray "\r" or a kept "\n" into the accumulated header (the          *)
(* off-by-one at lines 52-66 is caught by the room check of line 256).  *)
(* A line that fits with room to spare is always accumulated.            *)
THEOREM HeaderLineFaithful ==
  ASSUME NEW l \in Line, NEW h \in Seq(Bytes)
  PROVE  LET acc == Accumulate(h, ReadUntilNewLine(RawLine(l), HdrSize))
         IN  /\ acc = "err" \/ acc = h \o Xs(l.len) \o <<"n">>
             /\ Len(RawLine(l)) < HdrSize - 1 /\ Len(h) + l.len + 1 <= HdrSize - 1
                => acc = h \o Xs(l.len) \o <<"n">>
  <1> DEFINE line == ReadUntilNewLine(RawLine(l), HdrSize)
             acc == Accumulate(h, line)
  <1>1. HdrSize \in Nat \ {0} /\ Len(h) \in Nat /\ l.len \in Nat
        /\ Len(RawLine(l)) \in Nat
    BY HdrSizeAssumption, RawLineShape, LenProperties
  <1>2. CASE Len(RawLine(l)) < HdrSize - 1
    <2>1. line = Xs(l.len) /\ Len(line) = l.len
      BY <1>2, ReadShortLine, RawLineShape
    <2>2. acc = IF Len(h) + l.len + 1 > HdrSize - 1 THEN "err"
                ELSE h \o Xs(l.len) \o <<"n">>
      BY <1>1, <2>1 DEF Accumulate
    <2>3. QED
      BY <1>1, <2>2
  <1>3. CASE Len(RawLine(l)) >= HdrSize - 1
    <2>1. Len(line) = HdrSize - 1
      BY <1>3, ReadLongLine
    <2>2. acc = "err"
      BY <1>1, <2>1 DEF Accumulate
    <2>3. QED
      BY <1>1, <1>3, <2>2
  <1>4. QED
    BY <1>1, <1>2, <1>3
=============================================================================
