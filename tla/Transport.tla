------------------------------ MODULE Transport ------------------------------
(***************************************************************************)
(* The mbed OS transport (src/hal/os/network_if_mbedos.c) driven through  *)
(* one request/response exchange: sdoConConnect, sdoConSendMessage,       *)
(* sdoConRecvMsgHeader (one readUntilNewLine call per step),              *)
(* sdoConRecvMsgBody (one socket read per step) and sdoConDisconnect.     *)
(* The peer is the environment: it writes its response to the stream in  *)
(* pieces of any size and closes its end, possibly early.                 *)
(*                                                                         *)
(* Bytes are abstract symbols: "x" a header character, "r" a carriage     *)
(* return, "n" a newline; the body bytes and the bytes of the request are *)
(* distinct symbols so that a reordering or a truncation is visible.      *)
(***************************************************************************)
EXTENDS Integers, Sequences, TransportOps

CONSTANTS
    MaxContent,   \* longest header-line content the peer sends
    MaxLines,     \* most header lines the peer sends before the separator
    BodyBytes,    \* the peer's body bytes, distinct symbols
    HdrOut,       \* the header constructRESTHeader builds for the request
    MsgOut,       \* the request body
    TlsModes,     \* the values of the ssl argument the caller may pass
    EarlyClose    \* whether the peer may close before its response is sent

ASSUME OutAssumption ==
    HdrOut \in Seq(STRING) \ {<<>>} /\ MsgOut \in Seq(STRING) \ {<<>>}
ASSUME ModeAssumption == TlsModes \subseteq BOOLEAN /\ EarlyClose \in BOOLEAN

VARIABLES
    pc,        \* the caller's position in the exchange
    conn,      \* "none", "open" or "closed": the socket / TLS session
    tls,       \* ssl # NULL
    closes,    \* number of sdoConDisconnect calls that reached the socket
    toPeer,    \* bytes the peer has received from us
    sendRet,   \* return value of sdoConSendMessage
    in,        \* bytes the peer has written and we have not read
    eof,       \* the peer has closed its end
    peerRem,   \* bytes the peer still means to write
    plan,      \* the peer's response: its header lines and body length
    hdr,       \* the hdr buffer of sdoConRecvMsgHeader
    hdrRet,    \* "none", "ok" or "err"
    msglen,    \* *msglen
    buf,       \* the buffer of sdoConRecvMsgBody
    off,       \* bufp - buf
    sz,        \* sz
    bodyRet    \* return value of sdoConRecvMsgBody, -2 before it returns

vars == <<pc, conn, tls, closes, toPeer, sendRet, in, eof, peerRem, plan,
          hdr, hdrRet, msglen, buf, off, sz, bodyRet>>

-----------------------------------------------------------------------------
(* The peer's response.  A header line is content "x"... with an         *)
(* optional "\r", then "\n"; the header/body separator is the line      *)
(* "\r\n"; the body follows.                                             *)
Line == [len : 1..MaxContent, cr : BOOLEAN]
Plans == [lines : UNION {[1..k -> Line] : k \in 1..MaxLines},
          body : 0..Len(BodyBytes)]
Xs(k) == [i \in 1..k |-> "x"]
RawLine(l) == Xs(l.len) \o (IF l.cr THEN <<"r">> ELSE <<>>) \o <<"n">>
SepLine == <<"r", "n">>
ConcatLines(f, k) ==
    LET cat[i \in 0..k] == IF i = 0 THEN <<>> ELSE cat[i - 1] \o RawLine(f[i])
    IN cat[k]
Response(p) ==
    ConcatLines(p.lines, Len(p.lines)) \o SepLine \o SubSeq(BodyBytes, 1, p.body)

(* What a faithful reader accumulates: each line's content, then "\n".  *)
ExpectedHdr(f, k) ==
    LET acc[i \in 0..k] == IF i = 0 THEN <<>> ELSE acc[i - 1] \o Xs(f[i].len) \o <<"n">>
    IN acc[k]

-----------------------------------------------------------------------------
Init ==
    /\ pc = "connect"
    /\ conn = "none"
    /\ tls = FALSE
    /\ closes = 0
    /\ toPeer = <<>>
    /\ sendRet = -2
    /\ in = <<>>
    /\ eof = FALSE
    /\ plan \in Plans
    /\ peerRem = Response(plan)
    /\ hdr = <<>>
    /\ hdrRet = "none"
    /\ msglen = 0
    /\ buf = <<>>
    /\ off = 0
    /\ sz = 0
    /\ bodyRet = -2

(* sdoConConnect, lines 154-193: with ssl, ip4addr_ntoa, snprintf_s_i   *)
(* and sdo_ssl_setup_connect may each fail; without, mos_socketConnect  *)
(* may.  A failure returns SDO_CON_INVALID_HANDLE and the caller ends   *)
(* the exchange with nothing to close.                                  *)
sdoConConnect(wantTls, ok) ==
    /\ pc = "connect"
    /\ tls' = wantTls
    /\ conn' = IF ok THEN "open" ELSE "none"
    /\ pc' = IF ok THEN "send" ELSE "done"
    /\ UNCHANGED <<closes, toPeer, sendRet, in, eof, peerRem, plan, hdr,
                   hdrRet, msglen, buf, off, sz, bodyRet>>

(* sdoConSendMessage, lines 336-452: the header write, then the body    *)
(* write; hn and bn are what sdo_ssl_write / mos_socketSend return.  On *)
(* the plain path a result <= 0 calls sdoConDisconnect (lines 391 and  *)
(* 427) before returning -1.  The peer receives what was written.       *)
sdoConSendMessage(hn, bn) ==
    LET hr == WriteResult(tls, hn, Len(HdrOut))
        br == WriteResult(tls, bn, Len(MsgOut))
        sentH == SubSeq(HdrOut, 1, IF hn > 0 THEN hn ELSE 0)
        sentB == SubSeq(MsgOut, 1, IF bn > 0 THEN bn ELSE 0)
        closing == hr = "err_close" \/ (hr = "ok" /\ br = "err_close")
    IN /\ pc = "send"
       /\ toPeer' = IF hr = "ok" THEN toPeer \o sentH \o sentB
                    ELSE toPeer \o sentH
       /\ sendRet' = IF hr = "ok" /\ br = "ok" THEN bn ELSE -1
       /\ closes' = IF closing THEN closes + 1 ELSE closes
       /\ conn' = IF closing THEN "closed" ELSE conn
       /\ pc' = IF hr = "ok" /\ br = "ok" THEN "hdr" ELSE "close"
       /\ UNCHANGED <<tls, in, eof, peerRem, plan, hdr, hdrRet, msglen, buf,
                      off, sz, bodyRet>>

(* One iteration of the loop of sdoConRecvMsgHeader, lines 233-261: a   *)
(* readUntilNewLine call, which blocks until a whole line is there and  *)
(* fails on a read error or on end of stream; then either the separator *)
(* (an empty line, line 246), which ends the header and hands it to    *)
(* getRESTContentLength, or the accumulation of the line.               *)
RecvHeaderLine(readErr) ==
    /\ pc = "hdr"
    /\ readErr \/ HasLine(in) \/ eof
    /\ readErr => ~AtEof(in, eof)
    /\ IF readErr \/ ~HasLine(in)
       THEN /\ hdrRet' = "err" /\ pc' = "close"
            /\ UNCHANGED <<in, hdr, msglen>>
       ELSE LET line == ReadUntilNewLine(SubSeq(in, 1, LineEnd(in)), HdrSize)
                acc  == Accumulate(hdr, line)
            IN /\ in' = SubSeq(in, LineEnd(in) + 1, Len(in))
               /\ IF line = <<>>
                  THEN \* getRESTContentLength: a non-empty header parses
                       /\ hdrRet' = IF hdr # <<>> THEN "ok" ELSE "err"
                       /\ msglen' = IF hdr # <<>> THEN plan.body ELSE 0
                       /\ pc' = IF hdr # <<>> THEN "bodycall" ELSE "close"
                       /\ UNCHANGED hdr
                  ELSE IF acc = "err"
                  THEN /\ hdrRet' = "err" /\ pc' = "close"
                       /\ UNCHANGED <<hdr, msglen>>
                  ELSE /\ hdr' = acc
                       /\ UNCHANGED <<hdrRet, msglen, pc>>
    /\ UNCHANGED <<conn, tls, closes, toPeer, sendRet, eof, peerRem, plan,
                   buf, off, sz, bodyRet>>

(* sdoConRecvMsgBody entry, lines 296-307: a zero length is refused.    *)
sdoConRecvMsgBody ==
    /\ pc = "bodycall"
    /\ IF msglen = 0
       THEN /\ bodyRet' = -1 /\ pc' = "close"
            /\ UNCHANGED <<buf, off, sz>>
       ELSE /\ buf' = [i \in 1..msglen |-> "none"]
            /\ off' = 0
            /\ sz' = msglen
            /\ pc' = "body"
            /\ UNCHANGED bodyRet
    /\ UNCHANGED <<conn, tls, closes, toPeer, sendRet, in, eof, peerRem, plan,
                   hdr, hdrRet, msglen>>

(* One iteration of the do-while loop of sdoConRecvMsgBody, lines       *)
(* 308-320: a read of at most sz bytes into bufp, which blocks while    *)
(* nothing is there and returns 0 at end of stream; only n < 0 leaves   *)
(* the loop with an error; the loop ends when sz reaches 0.             *)
RecvBodyRead(n) ==
    /\ pc = "body"
    /\ \/ n = -1 /\ ~AtEof(in, eof)
       \/ n = 0 /\ AtEof(in, eof)
       \/ n \in 1..MinOf(Len(in), sz)
    /\ IF n < 0
       THEN /\ bodyRet' = -1 /\ pc' = "close"
            /\ UNCHANGED <<in, buf, off, sz>>
       ELSE /\ buf' = Store(buf, off, in, n)
            /\ in' = SubSeq(in, n + 1, Len(in))
            /\ off' = off + n
            /\ sz' = sz - n
            /\ IF BodyDone(sz - n)
               THEN bodyRet' = msglen /\ pc' = "close"
               ELSE UNCHANGED <<bodyRet, pc>>
    /\ UNCHANGED <<conn, tls, closes, toPeer, sendRet, eof, peerRem, plan,
                   hdr, hdrRet, msglen>>

(* sdoConDisconnect, lines 202-209, called by the owner of the handle   *)
(* at the end of the exchange, on success and on every error: it closes *)
(* the TLS session and the socket, whatever their state.                *)
sdoConDisconnect ==
    /\ pc = "close"
    /\ closes' = closes + 1
    /\ conn' = "closed"
    /\ pc' = "done"
    /\ UNCHANGED <<tls, toPeer, sendRet, in, eof, peerRem, plan, hdr, hdrRet,
                   msglen, buf, off, sz, bodyRet>>

(* The peer writes the next k bytes of its response.                    *)
PeerWrite(k) ==
    /\ ~eof
    /\ k \in 1..Len(peerRem)
    /\ in' = in \o SubSeq(peerRem, 1, k)
    /\ peerRem' = SubSeq(peerRem, k + 1, Len(peerRem))
    /\ UNCHANGED <<pc, conn, tls, closes, toPeer, sendRet, eof, plan, hdr,
                   hdrRet, msglen, buf, off, sz, bodyRet>>

(* The peer closes its end, after its whole response or, when          *)
(* EarlyClose, at any time.                                              *)
PeerClose ==
    /\ ~eof
    /\ EarlyClose \/ peerRem = <<>>
    /\ eof' = TRUE
    /\ UNCHANGED <<pc, conn, tls, closes, toPeer, sendRet, in, peerRem, plan,
                   hdr, hdrRet, msglen, buf, off, sz, bodyRet>>

WriteOutcomes(len) == -1..len

Client ==
    \/ \E t \in TlsModes, ok \in BOOLEAN : sdoConConnect(t, ok)
    \/ \E hn \in WriteOutcomes(Len(HdrOut)), bn \in WriteOutcomes(Len(MsgOut)) :
          sdoConSendMessage(hn, bn)
    \/ \E e \in BOOLEAN : RecvHeaderLine(e)
    \/ sdoConRecvMsgBody
    \/ \E n \in -1..Len(BodyBytes) : RecvBodyRead(n)
    \/ sdoConDisconnect

Peer ==
    \/ \E k \in 1..Len(peerRem) : PeerWrite(k)
    \/ PeerClose

Next == Client \/ Peer

(* Each call runs on the caller's one thread and blocks only on the     *)
(* socket; the peer is assumed to send its response and then close.     *)
Fairness == WF_vars(Client) /\ WF_vars(Peer)

Spec == Init /\ [][Next]_vars /\ Fairness

-----------------------------------------------------------------------------
Phase == {"connect", "send", "hdr", "bodycall", "body", "close", "done"}
Bytes == {"x", "r", "n"} \cup {BodyBytes[i] : i \in 1..Len(BodyBytes)}

TypeOK ==
    /\ pc \in Phase
    /\ conn \in {"none", "open", "closed"}
    /\ tls \in BOOLEAN
    /\ closes \in 0..2
    /\ sendRet \in -2..Len(MsgOut)
    /\ in \in Seq(Bytes) /\ peerRem \in Seq(Bytes)
    /\ plan \in Plans
    /\ hdr \in Seq(Bytes) /\ Len(hdr) <= HdrSize - 1
    /\ hdrRet \in {"none", "ok", "err"}
    /\ msglen \in 0..Len(BodyBytes)
    /\ off + sz = msglen \/ pc \notin {"body"}
    /\ bodyRet \in {-2, -1} \cup 0..Len(BodyBytes)

(* A header sdoConRecvMsgHeader accepts is the peer's header lines with *)
(* their terminators stripped, each followed by "\n" (spec: "\n" and an *)
(* optional "\r" are stripped before accumulation); readUntilNewLine's  *)
(* truncation and its size - 1 boundary are what could break it.        *)
HeaderFaithful ==
    hdrRet = "ok" => hdr = ExpectedHdr(plan.lines, Len(plan.lines))

(* When sdoConRecvMsgBody reports success its buffer holds exactly the  *)
(* body bytes the peer sent, in order, however the reads were split.    *)
BodyExact ==
    bodyRet > 0 => buf = SubSeq(BodyBytes, 1, plan.body)

(* When sdoConSendMessage reports success the peer has received the     *)
(* whole header followed by the whole body (spec: a short write is a    *)
(* failure).                                                             *)
SendFaithful ==
    sendRet >= 0 => toPeer = HdrOut \o MsgOut

(* The connection is closed exactly once: by sdoConDisconnect of its    *)
(* owner, never a second time (spec: a handle is closed exactly once).  *)
CloseOnce == closes <= 1

(* When sdoConSendMessage fails after the connection was opened, the    *)
(* connection is closed before the caller goes on (spec: a short write  *)
(* is fatal and the connection is torn down).                           *)
SendFailureCloses ==
    (pc = "close" /\ sendRet = -1) => conn = "closed"

(* Every exchange ends: with the peer sending a well-formed response    *)
(* and then closing, no receive loop runs forever.                      *)
SessionEnds == <>(pc = "done")

-----------------------------------------------------------------------------
(* The exchange as its caller sees it: the receive loops are one stage.  *)
Stage(p) ==
    CASE p \in {"hdr", "bodycall", "body"} -> "recv"
      [] OTHER -> p

Exchange == INSTANCE ExchangeAbstract WITH stage <- Stage(pc)

(* On every path the transport behaves as the abstract exchange: it      *)
(* connects, sends, receives and disconnects in order, a send reporting  *)
(* success delivered the whole request and returned its body length, a   *)
(* failed send delivered only a prefix of it (spec section 4.3).          *)
ImplementsExchange == Exchange!Spec

=============================================================================
