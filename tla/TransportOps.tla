---------------------------- MODULE TransportOps ----------------------------
(***************************************************************************)
(* The pure parts of the mbed OS transport (src/hal/os/                  *)
(* network_if_mbedos.c): how one header line is read and accumulated,   *)
(* how a write result is judged, where a body read lands and when the   *)
(* body loop ends.  Used by the transport model and by the protocol     *)
(* model, which sends its messages through sdoConSendMessage.           *)
(***************************************************************************)
EXTENDS Integers, Sequences

CONSTANT HdrSize      \* REST_MAX_MSGHDR_SIZE

ASSUME HdrSizeAssumption == HdrSize \in Nat \ {0}

MinOf(a, b) == IF a < b THEN a ELSE b

(* readUntilNewLine, lines 35-75, applied to one complete line `raw`    *)
(* (through its "\n") and to a buffer of `size` bytes: at most size - 1 *)
(* bytes are kept, the rest of the line is read and dropped; "\n" and   *)
(* then "\r" are removed only when fewer than size - 1 bytes were kept. *)
ReadUntilNewLineNoCrTest(raw, size) ==
    LET n == MinOf(Len(raw), size - 1)
    IN IF n < size - 1 /\ n >= 2 THEN SubSeq(raw, 1, n - 2) ELSE SubSeq(raw, 1, n)
ReadUntilNewLine(raw, size) ==
    LET cap == size - 1
        n   == MinOf(Len(raw), cap)
        out == SubSeq(raw, 1, n)
        strip == n < cap /\ n >= 1
        s1  == IF strip THEN SubSeq(out, 1, n - 1) ELSE out
    IN IF strip /\ Len(s1) >= 1 /\ s1[Len(s1)] = "r"
       THEN SubSeq(s1, 1, Len(s1) - 1) ELSE s1

(* A read at the end of the stream returns 0; any other read may fail. *)
AtEof(s, closed) == s = <<>> /\ closed

(* The line at the head of the stream, through its first "\n".          *)
HasLine(s) == \E i \in 1..Len(s) : s[i] = "n"
LineEnd(s) == CHOOSE i \in 1..Len(s) : s[i] = "n" /\ \A j \in 1..(i - 1) : s[j] # "n"

(* The strncat_s / strcat_s accumulation of lines 249-261: the line,    *)
(* then "\n", each refused when hdr would not fit with its terminator.  *)
AccumulateNoRoomForNl(h, line) ==
    IF Len(h) + Len(line) > HdrSize - 1 THEN "err" ELSE h \o line \o <<"n">>
Accumulate(h, line) ==
    IF Len(h) + Len(line) > HdrSize - 1 THEN "err"
    ELSE IF Len(h) + Len(line) + 1 > HdrSize - 1 THEN "err"
    ELSE h \o line \o <<"n">>

(* The checks of a write result on the TLS (lines 378-383, 413-418) and *)
(* the plain path (lines 385-405, 420-437).                             *)
WriteResultTlsCloses(isTls, n, len) ==
    IF n <= 0 THEN "err_close" ELSE IF n < len THEN "err" ELSE "ok"
WriteResultNoShortCheck(isTls, n, len) ==
    IF isTls THEN (IF n < 0 THEN "err" ELSE "ok")
    ELSE IF n <= 0 THEN "err_close" ELSE "ok"
WriteResult(isTls, n, len) ==
    IF isTls THEN (IF n < 0 THEN "err" ELSE "ok")
    ELSE IF n <= 0 THEN "err_close"
    ELSE IF n < len THEN "err"
    ELSE "ok"

(* The read of n bytes into bufp = buf + o, lines 309-313.              *)
StoreAtStart(b, o, data, n) ==
    [i \in DOMAIN b |-> IF i \in 1..n THEN data[i] ELSE b[i]]
Store(b, o, data, n) ==
    [i \in DOMAIN b |-> IF i \in (o + 1)..(o + n) THEN data[i - o] ELSE b[i]]

(* The loop condition of sdoConRecvMsgBody, line 319.                    *)
BodyDoneNever(s) == s < 0
BodyDone(s) == s <= 0

=============================================================================
