------------------------------ MODULE RsaProofs ------------------------------
(***************************************************************************)
(* Proofs about the RSA routines model (module Rsa), for every modulus    *)
(* size and call bound.  The two-phase contract of sdoCryptoRSAEncrypt    *)
(* (QueryThenFill) holds for callers that ask for SHA-256, SHA-384 or an  *)
(* unsupported hash; with SHA1 it fails (finding rsa_sha1), so the        *)
(* theorem assumes SHA1 is not requested.  The contract is about what the *)
(* last call returned: every step re-establishes it, whatever state it    *)
(* starts from, so no strengthening is needed.  What the heap traces of   *)
(* a call free or leak is a fold over the trace and stays with TLC.       *)
(***************************************************************************)
EXTENDS Rsa, TLAPS

(* No caller asks sdoCryptoRSAEncrypt for SHA1.                          *)
NoSha1 == "SHA1" \notin HashTypes

(* The failure "none" is the record with no failing BN_new.              *)
LEMMA NoFailure ==
  ASSUME NEW f \in Fails, f.at = "none"
  PROVE  f = [at |-> "none", k |-> 0]
  BY DEF Fails, FailAt

(* Without a library failure, convert2pkey succeeds.                     *)
LEMMA ConvertOk ==
  Convert2pkey([at |-> "none", k |-> 0]).ok
  BY DEF Convert2pkey

(* With valid arguments, no library failure and a SHA-256 or SHA-384    *)
(* request, sdoCryptoRSAEncrypt returns RSA_size without a buffer and 0 *)
(* with a buffer of at least RSA_size bytes.                             *)
LEMMA EncryptContract ==
  ASSUME NEW hash \in {"SHA256", "SHA384"}, NEW bufNull \in BOOLEAN,
         NEW cap \in Int, NEW md
  PROVE  LET r == Encrypt(hash, TRUE, bufNull, cap, [at |-> "none", k |-> 0], md)
         IN  /\ bufNull => r.ret = RsaSize
             /\ ~bufNull /\ cap >= RsaSize => r.ret = 0
  <1> DEFINE f == [at |-> "none", k |-> 0]
  <1>1. RsaSize \in Nat
    BY RsaAssumption
  <1>2. Convert2pkey(f).ok
    BY ConvertOk
  <1>3. bufNull => Encrypt(hash, TRUE, bufNull, cap, f, md).ret = RsaSize
    BY <1>2 DEF Encrypt
  <1>4. ~bufNull /\ cap >= RsaSize => ~CapacityTooSmall(RsaSize, cap)
    BY <1>1 DEF CapacityTooSmall
  <1>5. EncryptSwitch(hash, md, f).ret = 0
    BY DEF EncryptSwitch, EvpFails
  <1>6. ~bufNull /\ cap >= RsaSize => Encrypt(hash, TRUE, bufNull, cap, f, md).ret = 0
    BY <1>2, <1>4, <1>5 DEF Encrypt
  <1>7. QED
    BY <1>3, <1>6

(* Every step leaves a last call that satisfies the contract.            *)
LEMMA NextQueryThenFill ==
  ASSUME NoSha1
  PROVE  QueryThenFill /\ [Next]_vars => QueryThenFill'
  <1> SUFFICES ASSUME QueryThenFill, [Next]_vars PROVE QueryThenFill'
    OBVIOUS
  <1>1. ASSUME NEW h \in HashTypes, NEW a \in BOOLEAN, NEW b \in BOOLEAN,
               NEW c \in Caps, NEW f \in Fails,
               sdoCryptoRSAEncrypt(h, a, b, c, f)
        PROVE  QueryThenFill'
    <2> SUFFICES ASSUME a, f.at = "none", h \in {"SHA1", "SHA256", "SHA384"}
                 PROVE  IF b THEN last'.ret = RsaSize
                        ELSE last'.cap >= RsaSize => last'.ret = 0
      BY <1>1 DEF sdoCryptoRSAEncrypt, QueryThenFill
    <2>1. h \in {"SHA256", "SHA384"}
      BY DEF NoSha1
    <2>2. f = [at |-> "none", k |-> 0]
      BY NoFailure
    <2>3. c \in Int
      BY RsaAssumption DEF Caps
    <2>4. last'.ret = Encrypt(h, TRUE, b, c, [at |-> "none", k |-> 0], evp_md).ret
          /\ last'.cap = c
      BY <1>1, <2>2 DEF sdoCryptoRSAEncrypt
    <2>5. QED
      BY <2>1, <2>3, <2>4, EncryptContract
  <1>2. ASSUME NEW p \in BOOLEAN, NEW l \in BOOLEAN, NEW f \in Fails,
               sdoCryptoRSALen(p, l, f)
        PROVE  QueryThenFill'
    BY <1>2 DEF sdoCryptoRSALen, NoCall, QueryThenFill
  <1>3. CASE UNCHANGED vars
    BY <1>3 DEF vars, QueryThenFill
  <1>4. QED
    BY <1>1, <1>2, <1>3 DEF Next

(* For every modulus size and call bound, when no caller requests SHA1, *)
(* the last sdoCryptoRSAEncrypt call made with valid arguments and no   *)
(* library failure kept the two-phase contract: without a buffer it     *)
(* returned RSA_size, with a buffer of at least that size it returned 0 *)
(* (the early return of lines 226-230, the capacity check of line 233).  *)
THEOREM QueryThenFillHolds ==
  ASSUME NoSha1
  PROVE  Spec => []QueryThenFill
  <1>1. Init => QueryThenFill
    BY DEF Init, NoCall, QueryThenFill
  <1>2. QED
    BY <1>1, NextQueryThenFill, PTL DEF Spec
=============================================================================
