--------------------------------- MODULE Rsa ---------------------------------
(***************************************************************************)
(* The OpenSSL RSA encryption routines (src/crypto/openssl/              *)
(* openssl_RSAEncryptRoutines.c): convert2pkey, sdoCryptoRSAEncrypt and   *)
(* sdoCryptoRSALen, each call one step.  What survives a call is the     *)
(* function-static evp_md, the objects the call leaked and whether it    *)
(* freed an object twice.  A path of a call is written as the sequence   *)
(* of allocations and frees the code makes, and one heap semantics       *)
(* (HeapStep) folds it: RSA_free drops a reference and, at the last one, *)
(* frees the RSA object and the bignums RSA_set0_* handed to it;         *)
(* EVP_PKEY_free drops the reference EVP_PKEY_set1_RSA took.             *)
(***************************************************************************)
EXTENDS Integers, Sequences, FiniteSets, SequencesExt

CONSTANTS
    RsaSize,     \* RSA_size(rkey): the modulus size in bytes
    HashTypes,   \* the hashType values callers pass
    MaxCalls     \* bound on the number of calls

ASSUME RsaAssumption == RsaSize \in Nat \ {0} /\ MaxCalls \in Nat

VARIABLES
    evp_md,   \* static const EVP_MD *evp_md of sdoCryptoRSAEncrypt
    calls,    \* calls made so far
    leaks,    \* objects allocated by a call and never freed
    dfree,    \* some call freed an object twice
    last      \* the last call: its inputs and what it returned

vars == <<evp_md, calls, leaks, dfree, last>>

-----------------------------------------------------------------------------
BN == <<"n", "d", "e", "p", "q", "dmp1", "dmq1", "iqmp">>

Alloc(x) == [op |-> "alloc", x |-> x]
Free(x) == [op |-> "free", x |-> x]          \* BN_clear_free, OPENSSL_free, ...
Own(x) == [op |-> "own", x |-> x]            \* RSA_set0_*: rsa now owns x
RefRsa == [op |-> "ref", x |-> "rsa"]        \* EVP_PKEY_set1_RSA
RsaFree == [op |-> "rsafree", x |-> "rsa"]   \* RSA_free(rkey)
PkeyFree == [op |-> "pkeyfree", x |-> "pkey"] \* EVP_PKEY_free(pkey)

BNAllocs(k) == [i \in 1..k |-> Alloc(BN[i])]
BNOwns == [i \in 1..8 |-> Own(BN[i])]
BNFrees == [i \in 1..8 |-> Free(BN[i])]

(* The heap of one call.                                                 *)
Heap0 == [live |-> {}, owned |-> {}, refs |-> 0, pkeyRsa |-> FALSE, bad |-> FALSE]
FreeObj(h, x) ==
    IF x \in h.live THEN [h EXCEPT !.live = @ \ {x}] ELSE [h EXCEPT !.bad = TRUE]
RsaRelease(h) ==
    IF h.refs > 1 THEN [h EXCEPT !.refs = @ - 1]
    ELSE LET h1 == FreeObj([h EXCEPT !.refs = 0], "rsa")
         IN [h1 EXCEPT !.live = @ \ h.owned, !.bad = @ \/ ~(h.owned \subseteq h1.live)]
HeapStep(h, o) ==
    IF o.op = "alloc" THEN [h EXCEPT !.live = @ \cup {o.x},
                                     !.refs = IF o.x = "rsa" THEN 1 ELSE @]
    ELSE IF o.op = "own" THEN [h EXCEPT !.owned = @ \cup {o.x}]
    ELSE IF o.op = "ref" THEN [h EXCEPT !.refs = @ + 1, !.pkeyRsa = TRUE]
    ELSE IF o.op = "free" THEN FreeObj(h, o.x)
    ELSE IF o.op = "rsafree" THEN RsaRelease(h)
    ELSE IF h.pkeyRsa THEN RsaRelease(FreeObj(h, "pkey"))
    ELSE FreeObj(h, "pkey")
RunHeap(ops) == FoldLeft(HeapStep, Heap0, ops)

-----------------------------------------------------------------------------
(* A library failure a call may meet: at names the failing call, k the   *)
(* BN_new that fails.                                                    *)
FailAt == {"none", "rsa_new", "pkey_new", "bin2bn", "set1", "ctx_new", "enc_init", "enc_len", "malloc", "enc"}
Fails == {[at |-> a, k |-> 0] : a \in FailAt} \cup {[at |-> "bn", k |-> i] : i \in 1..8}

(* convert2pkey, lines 67-154, with non-NULL key pointers: RSA_new and   *)
(* EVP_PKEY_new, eight BN_new, BN_bin2bn of modulus and exponent,        *)
(* RSA_set0_key/_factors/_crt_params, EVP_PKEY_set1_RSA.  The early     *)
(* returns free nothing; the err label frees the eight bignums, also     *)
(* when RSA_set0_* has already given them to rsa.                        *)
Convert2pkey(f) ==
    LET base == <<Alloc("rsa"), Alloc("pkey")>>
    IN IF f.at = "rsa_new" THEN [ok |-> FALSE, ops |-> <<Alloc("pkey")>>]
       ELSE IF f.at = "pkey_new" THEN [ok |-> FALSE, ops |-> <<Alloc("rsa")>>]
       ELSE IF f.at = "bn" THEN [ok |-> FALSE, ops |-> base \o BNAllocs(f.k - 1)]
       ELSE IF f.at = "bin2bn" THEN [ok |-> FALSE, ops |-> base \o BNAllocs(8) \o BNFrees]
       ELSE IF f.at = "set1"
            THEN [ok |-> FALSE, ops |-> base \o BNAllocs(8) \o BNOwns \o BNFrees]
       ELSE [ok |-> TRUE, ops |-> base \o BNAllocs(8) \o BNOwns \o <<RefRsa>>]

-----------------------------------------------------------------------------
(* The digest of the SHA-384 / SHA-256 case, lines 252-260: SHA-384     *)
(* stores EVP_sha384 in the static and falls through; SHA-256 sets      *)
(* EVP_sha256 only when the static is still NULL.                       *)
DigestForNoDefault(hash, md) == IF hash = "SHA384" THEN "sha384" ELSE md
DigestFor(hash, md) ==
    IF hash = "SHA384" THEN "sha384"
    ELSE IF md = "NULL" THEN "sha256" ELSE md

(* The capacity check of line 233.                                       *)
CapacityTooSmallOffByOne(need, cap) == need >= cap
CapacityTooSmall(need, cap) == need > cap

EvpFails == {"ctx_new", "enc_init", "enc_len", "malloc", "enc"}

(* The switch on hashType, the copy into cipherText and the error label, *)
(* lines 238-321, once the key is converted and the buffer is large     *)
(* enough.  SHA1 encrypts into the local encrypt[] and leaves out NULL, *)
(* so memcpy_s fails whether RSA_public_encrypt fails or not; a failing *)
(* EVP_PKEY_CTX_new or EVP_PKEY_encrypt_init jumps to error with ret    *)
(* still 0.                                                              *)
EncryptSwitch(hash, md, f) ==
    IF hash = "SHA1"
    THEN [ret |-> -1, written |-> FALSE, md |-> md, ops |-> <<PkeyFree, RsaFree>>]
    ELSE IF hash \in {"SHA256", "SHA384"}
    THEN LET ctx == f.at # "ctx_new"
             out == f.at \notin EvpFails \/ f.at = "enc"
             ok  == f.at \notin EvpFails
         IN [ret |-> IF ok \/ f.at \in {"ctx_new", "enc_init"} THEN 0 ELSE -1,
             written |-> ok,
             md |-> DigestFor(hash, md),
             ops |-> (IF ctx THEN <<Alloc("ctx")>> ELSE <<>>)
                     \o (IF out THEN <<Alloc("out")>> ELSE <<>>)
                     \o (IF ctx THEN <<Free("ctx")>> ELSE <<>>)
                     \o <<PkeyFree>>
                     \o (IF out THEN <<Free("out")>> ELSE <<>>)
                     \o <<RsaFree>>]
    ELSE [ret |-> -1, written |-> FALSE, md |-> md, ops |-> <<PkeyFree, RsaFree>>]

(* sdoCryptoRSAEncrypt, lines 174-323.  argsOk stands for the checks of *)
(* lines 194-213 (key type, clear text, the two key parameters).        *)
Encrypt(hash, argsOk, bufNull, cap, f, md) ==
    LET conv == Convert2pkey(f)
        sw == EncryptSwitch(hash, md, f)
    IN IF ~argsOk THEN [ret |-> -1, written |-> FALSE, md |-> md, ops |-> <<>>]
       ELSE IF ~conv.ok THEN [ret |-> -1, written |-> FALSE, md |-> md, ops |-> conv.ops]
       ELSE IF bufNull
            THEN [ret |-> RsaSize, written |-> FALSE, md |-> md,
                  ops |-> conv.ops \o <<RsaFree, PkeyFree>>]
       ELSE IF CapacityTooSmall(RsaSize, cap)
            THEN [ret |-> -1, written |-> FALSE, md |-> md, ops |-> conv.ops]
       ELSE [sw EXCEPT !.ops = conv.ops \o @]

(* sdoCryptoRSALen, lines 334-363.  The guard of lines 341-345 returns  *)
(* 0 when all four key arguments are valid; otherwise convert2pkey runs *)
(* (returning at once on a NULL pointer) and the err label frees rkey   *)
(* and pkey; RSA_size of the empty modulus of zero-length keys is 0.    *)
RSALen(ptrsOk, lensOk, f) ==
    LET conv == Convert2pkey(f)
    IN IF ptrsOk /\ lensOk THEN [ret |-> 0, ops |-> <<>>]
       ELSE IF ~ptrsOk THEN [ret |-> 0, ops |-> <<>>]
       ELSE [ret |-> 0,
             ops |-> conv.ops
                     \o (IF f.at = "rsa_new" THEN <<>> ELSE <<RsaFree>>)
                     \o (IF f.at = "pkey_new" THEN <<>> ELSE <<PkeyFree>>)]

-----------------------------------------------------------------------------
Caps == {RsaSize - 1, RsaSize}
NoCall == [op |-> "none", hash |-> "none", argsOk |-> TRUE, bufNull |-> FALSE,
           cap |-> RsaSize, fail |-> "none", ret |-> 0, cipher |-> "none"]

Init ==
    /\ evp_md = "NULL"
    /\ calls = 0
    /\ leaks = 0
    /\ dfree = FALSE
    /\ last = NoCall

(* The leaked objects and the double free of one call's heap trace.     *)
Account(ops) ==
    LET h == RunHeap(ops)
    IN /\ leaks' = leaks + Cardinality(h.live)
       /\ dfree' = (dfree \/ h.bad)

sdoCryptoRSAEncrypt(hash, argsOk, bufNull, cap, f) ==
    LET r == Encrypt(hash, argsOk, bufNull, cap, f, evp_md)
    IN /\ calls < MaxCalls
       /\ calls' = calls + 1
       /\ evp_md' = r.md
       /\ Account(r.ops)
       /\ last' = [op |-> "encrypt", hash |-> hash, argsOk |-> argsOk,
                   bufNull |-> bufNull, cap |-> cap, fail |-> f.at, ret |-> r.ret,
                   cipher |-> IF r.written THEN r.md ELSE "none"]

sdoCryptoRSALen(ptrsOk, lensOk, f) ==
    LET r == RSALen(ptrsOk, lensOk, f)
    IN /\ calls < MaxCalls
       /\ calls' = calls + 1
       /\ Account(r.ops)
       /\ last' = [NoCall EXCEPT !.op = "len", !.argsOk = ptrsOk /\ lensOk,
                                 !.fail = f.at, !.ret = r.ret]
       /\ UNCHANGED evp_md

Next ==
    \/ \E h \in HashTypes, a \in BOOLEAN, b \in BOOLEAN, c \in Caps, f \in Fails :
          sdoCryptoRSAEncrypt(h, a, b, c, f)
    \/ \E p \in BOOLEAN, l \in BOOLEAN, f \in Fails : sdoCryptoRSALen(p, l, f)

Spec == Init /\ [][Next]_vars

-----------------------------------------------------------------------------
Digests == {"sha256", "sha384"}
Requested(hash) == IF hash = "SHA384" THEN "sha384" ELSE "sha256"

TypeOK ==
    /\ evp_md \in {"NULL"} \cup Digests
    /\ calls \in 0..MaxCalls
    /\ leaks \in Nat
    /\ dfree \in BOOLEAN
    /\ last.cipher \in {"none"} \cup Digests
    /\ last.ret \in {-1, 0, RsaSize}

(* The two-phase contract of sdoCryptoRSAEncrypt (spec 4.1): with no    *)
(* failure of the library, a call without an output buffer returns the  *)
(* modulus size, and a call with a buffer of at least that size for a   *)
(* supported hash succeeds.                                              *)
QueryThenFill ==
    (/\ last.op = "encrypt" /\ last.argsOk /\ last.fail = "none"
     /\ last.hash \in {"SHA1", "SHA256", "SHA384"})
    => IF last.bufNull THEN last.ret = RsaSize
       ELSE last.cap >= RsaSize => last.ret = 0

(* A ciphertext is made with the OAEP digest its caller asked for; the  *)
(* function-static evp_md is what could carry a digest from one call to *)
(* the next (spec: SHA-256 is the default).                              *)
DigestAsRequested ==
    last.cipher # "none" => last.cipher = Requested(last.hash)

(* sdoCryptoRSAEncrypt reports success on a caller's buffer only when   *)
(* it wrote a ciphertext into it (spec: every backend failure is        *)
(* reported).                                                            *)
SuccessWritesCipher ==
    (last.op = "encrypt" /\ ~last.bufNull /\ last.ret = 0) => last.cipher # "none"

(* No call leaves an OpenSSL object allocated (spec: intermediate key   *)
(* objects are released on every exit path).                            *)
NoLeak == leaks = 0

(* No call frees an object twice: the bignums convert2pkey hands to the *)
(* RSA object must not be freed both by its err label and by RSA_free.  *)
NoDoubleFree == ~dfree

(* sdoCryptoRSALen returns the cipher length of valid key parameters    *)
(* (its comment: "return cypherLength in bytes else 0 on failure").     *)
RSALenReturnsSize ==
    (last.op = "len" /\ last.argsOk /\ last.fail = "none") => last.ret = RsaSize

=============================================================================
