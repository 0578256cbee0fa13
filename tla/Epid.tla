-------------------------------- MODULE Epid --------------------------------
(***************************************************************************)
(* The EPID group-signature attestation backend of the SDO client SDK     *)
(* (src/hal/epid/epid_sdk_interface.c).  The backend keeps process-wide   *)
(* state in file-scope statics: the initialised flag, the group public    *)
(* key, the member private key, the member context pointer and the        *)
(* member pre-computation blob with its availability flag.  The three     *)
(* public calls EPID_Init, EPID_Sign and EPID_Close are each one atomic   *)
(* action: the SDK runs one session on one thread (spec section 5).       *)
(*                                                                         *)
(* Build variants are the preprocessor symbols of the file, given as      *)
(* constants.  Keys are abstract: a private key is named by the group it  *)
(* belongs to, so it matches a group public key g iff it equals g.  Every *)
(* EPID library call that can fail does so nondeterministically, through  *)
(* a failure point the action chooses; the library's own checks (a        *)
(* private key must match the group key) are deterministic.              *)
(***************************************************************************)
EXTENDS Naturals

CONSTANTS
    Keys,               \* group identities; a private key is named by its group
    Ctx,                \* heap cells that can hold a member context
    NULL,               \* the null pointer
    MaxRl,              \* largest number of entries of a signature revocation list
    EPID_R6,            \* build flag EPID_R6
    EPID_TINY,          \* build flag EPID_TINY
    TARGET_OS_FREERTOS, \* build flag TARGET_OS_FREERTOS (the MCU build)
    ReInit              \* may the caller call EPID_Init while initialised?

ASSUME KeysAssumption == Keys # {} /\ NULL \notin Keys
ASSUME CtxAssumption == NULL \notin Ctx
ASSUME MaxRlAssumption == MaxRl \in Nat
ASSUME BuildAssumption ==
    {EPID_R6, EPID_TINY, TARGET_OS_FREERTOS, ReInit} \subseteq BOOLEAN

VARIABLES
    g_epidInitialized,       \* line 33
    g_groupPublicKey,        \* line 38
    g_priv_key,              \* line 40
    g_member_ctx,            \* line 43: pointer to a member context or NULL
    g_member_precomp,        \* line 46: keys the blob was computed from
    is_precompute_available, \* line 47
    heap,                    \* member contexts allocated and not yet deleted
    sig                      \* the value the last EPID_Sign returned

vars == <<g_epidInitialized, g_groupPublicKey, g_priv_key, g_member_ctx,
          g_member_precomp, is_precompute_available, heap, sig>>

(* The all-zero key buffer: the {0} initialisers and memset_s in Close.  *)
Zero == "zero"
KeyBuf == Keys \cup {Zero}
(* A pre-computation blob is identified by the keys it was derived from. *)
Precomp == [grp : KeyBuf, priv : KeyBuf]
(* A signature records what the signing member was provisioned with.     *)
Signature == [grp : KeyBuf, priv : KeyBuf, pre : Precomp \cup {NULL},
              rl : 0..MaxRl]

(* Inputs.  A group key argument is absent, a key of the right size or   *)
(* longer than GroupPubKey; a private key argument is absent, full-size, *)
(* compressed or of neither size.                                        *)
Oversized == "oversized"
GroupKeyArg == Keys \cup {NULL, Oversized}
PrivKeyArg == [form : {"absent", "badsize"}, key : {Zero}]
              \cup [form : {"full", "compressed"}, key : Keys]

(* Preprocessor conditions of the file.                                  *)
R6API == EPID_R6 \/ EPID_TINY                        \* lines 12, 92, 373
McuInit == R6API /\ TARGET_OS_FREERTOS               \* line 297
WritesPrecomp == ~EPID_TINY /\ TARGET_OS_FREERTOS    \* line 152

(* The EPID library accepts a private key only for its own group.        *)
KeyPair(g, p) == p \in Keys /\ p = g

(* The globals as one record, so that helpers can be composed.          *)
G == [init |-> g_epidInitialized, gpk |-> g_groupPublicKey,
      key |-> g_priv_key, ctx |-> g_member_ctx, pre |-> g_member_precomp,
      avail |-> is_precompute_available, heap |-> heap]

SetG(s) ==
    /\ g_epidInitialized' = s.init
    /\ g_groupPublicKey' = s.gpk
    /\ g_priv_key' = s.key
    /\ g_member_ctx' = s.ctx
    /\ g_member_precomp' = s.pre
    /\ is_precompute_available' = s.avail
    /\ heap' = s.heap

(* EpidAlloc: a free cell, or NULL when every cell is in use.            *)
EpidAlloc(h) == IF h = Ctx THEN NULL ELSE CHOOSE c \in Ctx \ h : TRUE

(* Fault: the context is freed but the pointer is left as it was.        *)
EpidMemberDeleteKeepsPointer(s) == [s EXCEPT !.heap = @ \ {s.ctx}]

(* EpidMemberDelete(&g_member_ctx): free the context, null the pointer. *)
EpidMemberDelete(s) == [s EXCEPT !.heap = @ \ {s.ctx}, !.ctx = NULL]

(* Fault: Close forgets is_precompute_available = false (line 349).     *)
CloseKeepsPrecomp(s) ==
    IF ~s.init THEN s
    ELSE [EpidMemberDelete(s) EXCEPT !.init = FALSE, !.key = Zero]

(* Fault: Close nulls g_member_ctx (line 348) without EpidMemberDelete.  *)
CloseSkipsDelete(s) ==
    IF ~s.init THEN s
    ELSE [s EXCEPT !.init = FALSE, !.ctx = NULL, !.key = Zero, !.avail = FALSE]

(* Fault: Close forgets memset_s(g_priv_key) (line 346).               *)
CloseKeepsKey(s) ==
    IF ~s.init THEN s
    ELSE [EpidMemberDelete(s) EXCEPT !.init = FALSE, !.avail = FALSE]

(* EPID_Close: a no-op unless initialised; otherwise drops the flag,     *)
(* deletes the member context, zeroes the private key and forgets the    *)
(* pre-computation blob.                                                 *)
Close(s) ==
    IF ~s.init THEN s
    ELSE [EpidMemberDelete(s) EXCEPT !.init = FALSE, !.key = Zero,
                                     !.avail = FALSE]

(* epid_r6_init: create, initialise and provision g_member_ctx with the  *)
(* stored keys and, when available, the stored pre-computation blob; in  *)
(* the MCU build write the blob if none is available.  fail is where the *)
(* library fails: "early" (EpidMemberGetSize, before the allocation) or  *)
(* "late" (after it: MemberInit, SetHashAlg, ProvisionKey, Startup or    *)
(* WritePrecomp).  Every failure runs EPID_Close.                        *)
R6Init(s, fail) ==
    LET c == EpidAlloc(s.heap)
        s1 == IF fail = "early" THEN s
              ELSE [s EXCEPT !.ctx = c,
                             !.heap = IF c = NULL THEN @ ELSE @ \cup {c}]
        ok == fail = "none" /\ c # NULL /\ KeyPair(s.gpk, s.key)
        s2 == IF WritesPrecomp /\ ~s.avail
              THEN [s1 EXCEPT !.pre = [grp |-> s.gpk, priv |-> s.key],
                              !.avail = TRUE]
              ELSE s1
    IN IF ok THEN [ok |-> TRUE, st |-> s2] ELSE [ok |-> FALSE, st |-> Close(s1)]

(* What a member created from state s is provisioned with.              *)
Provisioned(s, rl) ==
    [grp |-> s.gpk, priv |-> s.key,
     pre |-> IF s.avail THEN s.pre ELSE NULL, rl |-> rl]

-----------------------------------------------------------------------------
(* EPID_Init(gpk, privateKey, cacert, ...), lines 203-323.              *)
InitFails == IF McuInit THEN {"none", "early", "late"} ELSE {"none", "early"}

(* The early returns for a CA certificate of the wrong size and for an   *)
(* oversized group key change nothing and are stuttering steps.  The     *)
(* group key is copied before the private key is checked, so a rejected  *)
(* private key leaves the new group key behind.                          *)
InitResult(s, gpkIn, privIn, fail) ==
    LET s1 == IF gpkIn \in Keys THEN [s EXCEPT !.gpk = gpkIn] ELSE s
        privOk == \/ privIn.form \in {"absent", "full"}
                  \/ privIn.form = "compressed" /\ KeyPair(s1.gpk, privIn.key)
        s2 == IF privIn.form \in {"absent", "badsize"} THEN s1
              ELSE [s1 EXCEPT !.key = privIn.key]
        r == R6Init(s2, fail)
    IN IF ~privOk THEN s1
       ELSE IF McuInit
            THEN IF r.ok THEN [EpidMemberDelete(r.st) EXCEPT !.init = TRUE]
                 ELSE r.st
       ELSE IF fail = "none" THEN [s2 EXCEPT !.init = TRUE]
       ELSE s2

EPID_Init(gpkIn, privIn, fail) ==
    /\ ReInit \/ ~g_epidInitialized
    /\ SetG(InitResult(G, gpkIn, privIn, fail))
    /\ UNCHANGED sig

(* EPID_Close, lines 332-350.                                            *)
EPID_Close == SetG(Close(G)) /\ UNCHANGED sig

(* EPID_Sign in the R6/TINY builds, lines 374-463, as the new globals    *)
(* and the returned signature.  "sign" is a failure after epid_r6_init   *)
(* (SetSigRl, an allocation or EpidSign), which goes to err2 and deletes *)
(* the member.                                                            *)
SignR6(s, dataOk, gpkIn, rl, fail) ==
    LET s1 == IF TARGET_OS_FREERTOS THEN s ELSE [s EXCEPT !.gpk = gpkIn]
        r == R6Init(s1, IF fail = "sign" THEN "none" ELSE fail)
    IN IF ~dataOk \/ ~s.init THEN [st |-> s, sig |-> NULL]
       ELSE IF ~TARGET_OS_FREERTOS /\ gpkIn \notin Keys THEN [st |-> s, sig |-> NULL]
       ELSE IF ~r.ok THEN [st |-> r.st, sig |-> NULL]
       ELSE IF fail = "sign" THEN [st |-> EpidMemberDelete(r.st), sig |-> NULL]
       ELSE [st |-> EpidMemberDelete(r.st), sig |-> Provisioned(s1, rl)]

(* EpidMemberCreate(PublicKey, &g_priv_key, NULL, ...), lines 499-500.   *)
SdkProvisioned(s, gpkIn, rl) ==
    [grp |-> gpkIn, priv |-> s.key, pre |-> NULL, rl |-> rl]

(* EPID_Sign in the EPID SDK 2 build, lines 466-566: a fresh member per *)
(* call, never stored in g_member_ctx.  "create" fails EpidMemberCreate; *)
(* "precomp" fails EpidMemberWritePrecomp; "late" fails SetHashAlg,      *)
(* malloc, EpidSign or the result allocation, after the blob has been    *)
(* written.  Only the success path deletes the member.                   *)
SignSdk(s, dataOk, gpkIn, rl, fail) ==
    LET m == EpidAlloc(s.heap)
        created == fail # "create" /\ m # NULL /\ gpkIn \in Keys
                   /\ KeyPair(gpkIn, s.key)
        s1 == [s EXCEPT !.heap = IF fail = "none" THEN @ ELSE @ \cup {m},
                        !.pre = IF fail = "precomp" THEN @
                                ELSE [grp |-> gpkIn, priv |-> s.key]]
    IN IF ~dataOk \/ ~s.init \/ ~created THEN [st |-> s, sig |-> NULL]
       ELSE IF fail = "none" THEN [st |-> s1, sig |-> SdkProvisioned(s, gpkIn, rl)]
       ELSE [st |-> s1, sig |-> NULL]

SignFails == IF R6API THEN {"none", "early", "late", "sign"}
             ELSE {"none", "create", "precomp", "late"}

SignResult(s, dataOk, gpkIn, rl, fail) ==
    IF R6API THEN SignR6(s, dataOk, gpkIn, rl, fail)
    ELSE SignSdk(s, dataOk, gpkIn, rl, fail)

EPID_Sign(dataOk, gpkIn, rl, fail) ==
    LET r == SignResult(G, dataOk, gpkIn, rl, fail)
    IN SetG(r.st) /\ sig' = r.sig

-----------------------------------------------------------------------------
Init ==
    /\ g_epidInitialized = FALSE
    /\ g_groupPublicKey = Zero
    /\ g_priv_key = Zero
    /\ g_member_ctx = NULL
    /\ g_member_precomp = [grp |-> Zero, priv |-> Zero]
    /\ is_precompute_available = FALSE
    /\ heap = {}
    /\ sig = NULL

Next ==
    \/ \E gk \in Keys \cup {NULL}, pk \in PrivKeyArg, f \in InitFails :
          EPID_Init(gk, pk, f)
    \/ EPID_Close
    \/ \E ok \in BOOLEAN, gk \in GroupKeyArg, rl \in 0..MaxRl,
          f \in SignFails : EPID_Sign(ok, gk, rl, f)

Spec == Init /\ [][Next]_vars

-----------------------------------------------------------------------------
(* Types.  g_member_ctx is NULL or a context that is still allocated: a  *)
(* dangling pointer is a type error of the pointer.                       *)
TypeOK ==
    /\ g_epidInitialized \in BOOLEAN
    /\ g_groupPublicKey \in KeyBuf
    /\ g_priv_key \in KeyBuf
    /\ heap \subseteq Ctx
    /\ g_member_ctx \in heap \cup {NULL}
    /\ g_member_precomp \in Precomp
    /\ is_precompute_available \in BOOLEAN
    /\ sig \in Signature \cup {NULL}

(* Every signature EPID_Sign returns was made by a member whose          *)
(* pre-computation blob, when one was supplied to EpidProvisionKey, was  *)
(* derived from the same group key and private key the member was        *)
(* provisioned with.  A blob of other keys yields a signature no         *)
(* verifier accepts (spec 3: the blob is invalidated on re-provisioning). *)
SignatureValid ==
    sig # NULL => sig.pre \in {NULL, [grp |-> sig.grp, priv |-> sig.priv]}

(* Between calls every allocated member context is reachable through     *)
(* g_member_ctx: no EPID_Init, EPID_Sign or EPID_Close path loses one    *)
(* (spec 5: release on every exit path).                                 *)
NoMemberLeak == heap \subseteq {g_member_ctx}

(* Private key material is in memory only while the backend is           *)
(* initialised: a failed EPID_Init does not leave the key behind (spec 7: *)
(* sensitive material is cleared on error paths).                         *)
PrivKeyClearedWhenClosed == ~g_epidInitialized => g_priv_key = Zero


(* Every step that takes the backend from initialised to uninitialised  *)
(* (EPID_Close, or the EPID_Close that epid_r6_init runs when a library *)
(* call fails inside EPID_Sign or a repeated EPID_Init) zeroes the       *)
(* private key, drops the pre-computation mark and leaves no member      *)
(* pointer (spec 4.2: close() clears the flag, releases the member       *)
(* context and zeroes the private key).                                  *)
ClearedOnDeinit ==
    g_epidInitialized /\ ~g_epidInitialized' =>
        /\ g_priv_key' = Zero
        /\ ~is_precompute_available'
        /\ g_member_ctx' = NULL
DeinitClears == [][ClearedOnDeinit]_vars

-----------------------------------------------------------------------------
(* The backend seen through its promise: the flag, the private key, the  *)
(* allocated member contexts and the returned signature.  The public key *)
(* copies, the member pointer and the blob are hidden.                   *)
EpidAbs == INSTANCE EpidAbstract WITH ready <- g_epidInitialized,
                                      key <- g_priv_key, members <- heap

(* The backend implements the attestation contract of spec 4.2: sign    *)
(* fails unless init completed and otherwise signs with the stored key  *)
(* and a blob of that key; every exit path of EPID_Init, EPID_Sign and  *)
(* EPID_Close releases the member contexts it allocated; a failure that *)
(* drops the flag zeroes the key, and EPID_Close of an uninitialised    *)
(* backend changes nothing.                                             *)
ImplementsEpidAbstract == EpidAbs!Spec

=============================================================================
