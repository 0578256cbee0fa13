----------------------------- MODULE EpidProofs -----------------------------
(***************************************************************************)
(* Proofs about the EPID backend model (module Epid), for every set of    *)
(* groups and heap cells and every build variant.                         *)
(*                                                                         *)
(* The actions are written over a record of the globals (G), so the       *)
(* argument is carried by predicates on such records: GOK (well-typed,    *)
(* with g_member_ctx NULL or allocated) and Fresh (a blob marked          *)
(* available was computed from the stored keys).  Lemmas show that the   *)
(* helpers EpidMemberDelete, Close and R6Init preserve them; the action   *)
(* steps then only combine those lemmas.                                  *)
(***************************************************************************)
EXTENDS Epid, TLAPS

(* The record of globals is well typed and its pointer does not dangle.  *)
GState == [init : BOOLEAN, gpk : KeyBuf, key : KeyBuf, ctx : Ctx \cup {NULL},
           pre : Precomp, avail : BOOLEAN, heap : SUBSET Ctx]
GOK(s) == s \in GState /\ s.ctx \in s.heap \cup {NULL}

(* A blob marked available belongs to a build that writes blobs and was *)
(* computed from the stored keys; and it is only marked available while  *)
(* the backend is initialised.                                           *)
FreshKeys(s) ==
    s.avail => R6API /\ WritesPrecomp /\ s.pre = [grp |-> s.gpk, priv |-> s.key]
AvailInit(s) == s.avail => s.init
Fresh(s) == FreshKeys(s) /\ AvailInit(s)

(* The inductive invariant behind SignatureValid.                        *)
IInv == TypeOK /\ Fresh(G) /\ SignatureValid

(* The builds whose EPID_Init does not provision a member: R6 or TINY   *)
(* outside the MCU (lines 297-310).                                      *)
HostR6 == R6API /\ ~TARGET_OS_FREERTOS

(* No member context is allocated and g_member_ctx is NULL.              *)
NoMember(s) == s.heap = {} /\ s.ctx = NULL

(* The inductive invariant behind NoMemberLeak in the HostR6 builds.     *)
LeakInv == TypeOK /\ NoMember(G)

(* The inductive invariant behind SignatureValid in the HostR6 builds,   *)
(* with or without re-initialisation: no blob is ever marked available.  *)
HostSigInv == TypeOK /\ ~is_precompute_available /\ SignatureValid

-----------------------------------------------------------------------------
LEMMA TypeOKAsG == TypeOK <=> GOK(G) /\ sig \in Signature \cup {NULL}
  BY DEF TypeOK, GOK, GState, G

LEMMA SetGType ==
  ASSUME NEW s, GOK(s), SetG(s)
  PROVE  /\ g_epidInitialized' \in BOOLEAN
         /\ g_groupPublicKey' \in KeyBuf
         /\ g_priv_key' \in KeyBuf
         /\ heap' \subseteq Ctx
         /\ g_member_ctx' \in heap' \cup {NULL}
         /\ g_member_precomp' \in Precomp
         /\ is_precompute_available' \in BOOLEAN
  BY DEF SetG, GOK, GState

LEMMA SetGFresh ==
  ASSUME NEW s, Fresh(s), SetG(s)
  PROVE  Fresh(G)'
  BY DEF SetG, Fresh, FreshKeys, AvailInit, G

LEMMA AllocType ==
  ASSUME NEW h \in SUBSET Ctx
  PROVE  EpidAlloc(h) \in (Ctx \ h) \cup {NULL}
  <1>1. CASE h = Ctx
    BY <1>1 DEF EpidAlloc
  <1>2. CASE h # Ctx
    <2>1. \E c \in Ctx \ h : TRUE
      BY <1>2
    <2>2. QED
      BY <1>2, <2>1 DEF EpidAlloc
  <1>3. QED
    BY <1>1, <1>2

LEMMA DeleteOK ==
  ASSUME NEW s, GOK(s)
  PROVE  /\ GOK(EpidMemberDelete(s))
         /\ EpidMemberDelete(s).ctx = NULL
  BY CtxAssumption DEF GOK, GState, EpidMemberDelete

LEMMA CloseOK ==
  ASSUME NEW s, GOK(s)
  PROVE  GOK(Close(s))
  BY DeleteOK DEF Close, GOK, GState, EpidMemberDelete, KeyBuf

LEMMA CloseFresh ==
  ASSUME NEW s, Fresh(s)
  PROVE  Fresh(Close(s))
  BY DEF Close, Fresh, FreshKeys, AvailInit, EpidMemberDelete

LEMMA R6InitOK ==
  ASSUME NEW s, GOK(s), NEW fail
  PROVE  /\ GOK(R6Init(s, fail).st)
         /\ R6Init(s, fail).ok \in BOOLEAN
  <1> DEFINE c == EpidAlloc(s.heap)
             s1 == IF fail = "early" THEN s
                   ELSE [s EXCEPT !.ctx = c,
                                  !.heap = IF c = NULL THEN @ ELSE @ \cup {c}]
  <1>1. c \in (Ctx \ s.heap) \cup {NULL}
    BY AllocType DEF GOK, GState
  <1>2. GOK(s1)
    BY <1>1 DEF GOK, GState
  <1>3. s1.ctx \in s1.heap \cup {NULL} /\ s1 \in GState
    BY <1>2 DEF GOK
  <1>4. GOK(IF WritesPrecomp /\ ~s.avail
            THEN [s1 EXCEPT !.pre = [grp |-> s.gpk, priv |-> s.key],
                            !.avail = TRUE]
            ELSE s1)
    BY <1>3 DEF GOK, GState, Precomp
  <1>5. GOK(Close(s1))
    BY <1>2, CloseOK
  <1>6. QED
    BY <1>4, <1>5 DEF R6Init

LEMMA InitResultOK ==
  ASSUME NEW s, GOK(s), NEW gpkIn \in Keys \cup {NULL},
         NEW privIn \in PrivKeyArg, NEW fail
  PROVE  GOK(InitResult(s, gpkIn, privIn, fail))
  <1> DEFINE s1 == IF gpkIn \in Keys THEN [s EXCEPT !.gpk = gpkIn] ELSE s
             s2 == IF privIn.form \in {"absent", "badsize"} THEN s1
                   ELSE [s1 EXCEPT !.key = privIn.key]
             r == R6Init(s2, fail)
  <1>1. GOK(s1)
    BY DEF GOK, GState, KeyBuf
  <1>2. GOK(s2)
    BY <1>1 DEF GOK, GState, KeyBuf, PrivKeyArg
  <1>3. GOK(r.st)
    BY <1>2, R6InitOK
  <1>4. GOK([EpidMemberDelete(r.st) EXCEPT !.init = TRUE])
    BY <1>3, DeleteOK DEF GOK, GState
  <1>5. GOK([s2 EXCEPT !.init = TRUE])
    BY <1>2 DEF GOK, GState
  <1>6. QED
    BY <1>1, <1>2, <1>3, <1>4, <1>5 DEF InitResult

LEMMA SignResultOK ==
  ASSUME NEW s, GOK(s), NEW dataOk \in BOOLEAN, NEW gpkIn \in GroupKeyArg,
         NEW rl \in 0..MaxRl, NEW fail
  PROVE  /\ GOK(SignResult(s, dataOk, gpkIn, rl, fail).st)
         /\ SignResult(s, dataOk, gpkIn, rl, fail).sig \in Signature \cup {NULL}
  <1>1. CASE R6API
    <2> DEFINE s1 == IF TARGET_OS_FREERTOS THEN s ELSE [s EXCEPT !.gpk = gpkIn]
               r == R6Init(s1, IF fail = "sign" THEN "none" ELSE fail)
               res == SignR6(s, dataOk, gpkIn, rl, fail)
    <2>1. CASE ~dataOk \/ ~s.init
      <3>1. res = [st |-> s, sig |-> NULL]
        BY <2>1 DEF SignR6, GOK, GState
      <3>2. QED
        BY <1>1, <3>1 DEF SignResult
    <2>2. CASE ~(~dataOk \/ ~s.init) /\ ~TARGET_OS_FREERTOS /\ gpkIn \notin Keys
      <3>1. res = [st |-> s, sig |-> NULL]
        BY <2>2 DEF SignR6, GOK, GState
      <3>2. QED
        BY <1>1, <3>1 DEF SignResult
    <2>3. CASE ~(~dataOk \/ ~s.init) /\ (TARGET_OS_FREERTOS \/ gpkIn \in Keys)
      <3>1. GOK(s1)
        BY <2>3 DEF GOK, GState, KeyBuf
      <3>2. GOK(r.st) /\ GOK(EpidMemberDelete(r.st))
        BY <3>1, R6InitOK, DeleteOK
      <3>3. Provisioned(s1, rl) \in Signature
        BY <3>1 DEF GOK, GState, Provisioned, Signature
      <3>4. res \in {[st |-> r.st, sig |-> NULL],
                     [st |-> EpidMemberDelete(r.st), sig |-> NULL],
                     [st |-> EpidMemberDelete(r.st), sig |-> Provisioned(s1, rl)]}
        BY <2>3 DEF SignR6, GOK, GState
      <3>5. QED
        BY <1>1, <3>2, <3>3, <3>4 DEF SignResult
    <2>4. QED
      BY <2>1, <2>2, <2>3
  <1>2. CASE ~R6API
    <2> DEFINE m == EpidAlloc(s.heap)
               s1 == [s EXCEPT !.heap = IF fail = "none" THEN @ ELSE @ \cup {m},
                               !.pre = IF fail = "precomp" THEN @
                                       ELSE [grp |-> gpkIn, priv |-> s.key]]
    <2>1. m \in (Ctx \ s.heap) \cup {NULL}
      BY AllocType DEF GOK, GState
    <2>2. m # NULL /\ gpkIn \in Keys => GOK(s1)
      BY <2>1 DEF GOK, GState, Precomp, KeyBuf
    <2>3. gpkIn \in Keys => SdkProvisioned(s, gpkIn, rl) \in Signature
      BY DEF GOK, GState, SdkProvisioned, Signature, KeyBuf
    <2>4. CASE ~dataOk \/ ~s.init \/ fail = "create" \/ m = NULL \/ gpkIn \notin Keys
                \/ ~KeyPair(gpkIn, s.key)
      BY <1>2, <2>4 DEF SignResult, SignSdk
    <2>5. CASE ~(~dataOk \/ ~s.init \/ fail = "create" \/ m = NULL
                 \/ gpkIn \notin Keys \/ ~KeyPair(gpkIn, s.key))
      <3>1. SignSdk(s, dataOk, gpkIn, rl, fail)
              \in {[st |-> s1, sig |-> SdkProvisioned(s, gpkIn, rl)],
                   [st |-> s1, sig |-> NULL]}
        BY <2>5 DEF SignSdk
      <3>2. QED
        BY <1>2, <2>2, <2>3, <2>5, <3>1 DEF SignResult
    <2>6. QED
      BY <2>4, <2>5
  <1>3. QED
    BY <1>1, <1>2

LEMMA DeleteFresh ==
  ASSUME NEW s, Fresh(s)
  PROVE  Fresh(EpidMemberDelete(s))
  BY DEF EpidMemberDelete, Fresh, FreshKeys, AvailInit

(* r6_init keeps a blob marked available consistent with the keys: it    *)
(* writes one only from the keys it provisions with, and its error path  *)
(* either drops the mark (EPID_Close) or leaves an old consistent one.   *)
LEMMA R6InitFreshKeys ==
  ASSUME NEW s, GOK(s), FreshKeys(s), R6API, NEW fail
  PROVE  FreshKeys(R6Init(s, fail).st)
  <1> DEFINE c == EpidAlloc(s.heap)
             s1 == IF fail = "early" THEN s
                   ELSE [s EXCEPT !.ctx = c,
                                  !.heap = IF c = NULL THEN @ ELSE @ \cup {c}]
             s2 == IF WritesPrecomp /\ ~s.avail
                   THEN [s1 EXCEPT !.pre = [grp |-> s.gpk, priv |-> s.key],
                                   !.avail = TRUE]
                   ELSE s1
  <1>1. GOK(s1) /\ FreshKeys(s1)
    <2>1. c \in (Ctx \ s.heap) \cup {NULL}
      BY AllocType DEF GOK, GState
    <2>2. QED
      BY <2>1 DEF GOK, GState, FreshKeys
  <1>2. FreshKeys(s2)
    BY <1>1 DEF GOK, GState, FreshKeys
  <1>3. FreshKeys(Close(s1))
    BY <1>1 DEF Close, FreshKeys, EpidMemberDelete
  <1>4. QED
    BY <1>2, <1>3 DEF R6Init

(* On the failure path of r6_init nothing new is marked available.       *)
LEMMA R6InitFailAvail ==
  ASSUME NEW s, GOK(s), ~s.avail, NEW fail, ~R6Init(s, fail).ok
  PROVE  ~R6Init(s, fail).st.avail
  <1> DEFINE c == EpidAlloc(s.heap)
             s1 == IF fail = "early" THEN s
                   ELSE [s EXCEPT !.ctx = c,
                                  !.heap = IF c = NULL THEN @ ELSE @ \cup {c}]
  <1>1. GOK(s1) /\ ~s1.avail
    <2>1. c \in (Ctx \ s.heap) \cup {NULL}
      BY AllocType DEF GOK, GState
    <2>2. QED
      BY <2>1 DEF GOK, GState
  <1>2. ~Close(s1).avail
    BY <1>1 DEF Close, EpidMemberDelete, GOK, GState
  <1>3. R6Init(s, fail).st = Close(s1)
    BY DEF R6Init
  <1>4. QED
    BY <1>2, <1>3

(* Called on an initialised backend, r6_init leaves an available blob    *)
(* only while initialised: success keeps the flag, failure closes.       *)
LEMMA R6InitAvailInit ==
  ASSUME NEW s, GOK(s), s.init, NEW fail
  PROVE  AvailInit(R6Init(s, fail).st)
  <1> DEFINE c == EpidAlloc(s.heap)
             s1 == IF fail = "early" THEN s
                   ELSE [s EXCEPT !.ctx = c,
                                  !.heap = IF c = NULL THEN @ ELSE @ \cup {c}]
  <1>1. GOK(s1) /\ s1.init
    <2>1. c \in (Ctx \ s.heap) \cup {NULL}
      BY AllocType DEF GOK, GState
    <2>2. QED
      BY <2>1 DEF GOK, GState
  <1>2. AvailInit(Close(s1))
    BY <1>1 DEF Close, EpidMemberDelete, GOK, GState, AvailInit
  <1>3. AvailInit(IF WritesPrecomp /\ ~s.avail
                  THEN [s1 EXCEPT !.pre = [grp |-> s.gpk, priv |-> s.key],
                                  !.avail = TRUE]
                  ELSE s1)
    BY <1>1 DEF GOK, GState, AvailInit
  <1>4. QED
    BY <1>2, <1>3 DEF R6Init

(* A returned signature whose blob, if any, matches its keys.           *)
SigOK(x) == x # NULL => x.pre \in {NULL, [grp |-> x.grp, priv |-> x.priv]}

(* EPID_Init on an uninitialised backend leaves a consistent blob mark:  *)
(* there is no mark to start with, and r6_init writes only a fresh one.  *)
LEMMA InitResultFresh ==
  ASSUME NEW s, GOK(s), Fresh(s), ~s.init, NEW gpkIn \in Keys \cup {NULL},
         NEW privIn \in PrivKeyArg, NEW fail
  PROVE  Fresh(InitResult(s, gpkIn, privIn, fail))
  <1> DEFINE s1 == IF gpkIn \in Keys THEN [s EXCEPT !.gpk = gpkIn] ELSE s
             s2 == IF privIn.form \in {"absent", "badsize"} THEN s1
                   ELSE [s1 EXCEPT !.key = privIn.key]
             r == R6Init(s2, fail)
  <1>1. ~s.avail
    BY DEF Fresh, AvailInit
  <1>2. GOK(s1) /\ ~s1.avail
    BY <1>1 DEF GOK, GState, KeyBuf
  <1>3. GOK(s2) /\ ~s2.avail
    BY <1>2 DEF GOK, GState, KeyBuf, PrivKeyArg
  <1>4. Fresh(s1) /\ Fresh(s2) /\ Fresh([s2 EXCEPT !.init = TRUE])
    BY <1>2, <1>3 DEF GOK, GState, Fresh, FreshKeys, AvailInit
  <1>5. CASE McuInit
    <2>1. FreshKeys(s2) /\ R6API
      BY <1>4, <1>5 DEF Fresh, McuInit
    <2>2. FreshKeys(r.st) /\ GOK(r.st)
      BY <1>3, <2>1, R6InitFreshKeys, R6InitOK
    <2>3. Fresh([EpidMemberDelete(r.st) EXCEPT !.init = TRUE])
      BY <2>2 DEF EpidMemberDelete, GOK, GState, Fresh, FreshKeys, AvailInit
    <2>4. ~r.ok => Fresh(r.st)
      BY <1>3, R6InitFailAvail DEF Fresh, FreshKeys, AvailInit
    <2>5. QED
      BY <1>4, <1>5, <2>3, <2>4 DEF InitResult
  <1>6. CASE ~McuInit
    BY <1>4, <1>6 DEF InitResult
  <1>7. QED
    BY <1>5, <1>6

(* EPID_Sign keeps the blob mark consistent and returns only signatures  *)
(* whose blob matches their keys.                                        *)
LEMMA SignResultFresh ==
  ASSUME NEW s, GOK(s), Fresh(s), NEW dataOk \in BOOLEAN,
         NEW gpkIn \in GroupKeyArg, NEW rl \in 0..MaxRl, NEW fail
  PROVE  /\ Fresh(SignResult(s, dataOk, gpkIn, rl, fail).st)
         /\ SigOK(SignResult(s, dataOk, gpkIn, rl, fail).sig)
  <1>0. SigOK(NULL)
    BY DEF SigOK
  <1>1. CASE R6API
    <2> DEFINE s1 == IF TARGET_OS_FREERTOS THEN s ELSE [s EXCEPT !.gpk = gpkIn]
               r == R6Init(s1, IF fail = "sign" THEN "none" ELSE fail)
               res == SignR6(s, dataOk, gpkIn, rl, fail)
    <2>1. CASE ~dataOk \/ ~s.init
      <3>1. res = [st |-> s, sig |-> NULL]
        BY <2>1 DEF SignR6
      <3>2. QED
        BY <1>0, <1>1, <3>1 DEF SignResult
    <2>2. CASE ~(~dataOk \/ ~s.init) /\ ~TARGET_OS_FREERTOS /\ gpkIn \notin Keys
      <3>1. res = [st |-> s, sig |-> NULL]
        BY <2>2 DEF SignR6
      <3>2. QED
        BY <1>0, <1>1, <3>1 DEF SignResult
    <2>3. CASE ~(~dataOk \/ ~s.init) /\ (TARGET_OS_FREERTOS \/ gpkIn \in Keys)
      <3>1. GOK(s1) /\ Fresh(s1) /\ s1.init
        <4>1. CASE TARGET_OS_FREERTOS
          BY <2>3, <4>1
        <4>2. CASE ~TARGET_OS_FREERTOS
          <5>1. ~s.avail
            BY <4>2 DEF Fresh, FreshKeys, WritesPrecomp
          <5>2. QED
            BY <2>3, <4>2, <5>1 DEF GOK, GState, KeyBuf, Fresh, FreshKeys,
                                    AvailInit
        <4>3. QED
          BY <4>1, <4>2
      <3>2. Fresh(r.st) /\ GOK(r.st)
        BY <1>1, <3>1, R6InitFreshKeys, R6InitAvailInit, R6InitOK DEF Fresh
      <3>3. Fresh(EpidMemberDelete(r.st))
        BY <3>2, DeleteFresh
      <3>4. SigOK(Provisioned(s1, rl))
        BY <3>1 DEF Fresh, FreshKeys, Provisioned, SigOK
      <3>5. res \in {[st |-> r.st, sig |-> NULL],
                     [st |-> EpidMemberDelete(r.st), sig |-> NULL],
                     [st |-> EpidMemberDelete(r.st), sig |-> Provisioned(s1, rl)]}
        BY <2>3 DEF SignR6
      <3>6. QED
        BY <1>0, <1>1, <3>2, <3>3, <3>4, <3>5 DEF SignResult
    <2>4. QED
      BY <2>1, <2>2, <2>3
  <1>2. CASE ~R6API
    <2> DEFINE m == EpidAlloc(s.heap)
               s1 == [s EXCEPT !.heap = IF fail = "none" THEN @ ELSE @ \cup {m},
                               !.pre = IF fail = "precomp" THEN @
                                       ELSE [grp |-> gpkIn, priv |-> s.key]]
    <2>1. ~s.avail
      BY <1>2 DEF Fresh, FreshKeys
    <2>2. Fresh(s1)
      BY <2>1 DEF GOK, GState, Fresh, FreshKeys, AvailInit
    <2>3. SigOK(SdkProvisioned(s, gpkIn, rl))
      BY DEF SdkProvisioned, SigOK
    <2>4. SignSdk(s, dataOk, gpkIn, rl, fail)
            \in {[st |-> s, sig |-> NULL],
                 [st |-> s1, sig |-> SdkProvisioned(s, gpkIn, rl)],
                 [st |-> s1, sig |-> NULL]}
      BY DEF SignSdk
    <2>5. QED
      BY <1>0, <1>2, <2>2, <2>3, <2>4 DEF SignResult
  <1>3. QED
    BY <1>1, <1>2

-----------------------------------------------------------------------------
(* One step of EPID_Init, EPID_Sign or EPID_Close preserves TypeOK.     *)
LEMMA TypeNext == TypeOK /\ [Next]_vars => TypeOK'
  <1> SUFFICES ASSUME TypeOK, [Next]_vars PROVE TypeOK'
    OBVIOUS
  <1>1. GOK(G) /\ sig \in Signature \cup {NULL}
    BY TypeOKAsG
  <1>2. ASSUME NEW gk \in Keys \cup {NULL}, NEW pk \in PrivKeyArg,
               NEW f \in InitFails, EPID_Init(gk, pk, f)
        PROVE  TypeOK'
    BY <1>1, <1>2, InitResultOK, SetGType DEF EPID_Init, TypeOK
  <1>3. CASE EPID_Close
    BY <1>1, <1>3, CloseOK, SetGType DEF EPID_Close, TypeOK
  <1>4. ASSUME NEW ok \in BOOLEAN, NEW gk \in GroupKeyArg,
               NEW rl \in 0..MaxRl, NEW f \in SignFails,
               EPID_Sign(ok, gk, rl, f)
        PROVE  TypeOK'
    BY <1>1, <1>4, SignResultOK, SetGType DEF EPID_Sign, TypeOK
  <1>5. CASE UNCHANGED vars
    BY <1>5 DEF vars, TypeOK
  <1>6. QED
    BY <1>2, <1>3, <1>4, <1>5 DEF Next

LEMMA InitTypeOK == Init => TypeOK
  <1> SUFFICES ASSUME Init PROVE TypeOK
    OBVIOUS
  <1>1. Zero \in KeyBuf
    BY DEF KeyBuf
  <1>2. [grp |-> Zero, priv |-> Zero] \in Precomp
    BY <1>1 DEF Precomp
  <1>3. QED
    BY <1>1, <1>2 DEF Init, TypeOK

(* Type correctness: every reachable state satisfies TypeOK; in          *)
(* particular g_member_ctx never dangles, on any path of EPID_Init,      *)
(* EPID_Sign or EPID_Close.                                               *)
THEOREM TypeCorrect == Spec => []TypeOK
  BY InitTypeOK, TypeNext, PTL DEF Spec

-----------------------------------------------------------------------------
(* With EPID_Init called only on an uninitialised backend, every step   *)
(* preserves IInv.                                                        *)
LEMMA IInvNext ==
  ASSUME ~ReInit
  PROVE  IInv /\ [Next]_vars => IInv'
  <1> SUFFICES ASSUME IInv, [Next]_vars PROVE IInv'
    OBVIOUS
  <1>1. GOK(G) /\ Fresh(G) /\ SigOK(sig) /\ TypeOK'
    BY TypeOKAsG, TypeNext DEF IInv, SignatureValid, SigOK
  <1>2. ASSUME NEW gk \in Keys \cup {NULL}, NEW pk \in PrivKeyArg,
               NEW f \in InitFails, EPID_Init(gk, pk, f)
        PROVE  IInv'
    <2>1. ~G.init
      BY <1>2 DEF EPID_Init, G
    <2>2. Fresh(G)'
      BY <1>1, <1>2, <2>1, InitResultFresh, SetGFresh DEF EPID_Init
    <2>3. QED
      BY <1>1, <1>2, <2>2 DEF EPID_Init, IInv, SignatureValid, SigOK
  <1>3. CASE EPID_Close
    <2>1. Fresh(G)'
      BY <1>1, <1>3, CloseFresh, SetGFresh DEF EPID_Close
    <2>2. QED
      BY <1>1, <1>3, <2>1 DEF EPID_Close, IInv, SignatureValid, SigOK
  <1>4. ASSUME NEW ok \in BOOLEAN, NEW gk \in GroupKeyArg,
               NEW rl \in 0..MaxRl, NEW f \in SignFails,
               EPID_Sign(ok, gk, rl, f)
        PROVE  IInv'
    <2> DEFINE r == SignResult(G, ok, gk, rl, f)
    <2>1. Fresh(r.st) /\ SigOK(r.sig)
      BY <1>1, SignResultFresh
    <2>2. Fresh(G)' /\ sig' = r.sig
      BY <1>4, <2>1, SetGFresh DEF EPID_Sign
    <2>3. QED
      BY <1>1, <2>1, <2>2 DEF IInv, SignatureValid, SigOK
  <1>5. CASE UNCHANGED vars
    BY <1>1, <1>5 DEF vars, IInv, Fresh, FreshKeys, AvailInit, G,
                      SignatureValid, SigOK
  <1>6. QED
    BY <1>2, <1>3, <1>4, <1>5 DEF Next

(* The inductive invariant IInv itself holds in every reachable state   *)
(* when EPID_Init is only called on an uninitialised backend.           *)
THEOREM Invariance ==
  ASSUME ~ReInit
  PROVE  Spec => []IInv
  <1>1. Init => IInv
    BY InitTypeOK DEF Init, IInv, Fresh, FreshKeys, AvailInit, G, SignatureValid
  <1>2. QED
    BY <1>1, IInvNext, PTL DEF Spec

-----------------------------------------------------------------------------
(* With EPID_Init called only on an uninitialised backend (the caller    *)
(* discipline of ReInit = FALSE), every signature EPID_Sign returns used *)
(* a pre-computation blob, if any, computed from its own keys.  The      *)
(* inductive invariant adds that is_precompute_available implies a blob *)
(* of the stored keys (FreshKeys) and an initialised backend (AvailInit) *)
(* : without the latter, EPID_Init could not be shown to start from a    *)
(* state with no blob mark.                                              *)
THEOREM SignatureValidity ==
  ASSUME ~ReInit
  PROVE  Spec => []SignatureValid
  <1>1. IInv => SignatureValid
    BY DEF IInv
  <1>2. QED
    BY <1>1, Invariance, PTL
-----------------------------------------------------------------------------
-----------------------------------------------------------------------------
(* EpidMemberDelete of a record whose only allocated context is the one  *)
(* g_member_ctx points to leaves no context allocated.                   *)
LEMMA DeleteNoMember ==
  ASSUME NEW s, GOK(s), s.heap \subseteq {s.ctx}
  PROVE  NoMember(EpidMemberDelete(s))
  BY CtxAssumption DEF GOK, GState, NoMember, EpidMemberDelete

(* Close of an initialised record leaves no context allocated.          *)
LEMMA CloseNoMember ==
  ASSUME NEW s, GOK(s), s.init, s.heap \subseteq {s.ctx}
  PROVE  NoMember(Close(s))
  BY DeleteNoMember DEF Close, NoMember, EpidMemberDelete

(* epid_r6_init from a record with no member, in a build that writes no *)
(* blob: on success the only allocated context is g_member_ctx, on      *)
(* failure of an initialised backend nothing stays allocated.           *)
LEMMA R6InitNoMember ==
  ASSUME NEW s, GOK(s), NoMember(s), ~WritesPrecomp, NEW fail
  PROVE  LET r == R6Init(s, fail)
         IN  /\ r.st.heap \subseteq {r.st.ctx}
             /\ (~r.ok /\ s.init) => NoMember(r.st)
  <1> DEFINE c == EpidAlloc(s.heap)
             s1 == IF fail = "early" THEN s
                   ELSE [s EXCEPT !.ctx = c,
                                  !.heap = IF c = NULL THEN @ ELSE @ \cup {c}]
  <1>1. c \in (Ctx \ s.heap) \cup {NULL}
    BY AllocType DEF GOK, GState
  <1>2. GOK(s1) /\ s1.heap \subseteq {s1.ctx} /\ s1.init = s.init
    BY <1>1 DEF GOK, GState, NoMember
  <1>3. R6Init(s, fail).st \in {s1, Close(s1)}
    BY DEF R6Init
  <1>4. s.init => NoMember(Close(s1))
    BY <1>2, CloseNoMember
  <1>5. Close(s1).heap \subseteq {Close(s1).ctx}
    BY <1>2 DEF Close, EpidMemberDelete
  <1>6. ~R6Init(s, fail).ok => R6Init(s, fail).st = Close(s1)
    BY DEF R6Init
  <1>7. QED
    BY <1>2, <1>3, <1>4, <1>5, <1>6

(* EPID_Init in a HostR6 build only copies keys and sets the flag.      *)
LEMMA InitResultNoMember ==
  ASSUME HostR6, NEW s, NoMember(s), NEW gpkIn, NEW privIn, NEW fail
  PROVE  NoMember(InitResult(s, gpkIn, privIn, fail))
  BY DEF HostR6, McuInit, InitResult, NoMember

(* EPID_Sign in a HostR6 build deletes the member it created on every    *)
(* path.                                                                  *)
LEMMA SignResultNoMember ==
  ASSUME HostR6, NEW s, GOK(s), NoMember(s), NEW dataOk, NEW gpkIn \in GroupKeyArg,
         NEW rl, NEW fail
  PROVE  NoMember(SignResult(s, dataOk, gpkIn, rl, fail).st)
  <1> DEFINE s1 == [s EXCEPT !.gpk = gpkIn]
             r == R6Init(s1, IF fail = "sign" THEN "none" ELSE fail)
  <1>1. CASE ~dataOk \/ ~s.init \/ gpkIn \notin Keys
    BY <1>1 DEF HostR6, SignResult, SignR6
  <1>2. CASE dataOk /\ s.init /\ gpkIn \in Keys
    <2>1. GOK(s1) /\ NoMember(s1) /\ s1.init /\ ~WritesPrecomp
      BY <1>2 DEF GOK, GState, KeyBuf, NoMember, HostR6, WritesPrecomp
    <2>2. GOK(r.st) /\ r.ok \in BOOLEAN
      BY <2>1, R6InitOK
    <2>3. r.st.heap \subseteq {r.st.ctx} /\ (~r.ok => NoMember(r.st))
      BY <2>1, R6InitNoMember
    <2>4. NoMember(EpidMemberDelete(r.st))
      BY <2>2, <2>3, DeleteNoMember
    <2>5. SignResult(s, dataOk, gpkIn, rl, fail).st =
            IF r.ok THEN EpidMemberDelete(r.st) ELSE r.st
      BY <1>2 DEF HostR6, SignResult, SignR6
    <2>6. QED
      BY <2>3, <2>4, <2>5
  <1>3. QED
    BY <1>1, <1>2

LEMMA LeakInvInit == Init => LeakInv
  BY InitTypeOK DEF Init, LeakInv, NoMember, G

LEMMA LeakInvNext ==
  ASSUME HostR6
  PROVE  LeakInv /\ [Next]_vars => LeakInv'
  <1> SUFFICES ASSUME LeakInv, [Next]_vars PROVE LeakInv'
    OBVIOUS
  <1>1. GOK(G) /\ NoMember(G) /\ TypeOK'
    BY TypeOKAsG, TypeNext DEF LeakInv
  <1>2. ASSUME NEW s, NoMember(s), SetG(s) PROVE NoMember(G)'
    BY <1>2 DEF SetG, NoMember, G
  <1>3. ASSUME NEW gk \in Keys \cup {NULL}, NEW pk \in PrivKeyArg,
               NEW f \in InitFails, EPID_Init(gk, pk, f)
        PROVE  LeakInv'
    BY <1>1, <1>2, <1>3, InitResultNoMember DEF EPID_Init, LeakInv
  <1>4. CASE EPID_Close
    <2>1. NoMember(Close(G))
      BY <1>1 DEF Close, NoMember, EpidMemberDelete
    <2>2. QED
      BY <1>1, <1>2, <1>4, <2>1 DEF EPID_Close, LeakInv
  <1>5. ASSUME NEW ok \in BOOLEAN, NEW gk \in GroupKeyArg,
               NEW rl \in 0..MaxRl, NEW f \in SignFails,
               EPID_Sign(ok, gk, rl, f)
        PROVE  LeakInv'
    BY <1>1, <1>2, <1>5, SignResultNoMember DEF EPID_Sign, LeakInv
  <1>6. CASE UNCHANGED vars
    BY <1>1, <1>6 DEF vars, LeakInv, NoMember, G
  <1>7. QED
    BY <1>3, <1>4, <1>5, <1>6 DEF Next

(* In the host R6 and TINY builds, whether or not EPID_Init may be      *)
(* called again while initialised, every member context EPID_Sign       *)
(* allocates is deleted on every exit path, so no context is ever       *)
(* unreachable (NoMemberLeak).                                          *)
THEOREM NoLeakHostR6 ==
  ASSUME HostR6
  PROVE  Spec => []NoMemberLeak
  <1>1. LeakInv => NoMemberLeak
    BY DEF LeakInv, NoMember, G, NoMemberLeak
  <1>2. QED
    BY <1>1, LeakInvInit, LeakInvNext, PTL DEF Spec

-----------------------------------------------------------------------------
(* In a build that writes no blob, epid_r6_init never marks one          *)
(* available.                                                             *)
LEMMA R6InitNoAvail ==
  ASSUME NEW s, ~WritesPrecomp, ~s.avail, NEW fail
  PROVE  ~R6Init(s, fail).st.avail
  BY DEF R6Init, Close, EpidMemberDelete

LEMMA HostSigInvNext ==
  ASSUME HostR6
  PROVE  HostSigInv /\ [Next]_vars => HostSigInv'
  <1> SUFFICES ASSUME HostSigInv, [Next]_vars PROVE HostSigInv'
    OBVIOUS
  <1>1. ~WritesPrecomp /\ R6API /\ ~McuInit /\ ~TARGET_OS_FREERTOS
    BY DEF HostR6, WritesPrecomp, McuInit
  <1>2. TypeOK' /\ ~G.avail
    BY TypeNext DEF HostSigInv, G
  <1>3. ASSUME NEW gk \in Keys \cup {NULL}, NEW pk \in PrivKeyArg,
               NEW f \in InitFails, EPID_Init(gk, pk, f)
        PROVE  HostSigInv'
    <2>1. ~InitResult(G, gk, pk, f).avail
      BY <1>1, <1>2 DEF InitResult
    <2>2. QED
      BY <1>2, <1>3, <2>1 DEF EPID_Init, SetG, HostSigInv, SignatureValid
  <1>4. CASE EPID_Close
    BY <1>2, <1>4 DEF EPID_Close, SetG, Close, EpidMemberDelete, HostSigInv,
                      SignatureValid
  <1>5. ASSUME NEW ok \in BOOLEAN, NEW gk \in GroupKeyArg,
               NEW rl \in 0..MaxRl, NEW f \in SignFails,
               EPID_Sign(ok, gk, rl, f)
        PROVE  HostSigInv'
    <2> DEFINE s1 == [G EXCEPT !.gpk = gk]
               r == R6Init(s1, IF f = "sign" THEN "none" ELSE f)
    <2>1. ~s1.avail
      BY <1>2
    <2>2. ~r.st.avail /\ ~EpidMemberDelete(r.st).avail
      <3>1. GOK(s1) \/ gk \notin KeyBuf
        BY TypeOKAsG DEF HostSigInv, GOK, GState
      <3>2. ~r.st.avail
        BY <1>1, <2>1, R6InitNoAvail
      <3>3. CASE GOK(s1)
        BY <3>2, <3>3, R6InitOK DEF EpidMemberDelete, GOK, GState
      <3>4. CASE gk \notin KeyBuf
        BY <3>2, <3>4 DEF EpidMemberDelete
      <3>5. QED
        BY <3>1, <3>3, <3>4
    <2>3. Provisioned(s1, rl).pre = NULL
      BY <2>1 DEF Provisioned
    <2>4. SignResult(G, ok, gk, rl, f) \in
            {[st |-> G, sig |-> NULL], [st |-> r.st, sig |-> NULL],
             [st |-> EpidMemberDelete(r.st), sig |-> NULL],
             [st |-> EpidMemberDelete(r.st), sig |-> Provisioned(s1, rl)]}
      BY <1>1 DEF SignResult, SignR6
    <2>5. ~SignResult(G, ok, gk, rl, f).st.avail
          /\ SigOK(SignResult(G, ok, gk, rl, f).sig)
      BY <1>2, <2>2, <2>3, <2>4 DEF SigOK
    <2>6. QED
      BY <1>2, <1>5, <2>5 DEF EPID_Sign, SetG, HostSigInv, SignatureValid, SigOK
  <1>6. CASE UNCHANGED vars
    BY <1>2, <1>6 DEF vars, HostSigInv, SignatureValid
  <1>7. QED
    BY <1>3, <1>4, <1>5, <1>6 DEF Next

(* In the host R6 and TINY builds every signature is valid even when     *)
(* EPID_Init may run again while initialised: those builds never write   *)
(* or mark a pre-computation blob, so the stale blob of finding          *)
(* epid_mcu_reinit is confined to the MCU build.                         *)
THEOREM SignatureValidHost ==
  ASSUME HostR6
  PROVE  Spec => []SignatureValid
  <1>1. Init => HostSigInv
    BY InitTypeOK DEF Init, HostSigInv, SignatureValid
  <1>2. HostSigInv => SignatureValid
    BY DEF HostSigInv
  <1>3. QED
    BY <1>1, <1>2, HostSigInvNext, PTL DEF Spec
-----------------------------------------------------------------------------
(* A record of globals that EPID_Close has cleared: not initialised, no  *)
(* private key, no blob mark, no member pointer.                         *)
Cleared(t) == ~t.init /\ t.key = Zero /\ ~t.avail /\ t.ctx = NULL

(* t keeps the initialised flag of s, or is cleared.                     *)
KeepsOrClears(s, t) == t.init = s.init \/ Cleared(t)

(* EPID_Close of an initialised record clears it.                        *)
LEMMA CloseCleared ==
  ASSUME NEW s, GOK(s), s.init
  PROVE  Cleared(Close(s))
  BY DEF Close, EpidMemberDelete, Cleared, GOK, GState

(* epid_r6_init keeps the flag on success and on a failure of an         *)
(* uninitialised backend; a failure of an initialised one clears it.     *)
LEMMA R6InitKeepsOrClears ==
  ASSUME NEW s, GOK(s), NEW fail
  PROVE  KeepsOrClears(s, R6Init(s, fail).st)
  <1> DEFINE c == EpidAlloc(s.heap)
             s1 == IF fail = "early" THEN s
                   ELSE [s EXCEPT !.ctx = c,
                                  !.heap = IF c = NULL THEN @ ELSE @ \cup {c}]
  <1>1. GOK(s1) /\ s1.init = s.init
    <2>1. c \in (Ctx \ s.heap) \cup {NULL}
      BY AllocType DEF GOK, GState
    <2>2. QED
      BY <2>1 DEF GOK, GState
  <1>2. KeepsOrClears(s, Close(s1))
    <2>1. CASE s1.init
      BY <1>1, <2>1, CloseCleared DEF KeepsOrClears
    <2>2. CASE ~s1.init
      BY <1>1, <2>2 DEF Close, KeepsOrClears
    <2>3. QED
      BY <2>1, <2>2
  <1>3. KeepsOrClears(s, IF WritesPrecomp /\ ~s.avail
                         THEN [s1 EXCEPT !.pre = [grp |-> s.gpk, priv |-> s.key],
                                         !.avail = TRUE]
                         ELSE s1)
    BY <1>1 DEF GOK, GState, KeepsOrClears
  <1>4. QED
    BY <1>2, <1>3 DEF R6Init

(* EpidMemberDelete changes neither the flag nor a cleared record.       *)
LEMMA DeleteKeepsOrClears ==
  ASSUME NEW s, NEW t, GOK(t), KeepsOrClears(s, t)
  PROVE  KeepsOrClears(s, EpidMemberDelete(t))
  BY DEF EpidMemberDelete, KeepsOrClears, Cleared, GOK, GState

LEMMA InitResultKeepsOrClears ==
  ASSUME NEW s, GOK(s), NEW gpkIn \in Keys \cup {NULL},
         NEW privIn \in PrivKeyArg, NEW fail
  PROVE  KeepsOrClears(s, InitResult(s, gpkIn, privIn, fail))
         \/ InitResult(s, gpkIn, privIn, fail).init
  <1> DEFINE s1 == IF gpkIn \in Keys THEN [s EXCEPT !.gpk = gpkIn] ELSE s
             s2 == IF privIn.form \in {"absent", "badsize"} THEN s1
                   ELSE [s1 EXCEPT !.key = privIn.key]
             r == R6Init(s2, fail)
  <1>1. GOK(s1) /\ s1.init = s.init
    BY DEF GOK, GState, KeyBuf
  <1>2. GOK(s2) /\ s2.init = s.init
    BY <1>1 DEF GOK, GState, KeyBuf, PrivKeyArg
  <1>3. KeepsOrClears(s, r.st)
    BY <1>2, R6InitKeepsOrClears DEF KeepsOrClears
  <1>4. GOK(r.st)
    BY <1>2, R6InitOK
  <1>5. [EpidMemberDelete(r.st) EXCEPT !.init = TRUE].init
    BY <1>4, DeleteOK DEF GOK, GState
  <1>6. [s2 EXCEPT !.init = TRUE].init
    BY <1>2 DEF GOK, GState
  <1>7. QED
    BY <1>1, <1>2, <1>3, <1>5, <1>6 DEF InitResult, KeepsOrClears

LEMMA SignResultKeepsOrClears ==
  ASSUME NEW s, GOK(s), NEW dataOk \in BOOLEAN, NEW gpkIn \in GroupKeyArg,
         NEW rl \in 0..MaxRl, NEW fail
  PROVE  KeepsOrClears(s, SignResult(s, dataOk, gpkIn, rl, fail).st)
  <1>0. KeepsOrClears(s, s)
    BY DEF KeepsOrClears
  <1>1. CASE R6API
    <2> DEFINE s1 == IF TARGET_OS_FREERTOS THEN s ELSE [s EXCEPT !.gpk = gpkIn]
               r == R6Init(s1, IF fail = "sign" THEN "none" ELSE fail)
    <2>1. CASE ~dataOk \/ ~s.init \/ (~TARGET_OS_FREERTOS /\ gpkIn \notin Keys)
      BY <1>0, <1>1, <2>1 DEF SignResult, SignR6
    <2>2. CASE ~(~dataOk \/ ~s.init \/ (~TARGET_OS_FREERTOS /\ gpkIn \notin Keys))
      <3>1. GOK(s1) /\ s1.init = s.init
        BY <2>2 DEF GOK, GState, KeyBuf
      <3>2. KeepsOrClears(s, r.st) /\ GOK(r.st)
        BY <3>1, R6InitKeepsOrClears, R6InitOK DEF KeepsOrClears
      <3>3. KeepsOrClears(s, EpidMemberDelete(r.st))
        BY <3>2, DeleteKeepsOrClears
      <3>4. SignR6(s, dataOk, gpkIn, rl, fail).st \in {r.st, EpidMemberDelete(r.st)}
        BY <2>2 DEF SignR6
      <3>5. QED
        BY <1>1, <3>2, <3>3, <3>4 DEF SignResult
    <2>3. QED
      BY <2>1, <2>2
  <1>2. CASE ~R6API
    <2> DEFINE m == EpidAlloc(s.heap)
               s1 == [s EXCEPT !.heap = IF fail = "none" THEN @ ELSE @ \cup {m},
                               !.pre = IF fail = "precomp" THEN @
                                       ELSE [grp |-> gpkIn, priv |-> s.key]]
    <2>1. KeepsOrClears(s, s1)
      BY DEF GOK, GState, KeepsOrClears
    <2>2. SignSdk(s, dataOk, gpkIn, rl, fail).st \in {s, s1}
      BY DEF SignSdk
    <2>3. QED
      BY <1>0, <1>2, <2>1, <2>2 DEF SignResult
  <1>3. QED
    BY <1>1, <1>2

(* A step from G to a record t that keeps the flag, clears the record or *)
(* initialises the backend satisfies ClearedOnDeinit.                    *)
LEMMA SetGCleared ==
  ASSUME NEW t, KeepsOrClears(G, t) \/ t.init, SetG(t)
  PROVE  ClearedOnDeinit
  BY DEF SetG, KeepsOrClears, Cleared, G, ClearedOnDeinit

LEMMA NextCleared == TypeOK /\ [Next]_vars => [ClearedOnDeinit]_vars
  <1> SUFFICES ASSUME TypeOK, [Next]_vars PROVE [ClearedOnDeinit]_vars
    OBVIOUS
  <1>1. GOK(G)
    BY TypeOKAsG
  <1>2. ASSUME NEW gk \in Keys \cup {NULL}, NEW pk \in PrivKeyArg,
               NEW f \in InitFails, EPID_Init(gk, pk, f)
        PROVE  ClearedOnDeinit
    BY <1>1, <1>2, InitResultKeepsOrClears, SetGCleared DEF EPID_Init
  <1>3. CASE EPID_Close
    <2>1. KeepsOrClears(G, Close(G))
      BY <1>1, CloseCleared DEF Close, KeepsOrClears
    <2>2. QED
      BY <1>3, <2>1, SetGCleared DEF EPID_Close
  <1>4. ASSUME NEW ok \in BOOLEAN, NEW gk \in GroupKeyArg,
               NEW rl \in 0..MaxRl, NEW f \in SignFails,
               EPID_Sign(ok, gk, rl, f)
        PROVE  ClearedOnDeinit
    BY <1>1, <1>4, SignResultKeepsOrClears, SetGCleared DEF EPID_Sign
  <1>5. CASE UNCHANGED vars
    BY <1>5 DEF vars
  <1>6. QED
    BY <1>2, <1>3, <1>4, <1>5 DEF Next

(* In every build, with or without re-initialisation, every step that    *)
(* drops g_epidInitialized (EPID_Close, or the EPID_Close of             *)
(* epid_r6_init's error path inside EPID_Sign or EPID_Init) zeroes the   *)
(* private key, drops is_precompute_available and nulls g_member_ctx.    *)
THEOREM DeinitClearsHolds == Spec => DeinitClears
  BY TypeCorrect, NextCleared, PTL DEF Spec, DeinitClears
=============================================================================
