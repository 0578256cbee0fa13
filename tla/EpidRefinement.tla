---------------------------- MODULE EpidRefinement ----------------------------
(***************************************************************************)
(* Proof that the EPID backend implements its attestation contract       *)
(* (EpidAbstract, spec 4.2) in the host R6 and TINY builds, under the    *)
(* mapping of module Epid (ready <- g_epidInitialized, key <- g_priv_key, *)
(* members <- heap).  The step proof needs two facts of every reachable  *)
(* state, both proved in EpidProofs: no member context is allocated      *)
(* between calls (LeakInv), so the abstract members stay empty, and no   *)
(* blob is marked available (HostSigInv), so EPID_Sign provisions no     *)
(* blob and its signature lies in SignedWith of the stored key.          *)
(***************************************************************************)
EXTENDS EpidProofs

(* The invariant the refinement rests on.                                *)
HostInv == LeakInv /\ HostSigInv

(* The abstract variables.                                               *)
absVars == <<g_epidInitialized, g_priv_key, heap, sig>>

-----------------------------------------------------------------------------
(* A successful epid_r6_init keeps the flag and the private key, and     *)
(* succeeds only without a failure point and with a matching key pair.  *)
LEMMA R6InitOkKeeps ==
  ASSUME NEW s, GOK(s), NEW fail, R6Init(s, fail).ok
  PROVE  /\ R6Init(s, fail).st.init = s.init
         /\ R6Init(s, fail).st.key = s.key
         /\ KeyPair(s.gpk, s.key)
  <1> DEFINE c == EpidAlloc(s.heap)
             s1 == IF fail = "early" THEN s
                   ELSE [s EXCEPT !.ctx = c,
                                  !.heap = IF c = NULL THEN @ ELSE @ \cup {c}]
  <1>1. s1.init = s.init /\ s1.key = s.key /\ GOK(s1)
    <2>1. c \in (Ctx \ s.heap) \cup {NULL}
      BY AllocType DEF GOK, GState
    <2>2. QED
      BY <2>1 DEF GOK, GState
  <1>2. fail = "none" /\ c # NULL /\ KeyPair(s.gpk, s.key)
    BY DEF R6Init
  <1>3. QED
    BY <1>1, <1>2 DEF R6Init, GOK, GState

(* A failed epid_r6_init of an initialised backend clears it.            *)
LEMMA R6InitFailClears ==
  ASSUME NEW s, GOK(s), s.init, NEW fail, ~R6Init(s, fail).ok
  PROVE  Cleared(R6Init(s, fail).st)
  <1> DEFINE c == EpidAlloc(s.heap)
             s1 == IF fail = "early" THEN s
                   ELSE [s EXCEPT !.ctx = c,
                                  !.heap = IF c = NULL THEN @ ELSE @ \cup {c}]
  <1>1. GOK(s1) /\ s1.init
    <2>1. c \in (Ctx \ s.heap) \cup {NULL}
      BY AllocType DEF GOK, GState
    <2>2. QED
      BY <2>1 DEF GOK, GState
  <1>2. R6Init(s, fail).st = Close(s1)
    BY DEF R6Init
  <1>3. QED
    BY <1>1, <1>2, CloseCleared

LEMMA HostInvNext ==
  ASSUME HostR6
  PROVE  HostInv /\ [Next]_vars => HostInv'
  BY LeakInvNext, HostSigInvNext DEF HostInv

-----------------------------------------------------------------------------
(* Every step is an abstract step or a stutter of the abstract variables. *)
LEMMA NextRefines ==
  ASSUME HostR6
  PROVE  HostInv /\ HostInv' /\ [Next]_vars => [EpidAbs!Next]_absVars
  <1> SUFFICES ASSUME HostInv, HostInv', [Next]_vars
               PROVE  [EpidAbs!Next]_absVars
    OBVIOUS
  <1>1. GOK(G) /\ NoMember(G) /\ ~G.avail /\ heap = {} /\ heap' = {}
        /\ g_priv_key' \in KeyBuf /\ TypeOK
    BY TypeOKAsG DEF HostInv, LeakInv, HostSigInv, NoMember, G, TypeOK
  <1>0. g_epidInitialized' \in BOOLEAN /\ g_epidInitialized \in BOOLEAN
    BY DEF HostInv, LeakInv, TypeOK
  <1>2. ~WritesPrecomp /\ R6API /\ ~McuInit /\ ~TARGET_OS_FREERTOS
    BY DEF HostR6, WritesPrecomp, McuInit
  <1>3. ASSUME NEW gk \in Keys \cup {NULL}, NEW pk \in PrivKeyArg,
               NEW f \in InitFails, EPID_Init(gk, pk, f)
        PROVE  EpidAbs!Initialize
    <2> DEFINE s1 == IF gk \in Keys THEN [G EXCEPT !.gpk = gk] ELSE G
               s2 == IF pk.form \in {"absent", "badsize"} THEN s1
                     ELSE [s1 EXCEPT !.key = pk.key]
    <2>1. GOK(s1) /\ s1.init = G.init
      BY <1>1 DEF GOK, GState, KeyBuf
    <2>2. GOK(s2) /\ s2.init = G.init
      BY <2>1 DEF GOK, GState, KeyBuf, PrivKeyArg
    <2>3. [s2 EXCEPT !.init = TRUE].init = TRUE
      BY <2>2 DEF GOK, GState
    <2>4. InitResult(G, gk, pk, f) \in {s1, s2, [s2 EXCEPT !.init = TRUE]}
      BY <1>2 DEF InitResult
    <2>5. InitResult(G, gk, pk, f).init \in {G.init, TRUE}
      BY <2>1, <2>2, <2>3, <2>4
    <2>8. g_epidInitialized' \in {g_epidInitialized, TRUE}
      BY <1>3, <2>5 DEF EPID_Init, SetG, G
    <2>6. heap' = heap /\ sig' = sig
      BY <1>1, <1>3 DEF EPID_Init
    <2>7. QED
      BY <1>1, <2>8, <2>6 DEF EpidAbs!Initialize, EpidAbs!KeyBuf, KeyBuf
  <1>4. ASSUME EPID_Close PROVE EpidAbs!Close
    <2>1. CASE G.init
      <3>1. Cleared(Close(G))
        BY <1>1, <2>1, CloseCleared
      <3>2. /\ g_epidInitialized' = FALSE /\ g_priv_key' = Zero
            /\ heap' = heap /\ sig' = sig
        BY <1>0, <1>1, <1>4, <3>1 DEF EPID_Close, SetG, Cleared
      <3>3. QED
        BY <2>1, <3>2 DEF EpidAbs!Close, G
    <2>2. CASE ~G.init
      <3>1. Close(G) = G
        BY <2>2 DEF Close
      <3>2. /\ g_epidInitialized' = g_epidInitialized /\ g_priv_key' = g_priv_key
            /\ heap' = heap /\ sig' = sig
        BY <1>4, <3>1 DEF EPID_Close, SetG, G
      <3>3. QED
        BY <1>0, <2>2, <3>2 DEF EpidAbs!Close, G
    <2>3. QED
      BY <2>1, <2>2
  <1>5. ASSUME NEW ok \in BOOLEAN, NEW gk \in GroupKeyArg,
               NEW rl \in 0..MaxRl, NEW f \in SignFails,
               EPID_Sign(ok, gk, rl, f)
        PROVE  EpidAbs!SignOk \/ EpidAbs!SignFail
    <2> DEFINE s1 == [G EXCEPT !.gpk = gk]
               r == R6Init(s1, IF f = "sign" THEN "none" ELSE f)
               res == SignResult(G, ok, gk, rl, f)
    <2>1. SetG(res.st) /\ sig' = res.sig
      BY <1>5 DEF EPID_Sign
    <2>2. CASE ~ok \/ ~G.init \/ gk \notin Keys
      <3>1. res = [st |-> G, sig |-> NULL]
        BY <1>2, <2>2 DEF SignResult, SignR6
      <3>2. QED
        BY <1>1, <2>1, <3>1 DEF SetG, G, EpidAbs!SignFail
    <2>3. CASE ok /\ G.init /\ gk \in Keys
      <3>1. GOK(s1) /\ s1.init /\ s1.key = G.key /\ ~s1.avail
        BY <1>1, <2>3 DEF GOK, GState, KeyBuf
      <3>2. GOK(r.st)
        BY <3>1, R6InitOK
      <3>3. CASE ~r.ok
        <4>1. res = [st |-> r.st, sig |-> NULL]
          BY <1>2, <2>3, <3>3 DEF SignResult, SignR6
        <4>2. Cleared(r.st)
          BY <3>1, <3>3, R6InitFailClears
        <4>3. /\ g_epidInitialized' = FALSE /\ g_priv_key' = Zero
              /\ heap' = heap /\ sig' = NULL
          BY <1>0, <1>1, <2>1, <4>1, <4>2 DEF SetG, Cleared
        <4>4. QED
          BY <2>3, <4>3 DEF G, EpidAbs!SignFail
      <3>4. CASE r.ok
        <4>1. r.st.init = G.init /\ r.st.key = G.key /\ KeyPair(gk, G.key)
          <5>1. r.st.init = s1.init /\ r.st.key = s1.key /\ KeyPair(s1.gpk, s1.key)
            BY <3>1, <3>4, R6InitOkKeeps
          <5>2. s1.gpk = gk
            BY <1>1 DEF GOK, GState
          <5>3. QED
            BY <3>1, <5>1, <5>2
        <4>2. EpidMemberDelete(r.st).init = G.init
              /\ EpidMemberDelete(r.st).key = G.key
          BY <3>2, <4>1 DEF EpidMemberDelete, GOK, GState
        <4>3. res = [st |-> EpidMemberDelete(r.st),
                     sig |-> IF f = "sign" THEN NULL ELSE Provisioned(s1, rl)]
          BY <1>2, <2>3, <3>4 DEF SignResult, SignR6
        <4>4. Provisioned(s1, rl) \in EpidAbs!SignedWith(G.key)
          BY <3>1, <4>1 DEF Provisioned, KeyPair, EpidAbs!SignedWith
        <4>5. G.key \in Keys
          BY <4>1 DEF KeyPair
        <4>6. CASE f = "sign"
          BY <1>1, <2>1, <4>2, <4>3, <4>6 DEF SetG, G, EpidAbs!SignFail
        <4>7. CASE f # "sign"
          <5>1. sig' \in EpidAbs!SignedWith(g_priv_key)
            BY <2>1, <4>3, <4>4, <4>7 DEF G
          <5>2. g_epidInitialized' = g_epidInitialized /\ g_priv_key' = g_priv_key
            BY <2>1, <4>2, <4>3 DEF SetG, G
          <5>3. QED
            BY <1>1, <2>3, <4>5, <5>1, <5>2 DEF G, EpidAbs!SignOk
        <4>8. QED
          BY <4>6, <4>7
      <3>5. QED
        BY <3>3, <3>4
    <2>4. QED
      BY <2>2, <2>3
  <1>6. CASE UNCHANGED vars
    BY <1>6 DEF vars, absVars
  <1>7. QED
    BY <1>3, <1>4, <1>5, <1>6 DEF Next, EpidAbs!Next, absVars

(* In the host R6 and TINY builds, with or without re-initialisation,   *)
(* every reachable state has no member context allocated, a NULL        *)
(* g_member_ctx, no blob marked available and a valid last signature:   *)
(* EPID_Sign deletes the member it creates on every exit path, and      *)
(* neither EPID_Init nor EPID_Sign writes a blob in these builds.       *)
THEOREM HostInvariance ==
  ASSUME HostR6
  PROVE  Spec => []HostInv
  <1>1. Init => HostInv
    BY LeakInvInit, InitTypeOK DEF Init, HostInv, HostSigInv, SignatureValid
  <1>2. QED
    BY <1>1, HostInvNext, PTL DEF Spec

(* In the host R6 and TINY builds, with or without re-initialisation,   *)
(* the backend implements the attestation contract of spec 4.2: every   *)
(* behaviour of EPID_Init, EPID_Sign and EPID_Close, seen through the   *)
(* flag, the private key, the allocated member contexts and the returned *)
(* signature, is a behaviour of EpidAbstract.                            *)
THEOREM RefinementHostR6 ==
  ASSUME HostR6
  PROVE  Spec => ImplementsEpidAbstract
  <1>1. Init => EpidAbs!Init
    BY DEF Init, EpidAbs!Init
  <1>2. QED
    BY <1>1, HostInvariance, NextRefines, PTL
       DEF Spec, ImplementsEpidAbstract, EpidAbs!Spec, absVars
=============================================================================
