----------------------------- MODULE EpidAbstract -----------------------------
(***************************************************************************)
(* What the group-signature attestation backend promises its caller      *)
(* (spec section 4.2), without member contexts, blobs or library calls:  *)
(* init stores a private key and may complete; sign fails at once unless *)
(* init completed, and otherwise returns a signature made with the       *)
(* stored key, its group and, if any, a blob computed from them, or      *)
(* fails; a failure inside sign either leaves the backend as it was or   *)
(* closes it; close is a no-op unless initialised and otherwise drops   *)
(* the flag and zeroes the key.  No member context survives a call      *)
(* (spec 5: release on every exit path).                                 *)
(***************************************************************************)
EXTENDS Naturals

CONSTANTS
    Keys,         \* group identities; a private key is named by its group
    MaxRl,        \* largest revocation list
    NULL,         \* no signature
    Zero          \* the zeroed key buffer

VARIABLES
    ready,        \* init has completed and close has not run since
    key,          \* the stored private key
    members,      \* member contexts held between calls
    sig           \* what the last sign returned

KeyBuf == Keys \cup {Zero}

(* The signatures a member holding private key k can produce.           *)
SignedWith(k) ==
    {[grp |-> k, priv |-> k, pre |-> p, rl |-> n] :
        p \in {NULL, [grp |-> k, priv |-> k]}, n \in 0..MaxRl}

Init == ready = FALSE /\ key = Zero /\ members = {} /\ sig = NULL

(* init: the stored key may be replaced, and init may complete.          *)
Initialize ==
    /\ key' \in KeyBuf
    /\ ready' \in {ready, TRUE}
    /\ UNCHANGED <<members, sig>>

(* sign succeeds with the stored key.                                    *)
SignOk ==
    /\ ready
    /\ key \in Keys
    /\ sig' \in SignedWith(key)
    /\ UNCHANGED <<ready, key, members>>

(* sign fails, leaving the backend as it was or closed.                  *)
SignFail ==
    /\ sig' = NULL
    /\ \/ UNCHANGED <<ready, key>>
       \/ ready /\ ready' = FALSE /\ key' = Zero
    /\ UNCHANGED members

(* close: a no-op unless initialised.                                    *)
Close ==
    /\ ready' = FALSE
    /\ key' = IF ready THEN Zero ELSE key
    /\ UNCHANGED <<members, sig>>

Next == Initialize \/ SignOk \/ SignFail \/ Close

Spec == Init /\ [][Next]_<<ready, key, members, sig>>

=============================================================================
