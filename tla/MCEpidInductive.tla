--------------------------- MODULE MCEpidInductive ---------------------------
(* Model-checking instance of the proof modules, so that the inductive  *)
(* invariants of EpidProofs and EpidRefinement (IInv on the MCU build,   *)
(* HostInv on the non-MCU R6 build) can be checked by TLC before a      *)
(* proof is attempted, beside the properties the runs check.            *)
EXTENDS EpidRefinement, TLC

CONSTANTS k1, k2, k3, c1, c2

MCKeys == {k1, k2}
MCKeys3 == {k1, k2, k3}
MCCtx == {c1, c2}
MCSymmetry == Permutations(MCKeys)
=============================================================================
