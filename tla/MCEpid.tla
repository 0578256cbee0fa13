------------------------------- MODULE MCEpid -------------------------------
(* Model-checking instance of Epid: two groups, two heap cells for member *)
(* contexts and revocation lists of up to one entry.  Group identities   *)
(* are interchangeable (the model only compares them), so they form a    *)
(* symmetry set; heap cells are not, because EpidAlloc picks one.       *)
EXTENDS Epid, TLC

CONSTANTS k1, k2, k3, c1, c2

MCKeys == {k1, k2}
MCCtx == {c1, c2}
MCKeys3 == {k1, k2, k3}
MCSymmetry == Permutations(MCKeys)
=============================================================================
