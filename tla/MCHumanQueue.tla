----------------------------- MODULE MCHumanQueue -----------------------------
EXTENDS HumanQueue, TLC
CONSTANTS p1, p2, p3, r1, ann, bob
MCApprover == r1 :> ann
MCWindow == r1 :> 1
Symmetry == Permutations(Callers)
=============================================================================
