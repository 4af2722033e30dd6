------------------------- MODULE MCDerivationIndex -------------------------
(* The derivation indexes for TLC.  The requests are interchangeable.      *)
EXTENDS DerivationIndex, TLC

Symmetry == Permutations(Calls)
=============================================================================
