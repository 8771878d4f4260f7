----------------------------- MODULE MCRegistry -----------------------------
(* Small instances of Registry for TLC.                                    *)
EXTENDS Registry, TLC

Symmetry == Permutations(Names) \cup Permutations(Keys)
=============================================================================
