--------------------------- MODULE MCExternalPull ---------------------------
(* ExternalPull on small instances.                                        *)
EXTENDS ExternalPull, TLC

(* Runs are chosen by NewRow and so are not interchangeable.               *)
Symmetry == Permutations(Pullers) \cup Permutations(Records)
=============================================================================
