-------------------------- MODULE MCBackgroundJobs --------------------------
EXTENDS BackgroundJobs, TLC

Symmetry == Permutations(Workers) \cup Permutations(Clients)
=============================================================================
