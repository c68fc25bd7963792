----------------------------- MODULE MCScanJobs -----------------------------
(* Model checking of the scan jobs: scans, workers and requests are        *)
(* interchangeable.                                                        *)
EXTENDS ScanJobs, TLC

Symmetry == Permutations(Scans) \cup Permutations(Workers) \cup Permutations(Clients)
=============================================================================
