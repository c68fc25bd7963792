---------------------------- MODULE ScanContract ----------------------------
(***************************************************************************)
(* What scanning promises a system, without workers, leases or locks: a    *)
(* scan is open until it is ingested or closed, both for good, and the     *)
(* inventory that ingested scans define only ever moves forward in time.   *)
(***************************************************************************)
EXTENDS Naturals

CONSTANT Scans

VARIABLES
    fate,   \* absent, open, ingested or closed
    newest  \* the time of the current inventory, 0 before the first

vars == <<fate, newest>>

Init ==
    /\ fate = [s \in Scans |-> "absent"]
    /\ newest = 0

Become(s, new) == fate' = [fate EXCEPT ![s] = new]

Submit(s) ==
    /\ fate[s] = "absent"
    /\ Become(s, "open")
    /\ UNCHANGED newest

(* Ingested as evidence only, or as the next inventory.                    *)
Record(s) ==
    /\ fate[s] \in {"absent", "open"}
    /\ Become(s, "ingested")
    /\ UNCHANGED newest

Advance(s) ==
    /\ fate[s] \in {"absent", "open"}
    /\ Become(s, "ingested")
    /\ newest' \in Nat
    /\ newest' > newest

Close(s) ==
    /\ fate[s] = "open"
    /\ Become(s, "closed")
    /\ UNCHANGED newest

Next == \E s \in Scans : Submit(s) \/ Record(s) \/ Advance(s) \/ Close(s)

Spec == Init /\ [][Next]_vars
=============================================================================
