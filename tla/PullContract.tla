---------------------------- MODULE PullContract ----------------------------
(***************************************************************************)
(* What a pull promises the hub, without runs, leases or schedulers: the   *)
(* pages of a delivery are taken in order, each once and in whole batches, *)
(* and a delivery that ends is complete.                                   *)
(***************************************************************************)
EXTENDS Naturals

CONSTANTS Records, MaxPages

VARIABLES
    taken, \* pages of the open delivery that have been imported
    hub    \* records the hub holds

vars == <<taken, hub>>

PageRow == [number : 1..MaxPages, items : SUBSET Records]

ItemsOf(pages) == UNION {page.items : page \in pages}

(* Together with what was taken the batch is pages 1 to n, without a       *)
(* repeated record.                                                        *)
Follows(batch, n) ==
    /\ batch \cap taken = {}
    /\ {page.number : page \in taken \cup batch} = 1..n
    /\ \A one, two \in taken \cup batch : one # two =>
          one.number # two.number /\ one.items \cap two.items = {}

Init ==
    /\ taken = {}
    /\ hub = {}

(* A batch that is not the last leaves room for another page.              *)
Take(batch) ==
    /\ \E n \in 1..(MaxPages - 1) : Follows(batch, n)
    /\ taken' = taken \cup batch
    /\ hub' = hub \cup ItemsOf(batch)

(* A last batch that resets the hub keeps all of this delivery and drops   *)
(* the rest, but for what failed calls may have seen of the delivery.      *)
Complete(batch, reset, seen) ==
    /\ \E n \in 1..MaxPages : Follows(batch, n)
    /\ taken' = {}
    /\ hub' = IF reset THEN (hub \cup ItemsOf(batch)) \cap (ItemsOf(taken \cup batch) \cup seen)
              ELSE hub \cup ItemsOf(batch)

Next ==
    \E batch \in SUBSET PageRow :
        \/ Take(batch)
        \/ \E reset \in BOOLEAN, seen \in SUBSET Records : Complete(batch, reset, seen)

Spec == Init /\ [][Next]_vars
=============================================================================
