-------------------------- MODULE MCPublisherFeed --------------------------
(* PublisherFeed on small instances.                                       *)
EXTENDS PublisherFeed, TLC

CONSTANTS r1, r2

Item(r, t, tlp, kind, life) ==
    [record |-> r, time |-> t, tlp |-> tlp, kind |-> kind, life |-> life]

(* A record whose marking is raised or restricted and that is revoked at   *)
(* its source, in time or late, and another one.                           *)
FeedItems ==
    {Item(r1, 1, 0, "cti", "active"), Item(r1, 2, 1, "cti", "active"),
     Item(r1, 2, 2, "cti", "active"), Item(r1, 2, 0, "cti", "revoked"),
     Item(r1, 1, 0, "cti", "revoked"),
     Item(r2, 1, 0, "cti", "active")}
LowAndHigh == {[maxTlp |-> t, kinds |-> {"cti"}] : t \in 0..1}

(* A record only one entitlement reads, and one whose source kind changes. *)
DeliveryItems ==
    {Item(r1, 1, 1, "cti", "active"),
     Item(r2, 1, 0, "cti", "active"), Item(r2, 2, 0, "osint", "active")}
NarrowAndWide ==
    {[maxTlp |-> 0, kinds |-> {"cti"}], [maxTlp |-> 1, kinds |-> {"cti", "osint"}]}

OperatorSymmetry == Permutations(Operators)
=============================================================================
