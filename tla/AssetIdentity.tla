--------------------------- MODULE AssetIdentity ---------------------------
(***************************************************************************)
(* The asset identities of one system.  Every host of a scan carries an    *)
(* address and perhaps a hardware address and a name.  An asset owns the   *)
(* aliases it was seen under; a host selects the asset it belongs to by    *)
(* its aliases, assets that turn out to be one device are merged, and an   *)
(* address or a name that moved follows the device that has it now.        *)
(*                                                                         *)
(* Scans are ingested one at a time, under the lock of the system, each in *)
(* one transaction: what makes them hard is the order in which scans of    *)
(* different completeness and age arrive.  A scan that fails half-way      *)
(* leaves nothing behind.                                                  *)
(***************************************************************************)
EXTENDS Integers, FiniteSets

CONSTANTS
    Ips, Macs, Names,
    None,           \* a host without a hardware address or a name
    Listening,      \* whether the hosts of a scan have an open port in common
    MaxAssets,      \* bound on the assets ever created
    MaxScans,       \* bound on the scans ingested
    MaxTime         \* bound on the times at which scans observe

ASSUME BoundsAssumption == MaxAssets \in Nat /\ MaxScans \in Nat /\ MaxTime \in Nat
ASSUME AliasesAssumption ==
    /\ Ips \cap Macs = {} /\ Ips \cap Names = {} /\ Macs \cap Names = {}
    /\ None \notin Ips \cup Macs \cup Names

VARIABLES
    asset,      \* the assets by number
    alias,      \* owner and last sighting of each address, MAC and name
    analysed,   \* assets that findings or manual architectures refer to
    inventory,  \* asset observed at each address by the current generation
    generation, \* observation time of the current generation
    scans,      \* number of scans received
    open,       \* a scan is being ingested
    book,       \* what its transaction did so far
    blurred,    \* a scan that does not promote brought an asset its first MAC
    failed      \* a scan could not be ingested

vars == <<asset, alias, analysed, inventory, generation, scans, open, book, blurred, failed>>

Ids == 1..MaxAssets
Aliases == Ips \cup Macs \cup Names
Time == 0..MaxTime
Never == -1
Nobody == 0

Unborn == [life |-> "unborn", key |-> None, mac |-> None, status |-> "stale"]
Unclaimed == [owner |-> Nobody, seen |-> Never]
Host == [ip : Ips, mac : Macs \cup {None}, name : Names \cup {None}]

NoBook == [broken |-> FALSE]

Init ==
    /\ asset = [i \in Ids |-> Unborn]
    /\ alias = [a \in Aliases |-> Unclaimed]
    /\ analysed = {}
    /\ inventory = [i \in Ips |-> Nobody]
    /\ generation = Never
    /\ scans = 0
    /\ open = FALSE
    /\ book = NoBook
    /\ blurred = FALSE
    /\ failed = FALSE

-----------------------------------------------------------------------------
(* A book is what one ingestion has done so far: the assets, the aliases,  *)
(* the observations of the current generation and of the scan, the assets  *)
(* that have the scan's service, and whether a constraint of the database  *)
(* was violated.                                                           *)

Live(b, i) == i # Nobody /\ b.asset[i].life = "live"
KeyHolder(b, key) ==
    LET H == {i \in Ids : Live(b, i) /\ b.asset[i].key = key}
    IN  IF H = {} THEN Nobody ELSE CHOOSE i \in H : TRUE
(* _asset_for_alias, and then the asset whose stable key is the alias.     *)
AssetFor(b, a) ==
    IF a = None THEN Nobody
    ELSE IF b.alias[a].owner # Nobody THEN b.alias[a].owner
    ELSE IF a \in Names THEN Nobody ELSE KeyHolder(b, a)

(* Mutant: an address that was reused belongs to the device that had it.   *)
NoOtherMac(b, i, mac) == FALSE
HasOtherMac(b, i, mac) == b.asset[i].mac \notin {None, mac}

DistinctMacs(b, i, j) ==
    b.asset[i].mac # None /\ b.asset[j].mac # None /\ b.asset[i].mac # b.asset[j].mac

(* Everything that refers to the duplicate refers to the canonical asset.  *)
Replaced(f, duplicate, canonical) ==
    [x \in DOMAIN f |-> IF f[x] = duplicate THEN canonical ELSE f[x]]
Fused(b, canonical, duplicate) ==
    [b EXCEPT
        !.asset[canonical].mac = IF @ = None THEN b.asset[duplicate].mac ELSE @,
        !.asset[duplicate].life = "merged",
        !.alias = [a \in Aliases |->
            IF @[a].owner = duplicate THEN [@[a] EXCEPT !.owner = canonical] ELSE @[a]],
        !.inventory = Replaced(@, duplicate, canonical),
        !.hosts = Replaced(@, duplicate, canonical),
        !.serving = IF duplicate \in @ THEN (@ \ {duplicate}) \cup {canonical} ELSE @]

(* _merge_assets: which of the two remains, or Nobody when both do.        *)
Canonical(b, first, second) ==
    IF DistinctMacs(b, first, second) \/ {first, second} \subseteq analysed THEN Nobody
    ELSE IF second \in analysed THEN second ELSE first
Merged(b, first, second) ==
    LET c == Canonical(b, first, second)
    IN  IF c = Nobody \/ first = second THEN b
        ELSE Fused(b, c, IF c = first THEN second ELSE first)
Survivor(b, first, second) ==
    IF Canonical(b, first, second) = second THEN second ELSE first

-----------------------------------------------------------------------------
(* upsert_asset: the asset a host belongs to, as the pair of a book and    *)
(* the asset, Nobody for a new one.                                        *)
Selected(b, h) ==
    LET byMac == AssetFor(b, h.mac)
        byIp == AssetFor(b, h.ip)
        byName == AssetFor(b, h.name)
    IN  IF byMac # Nobody /\ byIp \notin {Nobody, byMac} /\ ~DistinctMacs(b, byMac, byIp)
        THEN <<Merged(b, byMac, byIp), Survivor(b, byMac, byIp)>>
        ELSE <<b, IF byMac # Nobody THEN byMac
                  ELSE IF byIp # Nobody /\ (h.mac = None \/ ~HasOtherMac(b, byIp, h.mac)) THEN byIp
                  ELSE IF byName # Nobody /\ (h.mac = None \/ ~HasOtherMac(b, byName, h.mac))
                       THEN byName
                  ELSE Nobody>>

(* An address-only key becomes the MAC's; another holder of that key is    *)
(* merged.                                                                 *)
Rekeyed(b, i, mac) ==
    IF mac = None \/ b.asset[i].key \notin Ips THEN <<b, i>>
    ELSE LET other == KeyHolder(b, mac)
         IN  IF other = Nobody THEN <<[b EXCEPT !.asset[i].key = mac], i>>
             ELSE <<Merged(b, other, i), Survivor(b, other, i)>>

NextId(b) == Cardinality({i \in Ids : b.asset[i].life # "unborn"}) + 1
Created(b, h) ==
    LET i == NextId(b)
    IN  <<[b EXCEPT !.asset[i] = [life |-> "live", key |-> IF h.mac = None THEN h.ip ELSE h.mac,
                                  mac |-> h.mac,
                                  status |-> IF b.promote THEN "current" ELSE "stale"]], i>>
Promoted(b, i, mac) ==
    IF ~b.promote THEN b
    ELSE [b EXCEPT !.asset[i].mac = IF mac = None THEN @ ELSE mac,
                   !.asset[i].status = "current"]
Identified(b, h) ==
    LET s == Selected(b, h)
    IN  IF s[2] = Nobody THEN Created(b, h)
        ELSE LET r == Rekeyed(s[1], s[2], h.mac)
             IN  <<Promoted(r[1], r[2], h.mac), r[2]>>

(* _upsert_asset_alias: an older sighting changes nothing, a newer one     *)
(* moves an address or a name between different devices and merges the     *)
(* assets otherwise.  The caller is not told which asset remained.         *)
(* Mutant: the age of the sighting is not compared.                        *)
ClaimedAtAnyAge(b, i, a) ==
    IF a = None \/ ~Live(b, i) THEN b
    ELSE LET former == b.alias[a].owner
             sighted == [owner |-> i, seen |-> b.at]
         IN  IF former \in {Nobody, i} \/ (a \notin Macs /\ DistinctMacs(b, i, former))
             THEN [b EXCEPT !.alias[a] = sighted]
             ELSE [Merged(b, i, former) EXCEPT
                     !.alias[a] = [sighted EXCEPT !.owner = Survivor(b, i, former)]]

Claimed(b, i, a) ==
    IF a = None \/ ~Live(b, i) THEN b
    ELSE LET former == b.alias[a].owner
             sighted == [owner |-> i, seen |-> b.at]
         IN  IF former = Nobody THEN [b EXCEPT !.alias[a] = sighted]
             ELSE IF b.at < b.alias[a].seen \/ (b.at = b.alias[a].seen /\ former # i) THEN b
             ELSE IF former = i \/ (a \notin Macs /\ DistinctMacs(b, i, former))
                  THEN [b EXCEPT !.alias[a] = sighted]
             ELSE [Merged(b, i, former) EXCEPT
                     !.alias[a] = [sighted EXCEPT !.owner = Survivor(b, i, former)]]

(* add_service: an asset has a service once in a scan.                     *)
Served(b, i) ==
    IF ~b.listening THEN b
    ELSE IF i \in b.serving THEN [b EXCEPT !.broken = TRUE]
    ELSE [b EXCEPT !.serving = @ \cup {i}]

(* One host: its asset, its aliases, its observation, which an asset that  *)
(* is gone cannot have, and its services.                                  *)
Observed(b, h) ==
    IF b.broken THEN b
    ELSE LET identified == Identified(b, h)
             i == identified[2]
             claimed == Claimed(Claimed(Claimed(identified[1], i, h.ip), i, h.mac), i, h.name)
         IN  IF ~Live(claimed, i) THEN [b EXCEPT !.broken = TRUE]
             ELSE Served([claimed EXCEPT !.hosts[h.ip] = i], i)

(* ingest_scanner_result: the transaction begins, ingests the hosts one by  *)
(* one, and ends or is rolled back.  A complete scan newer than the        *)
(* generation replaces it.                                                 *)
Begin(at, complete, listening) ==
    /\ ~open
    /\ scans < MaxScans
    /\ open' = TRUE
    /\ scans' = scans + 1
    /\ book' = [asset |-> asset, alias |-> alias, inventory |-> inventory,
                hosts |-> [i \in Ips |-> Nobody], serving |-> {}, at |-> at,
                promote |-> complete /\ at > generation, listening |-> listening,
                broken |-> FALSE]
    /\ UNCHANGED <<asset, alias, analysed, inventory, generation, blurred, failed>>

(* The key and the alias of the MAC are the asset's then, but not the MAC. *)
Blurs(b, h) ==
    /\ ~b.promote /\ h.mac # None
    /\ LET s == Selected(b, h) IN s[2] # Nobody /\ s[1].asset[s[2]].mac = None

Room(b, h) == NextId(b) \in Ids \/ Selected(b, h)[2] # Nobody
IngestHost(h) ==
    /\ open /\ ~book.broken /\ Room(book, h)
    /\ book.hosts[h.ip] = Nobody
    /\ book' = Observed(book, h)
    /\ blurred' = (blurred \/ Blurs(book, h))
    /\ UNCHANGED <<asset, alias, analysed, inventory, generation, scans, open, failed>>

Fail ==
    /\ open /\ book.broken
    /\ failed' = TRUE
    /\ open' = FALSE /\ book' = NoBook
    /\ UNCHANGED <<asset, alias, analysed, inventory, generation, scans, blurred>>

(* finalize_current_inventory: what the new generation did not see is      *)
(* unobserved when it is inside the scope, and stale outside.              *)
Finalized(b, absent) ==
    [i \in Ids |-> IF ~Live(b, i) THEN b.asset[i]
                   ELSE [b.asset[i] EXCEPT !.status =
                           IF \E ip \in Ips : b.hosts[ip] = i THEN "current" ELSE absent]]
Commit(absent) ==
    /\ open /\ ~book.broken
    /\ asset' = IF book.promote THEN Finalized(book, absent) ELSE book.asset
    /\ alias' = book.alias
    /\ inventory' = IF book.promote THEN book.hosts ELSE book.inventory
    /\ generation' = IF book.promote THEN book.at ELSE generation
    /\ open' = FALSE /\ book' = NoBook
    /\ UNCHANGED <<analysed, scans, blurred, failed>>

(* A finding of the asset is recorded, or a manual architecture places it. *)
Analyse(i) ==
    /\ ~open
    /\ asset[i].life = "live"
    /\ analysed' = analysed \cup {i}
    /\ UNCHANGED <<asset, alias, inventory, generation, scans, open, book, blurred, failed>>

Next ==
    \/ \E at \in Time, complete \in BOOLEAN, listening \in Listening : Begin(at, complete, listening)
    \/ \E h \in Host : IngestHost(h)
    \/ Fail
    \/ \E absent \in {"unobserved", "stale"} : Commit(absent)
    \/ \E i \in Ids : Analyse(i)

Spec == Init /\ [][Next]_vars

-----------------------------------------------------------------------------
(* Properties *)

(* Two hardware addresses are two devices (operational_repository.py:405). *)
(* They are mixed up only after a scan that does not promote has brought   *)
(* an asset its first one, which stays off the asset itself.               *)
MacsStayApart ==
    blurred \/ \A m, n \in Macs : m # n /\ alias[m].owner = alias[n].owner => alias[m].owner = Nobody

(* A delayed scan moves no alias of a newer identity: an alias whose last  *)
(* sighting did not advance keeps its owner unless that was merged away.   *)
OlderMovesNothing ==
    [][\A a \in Aliases : alias[a].owner # Nobody /\ alias'[a].owner # alias[a].owner =>
          \/ alias'[a].seen > alias[a].seen
          \/ asset'[alias[a].owner].life = "merged"]_vars

(* Every scan can be ingested.  The code does not keep this: see the       *)
(* README, under what the code does otherwise.                             *)
NothingFails == ~failed
=============================================================================
