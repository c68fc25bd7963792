---------------------------- MODULE AssetSources ----------------------------
(***************************************************************************)
(* Snapshots of NetBox, read page by page without any lock on either side  *)
(* while NetBox changes.  A snapshot calls itself complete; what protects  *)
(* it is that the declared count may not change within an endpoint, and    *)
(* that pages are ordered by identifiers, which NetBox only ever raises.   *)
(*                                                                         *)
(* A page holds one record.  The retries of a page are part of the wait    *)
(* for it.  watch is a history variable: what happened to the endpoint a   *)
(* request reads since it asked for the first page.                        *)
(***************************************************************************)
EXTENDS Integers, Sequences, SequencesExt

CONSTANTS
    Requests,
    Sources,        \* NetBox endpoints
    Initial,        \* records each endpoint lists at first
    MaxRecords,     \* settings.netbox_max_records
    MaxPages,       \* settings.netbox_max_pages
    MaxIds          \* bound on identifiers

VARIABLES
    inventory,  \* identifiers that each endpoint lists, in order
    nextId,
    fetch,      \* what each request has read
    watch,      \* records listed all the time, and edits, of the endpoint it reads
    snapshots   \* AssetSourceSnapshotRow

sourceVars == <<inventory, nextId, fetch, watch, snapshots>>

NotFetching == [phase |-> "idle"]
NoWatch == [all |-> {}, edits |-> {}]

SourceInit ==
    /\ inventory = [s \in Sources |-> [i \in 1 .. Initial |-> i]]
    /\ nextId = Initial + 1
    /\ fetch = [p \in Requests |-> NotFetching]
    /\ watch = [p \in Requests |-> NoWatch]
    /\ snapshots = {}

-----------------------------------------------------------------------------
(* NetBox *)

Reads(p, s) == fetch[p].phase = "read" /\ Head(fetch[p].todo) = s

AddRecord(s) ==
    /\ nextId <= MaxIds
    /\ inventory' = [inventory EXCEPT ![s] = Append(@, nextId)]
    /\ nextId' = nextId + 1
    /\ watch' = [p \in Requests |->
          IF Reads(p, s) THEN [watch[p] EXCEPT !.edits = @ \cup {"add"}] ELSE watch[p]]
    /\ UNCHANGED <<fetch, snapshots>>

RemoveRecord(s) ==
    /\ \E i \in DOMAIN inventory[s] :
          /\ inventory' = [inventory EXCEPT ![s] = RemoveAt(@, i)]
          /\ watch' = [p \in Requests |->
                IF Reads(p, s)
                THEN [all |-> watch[p].all \ {inventory[s][i]},
                      edits |-> watch[p].edits \cup {"remove"}]
                ELSE watch[p]]
    /\ UNCHANGED <<nextId, fetch, snapshots>>

-----------------------------------------------------------------------------
(* sync_netbox_asset_source *)

Begin(p) ==
    /\ fetch[p] = NotFetching
    /\ fetch' = [fetch EXCEPT ![p] =
          [phase |-> "read", todo |-> SetToSeq(Sources), count |-> -1, part |-> <<>>,
           pages |-> <<>>, history |-> <<>>]]
    /\ UNCHANGED <<inventory, nextId, watch, snapshots>>

(* A page at the offset of what this endpoint has given so far.            *)
Offset(p) == Len(fetch[p].part)
PageAt(p, s) == SubSeq(inventory[s], Offset(p) + 1,
                       IF Offset(p) < Len(inventory[s]) THEN Offset(p) + 1 ELSE Offset(p))

(* The declared count may not change within an endpoint.                   *)
(* Mutant: every page's own count is believed.                             *)
AnyCount(p, count) == TRUE

SameCount(p, count) == fetch[p].count \in {-1, count}

Total(p) == FoldLeft(LAMBDA n, page : n + Len(page.records), 0, fetch[p].pages)

(* The checks that make a page invalid: limits, a changed count, a record  *)
(* read before, more records than declared, an empty page before the end.  *)
Valid(p, s, page, count) ==
    /\ Len(fetch[p].pages) < MaxPages
    /\ fetch[p].count = -1 => Total(p) + count <= MaxRecords
    /\ SameCount(p, count)
    /\ ToSet(page) \cap ToSet(fetch[p].part) = {}
    /\ Offset(p) + Len(page) <= count
    /\ Offset(p) + Len(page) < count => page # <<>>

ReadPage(p) ==
    /\ fetch[p].phase = "read"
    /\ LET s == Head(fetch[p].todo)
           page == PageAt(p, s)
           count == Len(inventory[s])
           part == fetch[p].part \o page
           pages == Append(fetch[p].pages, [of |-> s, records |-> page, count |-> count])
           seen == IF fetch[p].count = -1 THEN [NoWatch EXCEPT !.all = ToSet(inventory[s])]
                   ELSE watch[p]
           rest == Tail(fetch[p].todo)
       IN  /\ Valid(p, s, page, count)
           /\ IF Len(part) < count
              THEN /\ fetch' = [fetch EXCEPT ![p].count = count, ![p].part = part,
                                             ![p].pages = pages]
                   /\ watch' = [watch EXCEPT ![p] = seen]
              ELSE /\ fetch' = [fetch EXCEPT
                        ![p].phase = IF rest = <<>> THEN "look" ELSE "read",
                        ![p].todo = rest, ![p].count = -1, ![p].part = <<>>,
                        ![p].pages = pages,
                        ![p].history = Append(@, [got |-> ToSet(part), all |-> seen.all,
                                                  edits |-> seen.edits])]
                   /\ watch' = [watch EXCEPT ![p] = NoWatch]
    /\ UNCHANGED <<inventory, nextId, snapshots>>

Stop(p) ==
    /\ fetch' = [fetch EXCEPT ![p] = NotFetching]
    /\ watch' = [watch EXCEPT ![p] = NoWatch]

(* An invalid page, or NetBox does not answer.                             *)
FailFetch(p) ==
    /\ fetch[p].phase = "read"
    /\ Stop(p)
    /\ UNCHANGED <<inventory, nextId, snapshots>>

(* save_asset_source_snapshot: a snapshot with the same manifest is reused *)
(* and otherwise a row is added, which fails when another request has      *)
(* added the same manifest since.                                          *)
SameManifest(p) == {row \in snapshots : row.pages = fetch[p].pages}

Look(p) ==
    /\ fetch[p].phase = "look"
    /\ IF SameManifest(p) # {} THEN Stop(p)
       ELSE fetch' = [fetch EXCEPT ![p].phase = "insert"] /\ watch' = watch
    /\ UNCHANGED <<inventory, nextId, snapshots>>

Insert(p) ==
    /\ fetch[p].phase = "insert"
    /\ snapshots' = IF SameManifest(p) # {} THEN snapshots
                    ELSE snapshots \cup {[pages |-> fetch[p].pages,
                                           history |-> fetch[p].history]}
    /\ Stop(p)
    /\ UNCHANGED <<inventory, nextId>>

SourceNext ==
    \/ \E s \in Sources : AddRecord(s) \/ RemoveRecord(s)
    \/ \E p \in Requests : Begin(p) \/ ReadPage(p) \/ FailFetch(p) \/ Look(p) \/ Insert(p)

SourceSpec == SourceInit /\ [][SourceNext]_sourceVars

-----------------------------------------------------------------------------
(* Properties *)

(* A snapshot that calls itself complete holds every record that its       *)
(* endpoint listed all the time it was read, unless a record was removed   *)
(* and another one added meanwhile, which leaves the count as it was.      *)
MissesOnlyWhenBalanced ==
    \A row \in snapshots : \A h \in ToSet(row.history) :
        h.all \subseteq h.got \/ h.edits = {"add", "remove"}
=============================================================================
