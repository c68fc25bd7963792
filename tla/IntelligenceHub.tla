-------------------------- MODULE IntelligenceHub --------------------------
(***************************************************************************)
(* The intelligence hub of one tenant: feeds deliver records, an analyst   *)
(* reviews each, and correlation turns the approved and active ones that   *)
(* match the inventory of a system into threats with a risk.               *)
(*                                                                         *)
(* Imports of a tenant are serialised by the lock of its organization, and *)
(* a review holds the lock of the record; but an import reads the records  *)
(* long before it writes them, without their locks, and a correlation      *)
(* takes no lock at all: it reads the records and the threats, then each   *)
(* risk, and writes at the end.  The session writes only the columns whose *)
(* value it changed.  Four things keep the effects in step: whoever        *)
(* withdraws a record retires its effects in the same transaction, queues  *)
(* a correlation, every listing first retires what is not processable, and *)
(* a job is due at each end of a record's validity.                        *)
(*                                                                         *)
(* The record's fields are reduced to the number of the content they came  *)
(* with; the queue of correlation jobs to whether one is waiting, since    *)
(* every waiting job does the same work on what it finds when it starts    *)
(* (module BackgroundJobs has the queue).                                  *)
(***************************************************************************)
EXTENDS Integers

CONSTANTS
    Records,
    Correlators,    \* job workers and requests that correlate the system
    MaxContents,    \* bound on deliveries that change a record
    MaxScans,       \* bound on inventory generations
    MaxTime         \* bound on the clock

ASSUME BoundsAssumption == MaxContents \in Nat /\ MaxScans \in Nat /\ MaxTime \in Nat

VARIABLES
    now,
    record,     \* the current revision of each record
    approved,   \* the contents an analyst approved, for each record
    planned,    \* the last review queued the jobs for the record's validity
    raced,      \* a review fell between an import's reading and its writing
    contents,   \* number of contents delivered so far
    scan,       \* the current inventory generation of the system
    matching,   \* records whose observables are in that inventory
    threat,     \* materialised effect of each record: threat and risk
    queued,     \* a correlation job of the system waits
    due,        \* times at which a boundary job becomes available
    import,     \* the open import transaction
    session,    \* the open transaction of each correlator
    crossed     \* the last correlation read before another one wrote

vars == <<now, record, approved, planned, raced, contents, scan, matching, threat,
          queued, due, import, session, crossed>>

Forever == MaxTime + 2
Times == 0..(MaxTime + 1)       \* sources may be one unit ahead of the clock

(* modified is the source's time of the revision, until the end of its     *)
(* validity; indexed says that its observables can be looked up.           *)
Record == [modified: Times, content: 0..MaxContents, status: {"pending", "approved", "rejected"},
           until: Times \cup {Forever}, revoked: BOOLEAN, red: BOOLEAN, indexed: BOOLEAN]
NoRecord == [modified |-> 0, content |-> 0, status |-> "pending", until |-> Forever,
             revoked |-> FALSE, red |-> FALSE, indexed |-> FALSE]
Known(r) == record[r].content # 0

(* origin is the provenance the threat carries: the content and inventory  *)
(* generation it was matched with, and whether its source was withdrawn.   *)
NoOrigin == [content |-> 0, scan |-> 0, withdrawn |-> FALSE]
NoThreat == [modified |-> 0, matched |-> FALSE, origin |-> NoOrigin, risk |-> "none"]
Materialised(t) == t.origin.content # 0

NoImport == [open |-> FALSE]
NoSession == [step |-> "idle", stale |-> FALSE]

Init ==
    /\ now = 0
    /\ record = [r \in Records |-> NoRecord]
    /\ approved = [r \in Records |-> {}]
    /\ planned = [r \in Records |-> FALSE]
    /\ raced = [r \in Records |-> FALSE]
    /\ contents = 0
    /\ scan = 0
    /\ matching = {}
    /\ threat = [r \in Records |-> NoThreat]
    /\ queued = FALSE
    /\ due = {}
    /\ import = NoImport
    /\ session = [c \in Correlators |-> NoSession]
    /\ crossed = FALSE

-----------------------------------------------------------------------------
(* Effects *)

Active(rec) == ~rec.revoked /\ rec.until > now
Processable(rec) == rec.status = "approved" /\ Active(rec)

(* Mutant: what is flagged as withdrawn is taken for unmatched.            *)
AlreadyFlagged(t) == t.origin.withdrawn
AlreadyWithdrawn(t) == ~t.matched /\ t.origin.withdrawn

(* retire_record_effects for one record.                                   *)
Retired(t) ==
    IF ~Materialised(t) \/ AlreadyWithdrawn(t) THEN t
    ELSE [t EXCEPT !.matched = FALSE, !.origin = [@ EXCEPT !.withdrawn = TRUE],
                   !.risk = IF @ = "none" THEN "none" ELSE "closed"]

(* A correlation job for the system, if it has an inventory.               *)
Enqueue == queued' = (queued \/ scan > 0)

-----------------------------------------------------------------------------
(* Feeds *)

(* A revision stamped too far ahead of the clock is quarantined, and one   *)
(* older than the stored record is superseded: both are only history.      *)
InQuarantine(modified) == modified > now + 1
Superseded(r, modified) == Known(r) /\ record[r].modified > modified

(* import_feed reads the record of the delivered identity.                 *)
ReadRecord(r, modified, until, kind) ==
    /\ ~import.open
    /\ contents < MaxContents
    /\ ~InQuarantine(modified)
    /\ IF kind = "absent" THEN Known(r) /\ modified >= now ELSE ~Superseded(r, modified)
    /\ kind = "restricted" => Known(r)
    /\ until = Forever \/ kind = "revised"
    /\ import' = [open |-> TRUE, r |-> r, modified |-> modified, until |-> until,
                  kind |-> kind, read |-> record[r].status]
    /\ UNCHANGED <<now, record, approved, planned, raced, contents, scan, matching, threat, queued,
                   due, session, crossed>>

(* Mutant: an update keeps the review of the record it replaces.           *)
DeliveredReviewed(i) ==
    [modified |-> i.modified, content |-> contents + 1, status |-> i.read,
     until |-> i.until, revoked |-> i.kind # "revised", red |-> i.kind = "restricted",
     indexed |-> i.kind # "absent"]

(* A record absent from a full snapshot becomes a tombstone without        *)
(* observables.                                                            *)
Tombstone(modified) ==
    [modified |-> modified, content |-> contents + 1, status |-> "pending",
     until |-> modified, revoked |-> TRUE, red |-> FALSE, indexed |-> FALSE]

(* The columns an update assigns.  A restricted (TLP:RED) revision leaves  *)
(* the content and hides the record.                                       *)
Delivered(i) ==
    CASE i.kind = "restricted" ->
            [record[i.r] EXCEPT !.modified = i.modified, !.status = "pending",
                                !.revoked = TRUE, !.red = TRUE]
      [] i.kind = "absent" -> Tombstone(i.modified)
      [] i.kind \in {"revised", "revoked"} ->
            [modified |-> i.modified, content |-> contents + 1, status |-> "pending",
             until |-> i.until, revoked |-> i.kind = "revoked", red |-> FALSE,
             indexed |-> TRUE]

(* Only changed columns are written: a status that was pending when it was *)
(* read is not written again.                                              *)
Stored(read, new, current) ==
    [new EXCEPT !.status = IF read = new.status THEN current.status ELSE @]

WriteRecord ==
    /\ import.open
    /\ import' = NoImport
    /\ LET r == import.r
       IN  /\ record' = [record EXCEPT ![r] = Stored(import.read, Delivered(import), @)]
           /\ contents' = contents + 1
           /\ IF Known(r)
              THEN /\ threat' = [threat EXCEPT ![r] = Retired(@)]
                   /\ Enqueue
              ELSE UNCHANGED <<threat, queued>>
    /\ UNCHANGED <<now, approved, planned, raced, scan, matching, due, session, crossed>>

(* review_intelligence_record, under the lock of the record.  An open      *)
(* import of the record has not written it yet.                            *)
Review(r, verdict) ==
    /\ Known(r)
    /\ ~record[r].red
    /\ record' = [record EXCEPT ![r] = [@ EXCEPT !.status = verdict]]
    /\ approved' = [approved EXCEPT ![r] =
            IF verdict = "approved" THEN @ \cup {record[r].content} ELSE @]
    /\ planned' = [planned EXCEPT ![r] = scan > 0]
    /\ raced' = [raced EXCEPT ![r] = @ \/ (import.open /\ import.r = r)]
    /\ threat' = IF Processable(record'[r]) THEN threat
                 ELSE [threat EXCEPT ![r] = Retired(@)]
    /\ Enqueue
    /\ due' = IF verdict = "approved" /\ record[r].until \in (now + 1)..MaxTime /\ scan > 0
              THEN due \cup {record[r].until} ELSE due
    /\ UNCHANGED <<now, contents, scan, matching, import, session, crossed>>

-----------------------------------------------------------------------------
(* Correlation *)

(* recorrelate_threats_for_inventory: a completed scan moves every threat  *)
(* to the new generation.                                                  *)
Moved(t, rec, hit, n) ==
    IF ~Materialised(t) THEN t
    ELSE LET linked == Processable(rec) /\ hit
         IN  [t EXCEPT !.matched = linked, !.origin = [@ EXCEPT !.scan = n],
                       !.risk = IF @ = "none" THEN "none" ELSE IF linked THEN "open" ELSE "closed"]
IngestInventory(S) ==
    /\ scan < MaxScans
    /\ scan' = scan + 1
    /\ matching' = S
    /\ threat' = [r \in Records |-> Moved(threat[r], record[r], r \in S, scan + 1)]
    /\ queued' = TRUE
    /\ UNCHANGED <<now, record, approved, planned, raced, contents, due, import, session, crossed>>

(* Records a correlation looks at: by the index, or by a threat they left.  *)
(* Mutant: only the index is asked for candidates.                         *)
ConsideredIndexed(r) == record[r].indexed /\ r \in matching
Considered(r) == (record[r].indexed /\ r \in matching) \/ Materialised(threat[r])

(* The effect of record r that a correlation assigns from what it read.    *)
Assigned(r) ==
    LET rec == record[r]
        old == threat[r]
        hit == Processable(rec) /\ r \in matching /\ rec.indexed
    IN  IF \/ ~Considered(r)
           \/ Materialised(old) /\ old.modified > rec.modified
           \/ ~Materialised(old) /\ ~hit
        THEN [old EXCEPT !.risk = "kept"]
        ELSE [modified |-> rec.modified, matched |-> hit,
              origin |-> [content |-> rec.content, scan |-> scan, withdrawn |-> FALSE],
              risk |-> IF hit THEN "open" ELSE "closed"]

(* correlate reads the inventory, the records and the threats; a job takes *)
(* the place of the one that waited, a request does not.                   *)
Correlate(c, job) ==
    /\ session[c].step = "idle"
    /\ scan > 0
    /\ job => queued
    /\ queued' = (queued /\ ~job)
    /\ session' = [session EXCEPT ![c] =
            [step |-> "read", stale |-> FALSE, job |-> job, old |-> threat,
             new |-> [r \in Records |-> Assigned(r)]]]
    /\ UNCHANGED <<now, record, approved, planned, raced, contents, scan, matching,
                   threat, due, import, crossed>>

(* Then it reads the risk of each threat; one without a risk only gets one *)
(* when it matches.                                                        *)
ReadRisks(c) ==
    /\ session[c].step = "read"
    /\ LET s == session[c]
           risk == [r \in Records |-> IF Materialised(s.old[r]) THEN threat[r].risk ELSE "none"]
           assigned(r) ==
               IF s.new[r].risk = "kept" \/ (s.new[r].risk = "closed" /\ risk[r] = "none")
               THEN risk[r] ELSE s.new[r].risk
       IN  session' = [session EXCEPT ![c] =
             [s EXCEPT !.step = "assessed",
                !.old = [r \in Records |-> [s.old[r] EXCEPT !.risk = risk[r]]],
                !.new = [r \in Records |-> [s.new[r] EXCEPT !.risk = assigned(r)]]]]
    /\ UNCHANGED <<now, record, approved, planned, raced, contents, scan, matching,
                   threat, queued, due, import, crossed>>

Written(old, new, current) ==
    [f \in DOMAIN new |-> IF old[f] = new[f] THEN current[f] ELSE new[f]]

(* Two sessions that create the same threat violate its unique key: the    *)
(* later one is rolled back, and a job is tried again.                     *)
Collides(s) ==
    \E r \in Records : /\ ~Materialised(s.old[r]) /\ Materialised(s.new[r])
                       /\ Materialised(threat[r])
Commit(c) ==
    /\ session[c].step = "assessed"
    /\ LET s == session[c]
       IN  IF Collides(s)
           THEN /\ queued' = (queued \/ s.job)
                /\ UNCHANGED <<threat, crossed>>
           ELSE /\ threat' = [r \in Records |-> Written(s.old[r], s.new[r], threat[r])]
                /\ crossed' = s.stale
                /\ UNCHANGED queued
    /\ session' = [d \in Correlators |->
            IF d = c THEN NoSession
            ELSE [session[d] EXCEPT !.stale = session[d].step # "idle"]]
    /\ UNCHANGED <<now, record, approved, planned, raced, contents, scan, matching, due, import>>

-----------------------------------------------------------------------------
(* Listings and time *)

(* A listing retires what is not processable, then shows the threats of    *)
(* the current inventory.                                                  *)
Reconciled ==
    [r \in Records |-> IF Known(r) /\ ~Processable(record[r]) THEN Retired(threat[r])
                       ELSE threat[r]]
List ==
    /\ threat' = Reconciled
    /\ UNCHANGED <<now, record, approved, planned, raced, contents, scan, matching,
                   queued, due, import, session, crossed>>
Listed == {r \in Records : Reconciled[r].matched /\ Reconciled[r].origin.scan = scan}

Tick ==
    /\ now < MaxTime
    /\ now' = now + 1
    /\ queued' = (queued \/ (now + 1 \in due /\ scan > 0))
    /\ due' = due \ {now + 1}
    /\ UNCHANGED <<record, approved, planned, raced, contents, scan, matching, threat,
                   import, session, crossed>>

Next ==
    \/ \E r \in Records, modified \in Times, until \in {now + 1, Forever},
          kind \in {"revised", "revoked", "restricted", "absent"} :
            ReadRecord(r, modified, until, kind)
    \/ WriteRecord
    \/ \E r \in Records, verdict \in {"approved", "rejected"} : Review(r, verdict)
    \/ \E S \in SUBSET Records : IngestInventory(S)
    \/ \E c \in Correlators, job \in BOOLEAN : Correlate(c, job)
    \/ \E c \in Correlators : ReadRisks(c) \/ Commit(c)
    \/ List
    \/ Tick

Spec == Init /\ [][Next]_vars

-----------------------------------------------------------------------------
(* Properties *)

TypeOK ==
    /\ now \in 0..MaxTime
    /\ record \in [Records -> Record]
    /\ approved \in [Records -> SUBSET (1..MaxContents)]
    /\ planned \in [Records -> BOOLEAN] /\ raced \in [Records -> BOOLEAN]
    /\ contents \in 0..MaxContents
    /\ scan \in 0..MaxScans
    /\ matching \subseteq Records
    /\ \A r \in Records : threat[r].risk \in {"none", "open", "closed"}
    /\ due \subseteq 1..MaxTime

(* A listing never shows the effect of a record that is rejected, pending, *)
(* revoked or expired at that time, whatever correlations are under way.   *)
ListingFailsClosed == \A r \in Listed : Processable(record[r])

(* docs/external-intelligence-connector.md:205: a pull "does not correlate  *)
(* unapproved source data".  What is matched was approved as it is.         *)
ApprovedAsItIs(r) == threat[r].matched => threat[r].origin.content \in approved[r]
OnlyApprovedContent == \A r \in Records : ApprovedAsItIs(r)

(* It holds of the content the record has now, unless a review fell        *)
(* between an import's reading of the record and its writing, or two       *)
(* overlapping correlations mixed their columns.                           *)
(* What carries an older content may be matched without its approval: a    *)
(* correlation takes over a revision that is pending, unmatched, and the   *)
(* next completed scan asks for the approval of the record, not of what    *)
(* the effect carries.                                                     *)
Carried(r) == threat[r].origin.content = record[r].content
ReviewGatesContent ==
    \A r \in Records :
        \/ Carried(r) => ApprovedAsItIs(r)
        \/ raced[r] \/ crossed
        \/ threat[r].modified > record[r].modified

(* When no job waits and no transaction is open, the effect of a record is *)
(* what its review, validity and the inventory ask for: whatever changed   *)
(* queued a correlation that read the change.  Two correlations that       *)
(* overlap, and a validity whose jobs were not queued because the system   *)
(* had no inventory yet or the review was of another content, are excepted; *)
(* so is a tombstone stamped with a clock behind the source's.             *)
Demanded(r) == Processable(record[r]) /\ record[r].indexed /\ r \in matching
Expired(r) == record[r].until <= now
Drained == ~queued /\ ~import.open /\ \A c \in Correlators : session[c].step = "idle"
DrainedMatches ==
    Drained /\ scan > 0 /\ ~crossed =>
        \A r \in Records :
            \/ /\ Demanded(r) <=> threat[r].matched /\ threat[r].risk = "open"
                                    /\ threat[r].origin.scan = scan
               /\ Demanded(r) => Carried(r)
            \/ Expired(r) /\ (~planned[r] \/ raced[r])
            \/ threat[r].modified > record[r].modified

=============================================================================
