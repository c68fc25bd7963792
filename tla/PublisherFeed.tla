--------------------------- MODULE PublisherFeed ---------------------------
(***************************************************************************)
(* The intelligence publisher and one customer of its v2 feed: imports and *)
(* review decisions write revisions, an append-only log of delivery changes*)
(* and the current projection; the feed serves full snapshots and deltas   *)
(* of them; the customer applies what it pulled to its own records.        *)
(*                                                                         *)
(* A transaction takes its change sequences when it writes and becomes     *)
(* visible when it commits.  Transactions on different records overlap;    *)
(* the locks on a record and its revisions keep those on one record apart, *)
(* except that a rejection reads its revision without a lock.              *)
(*                                                                         *)
(* One item per import, one page per read of the feed.  TLP markings are   *)
(* numbers, RED the greatest; epoch stands for the triple (feed epoch,     *)
(* entitlement epoch, reset generation) that a token is compared with.     *)
(***************************************************************************)
EXTENDS Naturals, Sequences, FiniteSetsExt

CONSTANTS
    Items,         \* what sources may send: see ItemType
    Operators,     \* concurrent import and review requests
    Entitlements,  \* what an administrator may entitle the customer to
    RED,           \* the marking that is never distributed
    PageSize,      \* records per feed page
    MaxTime,       \* bound: the clock
    MaxRevisions,  \* bound: revisions of one record
    MaxSeq,        \* bound: change sequences
    MaxEpoch,      \* bound: entitlement changes
    MaxFailures    \* bound: pulls that fail for reasons outside the feed

Records == {item.record : item \in Items}
Kinds == {item.kind : item \in Items}
Lifecycle == {"active", "revoked"}
ItemType(item) ==
    /\ DOMAIN item = {"record", "time", "tlp", "kind", "life"}
    /\ item.time \in 1..MaxTime /\ item.tlp \in 0..RED /\ item.life \in Lifecycle

ASSUME PublisherAssumption ==
    /\ \A item \in Items : ItemType(item)
    /\ \A e \in Entitlements : e.maxTlp \in 0..RED /\ e.kinds \subseteq Kinds
    /\ Entitlements # {}
    /\ PageSize \in Nat \ {0}
    /\ {RED, MaxTime, MaxRevisions, MaxSeq, MaxEpoch, MaxFailures} \subseteq Nat

VARIABLES
    revs,       \* record -> its revisions in the order they were stored
    log,        \* committed delivery changes
    projection, \* record -> sequence of its current projection, 0 for none
    tx,         \* operator -> its open transaction
    nextSeq,    \* the database's sequence for changes
    scope,      \* the installation: what it may read, and the epoch of that
    pull,       \* the delivery the customer is paging through
    token,      \* the customer's sync token
    mirror,     \* record -> what the customer holds of it
    now,        \* the clock
    failures,   \* failed pulls so far
    raced       \* history: records hit by one of the publisher's races

publisher == <<revs, log, projection, tx, nextSeq, raced>>
customer == <<pull, token, mirror, failures>>
vars == <<publisher, customer, scope, now>>

Status == {"staged", "published", "restricted", "superseded", "rejected"}
Change ==
    [seq : 1..MaxSeq, record : Records, rev : 1..MaxRevisions,
     canonical : BOOLEAN, tlp : 0..RED, kind : Kinds, life : Lifecycle]

NoTx == [op |-> "none"]
NoPull == [mode |-> "none"]
NoToken == [epoch |-> 0, through |-> 0]

Init ==
    /\ revs = [r \in Records |-> <<>>]
    /\ log = {}
    /\ projection = [r \in Records |-> 0]
    /\ tx = [o \in Operators |-> NoTx]
    /\ nextSeq = 1
    /\ \E e \in Entitlements : scope = [may |-> e, epoch |-> 1]
    /\ pull = NoPull
    /\ token = NoToken
    /\ mirror = [r \in Records |-> [seq |-> 0, at |-> 0]]
    /\ now = 1
    /\ failures = 0
    /\ raced = {}

-----------------------------------------------------------------------------
(* Revisions of one record: rs is a sequence of [src, status].             *)

(* The newest of a set of revisions by source time, then by number.        *)
Newest(rs, S) ==
    IF S = {} THEN 0
    ELSE CHOOSE i \in S : \A j \in S :
            \/ rs[j].src.time < rs[i].src.time
            \/ rs[j].src.time = rs[i].src.time /\ j <= i

Current(rs) == Newest(rs, {i \in DOMAIN rs : rs[i].status # "superseded"})

PreviousPublished(rs, i) ==
    Newest(rs, {j \in DOMAIN rs \ {i} : rs[j].status = "published"})

Mark(rs, i, status) == [rs EXCEPT ![i].status = status]

(* Mutant: releasing a revision leaves the one published before it.        *)
SupersedeStaged(rs, i) ==
    [j \in DOMAIN rs |->
        IF j # i /\ rs[j].status = "staged"
        THEN [rs[j] EXCEPT !.status = "superseded"] ELSE rs[j]]

SupersedeOthers(rs, i) ==
    [j \in DOMAIN rs |->
        IF j # i /\ rs[j].status \in {"published", "staged"}
        THEN [rs[j] EXCEPT !.status = "superseded"] ELSE rs[j]]

(* A draft is what a transaction has made of a record so far: its          *)
(* revisions, and the changes it will append, without their sequences.     *)
Draft(r) == [revs |-> revs[r], out |-> <<>>]

CanonicalChange(rs, i) ==
    [record |-> rs[i].src.record, rev |-> i, canonical |-> TRUE,
     tlp |-> rs[i].src.tlp, kind |-> rs[i].src.kind, life |-> rs[i].src.life]

(* A withdrawal goes to those who could read the previous revision.        *)
WithdrawalChange(rs, i, previous) ==
    [record |-> rs[i].src.record, rev |-> i, canonical |-> FALSE,
     tlp |-> rs[previous].src.tlp, kind |-> rs[previous].src.kind,
     life |-> "revoked"]

PublishRevision(d, i) ==
    LET previous == PreviousPublished(d.revs, i)
        raised == previous # 0 /\ d.revs[i].src.tlp > d.revs[previous].src.tlp
        withdrawal == IF raised THEN <<WithdrawalChange(d.revs, i, previous)>> ELSE <<>>
    IN  [revs |-> SupersedeOthers(Mark(d.revs, i, "published"), i),
         out |-> d.out \o withdrawal \o <<CanonicalChange(d.revs, i)>>]

(* Mutant: a restricted revision is stored and nothing is withdrawn.       *)
RestrictQuietly(d, i) == d

WithdrawForRestricted(d, i) ==
    LET previous == PreviousPublished(d.revs, i)
    IN  IF previous = 0 THEN d
        ELSE [revs |-> SupersedeOthers(d.revs, i),
              out |-> Append(d.out, WithdrawalChange(d.revs, i, previous))]

(* A source has reused a time with other content.                          *)
Conflicts(rs, item) ==
    LET c == Current(rs)
    IN  c # 0 /\ item.time = rs[c].src.time /\ item # rs[c].src

(* Storing one imported item.  An older one is kept but replaces nothing;  *)
(* a newer one takes the place of what was staged or restricted.           *)
StoreItem(d, item, publish) ==
    LET c == Current(d.revs)
        older == c # 0 /\ item.time < d.revs[c].src.time
        replaced == c # 0 /\ d.revs[c].status \in {"staged", "restricted"}
        base == IF ~older /\ replaced THEN Mark(d.revs, c, "superseded") ELSE d.revs
        status == IF older THEN "superseded"
                  ELSE IF item.tlp = RED THEN "restricted" ELSE "staged"
        i == Len(d.revs) + 1
        stored == [d EXCEPT !.revs = Append(base, [src |-> item, status |-> status])]
    IN  IF c # 0 /\ item.time = d.revs[c].src.time THEN d
        ELSE IF status = "restricted" THEN WithdrawForRestricted(stored, i)
        ELSE IF status = "staged" /\ publish THEN PublishRevision(stored, i)
        ELSE stored

(* Mutant: every item releases what is staged.                             *)
EveryItemReleases(d, item) ==
    /\ Current(d.revs) # 0
    /\ d.revs[Current(d.revs)].status = "staged"

(* A revoked or deleted item releases the record's current revision if it  *)
(* is staged: the emergency withdrawal.                                    *)
EmergencyReleases(d, item) ==
    /\ item.life # "active"
    /\ Current(d.revs) # 0
    /\ d.revs[Current(d.revs)].status = "staged"

EmergencyWithdraw(d, item) ==
    IF EmergencyReleases(d, item) THEN PublishRevision(d, Current(d.revs)) ELSE d

ImportItem(d, item, publish) ==
    EmergencyWithdraw(StoreItem(d, item, publish), item)

(* The projection shows a record's latest change unless it withdraws it.   *)
SyncedProjection(changes, r) ==
    LET own == {c \in changes : c.record = r}
        latest == CHOOSE c \in own : \A d \in own : d.seq <= c.seq
    IN  IF own # {} /\ latest.canonical THEN latest.seq ELSE 0

-----------------------------------------------------------------------------
(* Transactions on the publisher's database.                               *)

Idle(o) == tx[o] = NoTx
Writing == {o \in Operators : tx[o].op \in {"import", "publish"}}
Locked(r) == \E o \in Writing : tx[o].record = r

SeqOf(k) == nextSeq + k - 1

Sequenced(out) ==
    {[seq |-> SeqOf(k), record |-> out[k].record, rev |-> out[k].rev,
      canonical |-> out[k].canonical, tlp |-> out[k].tlp, kind |-> out[k].kind,
      life |-> out[k].life] : k \in DOMAIN out}

(* Operator o has written draft d of record r and holds its locks; decided *)
(* are the revisions a reviewer or the release policy decided to release.  *)
Begin(o, op, r, d, decided) ==
    /\ nextSeq + Len(d.out) <= MaxSeq + 1
    /\ tx' = [tx EXCEPT ![o] =
            [op |-> op, record |-> r, revs |-> d.revs, out |-> Sequenced(d.out),
             decided |-> decided]]
    /\ nextSeq' = nextSeq + Len(d.out)
    /\ UNCHANGED <<revs, log, projection, raced, customer, scope, now>>

(* One item arrives; publish is the server's automatic release policy.     *)
(* Imports hold one advisory lock.  A conflicting import fails and changes *)
(* nothing, and one may find nothing to change: no step.                   *)
Import(o, item, publish) ==
    LET r == item.record
        d == ImportItem(Draft(r), item, publish)
        i == Len(revs[r]) + 1
    IN  /\ Idle(o)
        /\ \A p \in Writing : tx[p].op # "import"
        /\ ~Locked(r)
        /\ item.time <= now
        /\ Len(revs[r]) < MaxRevisions
        /\ d # Draft(r)
        /\ ~Conflicts(revs[r], item)
        /\ Begin(o, "import", r, d,
                 IF publish THEN {i} ELSE {})

(* A reviewer publishes the current revision: only a staged one changes.   *)
PublishRecord(o, r) ==
    LET c == Current(revs[r])
    IN  /\ Idle(o)
        /\ ~Locked(r)
        /\ c # 0
        /\ revs[r][c].status = "staged"
        /\ Begin(o, "publish", r, PublishRevision(Draft(r), c), {c})

Commit(o) ==
    LET r == tx[o].record
        delivered == IF pull = NoPull THEN token.through
                     ELSE Max({token.through, pull.snap})
    IN  /\ o \in Writing
        /\ revs' = [revs EXCEPT ![r] = tx[o].revs]
        /\ log' = log \cup tx[o].out
        /\ projection' = [projection EXCEPT ![r] = SyncedProjection(log', r)]
        /\ raced' = IF \E c \in tx[o].out : c.seq <= delivered
                    THEN raced \cup {r} ELSE raced
        /\ tx' = [tx EXCEPT ![o] = NoTx]
        /\ UNCHANGED <<nextSeq, customer, scope, now>>

(* A deadlock victim, a failed request or a killed process; the sequences  *)
(* it took are gone.                                                       *)
Abort(o) ==
    /\ o \in Writing
    /\ tx' = [tx EXCEPT ![o] = NoTx]
    /\ UNCHANGED <<revs, log, projection, nextSeq, raced, customer, scope, now>>

(* A rejection reads the current revision without locking it ...           *)
RejectRead(o, r) ==
    LET c == Current(revs[r])
    IN  /\ Idle(o)
        /\ c # 0
        /\ revs[r][c].status = "staged"
        /\ tx' = [tx EXCEPT ![o] = [op |-> "reject", record |-> r, rev |-> c]]
        /\ UNCHANGED <<revs, log, projection, nextSeq, raced, customer, scope, now>>

(* ... and writes its status by primary key, whatever became of it.        *)
RejectWrite(o) ==
    LET r == tx[o].record
        i == tx[o].rev
    IN  /\ tx[o].op = "reject"
        /\ ~Locked(r)
        /\ revs' = [revs EXCEPT ![r] = Mark(@, i, "rejected")]
        /\ raced' = IF revs[r][i].status = "published" THEN raced \cup {r} ELSE raced
        /\ tx' = [tx EXCEPT ![o] = NoTx]
        /\ UNCHANGED <<log, projection, nextSeq, customer, scope, now>>

(* An administrator changes the entitlements: any change moves the epoch.  *)
UpdateClient(e) ==
    /\ scope.epoch <= MaxEpoch
    /\ e # scope.may
    /\ scope' = [may |-> e, epoch |-> scope.epoch + 1]
    /\ UNCHANGED <<publisher, customer, now>>

Tick ==
    /\ now < MaxTime
    /\ now' = now + 1
    /\ UNCHANGED <<publisher, customer, scope>>

-----------------------------------------------------------------------------
(* The v2 feed, read by the customer's pull.                               *)

MaxCommitted == Max({0} \cup {c.seq : c \in log})
Entitled(may, c) == c.tlp <= may.maxTlp /\ c.tlp # RED /\ c.kind \in may.kinds

(* The first request freezes the boundary and the mode of the delivery.    *)
BeginDelivery ==
    LET reset == token # NoToken /\ token.epoch # scope.epoch
        full == token = NoToken \/ reset
        from == IF full THEN 0 ELSE token.through
    IN  /\ pull = NoPull
        /\ pull' = [mode |-> IF full THEN "full" ELSE "delta", reset |-> reset,
                    scope |-> scope, snap |-> MaxCommitted, from |-> from,
                    after |-> from, cursor |-> FALSE, fetched |-> {}]
        /\ UNCHANGED <<publisher, token, mirror, failures, scope, now>>

(* What the rest of the delivery holds, as the database stands now: rows   *)
(* of the projection, or the latest change the customer may read of every  *)
(* record that changed since its token.                                    *)
SnapshotRows(p) ==
    {c \in log : projection[c.record] = c.seq /\ c.seq <= p.snap /\ Entitled(p.scope.may, c)}
(* Mutant: entitlement is tested on the latest change of a record only.    *)
DeltaRowsIfLatest(p) ==
    LET changed == {c \in log : c.seq > p.from /\ c.seq <= p.snap}
    IN  {c \in changed : /\ Entitled(p.scope.may, c)
                         /\ \A d \in changed : d.record = c.record => d.seq <= c.seq}

DeltaRows(p) ==
    LET readable == {c \in log :
            c.seq > p.from /\ c.seq <= p.snap /\ Entitled(p.scope.may, c)}
    IN  {c \in readable : \A d \in readable : d.record = c.record => d.seq <= c.seq}
Remaining(p) ==
    {c \in IF p.mode = "full" THEN SnapshotRows(p) ELSE DeltaRows(p) : c.seq > p.after}

(* A cursor is good for the epoch it was made in; the first page needs none. *)
CursorValid == ~pull.cursor \/ pull.scope.epoch = scope.epoch
FirstOf(rows) ==
    {c \in rows : Cardinality({d \in rows : d.seq < c.seq}) < PageSize}
Repeats(page) == \E c \in page, d \in pull.fetched : c.record = d.record

NextPage ==
    LET rows == Remaining(pull)
        page == FirstOf(rows)
    IN  /\ pull # NoPull
        /\ CursorValid
        /\ Cardinality(rows) > PageSize
        /\ ~Repeats(page)
        /\ pull' = [pull EXCEPT !.after = Max({c.seq : c \in page}),
                                !.cursor = TRUE, !.fetched = @ \cup page]
        /\ UNCHANGED <<publisher, token, mirror, failures, scope, now>>

(* The customer keeps what it has when an item is older than it; a reset   *)
(* buries, at the customer's own time, every record the snapshot lacks.    *)
TimeOf(c) == revs[c.record][c.rev].src.time
Applied(held, c) ==
    IF TimeOf(c) < held.at THEN held
    ELSE [seq |-> c.seq, at |-> TimeOf(c)]
Reconciled(held) ==
    IF held.at = 0 THEN held ELSE [seq |-> 0, at |-> now]

TokenOf(p) == [epoch |-> p.scope.epoch, through |-> p.snap]

(* The terminal page: everything fetched is applied and the token of the   *)
(* boundary is kept, in one transaction.                                   *)
CompleteDelivery ==
    LET rows == Remaining(pull)
        received == pull.fetched \cup rows
        Of(r) == {c \in received : c.record = r}
    IN  /\ pull # NoPull
        /\ CursorValid
        /\ Cardinality(rows) <= PageSize
        /\ ~Repeats(rows)
        /\ mirror' = [r \in Records |->
                IF Of(r) # {} THEN Applied(mirror[r], CHOOSE c \in Of(r) : TRUE)
                ELSE IF pull.reset THEN Reconciled(mirror[r]) ELSE mirror[r]]
        /\ token' = TokenOf(pull)
        /\ pull' = NoPull
        /\ UNCHANGED <<publisher, failures, scope, now>>

(* Mutant: a cursor of an old epoch is not an error the pull ends with.    *)
RefusedOnRepeat == Repeats(FirstOf(Remaining(pull)))
Refused == ~CursorValid \/ Repeats(FirstOf(Remaining(pull)))

(* A rejected cursor or a repeated identity fails the pull; so may the     *)
(* network.  Nothing of the pull is kept.                                  *)
FailDelivery ==
    /\ pull # NoPull
    /\ Refused \/ failures < MaxFailures
    /\ pull' = NoPull
    /\ failures' = IF Refused THEN failures ELSE failures + 1
    /\ UNCHANGED <<publisher, token, mirror, scope, now>>

-----------------------------------------------------------------------------
Next ==
    \/ \E o \in Operators :
        \/ \E item \in Items, publish \in BOOLEAN : Import(o, item, publish)
        \/ \E r \in Records : PublishRecord(o, r) \/ RejectRead(o, r)
        \/ Commit(o) \/ Abort(o) \/ RejectWrite(o)
    \/ \E e \in Entitlements : UpdateClient(e)
    \/ Tick
    \/ BeginDelivery \/ NextPage \/ CompleteDelivery \/ FailDelivery

Spec == Init /\ [][Next]_vars

(* A pull that is due is started and its pages are read (the scheduler     *)
(* retries for ever); a transaction that has written ends.                 *)
Fairness ==
    /\ WF_vars(BeginDelivery) /\ WF_vars(NextPage)
    /\ WF_vars(CompleteDelivery) /\ WF_vars(FailDelivery)
    /\ \A o \in Operators : WF_vars(Commit(o) \/ Abort(o) \/ RejectWrite(o))
FairSpec == Spec /\ Fairness

-----------------------------------------------------------------------------
(* Properties.                                                             *)

ChangeAt(s) == CHOOSE c \in log : c.seq = s
Serves(r) == mirror[r].seq # 0 /\ ChangeAt(mirror[r].seq).life = "active"
Shown(r) ==
    projection[r] # 0 /\ Entitled(scope.may, ChangeAt(projection[r]))
PublishedRevisions(r) == {i \in DOMAIN revs[r] : revs[r][i].status = "published"}

(* Types: every variable keeps the shape the database schema and the token *)
(* formats give it, and an open transaction holds sequences of its own.    *)
TypeOK ==
    /\ \A r \in Records : \A i \in DOMAIN revs[r] :
            revs[r][i].src \in Items /\ revs[r][i].status \in Status
    /\ log \subseteq Change
    /\ projection \in [Records -> 0..MaxSeq]
    /\ \A o \in Writing : tx[o].out \subseteq Change /\ tx[o].out \cap log = {}
    /\ nextSeq \in 1..(MaxSeq + 1)
    /\ scope.may \in Entitlements /\ scope.epoch \in 1..(MaxEpoch + 1)
    /\ token \in [epoch : 0..(MaxEpoch + 1), through : 0..MaxSeq]
    /\ mirror \in [Records -> [seq : 0..MaxSeq, at : 0..MaxTime]]
    /\ raced \subseteq Records

(* The projection a full snapshot is read from and the revision states     *)
(* reviewers see are kept by different functions; they must name the same  *)
(* revision of every record, and never two.                                *)
PublishedIsProjected ==
    \A r \in Records \ raced :
        PublishedRevisions(r) =
            IF projection[r] = 0 THEN {} ELSE {ChangeAt(projection[r]).rev}

(* When the newest revision of a record is TLP:RED, nothing of the record  *)
(* is distributed any more, whatever was staged or published in between.   *)
RestrictionWithdraws ==
    \A r \in Records \ raced :
        LET c == Current(revs[r])
        IN  c # 0 /\ revs[r][c].status = "restricted" => projection[r] = 0

(* A customer whose token stands at the head of the log under the present  *)
(* entitlements needs nothing more.                                        *)
InSync ==
    /\ pull = NoPull
    /\ token.epoch = scope.epoch
    /\ token.through = MaxCommitted

Agrees(r) ==
    IF Shown(r) THEN mirror[r].seq = projection[r] ELSE ~Serves(r)

(* Known causes of disagreement: a publisher race, a record whose source   *)
(* kind changed, and a tombstone newer than what the publisher shows.      *)
Reclassified(r) ==
    \E i, j \in DOMAIN revs[r] : revs[r][i].src.kind # revs[r][j].src.kind
Buried(r) ==
    /\ mirror[r].seq = 0
    /\ Shown(r)
    /\ mirror[r].at > TimeOf(ChangeAt(projection[r]))
Excused(r) == r \in raced \/ Reclassified(r) \/ Buried(r)

(* A customer in sync holds exactly what the publisher shows it, whatever  *)
(* imports, releases, withdrawals, entitlement changes and failed pulls    *)
(* came between its pages, but for the three causes above.                 *)
Converged == InSync => \A r \in Records : Agrees(r) \/ Excused(r)

(* Pulls catch up again and again: no token, cursor or page is ever one    *)
(* the feed and the customer cannot get past.                              *)
CatchesUp == []<>InSync

(* doc: docs/publisher-v2-delivery.md "Later requests receive only changes *)
(* through a frozen sequence boundary": once the customer has a boundary   *)
(* no change appears at or below it.                                       *)
BoundaryIsFrozen == [][\A c \in log' \ log : c.seq > token.through]_vars

(* An active revision is released by a reviewer or by the automatic        *)
(* policy, or else by the arrival of a revocation of the record: that one  *)
(* exception may release a newer active revision nobody reviewed, because  *)
(* the emergency branch looks at the current revision and not at the item. *)
ReleasedByDecision ==
    \A o \in Writing : \A i \in DOMAIN tx[o].revs :
        LET was == revs[tx[o].record]
            is == tx[o].revs
        IN  /\ is[i].status = "published" /\ is[i].src.life = "active"
            /\ ~(i \in DOMAIN was /\ was[i].status = "published")
            => \/ i \in tx[o].decided
               \/ Len(is) > Len(was) /\ is[Len(is)].src.life # "active"
=============================================================================
