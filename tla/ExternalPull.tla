---------------------------- MODULE ExternalPull ----------------------------
(***************************************************************************)
(* The pull of an external intelligence feed by one tenant connector:      *)
(* runs with leases, page by page provenance, the checkpoint a later call  *)
(* resumes from, the final import, and the scheduler whose claim lease     *)
(* surrounds a pull.  API calls and scheduler processes are both pullers.  *)
(*                                                                         *)
(* A run's random token is written with its row and cleared when the row   *)
(* ends, so the row's name and status say what the token says.  Snapshots  *)
(* are named after their first run.  A row nobody can refer to any more is *)
(* forgotten and its name used again, which keeps the model finite without *)
(* a bound on the number of runs.  Renewing a valid lease changes nothing; *)
(* a lease or claim expires by a step of the clock.                        *)
(***************************************************************************)
EXTENDS Naturals

CONSTANTS
    Pullers,          \* API requests and scheduler processes
    Runs,             \* names of external_intelligence_sync_runs rows
    Records,          \* identities of records
    MaxPages,         \* external_intelligence_max_pages
    PublisherForgets, \* whether cursors and sync tokens may expire
    MaxFaults,        \* bound: crashes, upstream failures, late heartbeats
    MaxEdits,         \* bound: changes of the connector
    NoRun, Nobody     \* NULL

ASSUME BoundsAssumption ==
    /\ MaxPages \in Nat \ {0}
    /\ MaxFaults \in Nat
    /\ MaxEdits \in Nat
    /\ PublisherForgets \in BOOLEAN
    /\ NoRun \notin Runs
    /\ Nobody \notin Pullers

VARIABLES
    connector,    \* the tenant's connector row
    run,          \* run rows with the pages they recorded
    strays,       \* identities that failed runs of the open snapshot recorded
    checkpoint,   \* the checkpoint row
    subscription, \* the stored sync token
    hub,          \* records the intelligence hub holds from this feed
    puller,       \* what each puller is doing
    faults,       \* faults so far
    edits         \* connector changes so far

vars == <<connector, run, strays, checkpoint, subscription, hub, puller, faults, edits>>

(* next_sync_at is NULL, ahead or reached.  While a claim stands it equals *)
(* the claim's expiry, so a claim is valid exactly while next is "later".  *)
Connector ==
    [enabled : BOOLEAN, scheduled : BOOLEAN, version : 1..(MaxEdits + 1),
     next : {"none", "later", "due"}, claim : Pullers \cup {Nobody}]

PageRow == [number : 1..MaxPages, items : SUBSET Records]

RunRow ==
    [status : {"absent", "running", "partial", "completed", "failed"},
     lease : {"none", "valid", "expired"}, version : 0..(MaxEdits + 1),
     snapshot : Runs \cup {NoRun}, pages : SUBSET PageRow]

NoRow ==
    [status |-> "absent", lease |-> "none", version |-> 0,
     snapshot |-> NoRun, pages |-> {}]

(* reset and honoured belong to the opaque cursor: what the publisher      *)
(* wrote into it and whether it still accepts it.                          *)
Checkpoint ==
    [run : Runs \cup {NoRun}, version : 0..(MaxEdits + 1),
     snapshot : Runs \cup {NoRun}, pages : 0..MaxPages,
     records : SUBSET Records, reset : BOOLEAN, honoured : BOOLEAN]

NoCheckpoint ==
    [run |-> NoRun, version |-> 0, snapshot |-> NoRun, pages |-> 0,
     records |-> {}, reset |-> FALSE, honoured |-> TRUE]

(* at counts the pages of the snapshot so far, left those this call may    *)
(* still fetch; more and reset are flags of the pages fetched.             *)
PullerState ==
    [pc : {"idle", "claimed", "started", "fetching", "fetched", "importing",
           "failing", "complete", "partial", "retry"},
     sched : BOOLEAN, run : Runs \cup {NoRun}, at : 0..MaxPages,
     left : 0..MaxPages, more : BOOLEAN, reset : BOOLEAN]

(* A puller without a run.                                                 *)
Resting(pc, sched) ==
    [pc |-> pc, sched |-> sched, run |-> NoRun, at |-> 0, left |-> 0,
     more |-> FALSE, reset |-> FALSE]

IdlePuller == Resting("idle", FALSE)

Init ==
    /\ \E scheduled \in BOOLEAN :
          connector = [enabled |-> TRUE, scheduled |-> scheduled, version |-> 1,
                       next |-> IF scheduled THEN "later" ELSE "none",
                       claim |-> Nobody]
    /\ run = [i \in Runs |-> NoRow]
    /\ strays = {}
    /\ checkpoint = NoCheckpoint
    /\ subscription = "none"
    /\ hub = {}
    /\ puller = [p \in Pullers |-> IdlePuller]
    /\ faults = 0
    /\ edits = 0

-----------------------------------------------------------------------------
(* What rows say.                                                          *)

Running == {i \in Runs : run[i].status = "running"}

Accepted(snapshot) ==
    {i \in Runs : /\ run[i].status = "partial"
                  /\ run[i].snapshot = snapshot
                  /\ run[i].version = connector.version}

PagesOf(rows) == UNION {run[i].pages : i \in rows}
IdentitiesOf(rows) == UNION {page.items : page \in PagesOf(rows)}

Resumable == checkpoint.run # NoRun

(* The checkpoint belongs to the current configuration, and the pages of   *)
(* accepted runs are numbered 1, 2, ... once each, repeat no identity and  *)
(* contain exactly the identities counted.                                 *)
ProvenanceHolds ==
    LET accepted == Accepted(checkpoint.snapshot)
        Recorded(n) == {i \in accepted : \E page \in run[i].pages : page.number = n}
    IN  /\ checkpoint.version = connector.version
        /\ checkpoint.run \in accepted
        /\ \A n \in 1..MaxPages :
              IF n <= checkpoint.pages THEN \E i \in accepted : Recorded(n) = {i}
              ELSE Recorded(n) = {}
        /\ \A one, two \in PagesOf(accepted) :
              one.number # two.number => one.items \cap two.items = {}
        /\ checkpoint.records = IdentitiesOf(accepted)

(* Mutant: only the connector is checked.                                  *)
OwnsWhileEnabled(p) == connector.enabled

(* The condition of every conditional update of a run by its owner.        *)
Owns(p) ==
    LET row == run[puller[p].run] IN
    /\ row.status = "running"
    /\ row.lease = "valid"
    /\ row.version = connector.version
    /\ connector.enabled

ClaimHeld(p) == connector.claim = p /\ connector.next = "later"

(* The scheduler's ownership heartbeat; an API call has none.              *)
Beats(p) == puller[p].sched => ClaimHeld(p)

Goto(p, pc) == puller' = [puller EXCEPT ![p] = [puller[p] EXCEPT !.pc = pc]]

(* A call ends: the scheduler still has to reschedule.                     *)
Ends(p, outcome) ==
    puller' = [puller EXCEPT ![p] =
        IF puller[p].sched THEN Resting(outcome, TRUE) ELSE IdlePuller]

Fault == faults < MaxFaults /\ faults' = faults + 1

Ended(row, status, pages) ==
    [row EXCEPT !.status = status, !.lease = "none", !.pages = pages]

Reclaimed(row) == Ended(row, "failed", {})

(* Identities of a failing run stay recorded under the open snapshot.      *)
StraysWith(i) == IF Resumable THEN strays \cup IdentitiesOf({i}) ELSE {}

-----------------------------------------------------------------------------
(* Starting a run.                                                         *)

CanStart ==
    /\ connector.enabled
    /\ \A i \in Running : run[i].lease = "expired"
    /\ Resumable => ProvenanceHolds /\ checkpoint.pages < MaxPages

(* Rows of earlier snapshots that nobody works on.                         *)
Forgettable(i) ==
    /\ run[i].status \in {"partial", "completed", "failed"}
    /\ \A p \in Pullers : puller[p].run # i
    /\ ~ (Resumable /\ i \in Accepted(checkpoint.snapshot))

Fresh(i) ==
    /\ run[i].status = "absent" \/ Forgettable(i)
    /\ \A j \in Runs \ {i} :
          run[j].snapshot = i => Resumable \/ run[j].status = "absent" \/ Forgettable(j)

(* Names do not matter: the new row takes any free one.                    *)
NewRow == CHOOSE i \in Runs : Fresh(i)

(* One transaction under the connector's row lock: a run whose lease has   *)
(* expired is failed, the checkpoint validated, the new run inserted.      *)
StartRun(p, i, budget) ==
    LET snapshot == IF Resumable THEN checkpoint.snapshot ELSE i
        at == checkpoint.pages
    IN  /\ CanStart
        /\ i \in Runs
        /\ Fresh(i)
        /\ run' = [j \in Runs |->
              IF j = i
              THEN [status |-> "running", lease |-> "valid",
                    version |-> connector.version, snapshot |-> snapshot, pages |-> {}]
              ELSE IF j \in Running THEN Reclaimed(run[j])
              ELSE IF Forgettable(j) THEN NoRow
              ELSE run[j]]
        /\ strays' = IF Resumable THEN strays \cup IdentitiesOf(Running) ELSE {}
        /\ puller' = [puller EXCEPT ![p] =
              [pc    |-> IF puller[p].sched THEN "started" ELSE "fetching",
               sched |-> puller[p].sched,
               run   |-> i,
               at    |-> at,
               left  |-> IF budget <= MaxPages - at THEN budget ELSE MaxPages - at,
               more  |-> TRUE,
               reset |-> checkpoint.reset]]
        /\ UNCHANGED <<connector, checkpoint, subscription, hub, faults, edits>>

(* POST /intelligence/sync/external, with a page budget of its own.        *)
StartManual(p) ==
    /\ puller[p].pc = "idle"
    /\ \E budget \in 1..MaxPages : StartRun(p, NewRow, budget)

StartScheduled(p) ==
    /\ puller[p].pc = "claimed"
    /\ ClaimHeld(p)
    /\ StartRun(p, NewRow, MaxPages)

(* The claim is gone, or the pull is refused: another run, a disabled      *)
(* connector or an unusable checkpoint.  A reclaim is rolled back.         *)
StartRefused(p) ==
    /\ puller[p].pc = "claimed"
    /\ ~ (ClaimHeld(p) /\ CanStart)
    /\ Ends(p, "retry")
    /\ UNCHANGED <<connector, run, strays, checkpoint, subscription, hub, faults, edits>>

(* The first heartbeat of the claim, after the run is committed.           *)
FirstBeat(p) ==
    /\ puller[p].pc = "started"
    /\ Goto(p, IF Beats(p) THEN "fetching" ELSE "failing")
    /\ UNCHANGED <<connector, run, strays, checkpoint, subscription, hub, faults, edits>>

-----------------------------------------------------------------------------
(* Pages.                                                                  *)

FirstPage(p) == run[puller[p].run].pages = {}

(* The publisher serves a cursor or sync token it has not forgotten.       *)
Served(p) ==
    FirstPage(p) => IF Resumable THEN checkpoint.honoured ELSE subscription # "expired"

(* Only a customer with a sync token is told to reset; pages that follow,  *)
(* in this call or a later one, repeat the flag.                           *)
ResetFlags(p) ==
    IF FirstPage(p) /\ ~ Resumable
    THEN IF subscription = "none" THEN {FALSE} ELSE BOOLEAN
    ELSE {puller[p].reset}

(* Identities of the snapshot seen so far, in accepted runs and this one.  *)
Seen(p) == IdentitiesOf(Accepted(run[puller[p].run].snapshot) \cup {puller[p].run})

Acceptable(p, items, more) ==
    /\ more => items # {}
    /\ items \cap Seen(p) = {}
    /\ more => puller[p].at + 1 < MaxPages

WithPage(row, number, items) ==
    [row EXCEPT !.pages = row.pages \cup {[number |-> number, items |-> items]}]

(* A page is fetched, validated and recorded while the run is owned; then  *)
(* the scheduler's claim is renewed.                                       *)
FetchPage(p, items, more, reset) ==
    LET me == puller[p] IN
    /\ me.pc = "fetching"
    /\ Served(p)
    /\ reset \in ResetFlags(p)
    /\ Acceptable(p, items, more)
    /\ Owns(p)
    /\ run' = [run EXCEPT ![me.run] = WithPage(run[me.run], me.at + 1, items)]
    /\ puller' = [puller EXCEPT ![p] =
          [me EXCEPT !.at = me.at + 1, !.left = me.left - 1, !.more = more, !.reset = reset,
                     !.pc = IF ~ Beats(p) THEN "failing"
                            ELSE IF ~ more \/ me.left = 1 THEN "fetched"
                            ELSE "fetching"]]
    /\ UNCHANGED <<connector, strays, checkpoint, subscription, hub, faults, edits>>

(* The publisher does not accept the cursor or token the call starts from. *)
FetchRefused(p) ==
    /\ puller[p].pc = "fetching"
    /\ ~ Served(p)
    /\ Goto(p, "failing")
    /\ UNCHANGED <<connector, run, strays, checkpoint, subscription, hub, faults, edits>>

(* The network, an invalid page, a boundary changed between two pages, or  *)
(* an import that raises.                                                  *)
WorkFails(p) ==
    /\ puller[p].pc \in {"fetching", "importing"}
    /\ Fault
    /\ Goto(p, "failing")
    /\ UNCHANGED <<connector, run, strays, checkpoint, subscription, hub, edits>>

(* A conditional update of the run finds nothing, or the heartbeat thread  *)
(* has found the schedule claim gone.                                      *)
Disowned(p) ==
    /\ \/ puller[p].pc \in {"fetching", "fetched"} /\ ~ Owns(p)
       \/ puller[p].pc = "importing" /\ ~ (Owns(p) /\ Beats(p))
    /\ Goto(p, "failing")
    /\ UNCHANGED <<connector, run, strays, checkpoint, subscription, hub, faults, edits>>

(* The renewal of both leases before the import.                           *)
BeginImport(p) ==
    /\ puller[p].pc = "fetched"
    /\ Owns(p)
    /\ Goto(p, IF Beats(p) THEN "importing" ELSE "failing")
    /\ UNCHANGED <<connector, run, strays, checkpoint, subscription, hub, faults, edits>>

-----------------------------------------------------------------------------
(* The end of a run.                                                       *)

(* Mutant: only the pages of this call count as present.                   *)
ImportedOfThisCall(p) ==
    LET me  == puller[p]
        all == hub \cup IdentitiesOf({me.run})
    IN  IF ~ me.more /\ me.reset THEN all \cap IdentitiesOf({me.run}) ELSE all

(* After a reset the hub keeps what the snapshot contained; identities are *)
(* looked up without regard to the status of the run that recorded them.   *)
Imported(p) ==
    LET me  == puller[p]
        all == hub \cup IdentitiesOf({me.run})
    IN  IF ~ me.more /\ me.reset THEN all \cap (Seen(p) \cup strays) ELSE all

NextCheckpoint(p) ==
    LET me == puller[p] IN
    IF ~ me.more THEN NoCheckpoint
    ELSE [run |-> me.run, version |-> run[me.run].version,
          snapshot |-> run[me.run].snapshot, pages |-> me.at, records |-> Seen(p),
          reset |-> me.reset, honoured |-> TRUE]

(* One transaction: the import, the reconciliation of a reset, checkpoint, *)
(* sync token and terminal status, if the run is still owned.              *)
Finalize(p) ==
    LET me == puller[p] IN
    /\ me.pc = "importing"
    /\ Owns(p)
    /\ hub' = Imported(p)
    /\ checkpoint' = NextCheckpoint(p)
    /\ subscription' = IF me.more THEN subscription ELSE "held"
    /\ strays' = IF me.more THEN strays ELSE {}
    /\ run' = [run EXCEPT ![me.run] =
                  Ended(run[me.run], IF me.more THEN "partial" ELSE "completed",
                        run[me.run].pages)]
    /\ Ends(p, IF me.more THEN "partial" ELSE "complete")
    /\ UNCHANGED <<connector, faults, edits>>

(* Rolled back; the run is marked failed only by its owner.                *)
Fail(p) ==
    LET me == puller[p] IN
    /\ me.pc = "failing"
    /\ IF Owns(p)
       THEN /\ run' = [run EXCEPT ![me.run] = Ended(run[me.run], "failed", {})]
            /\ strays' = StraysWith(me.run)
       ELSE UNCHANGED <<run, strays>>
    /\ Ends(p, "retry")
    /\ UNCHANGED <<connector, checkpoint, subscription, hub, faults, edits>>

-----------------------------------------------------------------------------
(* The scheduler.                                                          *)

(* Mutant: a claimed connector is not due before it is rescheduled.        *)
ClaimedForGood(p) == [connector EXCEPT !.claim = p, !.next = "none"]

(* The claim moves the next time to its own expiry.                        *)
ClaimedBy(p) == [connector EXCEPT !.claim = p, !.next = "later"]

Claim(p) ==
    /\ puller[p].pc = "idle"
    /\ connector.next = "due"
    /\ connector' = ClaimedBy(p)
    /\ puller' = [puller EXCEPT ![p] = Resting("claimed", TRUE)]
    /\ UNCHANGED <<run, strays, checkpoint, subscription, hub, faults, edits>>

(* Mutant: any standing claim will do.                                     *)
SomeClaimStands(p) == connector.claim # Nobody /\ connector.next = "later"
MayReschedule(p) == ClaimHeld(p)

(* A partial pull is due at once, a complete one after the interval, a     *)
(* failed one after the retry delay: by the holder of the claim only.      *)
Reschedule(p) ==
    LET pc == puller[p].pc IN
    /\ pc \in {"complete", "partial", "retry"}
    /\ IF MayReschedule(p)
       THEN connector' = [connector EXCEPT !.claim = Nobody,
                             !.next = IF pc = "partial" THEN "due" ELSE "later"]
       ELSE UNCHANGED connector
    /\ puller' = [puller EXCEPT ![p] = IdlePuller]
    /\ UNCHANGED <<run, strays, checkpoint, subscription, hub, faults, edits>>

-----------------------------------------------------------------------------
(* Administrators, clocks, the publisher and the operating system.         *)

(* Mutant: only a running pull pins the identity.                          *)
NoRunNeedsIdentity == Running = {}
NothingNeedsIdentity == Running = {} /\ ~ Resumable

(* upsert_external_connector: the identity is pinned while a run or a      *)
(* checkpoint exists; disabling fails the active run; a claim is dropped.  *)
Upsert(enabled, scheduled, retimed, identityChanges) ==
    LET disabling == connector.enabled /\ ~ enabled IN
    /\ edits < MaxEdits
    /\ \/ identityChanges
       \/ enabled # connector.enabled
       \/ scheduled # connector.scheduled
       \/ retimed /\ scheduled
    /\ identityChanges => NothingNeedsIdentity
    /\ connector' =
          [enabled   |-> enabled,
           scheduled |-> scheduled,
           version   |-> IF identityChanges THEN connector.version + 1 ELSE connector.version,
           claim     |-> Nobody,
           next      |-> IF ~ (enabled /\ scheduled) THEN "none"
                         ELSE IF ~ connector.enabled \/ ~ connector.scheduled \/ retimed THEN "later"
                         ELSE connector.next]
    /\ run' = [i \in Runs |-> IF disabling /\ i \in Running
                              THEN Ended(run[i], "failed", {}) ELSE run[i]]
    /\ strays' = IF disabling /\ Resumable THEN strays \cup IdentitiesOf(Running) ELSE strays
    /\ edits' = edits + 1
    /\ UNCHANGED <<checkpoint, subscription, hub, puller, faults>>

(* Its heartbeat thread keeps a live run valid unless it comes late.       *)
Live(i) == \E p \in Pullers : puller[p].run = i

LeaseExpires(i) ==
    /\ run[i].lease = "valid"
    /\ run' = [run EXCEPT ![i] = [run[i] EXCEPT !.lease = "expired"]]
    /\ IF Live(i) THEN Fault ELSE UNCHANGED faults
    /\ UNCHANGED <<connector, strays, checkpoint, subscription, hub, puller, edits>>

LiveClaim == connector.claim # Nobody /\ puller[connector.claim].sched

BecomesDue ==
    /\ connector.next = "later"
    /\ connector' = [connector EXCEPT !.next = "due"]
    /\ IF LiveClaim THEN Fault ELSE UNCHANGED faults
    /\ UNCHANGED <<run, strays, checkpoint, subscription, hub, puller, edits>>

(* Expiry, or a changed entitlement, epoch or reset generation.            *)
CursorExpires ==
    /\ PublisherForgets
    /\ Resumable /\ checkpoint.honoured
    /\ checkpoint' = [checkpoint EXCEPT !.honoured = FALSE]
    /\ UNCHANGED <<connector, run, strays, subscription, hub, puller, faults, edits>>

SyncTokenExpires ==
    /\ PublisherForgets
    /\ subscription = "held"
    /\ subscription' = "expired"
    /\ UNCHANGED <<connector, run, strays, checkpoint, hub, puller, faults, edits>>

Crash(p) ==
    /\ puller[p].pc # "idle"
    /\ Fault
    /\ puller' = [puller EXCEPT ![p] = IdlePuller]
    /\ UNCHANGED <<connector, run, strays, checkpoint, subscription, hub, edits>>

-----------------------------------------------------------------------------

PageItems == {{}} \cup {{r} : r \in Records}

Fetch(p) ==
    \E items \in PageItems, more, reset \in BOOLEAN : FetchPage(p, items, more, reset)

(* What a process does of its own accord once it has work.                 *)
Work(p) ==
    \/ StartScheduled(p) \/ StartRefused(p) \/ FirstBeat(p)
    \/ Fetch(p) \/ FetchRefused(p) \/ Disowned(p)
    \/ BeginImport(p) \/ Finalize(p) \/ Fail(p) \/ Reschedule(p)

Edit == \E enabled, scheduled, retimed, identityChanges \in BOOLEAN :
            Upsert(enabled, scheduled, retimed, identityChanges)

Next ==
    \/ \E p \in Pullers :
          StartManual(p) \/ Claim(p) \/ Work(p) \/ WorkFails(p) \/ Crash(p)
    \/ \E i \in Runs : LeaseExpires(i)
    \/ BecomesDue \/ CursorExpires \/ SyncTokenExpires \/ Edit

Spec == Init /\ [][Next]_vars

(* The scheduler polls, its work ends, and time passes for whatever is not *)
(* kept alive.  API callers and administrators owe nothing.                *)
FairSpec ==
    /\ Spec
    /\ \A p \in Pullers : WF_vars(Work(p)) /\ WF_vars(Claim(p))
    /\ \A i \in Runs : WF_vars(~ Live(i) /\ LeaseExpires(i))
    /\ WF_vars(~ LiveClaim /\ BecomesDue)

-----------------------------------------------------------------------------
(* Properties.                                                             *)

(* Rows have the values the schema allows: a claim only of a scheduled     *)
(* connector, a lease exactly on a running run, and a puller that works on *)
(* a run has a row for it.                                                 *)
TypeOK ==
    /\ connector \in Connector
    /\ connector.next = "none" <=> ~ (connector.enabled /\ connector.scheduled)
    /\ connector.claim # Nobody => connector.next # "none"
    /\ run \in [Runs -> RunRow]
    /\ \A i \in Runs : run[i].lease = "none" <=> run[i].status # "running"
    /\ strays \in SUBSET Records
    /\ checkpoint \in Checkpoint
    /\ Resumable \/ checkpoint = NoCheckpoint
    /\ subscription \in {"none", "held", "expired"}
    /\ hub \in SUBSET Records
    /\ puller \in [Pullers -> PullerState]
    /\ \A p \in Pullers :
          (puller[p].run = NoRun) <=>
              puller[p].pc \in {"idle", "claimed", "complete", "partial", "retry"}
    /\ faults \in 0..MaxFaults
    /\ edits \in 0..MaxEdits

(* A checkpoint always passes the validation a resumed pull begins with,   *)
(* and leaves room for a page: a pull is never refused because of what an  *)
(* earlier one, a failed one or an administrator left behind               *)
(* (_validate_checkpoint_provenance, the cumulative limits).               *)
CheckpointIsAccepted ==
    Resumable => ProvenanceHolds /\ checkpoint.pages < MaxPages

(* At most one run is running, and a puller that owns a run is the only    *)
(* one working on it.                                                      *)
OneOwner ==
    /\ \A i, j \in Running : i = j
    /\ \A p, q \in Pullers :
          puller[p].run # NoRun /\ puller[p].run = puller[q].run => p = q

(* The hub, the checkpoint and the sync token change only in the commit    *)
(* that ends a run whose lease is valid and whose connector is enabled and *)
(* unchanged; a stale or disabled pull writes nothing (_update_owned_run). *)
OnlyOwnersWrite ==
    [][hub' # hub \/ checkpoint'.run # checkpoint.run \/ (subscription' = "held" /\ subscription # "held")
       => \E i \in Runs :
             /\ run[i].status = "running" /\ run[i].lease = "valid"
             /\ run[i].version = connector.version /\ connector.enabled
             /\ run'[i].status \in {"partial", "completed"}]_vars

(* A scheduler whose claim stands keeps it until it reschedules: no other  *)
(* scheduler clears it or moves the next time (_reschedule_connector).     *)
ClaimStands ==
    [][\A p \in Pullers :
          /\ ClaimHeld(p) /\ puller[p].sched /\ ~ UNCHANGED connector
          => \/ puller'[p].pc = "idle"
             \/ connector' = [connector EXCEPT !.next = "due"]
             \/ edits' # edits]_vars

(* With a publisher that honours its cursors, deliveries of a connector    *)
(* that stays enabled and scheduled complete again and again, whatever     *)
(* crashes, failures, manual pulls and administrators do.                  *)
KeepsDelivering ==
    \/ []<>~ (connector.enabled /\ connector.scheduled)
    \/ []<><<\E i \in Runs : run[i].status = "running" /\ run'[i].status = "completed">>_vars

(* The pull implements the abstract delivery.                              *)
Contract == INSTANCE PullContract WITH
    taken <- IF Resumable THEN PagesOf(Accepted(checkpoint.snapshot)) ELSE {}
ImplementsContract == Contract!Spec
=============================================================================
