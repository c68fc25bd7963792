------------------------------ MODULE ScanJobs ------------------------------
(***************************************************************************)
(* The scan jobs of one operational system: rows of scan_jobs, the         *)
(* scanner workers that claim them and run Nmap, the ingestion transaction *)
(* that decides whether a scan becomes the system's current inventory      *)
(* generation, and operator cancellation.                                  *)
(*                                                                         *)
(* Ingestion reads the scan row without a lock, waits for the row lock of  *)
(* the system, decides the generation (whose flush locks the scan row) and *)
(* commits with a conditional update: three steps, with a failure possible *)
(* in each.  A cancellation request is a read step and a write step.       *)
(*                                                                         *)
(* Time is a small clock for what scanners report; leases are valid until  *)
(* a LeaseExpires step.  Tokens are successive numbers, 0 for NULL.        *)
(***************************************************************************)
EXTENDS Naturals

CONSTANTS
    Scans,        \* scan jobs
    Workers,      \* scanner-worker processes
    Clients,      \* concurrent cancellation requests
    MaxAttempts,  \* max_attempts of every row
    MaxSkew,      \* how far ahead a scanner's clock may be (5 minutes)
    MaxAge,       \* how old a report may be and still be trusted (30 days)
    MaxTime,      \* bound: the clock
    MaxCrashes,   \* bound: worker processes killed in a behaviour
    NoScan        \* no row

ASSUME BoundsAssumption ==
    /\ MaxAttempts \in Nat \ {0}
    /\ MaxSkew \in Nat
    /\ MaxAge \in Nat
    /\ MaxTime \in Nat
    /\ MaxCrashes \in Nat
    /\ NoScan \notin Scans

VARIABLES
    scan,       \* the scan_jobs rows
    authorized, \* whether the authorization of each scan is active
    worker,     \* what each worker process is doing
    client,     \* what each cancellation request has read
    now,        \* the clock
    nextToken,  \* the next unused lease token
    crashes,    \* workers killed so far
    ingested,   \* history: committed ingestions, as <<scan, token>>
    revoked,    \* history: attempts taken from their worker while running
    newest      \* history: time of the newest generation ever made current

history == <<ingested, revoked, newest>>
vars == <<scan, authorized, worker, client, now, nextToken, crashes, history>>

Terminal == {"completed", "failed", "cancelled"}
Status == {"absent", "queued", "running"} \cup Terminal

(* When a scan was taken, how far that time is trusted, and whether the    *)
(* scan defines the inventory.                                             *)
Generation ==
    [observed : Nat, clock : {"missing", "quarantined", "stale", "trusted"},
     role : {"authoritative", "supplemental", "historical"}, current : BOOLEAN]

NoGeneration ==
    [observed |-> 0, clock |-> "missing", role |-> "supplemental", current |-> FALSE]

ScanRow ==
    [status : Status, token : Nat, lease : {"none", "valid", "expired"},
     attempts : Nat, cancelMark : BOOLEAN, gen : Generation]

NoRow ==
    [status |-> "absent", token |-> 0, lease |-> "none", attempts |-> 0,
     cancelMark |-> FALSE, gen |-> NoGeneration]

IdleWorker == [pc |-> "idle", scan |-> NoScan, token |-> 0, gen |-> NoGeneration]

WorkerState ==
    [pc : {"scanning", "ingesting", "prepared", "failing", "cancelling"},
     scan : Scans, token : Nat, gen : Generation] \cup {IdleWorker}

IdleClient == [pc |-> "idle", scan |-> NoScan, loaded |-> NoRow]

ClientState == [pc : {"cancel"}, scan : Scans, loaded : ScanRow] \cup {IdleClient}

(* What a scanner reports: the time it claims, if it claims a possible     *)
(* one, and whether the result is a complete Nmap service inventory.       *)
Reports ==
    [kind : {"dated"}, time : 1..(MaxTime + MaxSkew + 1), full : BOOLEAN]
    \cup [kind : {"undated", "inverted"}, time : {0}, full : BOOLEAN]

Init ==
    /\ scan = [s \in Scans |-> NoRow]
    /\ authorized = [s \in Scans |-> TRUE]
    /\ worker = [w \in Workers |-> IdleWorker]
    /\ client = [c \in Clients |-> IdleClient]
    /\ now = 1
    /\ nextToken = 1
    /\ crashes = 0
    /\ ingested = {}
    /\ revoked = {}
    /\ newest = 0

-----------------------------------------------------------------------------
(* Generations.                                                            *)

CurrentScans == {s \in Scans : scan[s].status = "completed" /\ scan[s].gen.current}

SourceClock(r) ==
    IF r.kind = "undated" THEN "missing"
    ELSE IF r.kind = "inverted" \/ r.time > now + MaxSkew THEN "quarantined"
    ELSE IF r.time + MaxAge < now THEN "stale"
    ELSE "trusted"

ObservedAt(r) == IF SourceClock(r) \in {"missing", "quarantined"} THEN now ELSE r.time

(* Mutant: a scan without a time is as good as one with a trusted time.    *)
UndatedIsAuthoritative(r) == r.full /\ SourceClock(r) \in {"trusted", "missing"}

(* Only a complete service inventory whose time can be compared with that  *)
(* of the current generation may replace it.                               *)
CanBeAuthoritative(r) ==
    /\ r.full
    /\ \/ SourceClock(r) = "trusted"
       \/ /\ SourceClock(r) = "missing"
          /\ \A s \in CurrentScans : scan[s].gen.clock = "missing"

IsNewer(r) == \A s \in CurrentScans : ObservedAt(r) > scan[s].gen.observed

(* Mutant: the time of the current generation is not compared.             *)
GenerationUnordered(r) ==
    [observed |-> ObservedAt(r),
     clock    |-> SourceClock(r),
     current  |-> CanBeAuthoritative(r),
     role     |-> IF CanBeAuthoritative(r) THEN "authoritative" ELSE "supplemental"]

GenerationOf(r) ==
    LET current == CanBeAuthoritative(r) /\ IsNewer(r) IN
    [observed |-> ObservedAt(r),
     clock    |-> SourceClock(r),
     current  |-> current,
     role     |-> IF current THEN "authoritative"
                  ELSE IF SourceClock(r) = "stale" \/ ~ IsNewer(r) THEN "historical"
                  ELSE "supplemental"]

(* Mutants: the previous generation keeps its flag; the scan is not        *)
(* completed in the transaction that ingests it.                           *)
IngestBeside(s, row, gen, token) ==
    /\ scan' = [scan EXCEPT ![s] = [row EXCEPT !.status = "completed", !.token = 0,
                                               !.lease = "none", !.gen = gen]]
    /\ ingested' = ingested \cup {<<s, token>>}
    /\ newest' = IF gen.current /\ gen.observed > newest THEN gen.observed ELSE newest

IngestOnly(s, row, gen, token) ==
    /\ ingested' = ingested \cup {<<s, token>>}
    /\ UNCHANGED <<scan, newest>>

Displaced(gen) == [gen EXCEPT !.current = FALSE]

(* A completed row with its generation, which displaces the current one.   *)
Ingest(s, row, gen, token) ==
    /\ scan' = [t \in Scans |->
                  IF t = s THEN [row EXCEPT !.status = "completed", !.token = 0,
                                            !.lease = "none", !.gen = gen]
                  ELSE IF gen.current THEN [scan[t] EXCEPT !.gen = Displaced(scan[t].gen)]
                  ELSE scan[t]]
    /\ ingested' = ingested \cup {<<s, token>>}
    /\ newest' = IF gen.current /\ gen.observed > newest THEN gen.observed ELSE newest

-----------------------------------------------------------------------------
(* Row locks.  A prepared ingestion holds the system row, its scan row and *)
(* the row whose current flag it cleared.                                  *)

(* Mutant: ingestions of one system are not serialized.                    *)
SystemNeverLocked == FALSE

SystemLocked == \E w \in Workers : worker[w].pc = "prepared"
Locked(s) ==
    \E w \in Workers :
        /\ worker[w].pc = "prepared"
        /\ worker[w].scan = s \/ (worker[w].gen.current /\ scan[s].gen.current)

PutRow(s, row) == scan' = [scan EXCEPT ![s] = row]

(* The attempt holding row s loses it.                                     *)
Revoke(s) ==
    revoked' = IF scan[s].status = "running"
               THEN revoked \cup {<<s, scan[s].token>>}
               ELSE revoked

-----------------------------------------------------------------------------
(* Requests that create rows.                                              *)

Queue(s) ==
    /\ scan[s].status = "absent"
    /\ authorized[s]
    /\ PutRow(s, [NoRow EXCEPT !.status = "queued"])
    /\ UNCHANGED <<authorized, worker, client, now, nextToken, crashes, history>>

(* An uploaded scan file is queued, ingested and completed in one request. *)
Import(s, r) ==
    /\ scan[s].status = "absent"
    /\ authorized[s]
    /\ ~ SystemLocked
    /\ Ingest(s, NoRow, GenerationOf(r), 0)
    /\ UNCHANGED <<authorized, worker, client, now, nextToken, crashes, revoked>>

AuthorizationEnds(s) ==
    /\ authorized[s]
    /\ authorized' = [authorized EXCEPT ![s] = FALSE]
    /\ UNCHANGED <<scan, worker, client, now, nextToken, crashes, history>>

-----------------------------------------------------------------------------
(* Dispatch: FOR UPDATE SKIP LOCKED on one row.                            *)

Runnable(r) ==
    /\ ~ r.cancelMark
    /\ \/ r.status = "queued"
       \/ r.status = "running" /\ r.lease = "expired" /\ r.attempts < MaxAttempts

Exhausted(r) ==
    /\ r.status = "running"
    /\ \/ r.cancelMark /\ r.lease # "valid"
       \/ ~ r.cancelMark /\ r.lease = "expired" /\ r.attempts >= MaxAttempts

Closed(row, status) == [row EXCEPT !.status = status, !.token = 0, !.lease = "none"]

Claim(w, s) ==
    /\ worker[w].pc = "idle"
    /\ Runnable(scan[s]) /\ ~ Locked(s)
    /\ authorized[s]
    /\ PutRow(s, [scan[s] EXCEPT !.status = "running", !.token = nextToken,
                                 !.lease = "valid",
                                 !.attempts = scan[s].attempts + 1])
    /\ worker' = [worker EXCEPT ![w] =
                    [pc |-> "scanning", scan |-> s, token |-> nextToken,
                     gen |-> NoGeneration]]
    /\ nextToken' = nextToken + 1
    /\ Revoke(s)
    /\ UNCHANGED <<authorized, client, now, crashes, ingested, newest>>

(* The authorization is missing, expired or revoked: the scan fails unrun. *)
Reject(w, s) ==
    /\ worker[w].pc = "idle"
    /\ Runnable(scan[s]) /\ ~ Locked(s)
    /\ ~ authorized[s]
    /\ PutRow(s, Closed(scan[s], "failed"))
    /\ Revoke(s)
    /\ UNCHANGED <<authorized, worker, client, now, nextToken, crashes, ingested, newest>>

TerminalizeExpired(w, s) ==
    /\ worker[w].pc = "idle"
    /\ Exhausted(scan[s]) /\ ~ Locked(s)
    /\ PutRow(s, Closed(scan[s], IF scan[s].cancelMark THEN "cancelled" ELSE "failed"))
    /\ Revoke(s)
    /\ UNCHANGED <<authorized, worker, client, now, nextToken, crashes, ingested, newest>>

-----------------------------------------------------------------------------
(* One attempt.                                                            *)

Holds(w) ==
    /\ worker[w].scan \in Scans
    /\ scan[worker[w].scan].status = "running"
    /\ scan[worker[w].scan].token = worker[w].token

MarkedCancel(w) == scan[worker[w].scan].cancelMark

(* No other ingestion keeps w waiting for its own row.                     *)
RowFree(w) == ~ Locked(worker[w].scan)

Goto(w, pc) == worker' = [worker EXCEPT ![w].pc = pc]

Release(w) == worker' = [worker EXCEPT ![w] = IdleWorker]

(* The lease monitor, polled while Nmap runs: renew, or stop Nmap.         *)
Monitor(w) ==
    LET s == worker[w].scan IN
    /\ worker[w].pc = "scanning"
    /\ RowFree(w)
    /\ IF Holds(w) /\ ~ MarkedCancel(w)
       THEN PutRow(s, [scan[s] EXCEPT !.lease = "valid"]) /\ UNCHANGED worker
       ELSE /\ IF Holds(w) THEN Goto(w, "cancelling") ELSE Release(w)
            /\ UNCHANGED scan
    /\ UNCHANGED <<authorized, client, now, nextToken, crashes, history>>

(* Nmap is done: the ingestion session reads the row, with no lock.        *)
Load(w) ==
    /\ worker[w].pc = "scanning"
    /\ IF Holds(w)
       THEN Goto(w, IF MarkedCancel(w) THEN "cancelling" ELSE "ingesting")
       ELSE Release(w)
    /\ UNCHANGED <<scan, authorized, client, now, nextToken, crashes, history>>

(* The system lock is granted and the generation flushed.                  *)
Prepare(w, r) ==
    /\ worker[w].pc = "ingesting"
    /\ ~ SystemLocked
    /\ worker' = [worker EXCEPT ![w].pc = "prepared", ![w].gen = GenerationOf(r)]
    /\ UNCHANGED <<scan, authorized, client, now, nextToken, crashes, history>>

(* The fenced completion, or a rollback of everything ingested.            *)
Commit(w) ==
    LET s == worker[w].scan IN
    /\ worker[w].pc = "prepared"
    /\ IF Holds(w) /\ ~ MarkedCancel(w)
       THEN Ingest(s, scan[s], worker[w].gen, worker[w].token) /\ Release(w)
       ELSE Goto(w, "failing") /\ UNCHANGED <<scan, ingested, newest>>
    /\ UNCHANGED <<authorized, client, now, nextToken, crashes, revoked>>

(* Nmap, its parser or the ingestion raises, or Nmap times out.            *)
Fail(w) ==
    /\ worker[w].pc \in {"scanning", "ingesting", "prepared"}
    /\ Goto(w, "failing")
    /\ UNCHANGED <<scan, authorized, client, now, nextToken, crashes, history>>

(* The outcome is recorded under the row lock, if the attempt is current.  *)
(* A failed scan is not retried.                                           *)
RecordOutcome(w) ==
    LET s == worker[w].scan IN
    /\ worker[w].pc \in {"failing", "cancelling"}
    /\ RowFree(w)
    /\ IF Holds(w)
       THEN PutRow(s, Closed(scan[s], IF worker[w].pc = "cancelling" \/ MarkedCancel(w)
                                      THEN "cancelled" ELSE "failed"))
       ELSE UNCHANGED scan
    /\ Release(w)
    /\ UNCHANGED <<authorized, client, now, nextToken, crashes, history>>

Crash(w) ==
    /\ worker[w].pc # "idle"
    /\ crashes < MaxCrashes
    /\ crashes' = crashes + 1
    /\ Release(w)
    /\ UNCHANGED <<scan, authorized, client, now, nextToken, history>>

-----------------------------------------------------------------------------
(* Time.                                                                   *)

LeaseExpires(s) ==
    /\ scan[s].lease = "valid"
    /\ PutRow(s, [scan[s] EXCEPT !.lease = "expired"])
    /\ UNCHANGED <<authorized, worker, client, now, nextToken, crashes, history>>

Tick ==
    /\ now < MaxTime
    /\ now' = now + 1
    /\ UNCHANGED <<scan, authorized, worker, client, nextToken, crashes, history>>

-----------------------------------------------------------------------------
(* Cancellation: an unlocked read, then an update by primary key of the    *)
(* columns that differ from what was read.                                 *)

(* Mutant: a completed scan can be cancelled.                              *)
ReadAnyScan(c, s) ==
    /\ client[c].pc = "idle"
    /\ scan[s].status \in {"queued", "running", "completed"}
    /\ client' = [client EXCEPT ![c] = [pc |-> "cancel", scan |-> s,
                                        loaded |-> scan[s]]]
    /\ UNCHANGED <<scan, authorized, worker, now, nextToken, crashes, history>>

ReadScan(c, s) ==
    /\ client[c].pc = "idle"
    /\ scan[s].status \in {"queued", "running"}
    /\ client' = [client EXCEPT ![c] = [pc |-> "cancel", scan |-> s,
                                        loaded |-> scan[s]]]
    /\ UNCHANGED <<scan, authorized, worker, now, nextToken, crashes, history>>

FlushCancel(c) ==
    LET s == client[c].scan
        r == client[c].loaded
    IN
    /\ client[c].pc = "cancel"
    /\ ~ Locked(s)
    /\ PutRow(s, [scan[s] EXCEPT
                    !.status = "cancelled", !.cancelMark = TRUE,
                    !.token = IF r.token = 0 THEN scan[s].token ELSE 0,
                    !.lease = IF r.lease = "none" THEN scan[s].lease ELSE "none"])
    /\ client' = [client EXCEPT ![c] = IdleClient]
    /\ Revoke(s)
    /\ UNCHANGED <<authorized, worker, now, nextToken, crashes, ingested, newest>>

-----------------------------------------------------------------------------

Attempt(w) ==
    \/ Load(w)
    \/ \E r \in Reports : Prepare(w, r)
    \/ Commit(w)
    \/ Fail(w)
    \/ RecordOutcome(w)

Background ==
    \/ Tick
    \/ \E s \in Scans : Queue(s) \/ AuthorizationEnds(s) \/ LeaseExpires(s)
    \/ \E s \in Scans, r \in Reports : Import(s, r)
    \/ \E w \in Workers, s \in Scans :
          Claim(w, s) \/ Reject(w, s) \/ TerminalizeExpired(w, s)
    \/ \E w \in Workers : Attempt(w) \/ Monitor(w) \/ Crash(w)
    \/ \E c \in Clients, s \in Scans : ReadScan(c, s)

Next == Background \/ \E c \in Clients : FlushCancel(c)

Spec == Init /\ [][Next]_vars

(* The scan is still open in the attempt the request saw.                  *)
Fresh(c) ==
    /\ client[c].scan \in Scans
    /\ LET row == scan[client[c].scan] IN
       row.status = client[c].loaded.status /\ row.token = client[c].loaded.token

SerialNext == Background \/ \E c \in Clients : Fresh(c) /\ FlushCancel(c)

SerialSpec == Init /\ [][SerialNext]_vars

-----------------------------------------------------------------------------
(* Fairness.  Workers poll, Nmap has a deadline, a lease that no worker    *)
(* renews expires.  Nothing is assumed of operators, nor that a lease      *)
(* expires while its worker lives, nor that crashes or ticks happen.       *)

Orphaned(s) == \A w \in Workers : worker[w].token # scan[s].token

Fairness ==
    /\ \A w \in Workers : WF_vars(Attempt(w))
    /\ \A s \in Scans :
         /\ WF_vars(\E w \in Workers :
                       Claim(w, s) \/ Reject(w, s) \/ TerminalizeExpired(w, s))
         /\ WF_vars(Orphaned(s) /\ LeaseExpires(s))

FairSpec == Spec /\ Fairness

-----------------------------------------------------------------------------
(* Properties.                                                             *)

TypeOK ==
    /\ scan \in [Scans -> ScanRow]
    /\ authorized \in [Scans -> BOOLEAN]
    /\ worker \in [Workers -> WorkerState]
    /\ client \in [Clients -> ClientState]
    /\ now \in Nat \ {0}
    /\ nextToken \in Nat \ {0}
    /\ crashes \in 0..MaxCrashes
    /\ ingested \subseteq Scans \X Nat
    /\ revoked \subseteq Scans \X Nat
    /\ newest \in Nat

(* A scan is ingested at most once, however often its lease expires, its   *)
(* worker dies or its cancellation races the ingestion.                    *)
OneIngestion == \A i, j \in ingested : i[1] = j[1] => i = j

(* An attempt whose row was cancelled, reclaimed, rejected or terminalized *)
(* while it ran never ingests its output (the fence that the comment in    *)
(* request_scan_cancellation describes).                                   *)
RevokedNeverIngests == ingested \cap revoked = {}

(* Reclaiming never takes a scan past its attempt budget, not even when a  *)
(* stale cancellation overwrites the row.                                  *)
AttemptBudget == \A s \in Scans : scan[s].attempts <= MaxAttempts

(* At most one row is flagged as the system's current inventory, so the    *)
(* partial unique index never rejects an ingestion.                        *)
OneGeneration ==
    \A s, t \in Scans : scan[s].gen.current /\ scan[t].gen.current => s = t

(* A scan that is over is never queued or run again.                       *)
TerminalIsFinal ==
    [][\A s \in Scans :
         scan[s].status \in Terminal => scan'[s].status \in Terminal]_vars

(* The inventory of a system never goes back in time: the generation that  *)
(* is current is the newest ever accepted.                                 *)
InventoryNeverRegresses ==
    \A s \in Scans : scan[s].gen.current => scan[s].gen.observed >= newest

(* request_scan_cancellation: a cancelled attempt is "unable to ingest any *)
(* output": what was ingested belongs to a scan that reads completed.      *)
CancelledIngestsNothing == \A i \in ingested : scan[i[1]].status = "completed"

(* A scan without a time of its own never displaces a generation that has  *)
(* a trusted one, whichever of the two ingestions started first.           *)
UndatedNeverDisplacesDated ==
    [][\A s \in CurrentScans, t \in CurrentScans' :
         s # t /\ scan'[t].gen.clock = "missing" => scan[s].gen.clock = "missing"]_vars

(* Every queued or running scan is eventually over.                        *)
EventuallySettled ==
    \A s \in Scans : scan[s].status \in {"queued", "running"} ~> scan[s].status \in Terminal

(* The inductive invariant behind these properties: issued tokens, what a  *)
(* running row still owes, and who holds the lock of the system.           *)
TokensIssued ==
    /\ \A s \in Scans : scan[s].token < nextToken
    /\ \A w \in Workers : worker[w].token < nextToken
    /\ \A i \in ingested \cup revoked : i[2] < nextToken
    /\ \A i \in revoked : i[2] # 0

OpenIsUningested ==
    \A s \in Scans : scan[s].status \in {"absent", "queued", "running"} =>
        \A i \in ingested : i[1] # s

RunningIsFenced ==
    \A s \in Scans : scan[s].status = "running" =>
        /\ scan[s].token # 0
        /\ scan[s].lease # "none"
        /\ ~ scan[s].cancelMark
        /\ <<s, scan[s].token>> \notin revoked

BudgetKept ==
    \A s \in Scans :
        /\ scan[s].attempts <= MaxAttempts
        /\ scan[s].status \in {"absent", "queued"} => scan[s].attempts = 0

OneIngestionAtATime ==
    \A v, w \in Workers : worker[v].pc = "prepared" /\ worker[w].pc = "prepared" => v = w

FencingInv ==
    /\ TypeOK
    /\ TokensIssued
    /\ OpenIsUningested
    /\ RunningIsFenced
    /\ BudgetKept
    /\ OneIngestionAtATime
    /\ OneGeneration
    /\ OneIngestion
    /\ RevokedNeverIngests

LoadedIsOpen ==
    \A c \in Clients : client[c].pc = "cancel" =>
        client[c].loaded.status \in {"queued", "running"}

(* With serial cancellation: the flagged row is completed and holds the    *)
(* newest time, and a prepared successor is newer still.                   *)
CurrentIsNewest ==
    \A s \in Scans : scan[s].gen.current =>
        scan[s].status = "completed" /\ scan[s].gen.observed = newest

NoInventoryNoTime == CurrentScans = {} => newest = 0

SuccessorIsNewer ==
    \A w \in Workers : worker[w].pc = "prepared" /\ worker[w].gen.current =>
        worker[w].gen.observed > newest

TimelineInv ==
    /\ LoadedIsOpen
    /\ CancelledIngestsNothing
    /\ CurrentIsNewest
    /\ NoInventoryNoTime
    /\ SuccessorIsNewer

-----------------------------------------------------------------------------
(* The abstract contract, and the fate a row shows.                        *)

FateOf(r) ==
    IF r.status \in {"queued", "running"} THEN "open"
    ELSE IF r.status = "completed" THEN "ingested"
    ELSE IF r.status = "absent" THEN "absent"
    ELSE "closed"

InventoryTime ==
    IF CurrentScans = {} THEN 0 ELSE scan[CHOOSE s \in CurrentScans : TRUE].gen.observed

Contract == INSTANCE ScanContract WITH
    fate <- [s \in Scans |-> FateOf(scan[s])],
    newest <- InventoryTime

(* When cancellation never acts on a stale read, every scan has one final  *)
(* fate and the inventory only moves forward in time.                      *)
ImplementsContract == Contract!Spec
=============================================================================
