--------------------------- MODULE BackgroundJobs ---------------------------
(***************************************************************************)
(* The durable background-job queue of the Traceless API: rows of          *)
(* background_jobs, the job workers that claim and execute them, the       *)
(* heartbeat thread of each attempt, and the operator requests (cancel,    *)
(* retry) that the HTTP API applies to the same rows.                      *)
(*                                                                         *)
(* A transaction is one step when it locks or conditionally updates the    *)
(* row it decides on.  The two operator requests do neither: they SELECT   *)
(* the row, decide, and flush the changed columns by primary key, so each  *)
(* is a read step and a write step with anything in between.               *)
(*                                                                         *)
(* Wall-clock time is abstracted: a lease is valid until a LeaseExpires    *)
(* step, a retry delay lasts until a BackoffElapses step.  Random lease    *)
(* tokens are successive numbers, 0 standing for NULL.                     *)
(***************************************************************************)
EXTENDS Naturals

CONSTANTS
    Jobs,         \* idempotency keys, each naming at most one row
    Workers,      \* job-worker processes
    Clients,      \* concurrent operator requests
    MaxAttempts,  \* max_attempts of every row
    MaxRequests,  \* bound: operator requests in a behaviour
    MaxCrashes,   \* bound: worker processes killed in a behaviour
    NoJob         \* no row

ASSUME BoundsAssumption ==
    /\ MaxAttempts \in Nat \ {0}
    /\ MaxRequests \in Nat
    /\ MaxCrashes \in Nat
    /\ NoJob \notin Jobs

VARIABLES
    job,       \* the background_jobs rows
    worker,    \* what each worker process is doing
    client,    \* what each operator request has read
    nextToken, \* the next unused lease token
    requests,  \* operator requests so far
    crashes,   \* workers killed so far
    round,     \* history: how often each row was put back by a retry request
    outputs,   \* history: committed executions
    revoked    \* history: attempts taken from their worker while running

rowVars == <<job, nextToken>>
bounds == <<requests, crashes>>
history == <<round, outputs, revoked>>
vars == <<job, worker, client, nextToken, bounds, history>>

Terminal == {"completed", "failed", "cancelled"}
Status == {"absent", "queued", "running"} \cup Terminal

JobRow ==
    [status : Status, token : Nat, lease : {"none", "valid", "expired"},
     available : BOOLEAN, attempts : Nat, cancelMark : BOOLEAN]

NoRow ==
    [status |-> "absent", token |-> 0, lease |-> "none",
     available |-> FALSE, attempts |-> 0, cancelMark |-> FALSE]

IdleWorker == [pc |-> "idle", job |-> NoJob, token |-> 0, signal |-> "none"]

WorkerState ==
    [pc : {"claimed", "executing", "failed", "fatal", "cancelling"},
     job : Jobs, token : Nat, signal : {"none", "lost", "cancel"}]
    \cup {IdleWorker}

IdleClient == [pc |-> "idle", job |-> NoJob, loaded |-> NoRow]

ClientState ==
    [pc : {"cancel", "retry"}, job : Jobs, loaded : JobRow] \cup {IdleClient}

Init ==
    /\ job = [j \in Jobs |-> NoRow]
    /\ worker = [w \in Workers |-> IdleWorker]
    /\ client = [c \in Clients |-> IdleClient]
    /\ nextToken = 1
    /\ requests = 0
    /\ crashes = 0
    /\ round = [j \in Jobs |-> 0]
    /\ outputs = {}
    /\ revoked = {}

-----------------------------------------------------------------------------
(* Enqueueing.  A key whose row exists only replays or conflicts, and the  *)
(* unique constraint turns a lost insertion race into a replay, so only    *)
(* the first enqueue of a key changes anything.                            *)

PutRow(j, row) == job' = [job EXCEPT ![j] = row]

Enqueue(j) ==
    /\ job[j].status = "absent"
    /\ PutRow(j, [NoRow EXCEPT !.status = "queued", !.available = TRUE])
    /\ UNCHANGED <<worker, client, nextToken, bounds, history>>

-----------------------------------------------------------------------------
(* Dispatch: FOR UPDATE SKIP LOCKED on one row, decided under its lock.    *)

(* Mutants: dispatch ignores the cancellation mark; never reclaims an      *)
(* abandoned row.                                                          *)
RunnableThoughMarked(r) ==
    \/ r.status = "queued" /\ r.available
    \/ r.status = "running" /\ r.lease = "expired" /\ r.attempts < MaxAttempts

RunnableOnce(r) == ~ r.cancelMark /\ r.status = "queued" /\ r.available

Runnable(r) ==
    /\ ~ r.cancelMark
    /\ \/ r.status = "queued" /\ r.available
       \/ r.status = "running" /\ r.lease = "expired" /\ r.attempts < MaxAttempts

Exhausted(r) ==
    /\ r.status = "running"
    /\ r.lease = "expired"
    /\ r.cancelMark \/ r.attempts >= MaxAttempts

(* The attempt holding row j loses it: its token can never match again.    *)
Revoke(j) ==
    revoked' = IF job[j].status = "running"
               THEN revoked \cup {<<j, job[j].token>>}
               ELSE revoked

Claim(w, j) ==
    /\ worker[w].pc = "idle"
    /\ Runnable(job[j])
    /\ PutRow(j, [job[j] EXCEPT !.status = "running", !.token = nextToken,
                                !.lease = "valid",
                                !.attempts = job[j].attempts + 1])
    /\ worker' = [worker EXCEPT ![w] = [pc |-> "claimed", job |-> j,
                                        token |-> nextToken, signal |-> "none"]]
    /\ nextToken' = nextToken + 1
    /\ Revoke(j)
    /\ UNCHANGED <<client, bounds, round, outputs>>

(* An idle worker finishes abandoned rows before it looks for work.        *)
TerminalizeExpired(w, j) ==
    /\ worker[w].pc = "idle"
    /\ Exhausted(job[j])
    /\ PutRow(j, [job[j] EXCEPT
                    !.status = IF job[j].cancelMark THEN "cancelled" ELSE "failed",
                    !.token = 0, !.lease = "none"])
    /\ Revoke(j)
    /\ UNCHANGED <<worker, client, nextToken, bounds, round, outputs>>

-----------------------------------------------------------------------------
(* One attempt.  Holds is the WHERE clause every fenced statement shares;  *)
(* completion and renewal add that no cancellation is marked.              *)

Holds(w) ==
    LET j == worker[w].job IN
    /\ j \in Jobs
    /\ job[j].status = "running"
    /\ job[j].token = worker[w].token

MarkedCancel(w) == job[worker[w].job].cancelMark

Goto(w, pc) == worker' = [worker EXCEPT ![w].pc = pc]

Release(w) == worker' = [worker EXCEPT ![w] = IdleWorker]

(* The attempt opens its session and re-reads the row.                     *)
Load(w) ==
    /\ worker[w].pc = "claimed"
    /\ IF Holds(w)
       THEN Goto(w, IF MarkedCancel(w) THEN "cancelling" ELSE "executing")
       ELSE Release(w)
    /\ UNCHANGED <<job, client, nextToken, bounds, history>>

(* The heartbeat thread: renew the exact attempt, or note why it cannot.   *)
(* Renewal does not look at the expiry it extends.                         *)
Heartbeat(w) ==
    /\ worker[w].pc \in {"claimed", "executing"}
    /\ worker[w].signal = "none"
    /\ IF Holds(w) /\ ~ MarkedCancel(w)
       THEN /\ LET j == worker[w].job
               IN  PutRow(j, [job[j] EXCEPT !.lease = "valid"])
            /\ UNCHANGED worker
       ELSE /\ worker' = [worker EXCEPT ![w].signal =
                            IF Holds(w) THEN "cancel" ELSE "lost"]
            /\ UNCHANGED job
    /\ UNCHANGED <<client, nextToken, bounds, history>>

(* A renewal that raises, or a heartbeat thread that will not join, counts *)
(* as a lost lease.                                                        *)
HeartbeatFails(w) ==
    /\ worker[w].pc \in {"claimed", "executing"}
    /\ worker[w].signal = "none"
    /\ worker' = [worker EXCEPT ![w].signal = "lost"]
    /\ UNCHANGED <<job, client, nextToken, bounds, history>>

(* The executor raises: its transaction, output included, rolls back.      *)
ExecutorRaises(w, kind) ==
    /\ worker[w].pc = "executing"
    /\ Goto(w, kind)
    /\ UNCHANGED <<job, client, nextToken, bounds, history>>

(* Mutant: the output commits, the row's completion does not.              *)
CompleteOutputOnly(w) ==
    /\ outputs' = outputs \cup {[job |-> worker[w].job,
                                 round |-> round[worker[w].job],
                                 token |-> worker[w].token]}
    /\ Release(w)
    /\ UNCHANGED job

(* The conditional UPDATE that completes the row commits with the output   *)
(* the executor wrote in the same transaction, or not at all.              *)
Complete(w) ==
    LET j == worker[w].job IN
    /\ PutRow(j, [job[j] EXCEPT !.status = "completed",
                                !.token = 0, !.lease = "none"])
    /\ outputs' = outputs \cup {[job |-> j, round |-> round[j],
                                 token |-> worker[w].token]}
    /\ Release(w)

(* The executor returns: stop the heartbeat, heed its flags, complete.     *)
ExecutorReturns(w) ==
    /\ worker[w].pc = "executing"
    /\ IF worker[w].signal = "none" /\ Holds(w) /\ ~ MarkedCancel(w)
       THEN Complete(w)
       ELSE /\ IF worker[w].signal # "lost" /\ (worker[w].signal = "cancel" \/ Holds(w))
               THEN Goto(w, "cancelling")
               ELSE Release(w)
            /\ UNCHANGED <<job, outputs>>
    /\ UNCHANGED <<client, nextToken, bounds, round, revoked>>

(* The status _mark_cancelled and _record_failure give the row.            *)
OutcomeStatus(r, pc) ==
    IF pc = "cancelling" \/ r.cancelMark THEN "cancelled"
    ELSE IF pc = "failed" /\ r.attempts < MaxAttempts THEN "queued"
    ELSE "failed"

(* A new transaction records the cancellation or the failure, if the row   *)
(* is still this attempt's; a failed attempt waits out the retry delay.    *)
RecordOutcome(w) ==
    LET j == worker[w].job
        status == OutcomeStatus(job[j], worker[w].pc)
    IN
    /\ worker[w].pc \in {"cancelling", "failed", "fatal"}
    /\ IF Holds(w)
       THEN PutRow(j, [job[j] EXCEPT
                         !.status = status, !.token = 0, !.lease = "none",
                         !.available = status # "queued" /\ job[j].available])
       ELSE UNCHANGED job
    /\ Release(w)
    /\ UNCHANGED <<client, nextToken, bounds, history>>

(* The worker process dies; the row keeps its lease until that expires.    *)
Crash(w) ==
    /\ worker[w].pc # "idle"
    /\ crashes < MaxCrashes
    /\ crashes' = crashes + 1
    /\ Release(w)
    /\ UNCHANGED <<job, client, nextToken, requests, history>>

-----------------------------------------------------------------------------
(* The clock.                                                              *)

LeaseExpires(j) ==
    /\ job[j].lease = "valid"
    /\ PutRow(j, [job[j] EXCEPT !.lease = "expired"])
    /\ UNCHANGED <<worker, client, nextToken, bounds, history>>

BackoffElapses(j) ==
    /\ job[j].status = "queued"
    /\ ~ job[j].available
    /\ PutRow(j, [job[j] EXCEPT !.available = TRUE])
    /\ UNCHANGED <<worker, client, nextToken, bounds, history>>

-----------------------------------------------------------------------------
(* Operator requests.  The session loads the row without a lock, decides   *)
(* on what it loaded, and at flush time updates by primary key only the    *)
(* columns whose new value differs from the loaded one.                    *)

(* Mutants: a completed job can be cancelled; a completed job can be       *)
(* retried.                                                                *)
RefusesNoCancel(op, r) ==
    IF op = "cancel" THEN r.status \in {"failed", "cancelled", "absent"}
                     ELSE r.status \notin {"failed", "cancelled"}

RefusesNoTerminalRetry(op, r) ==
    IF op = "cancel" THEN r.status \in Terminal \cup {"absent"}
                     ELSE r.status \notin Terminal

Refuses(op, r) ==
    IF op = "cancel" THEN r.status \in Terminal \cup {"absent"}
                     ELSE r.status \notin {"failed", "cancelled"}

ReadRow(c, j, op) ==
    /\ client[c].pc = "idle"
    /\ requests < MaxRequests
    /\ ~ Refuses(op, job[j])
    /\ client' = [client EXCEPT ![c] = [pc |-> op, job |-> j, loaded |-> job[j]]]
    /\ requests' = requests + 1
    /\ UNCHANGED <<job, worker, nextToken, crashes, history>>

(* The column a flush leaves in the database: now, as loaded, as assigned. *)
Flushed(now, loaded, assigned) == IF assigned = loaded THEN now ELSE assigned

FlushRow(now, loaded, assigned) ==
    [status     |-> Flushed(now.status, loaded.status, assigned.status),
     token      |-> Flushed(now.token, loaded.token, assigned.token),
     lease      |-> Flushed(now.lease, loaded.lease, assigned.lease),
     available  |-> assigned.available,
     attempts   |-> Flushed(now.attempts, loaded.attempts, assigned.attempts),
     cancelMark |-> Flushed(now.cancelMark, loaded.cancelMark, assigned.cancelMark)]

(* What request_cancellation assigns; it never touches available_at.       *)
Cancelled(now, loaded) ==
    [loaded EXCEPT !.status = "cancelled", !.token = 0, !.lease = "none",
                   !.available = now.available, !.cancelMark = TRUE]

(* What retry assigns: a queued row as good as new, available now.         *)
Requeued(loaded) ==
    [loaded EXCEPT !.status = "queued", !.token = 0, !.lease = "none",
                   !.available = TRUE, !.attempts = 0, !.cancelMark = FALSE]

FlushCancel(c) ==
    LET j == client[c].job
        r == client[c].loaded
    IN
    /\ client[c].pc = "cancel"
    /\ PutRow(j, FlushRow(job[j], r, Cancelled(job[j], r)))
    /\ client' = [client EXCEPT ![c] = IdleClient]
    /\ Revoke(j)
    /\ UNCHANGED <<worker, nextToken, bounds, round, outputs>>

FlushRetry(c) ==
    LET j == client[c].job
        r == client[c].loaded
    IN
    /\ client[c].pc = "retry"
    /\ PutRow(j, FlushRow(job[j], r, Requeued(r)))
    /\ round' = [round EXCEPT ![j] = @ + 1]
    /\ client' = [client EXCEPT ![c] = IdleClient]
    /\ Revoke(j)
    /\ UNCHANGED <<worker, nextToken, bounds, outputs>>

-----------------------------------------------------------------------------

Attempt(w) ==
    \/ Load(w)
    \/ ExecutorReturns(w)
    \/ \E kind \in {"failed", "fatal"} : ExecutorRaises(w, kind)
    \/ RecordOutcome(w)

Background ==
    \/ \E j \in Jobs : Enqueue(j) \/ LeaseExpires(j) \/ BackoffElapses(j)
    \/ \E w \in Workers, j \in Jobs : Claim(w, j) \/ TerminalizeExpired(w, j)
    \/ \E w \in Workers :
          Attempt(w) \/ Heartbeat(w) \/ HeartbeatFails(w) \/ Crash(w)
    \/ \E c \in Clients, j \in Jobs, op \in {"cancel", "retry"} : ReadRow(c, j, op)

Next ==
    \/ Background
    \/ \E c \in Clients : FlushCancel(c) \/ FlushRetry(c)

Spec == Init /\ [][Next]_vars

(* The row is still what the request loaded.                               *)
Fresh(c) == client[c].job \in Jobs /\ job[client[c].job] = client[c].loaded

(* The same system when no operator request acts on a stale read, as if    *)
(* the row had been loaded FOR UPDATE.                                     *)
SerialNext ==
    \/ Background
    \/ \E c \in Clients : Fresh(c) /\ (FlushCancel(c) \/ FlushRetry(c))

SerialSpec == Init /\ [][SerialNext]_vars

-----------------------------------------------------------------------------
(* Fairness.  Workers poll, so claimable and exhausted rows are noticed;   *)
(* an executor terminates; time passes, so a delay elapses and a lease     *)
(* nobody renews any more expires.  Nothing is assumed of operators, and   *)
(* no lease is assumed to expire under a live heartbeat.                   *)

Orphaned(j) ==
    \A w \in Workers : worker[w].token = job[j].token => worker[w].signal = "lost"

Fairness ==
    /\ \A w \in Workers : WF_vars(Attempt(w))
    /\ \A j \in Jobs :
         /\ WF_vars(\E w \in Workers : Claim(w, j))
         /\ WF_vars(\E w \in Workers : TerminalizeExpired(w, j))
         /\ WF_vars(BackoffElapses(j))
         /\ WF_vars(Orphaned(j) /\ LeaseExpires(j))

FairSpec == Spec /\ Fairness

FairSerialSpec == SerialSpec /\ Fairness

-----------------------------------------------------------------------------
(* Properties.                                                             *)

TypeOK ==
    /\ job \in [Jobs -> JobRow]
    /\ worker \in [Workers -> WorkerState]
    /\ client \in [Clients -> ClientState]
    /\ nextToken \in Nat \ {0}
    /\ requests \in Nat
    /\ crashes \in Nat
    /\ round \in [Jobs -> Nat]
    /\ outputs \subseteq [job : Jobs, round : Nat, token : Nat]
    /\ revoked \subseteq Jobs \X Nat

(* However attempts, reclaims, crashes and operator requests interleave,   *)
(* one round of a job (its enqueue, or one retry request) commits at most  *)
(* one output: a second one needs another retry request.                   *)
OneOutputPerRound ==
    \A o, p \in outputs : o.job = p.job /\ o.round = p.round => o = p

(* An attempt whose row was cancelled, requeued, reclaimed or terminalized *)
(* under it while running never commits its output afterwards.             *)
RevokedNeverPublishes ==
    \A o \in outputs : <<o.job, o.token>> \notin revoked

(* No row is running with a cancellation marked, so the cooperative        *)
(* cancellation paths of the worker are never what stops an attempt; and a *)
(* running row always has a lease that can expire, so it can be recovered. *)
RunningIsRecoverable ==
    \A j \in Jobs : job[j].status = "running" =>
        /\ ~ job[j].cancelMark
        /\ job[j].token # 0
        /\ job[j].lease # "none"

(* At most one worker process can still commit to a row.                   *)
OneOwner ==
    \A v, w \in Workers : Holds(v) /\ Holds(w) /\ worker[v].job = worker[w].job => v = w

(* The inductive invariant behind the four properties above.  Tokens are   *)
(* issued once; the token of a running row has neither been revoked nor    *)
(* published; a row that may still run has not published in its round; no  *)
(* two attempts share a token; a request loaded a row it may act on.       *)
TokensIssued ==
    /\ \A j \in Jobs : job[j].token < nextToken
    /\ \A w \in Workers : worker[w].token < nextToken
    /\ \A o \in outputs : o.token < nextToken
    /\ \A r \in revoked : r[2] < nextToken

LiveTokenUnused ==
    \A j \in Jobs : job[j].status = "running" =>
        /\ <<j, job[j].token>> \notin revoked
        /\ \A o \in outputs : o.job = j => o.token # job[j].token

OpenRoundUnpublished ==
    \A o \in outputs :
        /\ o.round <= round[o.job]
        /\ job[o.job].status \in {"absent", "queued", "running"} =>
              o.round < round[o.job]

DistinctAttempts ==
    \A v, w \in Workers :
        worker[v].pc # "idle" /\ worker[w].pc # "idle" /\ v # w =>
            worker[v].token # worker[w].token

LoadedActionable ==
    \A c \in Clients :
        /\ client[c].pc = "cancel" => client[c].loaded.status \in {"queued", "running"}
        /\ client[c].pc = "retry" => client[c].loaded.status \in {"failed", "cancelled"}

FencingInv ==
    /\ TypeOK
    /\ RunningIsRecoverable
    /\ TokensIssued
    /\ LiveTokenUnused
    /\ OpenRoundUnpublished
    /\ DistinctAttempts
    /\ LoadedActionable
    /\ OneOutputPerRound
    /\ RevokedNeverPublishes

(* docs/background-jobs.md: a cancelled job's attempt "can no longer       *)
(* commit partial output": a job that reads cancelled produced nothing in  *)
(* the round the cancellation ended.                                       *)
CancelledMeansNoOutput ==
    \A j \in Jobs : job[j].status = "cancelled" =>
        ~ \E o \in outputs : o.job = j /\ o.round = round[j]

(* docs/background-jobs.md: cancellation "is immediately persisted as      *)
(* terminal": a row marked cancelled is not waiting in the queue.          *)
CancellationIsTerminal ==
    \A j \in Jobs : job[j].cancelMark => job[j].status \in Terminal

(* docs/background-jobs.md: an abandoned job is reclaimed "until the       *)
(* bounded attempt budget is exhausted".                                   *)
AttemptBudget == \A j \in Jobs : job[j].attempts <= MaxAttempts

(* A queued row the dispatcher will never return: marked cancelled by one  *)
(* request while another put it back in the queue.                         *)
Stranded(j) == job[j].status = "queued" /\ job[j].cancelMark

-----------------------------------------------------------------------------
(* The abstract contract, and how a row shows which phase it is in.        *)

PhaseOf(r) ==
    IF r.status \in {"queued", "running"} THEN "open"
    ELSE IF r.status = "completed" THEN "published"
    ELSE IF r.status = "absent" THEN "absent"
    ELSE "closed"

Contract == INSTANCE JobContract WITH
    phase <- [j \in Jobs |-> PhaseOf(job[j])],
    published <- {<<o.job, o.round>> : o \in outputs}

(* With requests that never act on a stale read, the queue implements the  *)
(* contract: published and closed are final until a retry, and a job that  *)
(* is closed has published nothing in that round.                          *)
ImplementsContract == Contract!Spec

(* The same with the contract's liveness, under the fairness above.        *)
ImplementsFairContract == Contract!FairSpec

(* Every enqueued or retried job is eventually over, unless stranded.      *)
EventuallySettled ==
    \A j \in Jobs :
        job[j].status \in {"queued", "running"} ~>
            (job[j].status \in Terminal \/ Stranded(j))

=============================================================================
