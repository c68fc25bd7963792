------------------------ MODULE BackgroundJobsProofs ------------------------
(***************************************************************************)
(* Proofs about the job queue, for every set of jobs, workers and operator *)
(* requests and every attempt budget.                                      *)
(***************************************************************************)
EXTENDS BackgroundJobs, TLAPS

-----------------------------------------------------------------------------
(* Typing.  Each lemma types one of the three records a step replaces.     *)

LEMMA EmptyRecordsTyped ==
    NoRow \in JobRow /\ IdleWorker \in WorkerState /\ IdleClient \in ClientState
  BY DEF NoRow, JobRow, WorkerState, ClientState,
         Status, Terminal

LEMMA RowTyped ==
    ASSUME TypeOK, NEW j \in Jobs, NEW r \in JobRow, PutRow(j, r)
    PROVE  job' \in [Jobs -> JobRow]
  BY DEF TypeOK, PutRow

LEMMA WorkerTyped ==
    ASSUME TypeOK, NEW w \in Workers, worker[w].pc # "idle",
           NEW pc \in {"claimed", "executing", "failed", "fatal", "cancelling"},
           Goto(w, pc) \/ Release(w)
    PROVE  worker' \in [Workers -> WorkerState]
<1>1. worker[w] \in WorkerState
  BY DEF TypeOK
<1>2. [worker[w] EXCEPT !.pc = pc] \in WorkerState
  BY <1>1 DEF WorkerState, IdleWorker
<1>3. CASE Goto(w, pc)
  BY <1>2, <1>3 DEF Goto, TypeOK
<1>4. CASE Release(w)
  BY <1>4, EmptyRecordsTyped DEF Release, TypeOK
<1>5. QED
  BY <1>3, <1>4

LEMMA RevokeTyped ==
    ASSUME TypeOK, NEW j \in Jobs, Revoke(j)
    PROVE  revoked' \subseteq Jobs \X Nat
<1>1. job[j].token \in Nat
  BY DEF TypeOK, JobRow
<1>2. QED
  BY <1>1 DEF TypeOK, Revoke

(* The fields of an attempt and of a row that later steps rely on.         *)
LEMMA HeldRow ==
    ASSUME TypeOK, NEW w \in Workers, Holds(w)
    PROVE  /\ worker[w].job \in Jobs
           /\ job[worker[w].job] \in JobRow
           /\ worker[w].token \in Nat
  BY BoundsAssumption DEF TypeOK, Holds, WorkerState, IdleWorker

LEMMA FlushTyped ==
    ASSUME NEW now \in JobRow, NEW loaded \in JobRow
    PROVE  /\ FlushRow(now, loaded, Cancelled(now, loaded)) \in JobRow
           /\ FlushRow(now, loaded, Requeued(loaded)) \in JobRow
<1>1. Cancelled(now, loaded) \in JobRow /\ Requeued(loaded) \in JobRow
  BY DEF Cancelled, Requeued, JobRow, Status, Terminal
<1>2. ASSUME NEW assigned \in JobRow
      PROVE  FlushRow(now, loaded, assigned) \in JobRow
  BY <1>2 DEF FlushRow, Flushed, JobRow
<1>3. QED
  BY <1>1, <1>2

LEMMA TypeInductive == TypeOK /\ [Next]_vars => TypeOK'
<1> SUFFICES ASSUME TypeOK, [Next]_vars PROVE TypeOK'
  OBVIOUS
<1> USE DEF bounds, history
<1>0. nextToken \in Nat /\ \A j \in Jobs : job[j] \in JobRow
  BY DEF TypeOK
<1>1. ASSUME NEW j \in Jobs, Enqueue(j) PROVE TypeOK'
  <2>1. [NoRow EXCEPT !.status = "queued", !.available = TRUE] \in JobRow
    BY DEF NoRow, JobRow, Status
  <2>2. QED
    BY <1>1, <2>1, RowTyped DEF Enqueue, TypeOK
<1>2. ASSUME NEW j \in Jobs, LeaseExpires(j) PROVE TypeOK'
  <2>1. [job[j] EXCEPT !.lease = "expired"] \in JobRow
    BY <1>0 DEF JobRow
  <2>2. QED
    BY <1>2, <2>1, RowTyped DEF LeaseExpires, TypeOK
<1>3. ASSUME NEW j \in Jobs, BackoffElapses(j) PROVE TypeOK'
  <2>1. [job[j] EXCEPT !.available = TRUE] \in JobRow
    BY <1>0 DEF JobRow
  <2>2. QED
    BY <1>3, <2>1, RowTyped DEF BackoffElapses, TypeOK
<1>4. ASSUME NEW w \in Workers, NEW j \in Jobs, Claim(w, j) PROVE TypeOK'
  <2>0. job[j].attempts + 1 \in Nat
    BY <1>0 DEF JobRow
  <2>1. [job[j] EXCEPT !.status = "running", !.token = nextToken, !.lease = "valid",
                       !.attempts = job[j].attempts + 1] \in JobRow
    <3>1. \A n \in Nat :
            [job[j] EXCEPT !.status = "running", !.token = nextToken,
                           !.lease = "valid", !.attempts = n] \in JobRow
      BY <1>0 DEF JobRow, Status
    <3>2. QED
      BY <2>0, <3>1
  <2>2. [pc |-> "claimed", job |-> j, token |-> nextToken, signal |-> "none"]
            \in WorkerState
    BY DEF WorkerState, TypeOK
  <2>3. worker' \in [Workers -> WorkerState]
    BY <1>4, <2>2 DEF Claim, TypeOK
  <2>4. QED
    BY <1>4, <2>1, <2>3, RowTyped, RevokeTyped DEF Claim, TypeOK
<1>5. ASSUME NEW w \in Workers, NEW j \in Jobs, TerminalizeExpired(w, j) PROVE TypeOK'
  <2>1. [job[j] EXCEPT !.status = IF job[j].cancelMark THEN "cancelled" ELSE "failed",
                       !.token = 0, !.lease = "none"] \in JobRow
    BY <1>0 DEF JobRow, Status, Terminal
  <2>2. QED
    BY <1>5, <2>1, RowTyped, RevokeTyped DEF TerminalizeExpired, TypeOK
<1>6. ASSUME NEW w \in Workers, Load(w) PROVE TypeOK'
  <2>1. worker' \in [Workers -> WorkerState]
    BY <1>6, WorkerTyped DEF Load
  <2>2. QED
    BY <1>6, <2>1 DEF Load, TypeOK
<1>7. ASSUME NEW w \in Workers, ExecutorReturns(w) PROVE TypeOK'
  <2>1. worker' \in [Workers -> WorkerState]
    BY <1>7, WorkerTyped DEF ExecutorReturns, Complete
  <2>2. CASE Complete(w) /\ Holds(w)
    <3>1. [job[worker[w].job] EXCEPT !.status = "completed", !.token = 0,
                                     !.lease = "none"] \in JobRow
      BY <2>2, HeldRow DEF JobRow, Status, Terminal
    <3>2. job' \in [Jobs -> JobRow]
      BY <2>2, <3>1, HeldRow, RowTyped DEF Complete
    <3>3. outputs' \subseteq [job : Jobs, round : Nat, token : Nat]
      BY <2>2, HeldRow DEF Complete, TypeOK
    <3>4. QED
      BY <1>7, <2>1, <3>2, <3>3 DEF ExecutorReturns, TypeOK
  <2>3. CASE UNCHANGED <<job, outputs>>
    BY <1>7, <2>1, <2>3 DEF ExecutorReturns, TypeOK
  <2>4. QED
    BY <1>7, <2>2, <2>3 DEF ExecutorReturns
<1>8. ASSUME NEW w \in Workers, NEW kind \in {"failed", "fatal"}, ExecutorRaises(w, kind)
      PROVE  TypeOK'
  <2>1. worker' \in [Workers -> WorkerState]
    BY <1>8, WorkerTyped DEF ExecutorRaises
  <2>2. QED
    BY <1>8, <2>1 DEF ExecutorRaises, TypeOK
<1>9. ASSUME NEW w \in Workers, RecordOutcome(w) PROVE TypeOK'
  <2> DEFINE j == worker[w].job
             status == OutcomeStatus(job[j], worker[w].pc)
  <2>1. worker' \in [Workers -> WorkerState]
    BY <1>9, WorkerTyped DEF RecordOutcome
  <2>2. ASSUME Holds(w) PROVE job' \in [Jobs -> JobRow]
    <3>1. status \in Status
      BY DEF OutcomeStatus, Status, Terminal
    <3>2. [job[j] EXCEPT !.status = status, !.token = 0, !.lease = "none",
                         !.available = status # "queued" /\ job[j].available] \in JobRow
      BY <2>2, <3>1, HeldRow DEF JobRow
    <3>3. QED
      BY <1>9, <2>2, <3>2, HeldRow, RowTyped DEF RecordOutcome
  <2>3. QED
    BY <1>9, <2>1, <2>2 DEF RecordOutcome, TypeOK
<1>10. ASSUME NEW w \in Workers, Heartbeat(w) PROVE TypeOK'
  <2>1. CASE Holds(w) /\ ~ MarkedCancel(w)
    <3>1. [job[worker[w].job] EXCEPT !.lease = "valid"] \in JobRow
      BY <2>1, HeldRow DEF JobRow
    <3>2. QED
      BY <1>10, <2>1, <3>1, HeldRow, RowTyped DEF Heartbeat, TypeOK
  <2>2. CASE ~ (Holds(w) /\ ~ MarkedCancel(w))
    <3>1. [worker[w] EXCEPT !.signal = IF Holds(w) THEN "cancel" ELSE "lost"]
              \in WorkerState
      BY <1>10 DEF Heartbeat, TypeOK, WorkerState, IdleWorker
    <3>2. QED
      BY <1>10, <2>2, <3>1 DEF Heartbeat, TypeOK
  <2>3. QED
    BY <2>1, <2>2
<1>11. ASSUME NEW w \in Workers, HeartbeatFails(w) PROVE TypeOK'
  <2>1. [worker[w] EXCEPT !.signal = "lost"] \in WorkerState
    BY <1>11 DEF HeartbeatFails, TypeOK, WorkerState, IdleWorker
  <2>2. QED
    BY <1>11, <2>1 DEF HeartbeatFails, TypeOK
<1>12. ASSUME NEW w \in Workers, Crash(w) PROVE TypeOK'
  BY <1>12, EmptyRecordsTyped DEF Crash, Release, TypeOK
<1>13. ASSUME NEW c \in Clients, NEW j \in Jobs, NEW op \in {"cancel", "retry"},
              ReadRow(c, j, op)
       PROVE  TypeOK'
  <2>1. [pc |-> op, job |-> j, loaded |-> job[j]] \in ClientState
    BY <1>0 DEF ClientState
  <2>2. QED
    BY <1>13, <2>1 DEF ReadRow, TypeOK
<1>14. ASSUME NEW c \in Clients, FlushCancel(c) \/ FlushRetry(c)
       PROVE  TypeOK'
  <2> DEFINE j == client[c].job
             r == client[c].loaded
  <2>1. j \in Jobs /\ r \in JobRow
    BY <1>14 DEF FlushCancel, FlushRetry, TypeOK, ClientState, IdleClient
  <2>2. job' \in [Jobs -> JobRow]
    BY <1>0, <1>14, <2>1, FlushTyped, RowTyped DEF FlushCancel, FlushRetry
  <2>3. revoked' \subseteq Jobs \X Nat
    BY <1>14, <2>1, RevokeTyped DEF FlushCancel, FlushRetry
  <2>4. QED
    BY <1>14, <2>1, <2>2, <2>3, EmptyRecordsTyped DEF FlushCancel, FlushRetry, TypeOK
<1>15. CASE UNCHANGED vars
  BY <1>15 DEF vars, TypeOK
<1>16. QED
  BY <1>1, <1>2, <1>3, <1>4, <1>5, <1>6, <1>7, <1>8, <1>9, <1>10, <1>11,
     <1>12, <1>13, <1>14, <1>15 DEF Next, Background, Attempt

(* TypeOK is an invariant of the queue, whatever operator requests race.   *)
THEOREM TypeCorrect == Spec => []TypeOK
<1>1. Init => TypeOK
  BY EmptyRecordsTyped DEF Init, TypeOK
<1>2. QED
  BY <1>1, TypeInductive, PTL DEF Spec

-----------------------------------------------------------------------------
(* Fencing.                                                                *)

(* What the proof needs to know of the rows: status, token, lease, mark.   *)
LEMMA RowFields ==
    ASSUME TypeOK, NEW j \in Jobs
    PROVE  /\ job[j].token \in Nat
           /\ job[j].status \in Status
           /\ nextToken \in Nat
           /\ round[j] \in Nat
  BY DEF TypeOK, JobRow

LEMMA PutRowFrame ==
    ASSUME TypeOK, NEW j \in Jobs, NEW r, PutRow(j, r)
    PROVE  job'[j] = r /\ \A k \in Jobs \ {j} : job'[k] = job[k]
  BY DEF TypeOK, PutRow

LEMMA RevokeFrame ==
    ASSUME NEW j \in Jobs, Revoke(j)
    PROVE  \A r \in revoked' : r \in revoked \/ (r = <<j, job[j].token>>
                                                   /\ job[j].status = "running")
  BY DEF Revoke

(* Only a claim starts an attempt; every other step keeps the token of an  *)
(* attempt that goes on.                                                   *)
AttemptsKept ==
    /\ nextToken' = nextToken
    /\ \A v \in Workers : worker'[v].pc # "idle" =>
          worker[v].pc # "idle" /\ worker'[v].token = worker[v].token

LEMMA AttemptFrame ==
    ASSUME TypeOK, NEW w \in Workers, worker[w].pc # "idle",
           NEW pc \in {"claimed", "executing", "failed", "fatal", "cancelling"},
           Goto(w, pc) \/ Release(w), nextToken' = nextToken
    PROVE  AttemptsKept
<1>1. worker[w] \in WorkerState /\ [worker[w] EXCEPT !.pc = pc].token = worker[w].token
  BY DEF TypeOK, WorkerState
<1>2. \A v \in Workers \ {w} : worker'[v] = worker[v]
  BY DEF Goto, Release, TypeOK
<1>3. CASE Goto(w, pc)
  <2>1. worker'[w] = [worker[w] EXCEPT !.pc = pc]
    BY <1>3 DEF Goto, TypeOK
  <2>2. QED
    BY <1>1, <1>2, <2>1 DEF AttemptsKept
<1>4. CASE Release(w)
  <2>1. worker'[w] = IdleWorker
    BY <1>4 DEF Release, TypeOK
  <2>2. QED
    BY <1>2, <2>1 DEF AttemptsKept, IdleWorker
<1>5. QED
  BY <1>3, <1>4

LEMMA StepKeepsAttempts ==
    ASSUME TypeOK, [Next]_vars
    PROVE  AttemptsKept \/ \E w \in Workers, j \in Jobs : Claim(w, j)
<1> USE DEF bounds, history
<1>1. ASSUME UNCHANGED <<worker, nextToken>> PROVE AttemptsKept
  BY <1>1 DEF AttemptsKept
<1>2. ASSUME NEW w \in Workers, Attempt(w) \/ Crash(w) PROVE AttemptsKept
  BY <1>2, AttemptFrame DEF Attempt, Crash, Load, ExecutorReturns, Complete,
     ExecutorRaises, RecordOutcome
<1>3. ASSUME NEW w \in Workers, NEW s \in {"lost", "cancel"}, nextToken' = nextToken,
             worker' = [worker EXCEPT ![w].signal = s], worker[w].pc # "idle"
      PROVE  AttemptsKept
  <2>1. worker[w] \in WorkerState
    BY DEF TypeOK
  <2>2. worker'[w].token = worker[w].token
    BY <1>3, <2>1 DEF TypeOK, WorkerState
  <2>3. \A v \in Workers \ {w} : worker'[v] = worker[v]
    BY <1>3 DEF TypeOK
  <2>4. QED
    BY <1>3, <2>2, <2>3 DEF AttemptsKept
<1>4. ASSUME NEW w \in Workers, Heartbeat(w) \/ HeartbeatFails(w) PROVE AttemptsKept
  BY <1>1, <1>3, <1>4 DEF Heartbeat, HeartbeatFails
<1>5. QED
  BY <1>1, <1>2, <1>4 DEF Next, Background, Enqueue, LeaseExpires, BackoffElapses,
     TerminalizeExpired, ReadRow, FlushCancel, FlushRetry, vars

-----------------------------------------------------------------------------
(* The part of the invariant about rows and history, and the kinds of step *)
(* that matter to it.                                                      *)
RowInv ==
    /\ RunningIsRecoverable
    /\ \A j \in Jobs : job[j].token < nextToken
    /\ \A o \in outputs : o.token < nextToken
    /\ \A r \in revoked : r[2] < nextToken
    /\ LiveTokenUnused
    /\ OpenRoundUnpublished
    /\ OneOutputPerRound
    /\ RevokedNeverPublishes

(* No row changes in anything the invariant mentions.                      *)
RowsKept ==
    /\ UNCHANGED <<nextToken, round, outputs, revoked>>
    /\ \A j \in Jobs :
         /\ job'[j].status = job[j].status
         /\ job'[j].token = job[j].token
         /\ job'[j].cancelMark = job[j].cancelMark
         /\ job'[j].lease = "none" => job[j].lease = "none"

(* Row j stops running, or was not running and still is not; unless it is  *)
(* put back for a new round it is open only if it was.                     *)
RowStops(j) ==
    /\ UNCHANGED <<nextToken, outputs>>
    /\ \A k \in Jobs \ {j} : job'[k] = job[k] /\ round'[k] = round[k]
    /\ job'[j].status # "running"
    /\ job'[j].token \in {0, job[j].token}
    /\ revoked' = revoked \/ Revoke(j)
    /\ \/ round'[j] = round[j] + 1
       \/ /\ round'[j] = round[j]
          /\ job'[j].status \in {"absent", "queued"} =>
                job[j].status \in {"absent", "queued", "running"}

LEMMA RowsKeptInv == TypeOK /\ RowInv /\ RowsKept => RowInv'
  BY DEF RowInv, RowsKept, RunningIsRecoverable, LiveTokenUnused,
     OpenRoundUnpublished, OneOutputPerRound, RevokedNeverPublishes, TypeOK

LEMMA RowStopsInv ==
    ASSUME TypeOK, RowInv, NEW j \in Jobs, RowStops(j)
    PROVE  RowInv'
<1>0. /\ job[j].token \in Nat /\ nextToken \in Nat \ {0} /\ round[j] \in Nat
      /\ outputs \subseteq [job : Jobs, round : Nat, token : Nat]
      /\ \A r \in revoked' : r \in revoked \/ (r = <<j, job[j].token>>
                                                /\ job[j].status = "running")
  BY RowFields, RevokeFrame DEF RowStops, TypeOK
<1>1. RunningIsRecoverable' /\ OneOutputPerRound'
  BY DEF RowInv, RowStops, RunningIsRecoverable, OneOutputPerRound
<1>2. /\ \A k \in Jobs : job'[k].token < nextToken'
      /\ \A o \in outputs' : o.token < nextToken'
      /\ \A r \in revoked' : r[2] < nextToken'
  BY <1>0 DEF RowInv, RowStops
<1>3. LiveTokenUnused'
  BY <1>0 DEF RowInv, RowStops, LiveTokenUnused
<1>4. OpenRoundUnpublished'
  BY <1>0 DEF RowInv, RowStops, OpenRoundUnpublished
<1>5. RevokedNeverPublishes'
  BY <1>0 DEF RowInv, RowStops, LiveTokenUnused, RevokedNeverPublishes
<1>6. QED
  BY <1>1, <1>2, <1>3, <1>4, <1>5 DEF RowInv

LEMMA ClaimInv ==
    ASSUME TypeOK, RowInv, NEW w \in Workers, NEW j \in Jobs, Claim(w, j)
    PROVE  RowInv'
<1>0. /\ job[j] \in JobRow /\ nextToken \in Nat \ {0} /\ round[j] \in Nat
      /\ outputs \subseteq [job : Jobs, round : Nat, token : Nat]
      /\ revoked \subseteq Jobs \X Nat
      /\ \A r \in revoked' : r \in revoked \/ (r = <<j, job[j].token>>
                                                /\ job[j].status = "running")
      /\ nextToken' = nextToken + 1 /\ outputs' = outputs /\ round' = round
  BY RevokeFrame DEF Claim, TypeOK
<1>1. /\ job'[j].status = "running" /\ job'[j].token = nextToken
      /\ job'[j].lease = "valid" /\ job'[j].cancelMark = FALSE
      /\ \A k \in Jobs \ {j} : job'[k] = job[k]
  <2>1. /\ job'[j] = [job[j] EXCEPT !.status = "running", !.token = nextToken,
                        !.lease = "valid", !.attempts = job[j].attempts + 1]
        /\ \A k \in Jobs \ {j} : job'[k] = job[k]
    BY PutRowFrame DEF Claim
  <2>2. ~ job[j].cancelMark /\ job[j].cancelMark \in BOOLEAN
    BY <1>0 DEF Claim, Runnable, JobRow
  <2>3. job'[j].cancelMark = job[j].cancelMark
    BY <1>0, <2>1 DEF JobRow
  <2>4. QED
    BY <1>0, <2>1, <2>2, <2>3 DEF JobRow
<1>2. \A k \in Jobs : job[k].token \in Nat
  BY RowFields
<1>3. job[j].status \in {"queued", "running"}
  BY DEF Claim, Runnable
<1>4. RunningIsRecoverable' /\ OneOutputPerRound'
  BY <1>0, <1>1 DEF RowInv, RunningIsRecoverable, OneOutputPerRound
<1>5. /\ \A k \in Jobs : job'[k].token < nextToken'
      /\ \A o \in outputs' : o.token < nextToken'
      /\ \A r \in revoked' : r[2] < nextToken'
  BY <1>0, <1>1, <1>2 DEF RowInv
<1>6. LiveTokenUnused'
  BY <1>0, <1>1, <1>2 DEF RowInv, LiveTokenUnused
<1>7. OpenRoundUnpublished'
  BY <1>0, <1>1, <1>3 DEF RowInv, OpenRoundUnpublished
<1>8. RevokedNeverPublishes'
  BY <1>0 DEF RowInv, LiveTokenUnused, RevokedNeverPublishes
<1>9. QED
  BY <1>4, <1>5, <1>6, <1>7, <1>8 DEF RowInv

LEMMA CompleteInv ==
    ASSUME TypeOK, RowInv, NEW w \in Workers, Holds(w), Complete(w),
           UNCHANGED <<nextToken, round, revoked>>
    PROVE  RowInv'
<1> DEFINE j == worker[w].job
           o == [job |-> j, round |-> round[j], token |-> worker[w].token]
<1>0. /\ j \in Jobs /\ job[j] \in JobRow /\ round[j] \in Nat /\ nextToken \in Nat \ {0}
      /\ job[j].status = "running" /\ worker[w].token = job[j].token
      /\ outputs \subseteq [job : Jobs, round : Nat, token : Nat]
      /\ outputs' = outputs \cup {o}
  BY HeldRow DEF Holds, Complete, TypeOK
<1>1. /\ job'[j].status = "completed" /\ job'[j].token = 0
      /\ \A k \in Jobs \ {j} : job'[k] = job[k]
  <2>1. /\ job'[j] = [job[j] EXCEPT !.status = "completed", !.token = 0,
                                    !.lease = "none"]
        /\ \A k \in Jobs \ {j} : job'[k] = job[k]
    BY <1>0, PutRowFrame DEF Complete
  <2>2. QED
    BY <1>0, <2>1 DEF JobRow
<1>2. RunningIsRecoverable'
  BY <1>0, <1>1 DEF RowInv, RunningIsRecoverable
<1>3. OneOutputPerRound'
  BY <1>0 DEF RowInv, OneOutputPerRound, OpenRoundUnpublished
<1>4. /\ \A k \in Jobs : job'[k].token < nextToken'
      /\ \A p \in outputs' : p.token < nextToken'
      /\ \A r \in revoked' : r[2] < nextToken'
  BY <1>0, <1>1 DEF RowInv
<1>5. LiveTokenUnused'
  BY <1>0, <1>1 DEF RowInv, LiveTokenUnused
<1>6. OpenRoundUnpublished'
  BY <1>0, <1>1 DEF RowInv, OpenRoundUnpublished
<1>7. RevokedNeverPublishes'
  <2>1. <<j, job[j].token>> \notin revoked
    BY <1>0 DEF RowInv, LiveTokenUnused
  <2>2. o.job = j /\ o.token = job[j].token
    BY <1>0
  <2>3. QED
    BY <1>0, <2>1, <2>2 DEF RowInv, RevokedNeverPublishes
<1>8. QED
  BY <1>2, <1>3, <1>4, <1>5, <1>6, <1>7 DEF RowInv

(* The statuses a flush can leave, given what the request loaded.          *)
LEMMA FlushFields ==
    ASSUME NEW now \in JobRow, NEW loaded \in JobRow
    PROVE  /\ loaded.status # "cancelled" =>
                FlushRow(now, loaded, Cancelled(now, loaded)).status = "cancelled"
           /\ FlushRow(now, loaded, Cancelled(now, loaded)).token \in {0, now.token}
           /\ loaded.status # "queued" =>
                FlushRow(now, loaded, Requeued(loaded)).status = "queued"
           /\ FlushRow(now, loaded, Requeued(loaded)).token \in {0, now.token}
  BY DEF FlushRow, Flushed, Cancelled, Requeued, JobRow

LEMMA RowInductive ==
    ASSUME TypeOK, RowInv, LoadedActionable, [Next]_vars
    PROVE  RowInv'
<1> USE DEF bounds, history
<1>0. \A j \in Jobs : job[j] \in JobRow
  BY DEF TypeOK
<1>1. ASSUME UNCHANGED <<job, nextToken, round, outputs, revoked>> PROVE RowInv'
  BY <1>1, RowsKeptInv DEF RowsKept
<1>2. ASSUME NEW j \in Jobs, Enqueue(j) PROVE RowInv'
  <2>1. /\ job'[j].status = "queued" /\ job'[j].token = 0
        /\ \A k \in Jobs \ {j} : job'[k] = job[k]
    <3>1. /\ job'[j] = [NoRow EXCEPT !.status = "queued", !.available = TRUE]
          /\ \A k \in Jobs \ {j} : job'[k] = job[k]
      BY <1>2, PutRowFrame DEF Enqueue
    <3>2. QED
      BY <3>1 DEF NoRow
  <2>2. RowStops(j)
    BY <1>2, <2>1 DEF Enqueue, RowStops
  <2>3. QED
    BY <2>2, RowStopsInv
<1>3. ASSUME NEW j \in Jobs, LeaseExpires(j) \/ BackoffElapses(j) PROVE RowInv'
  <2>1. \/ job'[j] = [job[j] EXCEPT !.lease = "expired"] /\ job[j].lease = "valid"
        \/ job'[j] = [job[j] EXCEPT !.available = TRUE]
    BY <1>3, PutRowFrame DEF LeaseExpires, BackoffElapses
  <2>2. \A k \in Jobs \ {j} : job'[k] = job[k]
    BY <1>3, PutRowFrame DEF LeaseExpires, BackoffElapses
  <2>3. RowsKept
    BY <1>0, <1>3, <2>1, <2>2 DEF LeaseExpires, BackoffElapses, RowsKept, JobRow
  <2>4. QED
    BY <2>3, RowsKeptInv
<1>4. ASSUME NEW w \in Workers, NEW j \in Jobs, Claim(w, j) PROVE RowInv'
  BY <1>4, ClaimInv
<1>5. ASSUME NEW w \in Workers, NEW j \in Jobs, TerminalizeExpired(w, j) PROVE RowInv'
  <2>1. /\ job'[j] = [job[j] EXCEPT
                        !.status = IF job[j].cancelMark THEN "cancelled" ELSE "failed",
                        !.token = 0, !.lease = "none"]
        /\ \A k \in Jobs \ {j} : job'[k] = job[k]
    BY <1>5, PutRowFrame DEF TerminalizeExpired
  <2>2. job'[j].status \in {"cancelled", "failed"} /\ job'[j].token = 0
    BY <1>0, <2>1 DEF JobRow
  <2>3. RowStops(j)
    BY <1>5, <2>1, <2>2 DEF TerminalizeExpired, RowStops
  <2>4. QED
    BY <2>3, RowStopsInv
<1>6. ASSUME NEW w \in Workers, ExecutorReturns(w) PROVE RowInv'
  <2>1. CASE Holds(w) /\ Complete(w)
    BY <1>6, <2>1, CompleteInv DEF ExecutorReturns
  <2>2. CASE UNCHANGED <<job, outputs>>
    BY <1>1, <1>6, <2>2 DEF ExecutorReturns
  <2>3. QED
    BY <1>6, <2>1, <2>2 DEF ExecutorReturns
<1>7. ASSUME NEW w \in Workers, RecordOutcome(w) PROVE RowInv'
  <2> DEFINE j == worker[w].job
             status == OutcomeStatus(job[j], worker[w].pc)
  <2>1. CASE Holds(w)
    <3>1. j \in Jobs /\ job[j].status = "running"
      BY <2>1 DEF Holds
    <3>2. /\ job'[j] = [job[j] EXCEPT
                          !.status = status, !.token = 0, !.lease = "none",
                          !.available = status # "queued" /\ job[j].available]
          /\ \A k \in Jobs \ {j} : job'[k] = job[k]
      BY <1>7, <2>1, <3>1, PutRowFrame DEF RecordOutcome
    <3>3. job'[j].status = status /\ job'[j].token = 0
      BY <1>0, <3>1, <3>2 DEF JobRow
    <3>4. status # "running"
      BY DEF OutcomeStatus
    <3>5. RowStops(j)
      BY <1>7, <3>1, <3>2, <3>3, <3>4 DEF RecordOutcome, RowStops
    <3>6. QED
      BY <3>1, <3>5, RowStopsInv
  <2>2. CASE ~ Holds(w)
    BY <1>1, <1>7, <2>2 DEF RecordOutcome
  <2>3. QED
    BY <2>1, <2>2
<1>8. ASSUME NEW w \in Workers, Heartbeat(w) PROVE RowInv'
  <2>1. CASE Holds(w) /\ ~ MarkedCancel(w)
    <3> DEFINE j == worker[w].job
    <3>1. j \in Jobs
      BY <2>1 DEF Holds
    <3>2. /\ job'[j] = [job[j] EXCEPT !.lease = "valid"]
          /\ \A k \in Jobs \ {j} : job'[k] = job[k]
      BY <1>8, <2>1, <3>1, PutRowFrame DEF Heartbeat
    <3>3. RowsKept
      BY <1>0, <1>8, <3>1, <3>2 DEF Heartbeat, RowsKept, JobRow
    <3>4. QED
      BY <3>3, RowsKeptInv
  <2>2. CASE ~ (Holds(w) /\ ~ MarkedCancel(w))
    BY <1>1, <1>8, <2>2 DEF Heartbeat
  <2>3. QED
    BY <2>1, <2>2
<1>9. ASSUME NEW c \in Clients, FlushCancel(c) PROVE RowInv'
  <2> DEFINE j == client[c].job
             r == client[c].loaded
             new == FlushRow(job[j], r, Cancelled(job[j], r))
  <2>1. j \in Jobs /\ r \in JobRow /\ r.status \in {"queued", "running"}
    BY <1>9 DEF FlushCancel, LoadedActionable, TypeOK, ClientState, IdleClient
  <2>2. job'[j] = new /\ \A k \in Jobs \ {j} : job'[k] = job[k]
    BY <1>9, <2>1, PutRowFrame DEF FlushCancel
  <2>3. new.status = "cancelled" /\ new.token \in {0, job[j].token}
    BY <1>0, <2>1, FlushFields
  <2>4. RowStops(j)
    BY <1>9, <2>2, <2>3 DEF FlushCancel, RowStops
  <2>5. QED
    BY <2>1, <2>4, RowStopsInv
<1>10. ASSUME NEW c \in Clients, FlushRetry(c) PROVE RowInv'
  <2> DEFINE j == client[c].job
             r == client[c].loaded
             new == FlushRow(job[j], r, Requeued(r))
  <2>1. j \in Jobs /\ r \in JobRow /\ r.status \in {"failed", "cancelled"}
    BY <1>10 DEF FlushRetry, LoadedActionable, TypeOK, ClientState, IdleClient
  <2>2. job'[j] = new /\ \A k \in Jobs \ {j} : job'[k] = job[k]
    BY <1>10, <2>1, PutRowFrame DEF FlushRetry
  <2>3. new.status = "queued" /\ new.token \in {0, job[j].token}
    BY <1>0, <2>1, FlushFields
  <2>4. round'[j] = round[j] + 1 /\ \A k \in Jobs \ {j} : round'[k] = round[k]
    BY <1>10, <2>1 DEF FlushRetry, TypeOK
  <2>5. RowStops(j)
    BY <1>10, <2>2, <2>3, <2>4 DEF FlushRetry, RowStops
  <2>6. QED
    BY <2>1, <2>5, RowStopsInv
<1>11. QED
  BY <1>1, <1>2, <1>3, <1>4, <1>5, <1>6, <1>7, <1>8, <1>9, <1>10
  DEF Next, Background, Attempt, Load, ExecutorRaises, HeartbeatFails, Crash,
      ReadRow, vars

LEMMA LoadedInductive ==
    ASSUME TypeOK, LoadedActionable, [Next]_vars
    PROVE  LoadedActionable'
<1> USE DEF bounds, history
<1>1. ASSUME NEW c \in Clients, NEW j \in Jobs, NEW op \in {"cancel", "retry"},
             ReadRow(c, j, op)
      PROVE  LoadedActionable'
  <2>1. job[j].status \in Status
    BY RowFields
  <2>2. QED
    BY <1>1, <2>1 DEF ReadRow, Refuses, LoadedActionable, TypeOK, Status, Terminal
<1>2. ASSUME NEW c \in Clients, FlushCancel(c) \/ FlushRetry(c)
      PROVE  LoadedActionable'
  BY <1>2 DEF FlushCancel, FlushRetry, LoadedActionable, TypeOK, IdleClient
<1>3. CASE UNCHANGED client
  BY <1>3 DEF LoadedActionable
<1>4. QED
  BY <1>1, <1>2, <1>3
  DEF Next, Background, Attempt, Enqueue, LeaseExpires, BackoffElapses, Claim,
      TerminalizeExpired, Load, ExecutorReturns, ExecutorRaises, RecordOutcome,
      Heartbeat, HeartbeatFails, Crash, vars

LEMMA AttemptsInductive ==
    ASSUME TypeOK, TypeOK', [Next]_vars, DistinctAttempts,
           \A w \in Workers : worker[w].token < nextToken
    PROVE  DistinctAttempts' /\ \A w \in Workers : worker'[w].token < nextToken'
<1>0. nextToken \in Nat \ {0} /\ \A w \in Workers : worker'[w].pc = "idle" => worker'[w].token = 0
  BY DEF TypeOK, WorkerState, IdleWorker
<1>1. CASE AttemptsKept
  BY <1>0, <1>1 DEF AttemptsKept, DistinctAttempts
<1>2. ASSUME NEW w \in Workers, NEW j \in Jobs, Claim(w, j)
      PROVE  DistinctAttempts' /\ \A v \in Workers : worker'[v].token < nextToken'
  <2>1. /\ worker'[w].token = nextToken /\ nextToken' = nextToken + 1
        /\ \A v \in Workers \ {w} : worker'[v] = worker[v]
    BY <1>2 DEF Claim, TypeOK
  <2>2. \A v \in Workers : worker[v].token \in Nat
    BY DEF TypeOK, WorkerState, IdleWorker
  <2>3. QED
    BY <1>0, <2>1, <2>2 DEF DistinctAttempts
<1>3. QED
  BY <1>1, <1>2, StepKeepsAttempts

(* The inductive invariant is one: no operator request, however stale what *)
(* it read, lets an attempt commit that the row no longer belongs to.      *)
THEOREM Fencing == Spec => []FencingInv
<1>1. Init => FencingInv
  <2>1. Init => TypeOK
    BY EmptyRecordsTyped DEF Init, TypeOK
  <2>2. Init => RowInv
    BY DEF Init, RowInv, RunningIsRecoverable, LiveTokenUnused, OpenRoundUnpublished,
       OneOutputPerRound, RevokedNeverPublishes, NoRow
  <2>3. Init => DistinctAttempts /\ LoadedActionable /\ \A w \in Workers : worker[w].token < nextToken
    BY DEF Init, DistinctAttempts, LoadedActionable, IdleWorker, IdleClient
  <2>4. QED
    BY <2>1, <2>2, <2>3 DEF RowInv, FencingInv, TokensIssued
<1>2. FencingInv /\ [Next]_vars => FencingInv'
  <2> SUFFICES ASSUME FencingInv, [Next]_vars PROVE FencingInv'
    OBVIOUS
  <2>1. TypeOK /\ TypeOK' /\ RowInv /\ LoadedActionable
    BY TypeInductive DEF FencingInv, RowInv, TokensIssued
  <2>2. RowInv'
    BY <2>1, RowInductive
  <2>3. LoadedActionable'
    BY <2>1, LoadedInductive
  <2>4. DistinctAttempts' /\ \A w \in Workers : worker'[w].token < nextToken'
    BY <2>1, AttemptsInductive DEF FencingInv, TokensIssued
  <2>5. QED
    BY <2>1, <2>2, <2>3, <2>4 DEF FencingInv, RowInv, TokensIssued
<1>3. QED
  BY <1>1, <1>2, PTL DEF Spec

(* One round of a job commits at most one output.                          *)
THEOREM AtMostOneOutput == Spec => []OneOutputPerRound
  BY Fencing, PTL DEF FencingInv

(* An attempt that lost its row while running never commits.               *)
THEOREM RevokedAttemptsAreFenced == Spec => []RevokedNeverPublishes
  BY Fencing, PTL DEF FencingInv

(* A running row has a lease that can expire and is not marked cancelled,  *)
(* whatever stale requests flushed over it: recovery always finds it.      *)
THEOREM RunningStaysRecoverable == Spec => []RunningIsRecoverable
  BY Fencing, PTL DEF FencingInv

(* At most one worker can still commit to a row.                           *)
THEOREM SingleOwner == Spec => []OneOwner
<1>1. FencingInv => OneOwner
  BY BoundsAssumption DEF FencingInv, DistinctAttempts, OneOwner, Holds, TypeOK,
     WorkerState, IdleWorker
<1>2. QED
  BY <1>1, Fencing, PTL

-----------------------------------------------------------------------------
(* The contract.  Operator requests that never act on a stale read.        *)

LEMMA SerialIsSpec == SerialSpec => Spec
<1>1. [SerialNext]_vars => [Next]_vars
  BY DEF SerialNext, Next
<1>2. QED
  BY <1>1, PTL DEF SerialSpec, Spec

(* The contract's state, as the queue shows it.                            *)
PhaseBar == [j \in Jobs |-> PhaseOf(job[j])]
PublishedBar == {<<o.job, o.round>> : o \in outputs}

(* A step that moves no row to another phase is invisible.                 *)
LEMMA Invisible ==
    ASSUME UNCHANGED <<round, outputs>>,
           \A j \in Jobs : PhaseOf(job'[j]) = PhaseOf(job[j])
    PROVE  UNCHANGED Contract!vars
  BY DEF Contract!vars

(* A step that puts one row in another phase is that contract action.      *)
LEMMA PhaseMove ==
    ASSUME NEW j \in Jobs, NEW r, PhaseOf(job'[j]) = r,
           \A k \in Jobs \ {j} : job'[k] = job[k]
    PROVE  PhaseBar' = [PhaseBar EXCEPT ![j] = r]
  BY DEF PhaseBar

LEMMA StepImplements ==
    ASSUME FencingInv, [SerialNext]_vars
    PROVE  [Contract!Next]_(Contract!vars)
<1> USE DEF bounds, history
<1>0. TypeOK /\ \A j \in Jobs : job[j] \in JobRow
  BY DEF FencingInv, TypeOK
<1>1. ASSUME UNCHANGED <<job, round, outputs>> PROVE UNCHANGED Contract!vars
  BY <1>1 DEF Contract!vars
<1>2. ASSUME NEW j \in Jobs, Enqueue(j) PROVE Contract!Submit(j)
  <2>1. /\ job'[j] = [NoRow EXCEPT !.status = "queued", !.available = TRUE]
        /\ \A k \in Jobs \ {j} : job'[k] = job[k]
    BY <1>0, <1>2, PutRowFrame DEF Enqueue
  <2>2. PhaseOf(job[j]) = "absent" /\ PhaseOf(job'[j]) = "open"
    BY <1>2, <2>1 DEF Enqueue, PhaseOf, NoRow
  <2>3. QED
    BY <1>2, <2>1, <2>2, PhaseMove DEF Enqueue, Contract!Submit, PhaseBar
<1>3. ASSUME NEW j \in Jobs, LeaseExpires(j) \/ BackoffElapses(j)
      PROVE  UNCHANGED Contract!vars
  <2>1. \/ job'[j] = [job[j] EXCEPT !.lease = "expired"]
        \/ job'[j] = [job[j] EXCEPT !.available = TRUE]
    BY <1>0, <1>3, PutRowFrame DEF LeaseExpires, BackoffElapses
  <2>2. \A k \in Jobs \ {j} : job'[k] = job[k]
    BY <1>0, <1>3, PutRowFrame DEF LeaseExpires, BackoffElapses
  <2>3. job'[j].status = job[j].status
    BY <1>0, <2>1 DEF JobRow
  <2>4. QED
    BY <1>3, <2>2, <2>3, Invisible DEF LeaseExpires, BackoffElapses, PhaseOf
<1>4. ASSUME NEW w \in Workers, NEW j \in Jobs, Claim(w, j)
      PROVE  UNCHANGED Contract!vars
  <2>1. /\ job'[j] = [job[j] EXCEPT !.status = "running", !.token = nextToken,
                        !.lease = "valid", !.attempts = job[j].attempts + 1]
        /\ \A k \in Jobs \ {j} : job'[k] = job[k]
    BY <1>0, <1>4, PutRowFrame DEF Claim
  <2>2. job'[j].status = "running" /\ job[j].status \in {"queued", "running"}
    BY <1>0, <1>4, <2>1 DEF Claim, Runnable, JobRow
  <2>3. QED
    BY <1>4, <2>1, <2>2, Invisible DEF Claim, PhaseOf
<1>5. ASSUME NEW w \in Workers, NEW j \in Jobs, TerminalizeExpired(w, j)
      PROVE  Contract!Close(j)
  <2>1. /\ job'[j] = [job[j] EXCEPT
                        !.status = IF job[j].cancelMark THEN "cancelled" ELSE "failed",
                        !.token = 0, !.lease = "none"]
        /\ \A k \in Jobs \ {j} : job'[k] = job[k]
    BY <1>0, <1>5, PutRowFrame DEF TerminalizeExpired
  <2>2. job'[j].status \in {"cancelled", "failed"} /\ job[j].status = "running"
    BY <1>0, <1>5, <2>1 DEF TerminalizeExpired, Exhausted, JobRow
  <2>3. PhaseOf(job[j]) = "open" /\ PhaseOf(job'[j]) = "closed"
    BY <2>2 DEF PhaseOf
  <2>4. QED
    BY <1>5, <2>1, <2>3, PhaseMove DEF TerminalizeExpired, Contract!Close, PhaseBar
<1>6. ASSUME NEW w \in Workers, ExecutorReturns(w)
      PROVE  UNCHANGED Contract!vars \/ \E j \in Jobs : Contract!Publish(j)
  <2> DEFINE j == worker[w].job
  <2>1. CASE Holds(w) /\ Complete(w)
    <3>1. j \in Jobs /\ job[j].status = "running"
      BY <2>1 DEF Holds
    <3>2. /\ job'[j] = [job[j] EXCEPT !.status = "completed", !.token = 0,
                                      !.lease = "none"]
          /\ \A k \in Jobs \ {j} : job'[k] = job[k]
      BY <1>0, <2>1, <3>1, PutRowFrame DEF Complete
    <3>3. job'[j].status = "completed"
      BY <1>0, <3>1, <3>2 DEF JobRow
    <3>4. PhaseOf(job[j]) = "open" /\ PhaseOf(job'[j]) = "published"
      BY <3>1, <3>3 DEF PhaseOf
    <3>5. \A o \in outputs : o.job = j => o.round # round[j]
      BY <1>0, <3>1 DEF FencingInv, OpenRoundUnpublished, TypeOK
    <3>6. <<j, round[j]>> \notin PublishedBar
      BY <3>5 DEF PublishedBar
    <3>7. PublishedBar' = PublishedBar \cup {<<j, round[j]>>}
      <4> DEFINE o == [job |-> j, round |-> round[j], token |-> worker[w].token]
      <4>1. outputs' = outputs \cup {o}
        BY <2>1 DEF Complete
      <4>2. o.job = j /\ o.round = round[j]
        OBVIOUS
      <4> HIDE DEF o
      <4>3. QED
        BY <4>1, <4>2 DEF PublishedBar
    <3>8. Contract!Publish(j)
      BY <1>6, <3>1, <3>2, <3>4, <3>6, <3>7, PhaseMove
      DEF ExecutorReturns, Contract!Publish, PhaseBar, PublishedBar
    <3>9. QED
      BY <3>1, <3>8 DEF Contract!Publish
  <2>2. CASE UNCHANGED <<job, outputs>>
    BY <1>1, <1>6, <2>2 DEF ExecutorReturns
  <2>3. QED
    BY <1>6, <2>1, <2>2 DEF ExecutorReturns
<1>7. ASSUME NEW w \in Workers, RecordOutcome(w)
      PROVE  UNCHANGED Contract!vars \/ \E j \in Jobs : Contract!Close(j)
  <2> DEFINE j == worker[w].job
             status == OutcomeStatus(job[j], worker[w].pc)
  <2>1. CASE Holds(w)
    <3>1. j \in Jobs /\ job[j].status = "running"
      BY <2>1 DEF Holds
    <3>2. /\ job'[j] = [job[j] EXCEPT
                          !.status = status, !.token = 0, !.lease = "none",
                          !.available = status # "queued" /\ job[j].available]
          /\ \A k \in Jobs \ {j} : job'[k] = job[k]
      BY <1>0, <1>7, <2>1, <3>1, PutRowFrame DEF RecordOutcome
    <3>3. job'[j].status = status
      BY <1>0, <3>1, <3>2 DEF JobRow
    <3>4. CASE status = "queued"
      <4>1. \A k \in Jobs : PhaseOf(job'[k]) = PhaseOf(job[k])
        BY <3>1, <3>2, <3>3, <3>4 DEF PhaseOf
      <4>2. QED
        BY <1>7, <4>1, Invisible DEF RecordOutcome
    <3>5. CASE status # "queued"
      <4>1. PhaseOf(job[j]) = "open" /\ PhaseOf(job'[j]) = "closed"
        BY <3>1, <3>3, <3>5 DEF PhaseOf, OutcomeStatus
      <4>2. Contract!Close(j)
        BY <1>7, <3>1, <3>2, <4>1, PhaseMove DEF RecordOutcome, Contract!Close, PhaseBar
      <4>3. QED
        BY <3>1, <4>2 DEF Contract!Close
    <3>6. QED
      BY <3>4, <3>5
  <2>2. CASE ~ Holds(w)
    BY <1>1, <1>7, <2>2 DEF RecordOutcome
  <2>3. QED
    BY <2>1, <2>2
<1>8. ASSUME NEW w \in Workers, Heartbeat(w) PROVE UNCHANGED Contract!vars
  <2>1. CASE Holds(w) /\ ~ MarkedCancel(w)
    <3> DEFINE j == worker[w].job
    <3>1. j \in Jobs
      BY <2>1 DEF Holds
    <3>2. /\ job'[j] = [job[j] EXCEPT !.lease = "valid"]
          /\ \A k \in Jobs \ {j} : job'[k] = job[k]
      BY <1>0, <1>8, <2>1, <3>1, PutRowFrame DEF Heartbeat
    <3>3. job'[j].status = job[j].status
      BY <1>0, <3>1, <3>2 DEF JobRow
    <3>4. QED
      BY <1>8, <3>1, <3>2, <3>3, Invisible DEF Heartbeat, PhaseOf
  <2>2. CASE ~ (Holds(w) /\ ~ MarkedCancel(w))
    BY <1>1, <1>8, <2>2 DEF Heartbeat
  <2>3. QED
    BY <2>1, <2>2
<1>9. ASSUME NEW c \in Clients, Fresh(c), FlushCancel(c)
      PROVE  \E j \in Jobs : Contract!Close(j)
  <2> DEFINE j == client[c].job
             new == FlushRow(job[j], job[j], Cancelled(job[j], job[j]))
  <2>1. j \in Jobs /\ client[c].loaded = job[j]
    BY <1>9 DEF Fresh
  <2>2. job[j].status \in {"queued", "running"}
    BY <1>9, <2>1 DEF FlushCancel, FencingInv, LoadedActionable
  <2>3. job'[j] = new /\ \A k \in Jobs \ {j} : job'[k] = job[k]
    BY <1>0, <1>9, <2>1, PutRowFrame DEF FlushCancel
  <2>4. new.status = "cancelled"
    BY <1>0, <2>1, <2>2, FlushFields
  <2>5. PhaseOf(job[j]) = "open" /\ PhaseOf(job'[j]) = "closed"
    BY <2>2, <2>3, <2>4 DEF PhaseOf
  <2>6. Contract!Close(j)
    BY <1>9, <2>1, <2>3, <2>5, PhaseMove DEF FlushCancel, Contract!Close, PhaseBar
  <2>7. QED
    BY <2>1, <2>6
<1>10. ASSUME NEW c \in Clients, Fresh(c), FlushRetry(c)
       PROVE  \E j \in Jobs : Contract!Reopen(j)
  <2> DEFINE j == client[c].job
             new == FlushRow(job[j], job[j], Requeued(job[j]))
  <2>1. j \in Jobs /\ client[c].loaded = job[j]
    BY <1>10 DEF Fresh
  <2>2. job[j].status \in {"failed", "cancelled"}
    BY <1>10, <2>1 DEF FlushRetry, FencingInv, LoadedActionable
  <2>3. job'[j] = new /\ \A k \in Jobs \ {j} : job'[k] = job[k]
    BY <1>0, <1>10, <2>1, PutRowFrame DEF FlushRetry
  <2>4. new.status = "queued"
    BY <1>0, <2>1, <2>2, FlushFields
  <2>5. PhaseOf(job[j]) = "closed" /\ PhaseOf(job'[j]) = "open"
    BY <2>2, <2>3, <2>4 DEF PhaseOf
  <2>6. Contract!Reopen(j)
    BY <1>10, <2>1, <2>3, <2>5, PhaseMove DEF FlushRetry, Contract!Reopen, PhaseBar
  <2>7. QED
    BY <2>1, <2>6
<1>11. QED
  BY <1>1, <1>2, <1>3, <1>4, <1>5, <1>6, <1>7, <1>8, <1>9, <1>10
  DEF SerialNext, Background, Attempt, Load, ExecutorRaises, HeartbeatFails, Crash,
      ReadRow, vars, Contract!Next

(* When no operator request acts on a stale read, the queue implements the *)
(* contract: published is final, and closed is until a retry.              *)
THEOREM Refinement == SerialSpec => ImplementsContract
<1>1. Init => Contract!Init
  BY DEF Init, Contract!Init, PhaseOf, NoRow
<1>2. FencingInv /\ [SerialNext]_vars => [Contract!Next]_(Contract!vars)
  BY StepImplements
<1>3. SerialSpec => []FencingInv
  BY SerialIsSpec, Fencing, PTL
<1>4. QED
  BY <1>1, <1>2, <1>3, PTL DEF SerialSpec, ImplementsContract, Contract!Spec

(* What the contract promises of a job that has not published is inherited *)
(* by the queue: every step is a step of the contract, which keeps it.     *)
LEMMA ContractKeeps ==
    ASSUME TypeOK, Contract!OnlyPublishedHasOutput, [Contract!Next]_(Contract!vars)
    PROVE  Contract!OnlyPublishedHasOutput'
<1>1. /\ round \in [Jobs -> Nat]
      /\ \A p \in PublishedBar : p[1] \in Jobs /\ p[2] \in Nat
  BY DEF TypeOK, PublishedBar
<1>2. Contract!OnlyPublishedHasOutput <=>
         \A j \in Jobs : PhaseBar[j] # "published" => \A p \in PublishedBar : p[1] = j => p[2] < round[j]
  BY DEF Contract!OnlyPublishedHasOutput, PhaseBar, PublishedBar
<1>3. Contract!OnlyPublishedHasOutput' <=>
         \A j \in Jobs : PhaseBar'[j] # "published" =>
             \A p \in PublishedBar' : p[1] = j => p[2] < round'[j]
  BY DEF Contract!OnlyPublishedHasOutput, PhaseBar, PublishedBar
<1>4. CASE UNCHANGED Contract!vars
  BY <1>2, <1>3, <1>4 DEF Contract!vars, PhaseBar, PublishedBar
<1>5. ASSUME NEW j \in Jobs, Contract!Submit(j) \/ Contract!Close(j)
      PROVE  Contract!OnlyPublishedHasOutput'
  <2>1. /\ PhaseBar[j] # "published"
        /\ \A k \in Jobs \ {j} : PhaseBar'[k] = PhaseBar[k]
        /\ PublishedBar' = PublishedBar /\ round' = round
    BY <1>5 DEF Contract!Submit, Contract!Close, PhaseBar, PublishedBar
  <2>2. QED
    BY <1>2, <1>3, <2>1
<1>6. ASSUME NEW j \in Jobs, Contract!Publish(j)
      PROVE  Contract!OnlyPublishedHasOutput'
  <2>1. /\ PhaseBar'[j] = "published"
        /\ \A k \in Jobs \ {j} : PhaseBar'[k] = PhaseBar[k]
        /\ PublishedBar' = PublishedBar \cup {<<j, round[j]>>} /\ round' = round
    BY <1>6 DEF Contract!Publish, PhaseBar, PublishedBar
  <2>2. QED
    BY <1>2, <1>3, <2>1
<1>7. ASSUME NEW j \in Jobs, Contract!Reopen(j)
      PROVE  Contract!OnlyPublishedHasOutput'
  <2>1. /\ PhaseBar[j] = "closed"
        /\ \A k \in Jobs \ {j} : PhaseBar'[k] = PhaseBar[k] /\ round'[k] = round[k]
        /\ PublishedBar' = PublishedBar /\ round'[j] = round[j] + 1
    BY <1>1, <1>7 DEF Contract!Reopen, PhaseBar, PublishedBar
  <2>2. \A p \in PublishedBar : p[1] = j => p[2] < round[j]
    BY <1>2, <2>1
  <2>3. QED
    BY <1>1, <1>2, <1>3, <2>1, <2>2
<1>8. QED
  BY <1>4, <1>5, <1>6, <1>7 DEF Contract!Next

(* A job that reads cancelled has no output of the round it was cancelled  *)
(* in (request_cancellation), as long as no operator request acts on a     *)
(* stale read.  It follows from the contract alone.                        *)
THEOREM CancelledHasNoOutput == SerialSpec => []CancelledMeansNoOutput
<1>1. Init => Contract!OnlyPublishedHasOutput
  BY DEF Init, Contract!OnlyPublishedHasOutput
<1>2. FencingInv /\ Contract!OnlyPublishedHasOutput /\ [SerialNext]_vars
         => Contract!OnlyPublishedHasOutput'
  BY StepImplements, ContractKeeps DEF FencingInv
<1>3. FencingInv /\ Contract!OnlyPublishedHasOutput => CancelledMeansNoOutput
  <2> SUFFICES ASSUME FencingInv, Contract!OnlyPublishedHasOutput,
                      NEW j \in Jobs, job[j].status = "cancelled",
                      NEW o \in outputs, o.job = j, o.round = round[j]
               PROVE  FALSE
    BY DEF CancelledMeansNoOutput
  <2>1. PhaseOf(job[j]) = "closed"
    BY DEF PhaseOf
  <2>2. <<o.job, o.round>> \in PublishedBar
    BY DEF PublishedBar
  <2>3. o.round < round[j]
    BY <2>1, <2>2 DEF Contract!OnlyPublishedHasOutput, PublishedBar
  <2>4. round[j] \in Nat
    BY DEF FencingInv, TypeOK
  <2>5. QED
    BY <2>3, <2>4
<1>4. SerialSpec => []FencingInv
  BY SerialIsSpec, Fencing, PTL
<1>5. QED
  BY <1>1, <1>2, <1>3, <1>4, PTL DEF SerialSpec
-----------------------------------------------------------------------------
(* What a row says of its own future.  A queued row has an attempt left,   *)
(* since only a failure below the budget, an enqueue or a retry queues it, *)
(* and nobody marks a row that can still run.                              *)
RowKeepsWord(r) ==
    /\ r.cancelMark => r.status \in Terminal
    /\ r.attempts <= MaxAttempts
    /\ r.status = "queued" => r.attempts < MaxAttempts

RowsKeepWord == \A j \in Jobs : RowKeepsWord(job[j])

LEMMA OneRowChanges ==
    ASSUME TypeOK, RowsKeepWord, NEW j \in Jobs, NEW r, PutRow(j, r), RowKeepsWord(r)
    PROVE  RowsKeepWord'
  BY PutRowFrame DEF TypeOK, RowsKeepWord

LEMMA NoRowChanges ==
    ASSUME RowsKeepWord, UNCHANGED job
    PROVE  RowsKeepWord'
  BY DEF RowsKeepWord

(* A request that flushes what it loaded leaves what it assigned.          *)
LEMMA FreshFlushKeepsWord ==
    ASSUME NEW r \in JobRow
    PROVE  /\ RowKeepsWord(r) => RowKeepsWord(FlushRow(r, r, Cancelled(r, r)))
           /\ RowKeepsWord(FlushRow(r, r, Requeued(r)))
<1>1. /\ FlushRow(r, r, Cancelled(r, r)).status = "cancelled"
      /\ FlushRow(r, r, Cancelled(r, r)).attempts = r.attempts
      /\ FlushRow(r, r, Requeued(r)).status = "queued"
      /\ FlushRow(r, r, Requeued(r)).attempts = 0
      /\ ~ FlushRow(r, r, Requeued(r)).cancelMark
  BY DEF FlushRow, Flushed, Cancelled, Requeued, JobRow
<1>2. QED
  BY <1>1, BoundsAssumption DEF RowKeepsWord, Terminal

LEMMA WordsInductive ==
    ASSUME FencingInv, RowsKeepWord, [SerialNext]_vars
    PROVE  RowsKeepWord'
<1>0. TypeOK /\ \A j \in Jobs : job[j] \in JobRow /\ RowKeepsWord(job[j])
  BY DEF FencingInv, TypeOK, RowsKeepWord
<1>1. ASSUME NEW j \in Jobs, Enqueue(j) PROVE RowsKeepWord'
  <2>1. RowKeepsWord([NoRow EXCEPT !.status = "queued", !.available = TRUE])
    BY BoundsAssumption DEF RowKeepsWord, NoRow
  <2>2. QED
    BY <1>0, <1>1, <2>1, OneRowChanges DEF Enqueue, RowsKeepWord
<1>2. ASSUME NEW j \in Jobs, LeaseExpires(j) \/ BackoffElapses(j) PROVE RowsKeepWord'
  <2>1. /\ RowKeepsWord([job[j] EXCEPT !.lease = "expired"])
        /\ RowKeepsWord([job[j] EXCEPT !.available = TRUE])
    BY <1>0 DEF RowKeepsWord, JobRow
  <2>2. QED
    BY <1>0, <1>2, <2>1, OneRowChanges DEF LeaseExpires, BackoffElapses, RowsKeepWord
<1>3. ASSUME NEW w \in Workers, NEW j \in Jobs, Claim(w, j) PROVE RowsKeepWord'
  <2>1. job[j].attempts < MaxAttempts /\ ~ job[j].cancelMark
    BY <1>0, <1>3 DEF Claim, Runnable, RowKeepsWord
  <2>2. RowKeepsWord([job[j] EXCEPT !.status = "running", !.token = nextToken,
                        !.lease = "valid", !.attempts = job[j].attempts + 1])
    BY <1>0, <2>1, BoundsAssumption DEF RowKeepsWord, JobRow
  <2>3. QED
    BY <1>0, <1>3, <2>2, OneRowChanges DEF Claim, RowsKeepWord
<1>4. ASSUME NEW w \in Workers, NEW j \in Jobs, TerminalizeExpired(w, j) PROVE RowsKeepWord'
  <2>1. RowKeepsWord([job[j] EXCEPT
                        !.status = IF job[j].cancelMark THEN "cancelled" ELSE "failed",
                        !.token = 0, !.lease = "none"])
    BY <1>0 DEF RowKeepsWord, JobRow, Terminal
  <2>2. QED
    BY <1>0, <1>4, <2>1, OneRowChanges DEF TerminalizeExpired, RowsKeepWord
<1>5. ASSUME NEW w \in Workers, ExecutorReturns(w) PROVE RowsKeepWord'
  <2>1. CASE Holds(w) /\ Complete(w)
    <3> DEFINE j == worker[w].job
    <3>1. j \in Jobs
      BY <2>1 DEF Holds
    <3>2. RowKeepsWord([job[j] EXCEPT !.status = "completed", !.token = 0, !.lease = "none"])
      BY <1>0, <3>1 DEF RowKeepsWord, JobRow, Terminal
    <3>3. QED
      BY <1>0, <2>1, <3>1, <3>2, OneRowChanges DEF Complete, RowsKeepWord
  <2>2. CASE UNCHANGED job
    BY <2>2, NoRowChanges
  <2>3. QED
    BY <1>5, <2>1, <2>2 DEF ExecutorReturns
<1>6. ASSUME NEW w \in Workers, RecordOutcome(w) PROVE RowsKeepWord'
  <2> DEFINE j == worker[w].job
             status == OutcomeStatus(job[j], worker[w].pc)
  <2>1. CASE Holds(w)
    <3>1. j \in Jobs
      BY <2>1 DEF Holds
    <3>2. /\ status \in {"cancelled", "queued", "failed"}
          /\ status = "queued" => job[j].attempts < MaxAttempts /\ ~ job[j].cancelMark
      BY DEF OutcomeStatus
    <3> HIDE DEF status
    <3>3. RowKeepsWord([job[j] EXCEPT
                          !.status = status, !.token = 0, !.lease = "none",
                          !.available = status # "queued" /\ job[j].available])
      BY <1>0, <3>1, <3>2 DEF RowKeepsWord, JobRow, Terminal
    <3>4. PutRow(j, [job[j] EXCEPT
                       !.status = status, !.token = 0, !.lease = "none",
                       !.available = status # "queued" /\ job[j].available])
      BY <1>6, <2>1 DEF RecordOutcome, status
    <3>5. QED
      BY <1>0, <3>1, <3>3, <3>4, OneRowChanges DEF RowsKeepWord
  <2>2. CASE ~ Holds(w)
    BY <1>6, <2>2, NoRowChanges DEF RecordOutcome
  <2>3. QED
    BY <2>1, <2>2
<1>7. ASSUME NEW w \in Workers, Heartbeat(w) PROVE RowsKeepWord'
  <2> DEFINE j == worker[w].job
  <2>1. CASE Holds(w) /\ ~ MarkedCancel(w)
    <3>1. j \in Jobs
      BY <2>1 DEF Holds
    <3>2. RowKeepsWord([job[j] EXCEPT !.lease = "valid"])
      BY <1>0, <3>1 DEF RowKeepsWord, JobRow
    <3>3. QED
      BY <1>0, <1>7, <2>1, <3>1, <3>2, OneRowChanges DEF Heartbeat, RowsKeepWord
  <2>2. CASE UNCHANGED job
    BY <2>2, NoRowChanges
  <2>3. QED
    BY <1>7, <2>1, <2>2 DEF Heartbeat
<1>8. ASSUME NEW c \in Clients, Fresh(c), FlushCancel(c) \/ FlushRetry(c) PROVE RowsKeepWord'
  <2> DEFINE j == client[c].job
  <2>1. j \in Jobs /\ client[c].loaded = job[j]
    BY <1>8 DEF Fresh
  <2>2. /\ RowKeepsWord(FlushRow(job[j], job[j], Cancelled(job[j], job[j])))
        /\ RowKeepsWord(FlushRow(job[j], job[j], Requeued(job[j])))
    BY <1>0, <2>1, FreshFlushKeepsWord
  <2>3. \/ PutRow(j, FlushRow(job[j], job[j], Cancelled(job[j], job[j])))
        \/ PutRow(j, FlushRow(job[j], job[j], Requeued(job[j])))
    BY <1>8, <2>1 DEF FlushCancel, FlushRetry
  <2>4. QED
    BY <1>0, <2>1, <2>2, <2>3, OneRowChanges DEF RowsKeepWord
<1>9. ASSUME NEW w \in Workers,
             \/ Load(w) \/ HeartbeatFails(w) \/ Crash(w)
             \/ \E kind \in {"failed", "fatal"} : ExecutorRaises(w, kind)
      PROVE  RowsKeepWord'
  BY <1>9, NoRowChanges DEF Load, HeartbeatFails, Crash, ExecutorRaises
<1>10. ASSUME NEW c \in Clients, NEW j \in Jobs, NEW op \in {"cancel", "retry"}, ReadRow(c, j, op)
       PROVE  RowsKeepWord'
  BY <1>10, NoRowChanges DEF ReadRow
<1>11. CASE UNCHANGED vars
  BY <1>11, NoRowChanges DEF vars
<1>12. QED
  BY <1>1, <1>2, <1>3, <1>4, <1>5, <1>6, <1>7, <1>8, <1>9, <1>10, <1>11
     DEF SerialNext, Background, Attempt

LEMMA WordsHold == SerialSpec => []RowsKeepWord
<1>1. RowKeepsWord(NoRow)
  <2>1. NoRow.status = "absent" /\ NoRow.attempts = 0 /\ ~ NoRow.cancelMark
    BY DEF NoRow
  <2>2. QED
    BY <2>1, BoundsAssumption DEF RowKeepsWord
<1>2. Init => RowsKeepWord
  BY <1>1 DEF Init, RowsKeepWord
<1>3. FencingInv /\ RowsKeepWord /\ [SerialNext]_vars => RowsKeepWord'
  BY WordsInductive
<1>4. SerialSpec => []FencingInv
  BY SerialIsSpec, Fencing, PTL
<1>5. QED
  BY <1>2, <1>3, <1>4, PTL DEF SerialSpec

(* A row marked cancelled is terminal, never waiting in the queue where    *)
(* the dispatcher would pass it by, as long as no operator request acts on *)
(* a stale read (request_cancellation, retry).                             *)
THEOREM MarkedIsTerminal == SerialSpec => []CancellationIsTerminal
<1>1. RowsKeepWord => CancellationIsTerminal
  BY DEF RowsKeepWord, RowKeepsWord, CancellationIsTerminal
<1>2. QED
  BY <1>1, WordsHold, PTL

(* No job is attempted more often than its budget, however its workers     *)
(* fail or die between two retries (claim_next, _record_failure).          *)
THEOREM JobsWithinBudget == SerialSpec => []AttemptBudget
<1>1. \A r : RowKeepsWord(r) => r.attempts <= MaxAttempts
  BY Zenon DEF RowKeepsWord
<1>2. RowsKeepWord => AttemptBudget
  BY <1>1, Zenon DEF RowsKeepWord, AttemptBudget
<1>3. QED
  BY <1>2, WordsHold, PTL
=============================================================================
