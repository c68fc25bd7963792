--------------------------- MODULE ScanJobsProofs ---------------------------
(***************************************************************************)
(* Proofs about the scan jobs of a system, for every set of scans, workers *)
(* and cancellation requests, every attempt budget and every clock.        *)
(***************************************************************************)
EXTENDS ScanJobs, TLAPS

-----------------------------------------------------------------------------
(* Typing.                                                                 *)

LEMMA EmptyRecordsTyped ==
    /\ NoGeneration \in Generation
    /\ NoRow \in ScanRow
    /\ IdleWorker \in WorkerState
    /\ IdleClient \in ClientState
<1>1. NoGeneration \in Generation
  BY DEF NoGeneration, Generation
<1>2. NoRow \in ScanRow
  BY <1>1 DEF NoRow, ScanRow, Status, Terminal
<1>3. QED
  BY <1>1, <1>2 DEF WorkerState, ClientState

LEMMA RowTyped ==
    ASSUME TypeOK, NEW s \in Scans, NEW r \in ScanRow, PutRow(s, r)
    PROVE  scan' \in [Scans -> ScanRow]
  BY DEF TypeOK, PutRow

LEMMA PutRowFrame ==
    ASSUME TypeOK, NEW s \in Scans, NEW r, PutRow(s, r)
    PROVE  scan'[s] = r /\ \A t \in Scans \ {s} : scan'[t] = scan[t]
  BY DEF TypeOK, PutRow

LEMMA ClosedTyped ==
    ASSUME NEW r \in ScanRow, NEW status \in Status
    PROVE  /\ Closed(r, status) \in ScanRow
           /\ Closed(r, status).status = status
           /\ Closed(r, status).token = 0
           /\ Closed(r, status).attempts = r.attempts
           /\ Closed(r, status).gen = r.gen
  BY DEF Closed, ScanRow

LEMMA WorkerTyped ==
    ASSUME TypeOK, NEW w \in Workers, worker[w].pc # "idle",
           NEW pc \in {"scanning", "ingesting", "prepared", "failing", "cancelling"},
           Goto(w, pc) \/ Release(w)
    PROVE  worker' \in [Workers -> WorkerState]
<1>1. worker[w] \in WorkerState
  BY DEF TypeOK
<1>2. [worker[w] EXCEPT !.pc = pc] \in WorkerState
  BY <1>1 DEF WorkerState, IdleWorker
<1>3. CASE Goto(w, pc)
  BY <1>2, <1>3 DEF Goto, TypeOK
<1>4. CASE Release(w)
  BY <1>4, EmptyRecordsTyped DEF Release, TypeOK
<1>5. QED
  BY <1>3, <1>4

LEMMA RevokeTyped ==
    ASSUME TypeOK, NEW s \in Scans, Revoke(s)
    PROVE  revoked' \subseteq Scans \X Nat
<1>1. scan[s].token \in Nat
  BY DEF TypeOK, ScanRow
<1>2. QED
  BY <1>1 DEF TypeOK, Revoke

LEMMA ActiveWorker ==
    ASSUME TypeOK, NEW w \in Workers, worker[w].pc # "idle"
    PROVE  /\ worker[w].scan \in Scans
           /\ scan[worker[w].scan] \in ScanRow
           /\ worker[w].token \in Nat
           /\ worker[w].gen \in Generation
  BY DEF TypeOK, WorkerState, IdleWorker

LEMMA GenerationTyped ==
    ASSUME TypeOK, NEW r \in Reports
    PROVE  /\ GenerationOf(r) \in Generation
           /\ ObservedAt(r) \in Nat \ {0}
<1>1. r.time \in Nat /\ r.full \in BOOLEAN /\ r.kind \in {"dated", "undated", "inverted"}
  BY BoundsAssumption DEF Reports
<1>2. SourceClock(r) \in {"missing", "quarantined", "stale", "trusted"}
  BY DEF SourceClock
<1>3. ObservedAt(r) \in Nat \ {0}
  <2>1. r.kind = "dated" => r.time \in Nat \ {0}
    BY BoundsAssumption DEF Reports
  <2>2. r.kind # "dated" => SourceClock(r) \in {"missing", "quarantined"}
    BY <1>1 DEF SourceClock
  <2>3. QED
    BY <1>1, <1>2, <2>1, <2>2 DEF ObservedAt, TypeOK
<1>4. CanBeAuthoritative(r) \in BOOLEAN /\ IsNewer(r) \in BOOLEAN
  BY <1>1 DEF CanBeAuthoritative, IsNewer
<1>5. QED
  BY <1>2, <1>3, <1>4 DEF GenerationOf, Generation

(* The row an ingestion writes, and what it leaves of the others.          *)
LEMMA IngestFrame ==
    ASSUME TypeOK, NEW s \in Scans, NEW row \in ScanRow, NEW gen \in Generation,
           NEW token \in Nat, Ingest(s, row, gen, token)
    PROVE  /\ scan' \in [Scans -> ScanRow]
           /\ scan'[s].status = "completed"
           /\ scan'[s].token = 0
           /\ scan'[s].gen = gen
           /\ scan'[s].attempts = row.attempts
           /\ \A t \in Scans \ {s} :
                /\ scan'[t].status = scan[t].status
                /\ scan'[t].token = scan[t].token
                /\ scan'[t].lease = scan[t].lease
                /\ scan'[t].attempts = scan[t].attempts
                /\ scan'[t].cancelMark = scan[t].cancelMark
                /\ scan'[t].gen.observed = scan[t].gen.observed
                /\ scan'[t].gen.current <=> (~ gen.current /\ scan[t].gen.current)
           /\ ingested' = ingested \cup {<<s, token>>}
           /\ newest' \in Nat
<1>1. [row EXCEPT !.status = "completed", !.token = 0, !.lease = "none", !.gen = gen]
         \in ScanRow
  BY DEF ScanRow, Status, Terminal
<1>2. scan'[s] = [row EXCEPT !.status = "completed", !.token = 0, !.lease = "none",
                             !.gen = gen]
  BY DEF Ingest
<1>3. ASSUME NEW t \in Scans \ {s}
      PROVE  /\ scan'[t] \in ScanRow
             /\ scan'[t].status = scan[t].status
             /\ scan'[t].token = scan[t].token
             /\ scan'[t].lease = scan[t].lease
             /\ scan'[t].attempts = scan[t].attempts
             /\ scan'[t].cancelMark = scan[t].cancelMark
             /\ scan'[t].gen.observed = scan[t].gen.observed
             /\ scan'[t].gen.current <=> (~ gen.current /\ scan[t].gen.current)
  <2>1. scan[t] \in ScanRow /\ scan[t].gen \in Generation /\ gen.current \in BOOLEAN
    BY DEF TypeOK, ScanRow, Generation
  <2>2. scan'[t] = IF gen.current THEN [scan[t] EXCEPT !.gen = Displaced(scan[t].gen)]
                   ELSE scan[t]
    BY <1>3 DEF Ingest
  <2>3. CASE ~ gen.current
    BY <2>1, <2>2, <2>3
  <2>4. CASE gen.current
    <3>1. Displaced(scan[t].gen) \in Generation
      BY <2>1 DEF Displaced, Generation
    <3>2. /\ Displaced(scan[t].gen).current = FALSE
          /\ Displaced(scan[t].gen).observed = scan[t].gen.observed
      BY <2>1 DEF Displaced, Generation
    <3>3. scan'[t] = [scan[t] EXCEPT !.gen = Displaced(scan[t].gen)]
      BY <2>2, <2>4
    <3> HIDE DEF Displaced
    <3>4. scan'[t] \in ScanRow
      BY <2>1, <3>1, <3>3 DEF ScanRow
    <3>5. QED
      BY <2>1, <2>4, <3>2, <3>3, <3>4 DEF ScanRow
  <2>5. QED
    BY <2>1, <2>3, <2>4
<1>4. scan' \in [Scans -> ScanRow]
  <2>1. \A t \in Scans : scan'[t] \in ScanRow
    BY <1>1, <1>2, <1>3
  <2>2. QED
    BY <2>1 DEF Ingest
<1>5. newest' \in Nat /\ ingested' = ingested \cup {<<s, token>>}
  BY DEF Ingest, TypeOK, Generation
<1>6. QED
  BY <1>2, <1>3, <1>4, <1>5 DEF ScanRow

LEMMA TypeInductive == TypeOK /\ [Next]_vars => TypeOK'
<1> SUFFICES ASSUME TypeOK, [Next]_vars PROVE TypeOK'
  OBVIOUS
<1> USE DEF history
<1>0. /\ nextToken \in Nat \ {0}
      /\ \A s \in Scans : scan[s] \in ScanRow
      /\ NoRow \in ScanRow /\ NoGeneration \in Generation
  BY EmptyRecordsTyped DEF TypeOK
<1>1. ASSUME NEW s \in Scans, Queue(s) PROVE TypeOK'
  <2>1. [NoRow EXCEPT !.status = "queued"] \in ScanRow
    BY <1>0 DEF ScanRow, Status
  <2>2. QED
    BY <1>1, <2>1, RowTyped DEF Queue, TypeOK
<1>2. ASSUME NEW s \in Scans, AuthorizationEnds(s) PROVE TypeOK'
  BY <1>2 DEF AuthorizationEnds, TypeOK
<1>3. ASSUME NEW s \in Scans, LeaseExpires(s) PROVE TypeOK'
  <2>1. [scan[s] EXCEPT !.lease = "expired"] \in ScanRow
    BY <1>0 DEF ScanRow
  <2>2. QED
    BY <1>3, <2>1, RowTyped DEF LeaseExpires, TypeOK
<1>4. ASSUME NEW s \in Scans, NEW r \in Reports, Import(s, r) PROVE TypeOK'
  <2>1. GenerationOf(r) \in Generation
    BY GenerationTyped
  <2>2. Ingest(s, NoRow, GenerationOf(r), 0)
    BY <1>4 DEF Import
  <2>3. /\ scan' \in [Scans -> ScanRow]
        /\ ingested' = ingested \cup {<<s, 0>>}
        /\ newest' \in Nat
    BY <1>0, <2>1, <2>2, IngestFrame
  <2>4. QED
    BY <1>4, <2>3 DEF Import, TypeOK
<1>5. ASSUME NEW w \in Workers, NEW s \in Scans, Claim(w, s) PROVE TypeOK'
  <2>1. [scan[s] EXCEPT !.status = "running", !.token = nextToken, !.lease = "valid",
                        !.attempts = scan[s].attempts + 1] \in ScanRow
    <3>1. \A n \in Nat : n + 1 \in Nat
      OBVIOUS
    <3>2. scan[s].attempts + 1 \in Nat
      BY <1>0, <3>1 DEF ScanRow
    <3>3. QED
      BY <1>0, <3>2 DEF ScanRow, Status
  <2>2. scan' \in [Scans -> ScanRow]
    BY <1>5, <2>1, RowTyped DEF Claim
  <2>3. [pc |-> "scanning", scan |-> s, token |-> nextToken, gen |-> NoGeneration]
           \in WorkerState
    BY <1>0 DEF WorkerState
  <2>4. worker' \in [Workers -> WorkerState]
    BY <1>5, <2>3 DEF Claim, TypeOK
  <2>5. revoked' \subseteq Scans \X Nat
    BY <1>5, RevokeTyped DEF Claim
  <2>6. QED
    BY <1>5, <2>2, <2>4, <2>5 DEF Claim, TypeOK
<1>6. ASSUME NEW w \in Workers, NEW s \in Scans,
             Reject(w, s) \/ TerminalizeExpired(w, s)
      PROVE  TypeOK'
  <2>1. \A status \in Status : Closed(scan[s], status) \in ScanRow
    BY <1>0, ClosedTyped
  <2>2. scan' \in [Scans -> ScanRow]
    BY <1>6, <2>1, RowTyped DEF Reject, TerminalizeExpired, Status, Terminal
  <2>3. revoked' \subseteq Scans \X Nat
    BY <1>6, RevokeTyped DEF Reject, TerminalizeExpired
  <2>4. QED
    BY <1>6, <2>2, <2>3 DEF Reject, TerminalizeExpired, TypeOK
<1>7. ASSUME NEW w \in Workers, Load(w) PROVE TypeOK'
  <2>1. worker' \in [Workers -> WorkerState]
    BY <1>7, WorkerTyped DEF Load
  <2>2. QED
    BY <1>7, <2>1 DEF Load, TypeOK
<1>8. ASSUME NEW w \in Workers, NEW r \in Reports, Prepare(w, r) PROVE TypeOK'
  <2>1. GenerationOf(r) \in Generation
    BY GenerationTyped
  <2>2. worker[w] \in [pc : {"scanning", "ingesting", "prepared", "failing", "cancelling"},
                       scan : Scans, token : Nat, gen : Generation]
    <3>1. worker[w] \in WorkerState /\ worker[w].pc # "idle"
      BY <1>8 DEF Prepare, TypeOK
    <3>2. QED
      BY <3>1 DEF WorkerState, IdleWorker
  <2>3. [worker[w] EXCEPT !.pc = "prepared", !.gen = GenerationOf(r)] \in WorkerState
    BY <2>1, <2>2 DEF WorkerState
  <2>4. worker' \in [Workers -> WorkerState]
    BY <1>8, <2>3 DEF Prepare, TypeOK
  <2>5. QED
    BY <1>8, <2>4 DEF Prepare, TypeOK
<1>9. ASSUME NEW w \in Workers, Commit(w) PROVE TypeOK'
  <2>1. worker' \in [Workers -> WorkerState]
    BY <1>9, WorkerTyped DEF Commit
  <2>2. /\ scan' \in [Scans -> ScanRow]
        /\ ingested' \subseteq Scans \X Nat
        /\ newest' \in Nat
    <3>1. CASE Holds(w) /\ ~ MarkedCancel(w)
      <4>1. /\ worker[w].scan \in Scans
            /\ scan[worker[w].scan] \in ScanRow
            /\ worker[w].token \in Nat
            /\ worker[w].gen \in Generation
        BY <1>9, ActiveWorker DEF Commit
      <4>2. Ingest(worker[w].scan, scan[worker[w].scan], worker[w].gen, worker[w].token)
        BY <1>9, <3>1 DEF Commit
      <4>3. /\ scan' \in [Scans -> ScanRow]
            /\ ingested' = ingested \cup {<<worker[w].scan, worker[w].token>>}
            /\ newest' \in Nat
        BY <4>1, <4>2, IngestFrame
      <4>4. QED
        BY <4>1, <4>3 DEF TypeOK
    <3>2. CASE ~ (Holds(w) /\ ~ MarkedCancel(w))
      BY <1>9, <3>2 DEF Commit, TypeOK
    <3>3. QED
      BY <3>1, <3>2
  <2>3. QED
    BY <1>9, <2>1, <2>2 DEF Commit, TypeOK
<1>10. ASSUME NEW w \in Workers, Fail(w) PROVE TypeOK'
  <2>1. worker' \in [Workers -> WorkerState]
    BY <1>10, WorkerTyped DEF Fail
  <2>2. QED
    BY <1>10, <2>1 DEF Fail, TypeOK
<1>11. ASSUME NEW w \in Workers, RecordOutcome(w) PROVE TypeOK'
  <2>1. worker' \in [Workers -> WorkerState]
    BY <1>11, WorkerTyped DEF RecordOutcome
  <2>2. worker[w].scan \in Scans
    BY <1>11, ActiveWorker DEF RecordOutcome
  <2>3. \A status \in Status : Closed(scan[worker[w].scan], status) \in ScanRow
    BY <1>0, <2>2, ClosedTyped
  <2>4. scan' \in [Scans -> ScanRow]
    BY <1>11, <2>2, <2>3, RowTyped DEF RecordOutcome, Status, Terminal, TypeOK
  <2>5. QED
    BY <1>11, <2>1, <2>4 DEF RecordOutcome, TypeOK
<1>12. ASSUME NEW w \in Workers, Monitor(w) PROVE TypeOK'
  <2>1. worker[w].scan \in Scans
    BY <1>12, ActiveWorker DEF Monitor
  <2>2. [scan[worker[w].scan] EXCEPT !.lease = "valid"] \in ScanRow
    BY <1>0, <2>1 DEF ScanRow
  <2>3. scan' \in [Scans -> ScanRow]
    BY <1>12, <2>1, <2>2, RowTyped DEF Monitor, TypeOK
  <2>4. worker' \in [Workers -> WorkerState]
    BY <1>12, WorkerTyped DEF Monitor, TypeOK
  <2>5. QED
    BY <1>12, <2>3, <2>4 DEF Monitor, TypeOK
<1>13. ASSUME NEW w \in Workers, Crash(w) PROVE TypeOK'
  <2>1. worker' \in [Workers -> WorkerState]
    BY <1>13, WorkerTyped DEF Crash
  <2>2. crashes' \in 0..MaxCrashes
    BY <1>13, BoundsAssumption DEF Crash, TypeOK
  <2>3. QED
    BY <1>13, <2>1, <2>2 DEF Crash, TypeOK
<1>14. ASSUME NEW c \in Clients, NEW s \in Scans, ReadScan(c, s) PROVE TypeOK'
  <2>1. [pc |-> "cancel", scan |-> s, loaded |-> scan[s]] \in ClientState
    BY <1>0 DEF ClientState
  <2>2. client' \in [Clients -> ClientState]
    BY <1>14, <2>1 DEF ReadScan, TypeOK
  <2>3. QED
    BY <1>14, <2>2 DEF ReadScan, TypeOK
<1>15. ASSUME NEW c \in Clients, FlushCancel(c) PROVE TypeOK'
  <2>1. client[c].scan \in Scans /\ client[c].loaded \in ScanRow
    BY <1>15 DEF FlushCancel, TypeOK, ClientState, IdleClient
  <2>2. [scan[client[c].scan] EXCEPT
           !.status = "cancelled", !.cancelMark = TRUE,
           !.token = IF client[c].loaded.token = 0 THEN scan[client[c].scan].token ELSE 0,
           !.lease = IF client[c].loaded.lease = "none" THEN scan[client[c].scan].lease
                     ELSE "none"] \in ScanRow
    BY <1>0, <2>1 DEF ScanRow, Status, Terminal
  <2>3. scan' \in [Scans -> ScanRow]
    BY <1>15, <2>1, <2>2, RowTyped DEF FlushCancel
  <2>4. client' \in [Clients -> ClientState]
    BY <1>15, EmptyRecordsTyped DEF FlushCancel, TypeOK
  <2>5. revoked' \subseteq Scans \X Nat
    BY <1>15, <2>1, RevokeTyped DEF FlushCancel
  <2>6. QED
    BY <1>15, <2>3, <2>4, <2>5 DEF FlushCancel, TypeOK
<1>16. CASE Tick
  BY <1>16 DEF Tick, TypeOK
<1>17. CASE UNCHANGED vars
  BY <1>17 DEF vars, TypeOK
<1>18. QED
  BY <1>1, <1>2, <1>3, <1>4, <1>5, <1>6, <1>7, <1>8, <1>9, <1>10, <1>11, <1>12, <1>13,
     <1>14, <1>15, <1>16, <1>17 DEF Next, Background, Attempt

LEMMA TypeInit == Init => TypeOK
  BY EmptyRecordsTyped, BoundsAssumption DEF Init, TypeOK

(* The rows, workers and requests keep their shape: TypeOK is an invariant *)
(* of the scan jobs, whatever the interleaving.                            *)
THEOREM TypeCorrect == Spec => []TypeOK
  BY TypeInit, TypeInductive, PTL DEF Spec

-----------------------------------------------------------------------------
(* Fencing.  The rows and the history see four kinds of step: no row       *)
(* changes in anything that matters, one row stops, one scan is ingested,  *)
(* one row is claimed.                                                     *)

RowsKept ==
    /\ UNCHANGED <<nextToken, ingested, revoked, newest>>
    /\ \A s \in Scans :
         /\ scan'[s].status = scan[s].status
         /\ scan'[s].token = scan[s].token
         /\ scan'[s].attempts = scan[s].attempts
         /\ scan'[s].cancelMark = scan[s].cancelMark
         /\ scan'[s].gen = scan[s].gen
         /\ scan'[s].lease = "none" => scan[s].lease = "none"

RowStops(s) ==
    /\ UNCHANGED <<nextToken, ingested, newest>>
    /\ \A t \in Scans \ {s} : scan'[t] = scan[t]
    /\ scan'[s].status \in {"queued", "failed", "cancelled"}
    /\ scan'[s].status = "queued" => scan[s].status = "absent"
    /\ scan'[s].token \in {0, scan[s].token}
    /\ scan'[s].attempts = scan[s].attempts
    /\ scan'[s].gen.current => scan[s].gen.current
    /\ revoked' = revoked \/ Revoke(s)

OpenRowStops(s) ==
    /\ RowStops(s)
    /\ scan[s].status \notin Terminal
    /\ scan[s].status = "absent" => scan'[s].status = "queued"

IngestsOnce(s, gen, token) ==
    /\ UNCHANGED <<nextToken, revoked>>
    /\ scan[s].status \in {"absent", "running"}
    /\ gen \in Generation
    /\ token \in Nat /\ token < nextToken
    /\ <<s, token>> \notin revoked
    /\ scan'[s].status = "completed"
    /\ scan'[s].token = 0
    /\ scan'[s].attempts = scan[s].attempts
    /\ scan'[s].gen = gen
    /\ \A t \in Scans \ {s} :
         /\ scan'[t].status = scan[t].status
         /\ scan'[t].token = scan[t].token
         /\ scan'[t].lease = scan[t].lease
         /\ scan'[t].attempts = scan[t].attempts
         /\ scan'[t].cancelMark = scan[t].cancelMark
         /\ scan'[t].gen.observed = scan[t].gen.observed
         /\ scan'[t].gen.current <=> (~ gen.current /\ scan[t].gen.current)
    /\ ingested' = ingested \cup {<<s, token>>}
    /\ newest' = IF gen.current /\ gen.observed > newest THEN gen.observed ELSE newest
    /\ \A v \in Workers : worker'[v].pc # "prepared"
    /\ \/ \E r \in Reports : gen = GenerationOf(r)
       \/ \E w \in Workers : worker[w].pc = "prepared" /\ worker[w].gen = gen

(* The part of the invariant about rows and history.                       *)
RowInv ==
    /\ \A s \in Scans : scan[s].token < nextToken
    /\ \A i \in ingested \cup revoked : i[2] < nextToken
    /\ \A i \in revoked : i[2] # 0
    /\ OpenIsUningested
    /\ RunningIsFenced
    /\ BudgetKept
    /\ OneGeneration
    /\ OneIngestion
    /\ RevokedNeverIngests

LEMMA RowFields ==
    ASSUME TypeOK, NEW s \in Scans
    PROVE  /\ scan[s].status \in Status
           /\ scan[s].token \in Nat
           /\ scan[s].lease \in {"none", "valid", "expired"}
           /\ scan[s].attempts \in Nat
           /\ scan[s].cancelMark \in BOOLEAN
           /\ scan[s].gen \in Generation
           /\ scan[s].gen.current \in BOOLEAN
           /\ scan[s].gen.observed \in Nat
  BY DEF TypeOK, ScanRow, Generation

LEMMA RevokeFrame ==
    ASSUME NEW s \in Scans, Revoke(s)
    PROVE  \A i \in revoked' : i \in revoked \/ (i = <<s, scan[s].token>>
                                                   /\ scan[s].status = "running")
  BY DEF Revoke

LEMMA RowsKeptInv == TypeOK /\ RowInv /\ RowsKept => RowInv'
  BY DEF RowInv, RowsKept, OpenIsUningested, RunningIsFenced, BudgetKept,
     OneGeneration, OneIngestion, RevokedNeverIngests, TypeOK

LEMMA RowStopsInv ==
    ASSUME TypeOK, RowInv, NEW s \in Scans, RowStops(s)
    PROVE  RowInv'
<1>0. /\ scan[s].token \in Nat /\ nextToken \in Nat \ {0}
      /\ \A i \in revoked' : i \in revoked \/ (i = <<s, scan[s].token>>
                                                /\ scan[s].status = "running")
  BY RowFields, RevokeFrame DEF RowStops, TypeOK
<1>1. OneIngestion' /\ OneGeneration' /\ BudgetKept' /\ OpenIsUningested'
  BY DEF RowInv, RowStops, OneIngestion, OneGeneration, BudgetKept, OpenIsUningested
<1>2. /\ \A t \in Scans : scan'[t].token < nextToken'
      /\ \A i \in ingested' \cup revoked' : i[2] < nextToken'
      /\ \A i \in revoked' : i[2] # 0
  BY <1>0 DEF RowInv, RowStops, RunningIsFenced
<1>3. RunningIsFenced'
  BY <1>0 DEF RowInv, RowStops, RunningIsFenced
<1>4. RevokedNeverIngests'
  BY <1>0 DEF RowInv, RowStops, OpenIsUningested, RevokedNeverIngests
<1>5. QED
  BY <1>1, <1>2, <1>3, <1>4 DEF RowInv

LEMMA IngestsInv ==
    ASSUME TypeOK, RowInv, NEW s \in Scans, NEW gen, NEW token, IngestsOnce(s, gen, token)
    PROVE  RowInv'
<1>0. /\ nextToken \in Nat \ {0} /\ token \in Nat /\ gen.current \in BOOLEAN
      /\ ingested \subseteq Scans \X Nat
      /\ ingested' = ingested \cup {<<s, token>>}
      /\ \A i \in ingested : i[1] # s
  BY DEF IngestsOnce, TypeOK, RowInv, OpenIsUningested, Generation
<1>1. OneIngestion'
  BY <1>0 DEF RowInv, OneIngestion
<1>2. OneGeneration'
  BY <1>0 DEF RowInv, IngestsOnce, OneGeneration
<1>3. BudgetKept' /\ RunningIsFenced' /\ OpenIsUningested'
  BY <1>0 DEF RowInv, IngestsOnce, BudgetKept, RunningIsFenced, OpenIsUningested
<1>4. /\ \A t \in Scans : scan'[t].token < nextToken'
      /\ \A i \in ingested' \cup revoked' : i[2] < nextToken'
      /\ \A i \in revoked' : i[2] # 0
  BY <1>0 DEF RowInv, IngestsOnce
<1>5. RevokedNeverIngests'
  BY <1>0 DEF RowInv, IngestsOnce, RevokedNeverIngests
<1>6. QED
  BY <1>1, <1>2, <1>3, <1>4, <1>5 DEF RowInv

LEMMA ClaimFrame ==
    ASSUME TypeOK, NEW w \in Workers, NEW s \in Scans, Claim(w, s)
    PROVE  /\ scan'[s].status = "running" /\ scan'[s].token = nextToken
           /\ scan'[s].lease = "valid" /\ ~ scan'[s].cancelMark
           /\ scan'[s].attempts = scan[s].attempts + 1
           /\ scan'[s].gen = scan[s].gen
           /\ \A t \in Scans \ {s} : scan'[t] = scan[t]
<1>1. scan[s] \in ScanRow /\ nextToken \in Nat /\ ~ scan[s].cancelMark
  BY DEF Claim, Runnable, TypeOK
<1>2. /\ scan'[s] = [scan[s] EXCEPT !.status = "running", !.token = nextToken,
                       !.lease = "valid", !.attempts = scan[s].attempts + 1]
      /\ \A t \in Scans \ {s} : scan'[t] = scan[t]
  BY PutRowFrame DEF Claim
<1>3. scan'[s].cancelMark = scan[s].cancelMark
  BY <1>1, <1>2 DEF ScanRow
<1>4. QED
  BY <1>1, <1>2, <1>3 DEF ScanRow

LEMMA ClaimInv ==
    ASSUME TypeOK, RowInv, NEW w \in Workers, NEW s \in Scans, Claim(w, s)
    PROVE  RowInv'
<1>0. /\ nextToken \in Nat \ {0} /\ nextToken' = nextToken + 1 /\ ingested' = ingested
      /\ ingested \subseteq Scans \X Nat /\ revoked \subseteq Scans \X Nat
      /\ \A i \in revoked' : i \in revoked \/ (i = <<s, scan[s].token>>
                                                /\ scan[s].status = "running")
  BY RevokeFrame DEF Claim, TypeOK
<1>1. /\ scan'[s].status = "running" /\ scan'[s].token = nextToken
      /\ scan'[s].lease = "valid" /\ ~ scan'[s].cancelMark
      /\ scan'[s].attempts = scan[s].attempts + 1
      /\ scan'[s].gen = scan[s].gen
      /\ \A t \in Scans \ {s} : scan'[t] = scan[t]
  BY ClaimFrame
<1>2. \A t \in Scans : scan[t].token \in Nat /\ scan[t].attempts \in Nat
  BY RowFields
<1>3. OneIngestion' /\ OneGeneration' /\ OpenIsUningested'
  BY <1>0, <1>1 DEF RowInv, Claim, Runnable, OneIngestion, OneGeneration, OpenIsUningested
<1>4. BudgetKept'
  <2>1. scan[s].attempts < MaxAttempts
    BY <1>2, BoundsAssumption DEF Claim, Runnable, RowInv, BudgetKept
  <2>2. \A a, b \in Nat : a < b => a + 1 <= b
    OBVIOUS
  <2>3. scan[s].attempts + 1 <= MaxAttempts
    BY <1>2, <2>1, <2>2, BoundsAssumption
  <2>4. QED
    BY <1>1, <2>3 DEF RowInv, BudgetKept
<1>5. /\ \A t \in Scans : scan'[t].token < nextToken'
      /\ \A i \in ingested' \cup revoked' : i[2] < nextToken'
      /\ \A i \in revoked' : i[2] # 0
  BY <1>0, <1>1, <1>2 DEF RowInv, RunningIsFenced
<1>6. RunningIsFenced'
  BY <1>0, <1>1, <1>2 DEF RowInv, RunningIsFenced
<1>7. RevokedNeverIngests'
  BY <1>0, <1>1 DEF RowInv, Claim, Runnable, OpenIsUningested, RevokedNeverIngests
<1>8. QED
  BY <1>3, <1>4, <1>5, <1>6, <1>7 DEF RowInv

LEMMA ClosedStops ==
    ASSUME TypeOK, NEW s \in Scans, NEW status \in {"failed", "cancelled"},
           PutRow(s, Closed(scan[s], status)), revoked' = revoked \/ Revoke(s),
           UNCHANGED <<nextToken, ingested, newest>>
    PROVE  RowStops(s)
<1>1. scan[s] \in ScanRow /\ status \in Status
  BY DEF TypeOK, Status, Terminal
<1>2. scan'[s] = Closed(scan[s], status) /\ \A t \in Scans \ {s} : scan'[t] = scan[t]
  BY PutRowFrame
<1>3. QED
  BY <1>1, <1>2, ClosedTyped DEF RowStops

(* Holding a row means the attempt's token is its token while it runs.     *)
LEMMA CommitIngests ==
    ASSUME TypeOK, RowInv, OneIngestionAtATime, NEW w \in Workers, Commit(w),
           Holds(w) /\ ~ MarkedCancel(w)
    PROVE  IngestsOnce(worker[w].scan, worker[w].gen, worker[w].token)
<1> DEFINE s == worker[w].scan
<1>1. /\ s \in Scans /\ scan[s] \in ScanRow
      /\ worker[w].token \in Nat /\ worker[w].gen \in Generation
  BY ActiveWorker DEF Commit
<1>2. scan[s].status = "running" /\ scan[s].token = worker[w].token
  BY DEF Holds
<1>3. /\ Ingest(s, scan[s], worker[w].gen, worker[w].token) /\ Release(w)
      /\ UNCHANGED <<nextToken, revoked>> /\ worker[w].pc = "prepared"
  BY DEF Commit
<1>4. worker[w].token < nextToken /\ <<s, worker[w].token>> \notin revoked
  BY <1>1, <1>2 DEF RowInv, RunningIsFenced
<1>5. \A v \in Workers : worker'[v].pc # "prepared"
  BY <1>3 DEF Release, IdleWorker, OneIngestionAtATime, TypeOK
<1>6. newest' = IF worker[w].gen.current /\ worker[w].gen.observed > newest
                THEN worker[w].gen.observed ELSE newest
  BY <1>3 DEF Ingest
<1>7. /\ scan'[s].status = "completed" /\ scan'[s].token = 0
      /\ scan'[s].attempts = scan[s].attempts /\ scan'[s].gen = worker[w].gen
      /\ \A t \in Scans \ {s} :
           /\ scan'[t].status = scan[t].status
           /\ scan'[t].token = scan[t].token
           /\ scan'[t].lease = scan[t].lease
           /\ scan'[t].attempts = scan[t].attempts
           /\ scan'[t].cancelMark = scan[t].cancelMark
           /\ scan'[t].gen.observed = scan[t].gen.observed
           /\ scan'[t].gen.current <=> (~ worker[w].gen.current /\ scan[t].gen.current)
      /\ ingested' = ingested \cup {<<s, worker[w].token>>}
  BY <1>1, <1>3, IngestFrame
<1>8. QED
  BY <1>1, <1>2, <1>3, <1>4, <1>5, <1>6, <1>7 DEF IngestsOnce

LEMMA ImportIngests ==
    ASSUME TypeOK, RowInv, NEW s \in Scans, NEW r \in Reports, Import(s, r)
    PROVE  IngestsOnce(s, GenerationOf(r), 0)
<1> DEFINE gen == GenerationOf(r)
<1>1. gen \in Generation /\ NoRow \in ScanRow /\ nextToken \in Nat \ {0}
  BY GenerationTyped, EmptyRecordsTyped DEF TypeOK
<1>2. /\ scan[s].status = "absent" /\ ~ SystemLocked
      /\ Ingest(s, NoRow, gen, 0) /\ UNCHANGED <<worker, nextToken, revoked>>
  BY DEF Import
<1>3. NoRow.attempts = scan[s].attempts
  BY <1>2 DEF RowInv, BudgetKept, NoRow
<1>4. <<s, 0>> \notin revoked
  BY DEF RowInv
<1>5. \A v \in Workers : worker'[v].pc # "prepared"
  BY <1>2 DEF SystemLocked
<1>6. newest' = IF gen.current /\ gen.observed > newest THEN gen.observed ELSE newest
  BY <1>2 DEF Ingest
<1> HIDE DEF gen
<1>7. /\ scan'[s].status = "completed" /\ scan'[s].token = 0
      /\ scan'[s].attempts = NoRow.attempts /\ scan'[s].gen = gen
      /\ \A t \in Scans \ {s} :
           /\ scan'[t].status = scan[t].status
           /\ scan'[t].token = scan[t].token
           /\ scan'[t].lease = scan[t].lease
           /\ scan'[t].attempts = scan[t].attempts
           /\ scan'[t].cancelMark = scan[t].cancelMark
           /\ scan'[t].gen.observed = scan[t].gen.observed
           /\ scan'[t].gen.current <=> (~ gen.current /\ scan[t].gen.current)
      /\ ingested' = ingested \cup {<<s, 0>>}
  BY <1>1, <1>2, IngestFrame
<1>8. \E q \in Reports : gen = GenerationOf(q)
  BY DEF gen
<1>9. IngestsOnce(s, gen, 0)
  BY <1>1, <1>2, <1>3, <1>4, <1>5, <1>6, <1>7, <1>8 DEF IngestsOnce
<1>10. QED
  BY <1>9 DEF gen

LEMMA FlushStops ==
    ASSUME TypeOK, NEW c \in Clients, FlushCancel(c)
    PROVE  /\ client[c].scan \in Scans
           /\ client[c].loaded \in ScanRow
           /\ RowStops(client[c].scan)
           /\ scan'[client[c].scan].status = "cancelled"
<1> DEFINE s == client[c].scan
<1>1. s \in Scans /\ client[c].loaded \in ScanRow /\ scan[s] \in ScanRow
  BY DEF FlushCancel, TypeOK, ClientState, IdleClient
<1>2. /\ scan'[s] =
           [scan[s] EXCEPT
              !.status = "cancelled", !.cancelMark = TRUE,
              !.token = IF client[c].loaded.token = 0 THEN scan[s].token ELSE 0,
              !.lease = IF client[c].loaded.lease = "none" THEN scan[s].lease ELSE "none"]
      /\ \A t \in Scans \ {s} : scan'[t] = scan[t]
  BY <1>1, PutRowFrame DEF FlushCancel
<1>3. /\ scan'[s].status = "cancelled" /\ scan'[s].token \in {0, scan[s].token}
      /\ scan'[s].attempts = scan[s].attempts /\ scan'[s].gen = scan[s].gen
  BY <1>1, <1>2 DEF ScanRow
<1>4. RowStops(s)
  BY <1>2, <1>3 DEF FlushCancel, RowStops
<1>5. QED
  BY <1>1, <1>3, <1>4

(* Every step but a cancellation's write is of one of the four kinds, and  *)
(* stops only a row that is not over.                                      *)
LEMMA BackgroundKinds ==
    ASSUME TypeOK, RowInv, OneIngestionAtATime, Background \/ UNCHANGED vars
    PROVE  \/ RowsKept
           \/ \E s \in Scans : OpenRowStops(s)
           \/ \E s \in Scans : \E gen, token : IngestsOnce(s, gen, token)
           \/ \E w \in Workers, s \in Scans : Claim(w, s)
<1> USE DEF history
<1>0. \A s \in Scans : scan[s] \in ScanRow
  BY DEF TypeOK
<1>1. ASSUME UNCHANGED <<scan, nextToken, ingested, revoked, newest>> PROVE RowsKept
  BY <1>1 DEF RowsKept
<1>2. ASSUME NEW s \in Scans, Queue(s) PROVE OpenRowStops(s)
  <2>1. /\ scan'[s] = [NoRow EXCEPT !.status = "queued"]
        /\ \A t \in Scans \ {s} : scan'[t] = scan[t]
    BY <1>2, PutRowFrame DEF Queue
  <2>2. /\ scan'[s].status = "queued" /\ scan'[s].token = 0
        /\ scan'[s].attempts = 0 /\ ~ scan'[s].gen.current
    BY <2>1 DEF NoRow, NoGeneration
  <2>3. scan[s].attempts = 0
    BY <1>2 DEF Queue, RowInv, BudgetKept
  <2>4. QED
    BY <1>2, <2>1, <2>2, <2>3 DEF Queue, OpenRowStops, RowStops, Terminal
<1>3. ASSUME NEW s \in Scans, LeaseExpires(s) PROVE RowsKept
  <2>1. /\ scan'[s] = [scan[s] EXCEPT !.lease = "expired"]
        /\ \A t \in Scans \ {s} : scan'[t] = scan[t]
    BY <1>3, PutRowFrame DEF LeaseExpires
  <2>2. QED
    BY <1>0, <1>3, <2>1 DEF LeaseExpires, RowsKept, ScanRow
<1>4. ASSUME NEW s \in Scans, NEW r \in Reports, Import(s, r)
      PROVE  \E gen, token : IngestsOnce(s, gen, token)
  BY <1>4, ImportIngests
<1>5. ASSUME NEW w \in Workers, NEW s \in Scans, Reject(w, s) PROVE OpenRowStops(s)
  BY <1>5, ClosedStops DEF Reject, Runnable, OpenRowStops, Terminal
<1>6. ASSUME NEW w \in Workers, NEW s \in Scans, TerminalizeExpired(w, s)
      PROVE  OpenRowStops(s)
  BY <1>6, ClosedStops DEF TerminalizeExpired, Exhausted, OpenRowStops, Terminal
<1>7. ASSUME NEW w \in Workers, Commit(w)
      PROVE  RowsKept \/ \E s \in Scans : \E gen, token : IngestsOnce(s, gen, token)
  <2>1. CASE Holds(w) /\ ~ MarkedCancel(w)
    BY <1>7, <2>1, CommitIngests DEF Holds
  <2>2. CASE ~ (Holds(w) /\ ~ MarkedCancel(w))
    BY <1>1, <1>7, <2>2 DEF Commit
  <2>3. QED
    BY <2>1, <2>2
<1>8. ASSUME NEW w \in Workers, RecordOutcome(w)
      PROVE  RowsKept \/ \E s \in Scans : OpenRowStops(s)
  <2>1. CASE Holds(w)
    BY <1>8, <2>1, ClosedStops DEF RecordOutcome, Holds, OpenRowStops, Terminal
  <2>2. CASE ~ Holds(w)
    BY <1>1, <1>8, <2>2 DEF RecordOutcome
  <2>3. QED
    BY <2>1, <2>2
<1>9. ASSUME NEW w \in Workers, Monitor(w) PROVE RowsKept
  <2> DEFINE s == worker[w].scan
  <2>1. CASE Holds(w) /\ ~ MarkedCancel(w)
    <3>1. s \in Scans /\ scan[s].status = "running"
      BY <2>1 DEF Holds
    <3>2. /\ scan'[s] = [scan[s] EXCEPT !.lease = "valid"]
          /\ \A t \in Scans \ {s} : scan'[t] = scan[t]
      BY <1>9, <2>1, <3>1, PutRowFrame DEF Monitor
    <3>3. QED
      BY <1>0, <1>9, <3>1, <3>2 DEF Monitor, RowsKept, ScanRow
  <2>2. CASE ~ (Holds(w) /\ ~ MarkedCancel(w))
    BY <1>1, <1>9, <2>2 DEF Monitor
  <2>3. QED
    BY <2>1, <2>2
<1>10. QED
  BY <1>1, <1>2, <1>3, <1>4, <1>5, <1>6, <1>7, <1>8, <1>9
  DEF Background, Attempt, AuthorizationEnds, Load, Prepare, Fail, Crash, Tick,
      ReadScan, vars

LEMMA RowInductive ==
    ASSUME TypeOK, RowInv, OneIngestionAtATime, [Next]_vars
    PROVE  RowInv'
<1>1. CASE Background \/ UNCHANGED vars
  BY <1>1, BackgroundKinds, RowsKeptInv, RowStopsInv, IngestsInv, ClaimInv
  DEF OpenRowStops
<1>2. ASSUME NEW c \in Clients, FlushCancel(c) PROVE RowInv'
  BY <1>2, FlushStops, RowStopsInv
<1>3. QED
  BY <1>1, <1>2 DEF Next

(* Workers: no step but a claim hands out a token, and none but Prepare    *)
(* takes the lock of the system.                                           *)
WorkersKept ==
    /\ nextToken' = nextToken
    /\ \A v \in Workers :
         /\ worker'[v].token \in {0, worker[v].token}
         /\ worker'[v].pc = "prepared" =>
               worker[v].pc = "prepared" /\ worker'[v].gen = worker[v].gen

LEMMA WorkerFrame ==
    ASSUME TypeOK, NEW w \in Workers, NEW pc \in {"ingesting", "failing", "cancelling"},
           Goto(w, pc) \/ Release(w), nextToken' = nextToken
    PROVE  WorkersKept
<1>1. worker[w] \in WorkerState
  BY DEF TypeOK
<1>2. \A v \in Workers \ {w} : worker'[v] = worker[v]
  BY DEF Goto, Release, TypeOK
<1>3. CASE Goto(w, pc)
  <2>1. worker'[w] = [worker[w] EXCEPT !.pc = pc]
    BY <1>3 DEF Goto, TypeOK
  <2>2. worker'[w].pc = pc /\ worker'[w].token = worker[w].token
    BY <1>1, <2>1 DEF WorkerState, IdleWorker
  <2>3. QED
    BY <1>2, <2>2 DEF WorkersKept
<1>4. CASE Release(w)
  <2>1. worker'[w] = IdleWorker
    BY <1>4 DEF Release, TypeOK
  <2>2. QED
    BY <1>2, <2>1 DEF WorkersKept, IdleWorker
<1>5. QED
  BY <1>3, <1>4

LEMMA PrepareFrame ==
    ASSUME TypeOK, NEW w \in Workers, NEW r \in Reports, Prepare(w, r)
    PROVE  /\ worker'[w].pc = "prepared"
           /\ worker'[w].token = worker[w].token
           /\ worker'[w].gen = GenerationOf(r)
           /\ \A v \in Workers \ {w} : worker'[v] = worker[v] /\ worker[v].pc # "prepared"
<1>1. worker[w] \in WorkerState /\ worker[w].pc = "ingesting"
  BY DEF TypeOK, Prepare
<1>2. /\ worker'[w] = [worker[w] EXCEPT !.pc = "prepared", !.gen = GenerationOf(r)]
      /\ \A v \in Workers \ {w} : worker'[v] = worker[v] /\ worker[v].pc # "prepared"
  BY DEF Prepare, SystemLocked, TypeOK
<1>3. QED
  BY <1>1, <1>2 DEF WorkerState, IdleWorker

LEMMA WorkerKinds ==
    ASSUME TypeOK, [Next]_vars
    PROVE  \/ WorkersKept
           \/ \E w \in Workers, r \in Reports : Prepare(w, r)
           \/ \E w \in Workers, s \in Scans : Claim(w, s)
<1> USE DEF history
<1>1. ASSUME UNCHANGED <<worker, nextToken>> PROVE WorkersKept
  BY <1>1 DEF WorkersKept
<1>2. ASSUME NEW w \in Workers,
             Load(w) \/ Commit(w) \/ Fail(w) \/ RecordOutcome(w) \/ Monitor(w) \/ Crash(w)
      PROVE  WorkersKept
  BY <1>1, <1>2, WorkerFrame DEF Load, Commit, Fail, RecordOutcome, Monitor, Crash
<1>3. QED
  BY <1>1, <1>2 DEF Next, Background, Attempt, Queue, AuthorizationEnds, LeaseExpires,
     Import, Reject, TerminalizeExpired, ReadScan, FlushCancel, Tick, vars

LEMMA WorkersInductive ==
    ASSUME TypeOK, [Next]_vars, OneIngestionAtATime,
           \A w \in Workers : worker[w].token < nextToken
    PROVE  OneIngestionAtATime' /\ \A w \in Workers : worker'[w].token < nextToken'
<1>0. nextToken \in Nat \ {0} /\ \A v \in Workers : worker[v].token \in Nat
  BY DEF TypeOK, WorkerState, IdleWorker
<1>1. CASE WorkersKept
  BY <1>0, <1>1 DEF WorkersKept, OneIngestionAtATime
<1>2. ASSUME NEW w \in Workers, NEW r \in Reports, Prepare(w, r)
      PROVE  OneIngestionAtATime' /\ \A v \in Workers : worker'[v].token < nextToken'
  <2>1. nextToken' = nextToken
    BY <1>2 DEF Prepare
  <2>2. QED
    BY <1>2, <2>1, PrepareFrame DEF OneIngestionAtATime
<1>3. ASSUME NEW w \in Workers, NEW s \in Scans, Claim(w, s)
      PROVE  OneIngestionAtATime' /\ \A v \in Workers : worker'[v].token < nextToken'
  <2>1. /\ worker'[w].token = nextToken /\ worker'[w].pc = "scanning"
        /\ nextToken' = nextToken + 1
        /\ \A v \in Workers \ {w} : worker'[v] = worker[v]
    BY <1>3 DEF Claim, TypeOK
  <2>2. QED
    BY <1>0, <2>1 DEF OneIngestionAtATime
<1>4. QED
  BY <1>1, <1>2, <1>3, WorkerKinds

LEMMA FencingInit == Init => FencingInv
<1>1. Init => TokensIssued /\ OneIngestionAtATime
  BY DEF Init, TokensIssued, OneIngestionAtATime, NoRow, IdleWorker
<1>2. Init => /\ OpenIsUningested /\ RunningIsFenced /\ BudgetKept
              /\ OneGeneration /\ OneIngestion /\ RevokedNeverIngests
  BY BoundsAssumption
  DEF Init, OpenIsUningested, RunningIsFenced, BudgetKept, OneGeneration, OneIngestion,
      RevokedNeverIngests, NoRow, NoGeneration
<1>3. QED
  BY <1>1, <1>2, TypeInit DEF FencingInv

LEMMA FencingInductive == FencingInv /\ [Next]_vars => FencingInv'
<1> SUFFICES ASSUME FencingInv, [Next]_vars PROVE FencingInv'
  OBVIOUS
<1>1. TypeOK /\ TypeOK' /\ RowInv
  BY TypeInductive DEF FencingInv, RowInv, TokensIssued
<1>2. RowInv'
  BY <1>1, RowInductive DEF FencingInv
<1>3. OneIngestionAtATime' /\ \A w \in Workers : worker'[w].token < nextToken'
  BY <1>1, WorkersInductive DEF FencingInv, TokensIssued
<1>4. QED
  BY <1>1, <1>2, <1>3 DEF FencingInv, RowInv, TokensIssued

(* The inductive invariant holds whatever reads cancellation acts on: the  *)
(* fence is the row's token, and one lock per system orders ingestions.    *)
THEOREM Fencing == Spec => []FencingInv
  BY FencingInit, FencingInductive, PTL DEF Spec

(* A scan is ingested at most once.                                        *)
THEOREM AtMostOneIngestion == Spec => []OneIngestion
  BY Fencing, PTL DEF FencingInv

(* An attempt that lost its row while running never ingests.               *)
THEOREM RevokedAttemptsAreFenced == Spec => []RevokedNeverIngests
  BY Fencing, PTL DEF FencingInv

(* At most one scan is the current inventory of the system.                *)
THEOREM SingleGeneration == Spec => []OneGeneration
  BY Fencing, PTL DEF FencingInv

(* No scan is run more often than its budget.                              *)
THEOREM WithinBudget == Spec => []AttemptBudget
<1>1. FencingInv => AttemptBudget
  BY DEF FencingInv, BudgetKept, AttemptBudget
<1>2. QED
  BY <1>1, Fencing, PTL

(* A scan that is over stays over.                                         *)
THEOREM TerminalStays == Spec => TerminalIsFinal
<1>1. FencingInv /\ [Next]_vars =>
        [\A s \in Scans : scan[s].status \in Terminal => scan'[s].status \in Terminal]_vars
  <2> SUFFICES ASSUME FencingInv, [Next]_vars,
                      NEW s \in Scans, scan[s].status \in Terminal
               PROVE  scan'[s].status \in Terminal
    OBVIOUS
  <2>0. TypeOK /\ RowInv /\ OneIngestionAtATime
    BY DEF FencingInv, RowInv, TokensIssued
  <2>1. CASE Background \/ UNCHANGED vars
    <3>1. CASE RowsKept
      BY <3>1 DEF RowsKept
    <3>2. ASSUME NEW t \in Scans, OpenRowStops(t) PROVE scan'[s].status \in Terminal
      BY <3>2 DEF OpenRowStops, RowStops
    <3>3. ASSUME NEW t \in Scans, NEW gen, NEW token, IngestsOnce(t, gen, token)
          PROVE  scan'[s].status \in Terminal
      BY <3>3 DEF IngestsOnce, Terminal
    <3>4. ASSUME NEW w \in Workers, NEW t \in Scans, Claim(w, t)
          PROVE  scan'[s].status \in Terminal
      <4>1. scan[t].status \in {"queued", "running"}
        BY <3>4 DEF Claim, Runnable
      <4>2. QED
        BY <2>0, <3>4, <4>1, ClaimFrame DEF Terminal
    <3>5. QED
      BY <2>0, <2>1, <3>1, <3>2, <3>3, <3>4, BackgroundKinds
  <2>2. ASSUME NEW c \in Clients, FlushCancel(c) PROVE scan'[s].status \in Terminal
    BY <2>0, <2>2, FlushStops DEF RowStops, Terminal
  <2>3. QED
    BY <2>1, <2>2 DEF Next
<1>2. QED
  BY <1>1, Fencing, PTL DEF Spec, TerminalIsFinal

-----------------------------------------------------------------------------
(* The inventory's timeline.  Cancellations never act on a stale read.     *)

LEMMA SerialIsSpec == SerialSpec => Spec
<1>1. [SerialNext]_vars => [Next]_vars
  BY DEF SerialNext, Next
<1>2. QED
  BY <1>1, PTL DEF SerialSpec, Spec

(* A serial cancellation closes a row that is open.                        *)
LEMMA FreshStopsOpen ==
    ASSUME TypeOK, LoadedIsOpen, NEW c \in Clients, Fresh(c), FlushCancel(c)
    PROVE  \E s \in Scans : OpenRowStops(s)
<1>1. client[c].loaded.status \in {"queued", "running"}
  BY DEF FlushCancel, LoadedIsOpen
<1>2. scan[client[c].scan].status \in {"queued", "running"}
  BY <1>1 DEF Fresh
<1>3. QED
  BY <1>2, FlushStops DEF OpenRowStops, Terminal

LEMMA SerialKinds ==
    ASSUME FencingInv, LoadedIsOpen, [SerialNext]_vars
    PROVE  \/ RowsKept
           \/ \E s \in Scans : OpenRowStops(s)
           \/ \E s \in Scans : \E gen, token : IngestsOnce(s, gen, token)
           \/ \E w \in Workers, s \in Scans : Claim(w, s)
<1>0. TypeOK /\ RowInv /\ OneIngestionAtATime
  BY DEF FencingInv, RowInv, TokensIssued
<1>1. CASE Background \/ UNCHANGED vars
  BY <1>0, <1>1, BackgroundKinds
<1>2. ASSUME NEW c \in Clients, Fresh(c), FlushCancel(c)
      PROVE  \E s \in Scans : OpenRowStops(s)
  BY <1>0, <1>2, FreshStopsOpen
<1>3. QED
  BY <1>1, <1>2 DEF SerialNext

LEMMA LoadedInductive ==
    ASSUME TypeOK, LoadedIsOpen, [Next]_vars
    PROVE  LoadedIsOpen'
<1> USE DEF history
<1>1. ASSUME NEW c \in Clients, NEW s \in Scans, ReadScan(c, s) PROVE LoadedIsOpen'
  BY <1>1 DEF ReadScan, LoadedIsOpen, TypeOK
<1>2. ASSUME NEW c \in Clients, FlushCancel(c) PROVE LoadedIsOpen'
  BY <1>2 DEF FlushCancel, LoadedIsOpen, TypeOK, IdleClient
<1>3. CASE UNCHANGED client
  BY <1>3 DEF LoadedIsOpen
<1>4. QED
  BY <1>1, <1>2, <1>3
  DEF Next, Background, Attempt, Queue, AuthorizationEnds, LeaseExpires, Import, Claim,
      Reject, TerminalizeExpired, Load, Prepare, Commit, Fail, RecordOutcome, Monitor,
      Crash, Tick, vars

(* A generation becomes current only with a time after the newest one.     *)
LEMMA SuccessorTime ==
    ASSUME TypeOK, CurrentIsNewest, NoInventoryNoTime,
           NEW r \in Reports, GenerationOf(r).current
    PROVE  GenerationOf(r).observed > newest
<1>1. IsNewer(r) /\ GenerationOf(r).observed = ObservedAt(r)
  BY DEF GenerationOf
<1>2. ObservedAt(r) \in Nat \ {0} /\ newest \in Nat
  BY GenerationTyped DEF TypeOK
<1>3. CASE CurrentScans = {}
  BY <1>1, <1>2, <1>3 DEF NoInventoryNoTime
<1>4. CASE CurrentScans # {}
  <2>1. PICK s \in CurrentScans : TRUE
    BY <1>4
  <2>2. s \in Scans /\ scan[s].gen.current
    BY <2>1 DEF CurrentScans
  <2>3. scan[s].gen.observed = newest
    BY <2>2 DEF CurrentIsNewest
  <2>4. QED
    BY <1>1, <2>1, <2>3 DEF IsNewer
<1>5. QED
  BY <1>3, <1>4

LEMMA SuccessorInductive ==
    ASSUME TypeOK, TimelineInv, [Next]_vars, newest' = newest
    PROVE  SuccessorIsNewer'
<1>1. CASE WorkersKept
  BY <1>1 DEF WorkersKept, TimelineInv, SuccessorIsNewer
<1>2. ASSUME NEW w \in Workers, NEW r \in Reports, Prepare(w, r)
      PROVE  SuccessorIsNewer'
  BY <1>2, PrepareFrame, SuccessorTime DEF TimelineInv, SuccessorIsNewer
<1>3. ASSUME NEW w \in Workers, NEW s \in Scans, Claim(w, s) PROVE SuccessorIsNewer'
  BY <1>3 DEF Claim, TypeOK, TimelineInv, SuccessorIsNewer
<1>4. QED
  BY <1>1, <1>2, <1>3, WorkerKinds

(* The inventory in terms of the row's flags.                              *)
InventoryInv == CancelledIngestsNothing /\ CurrentIsNewest /\ NoInventoryNoTime

LEMMA StopKeepsInventory ==
    ASSUME FencingInv, TimelineInv, NEW s \in Scans, OpenRowStops(s)
    PROVE  InventoryInv'
<1>1. ~ scan[s].gen.current /\ ~ scan'[s].gen.current /\ scan'[s].status # "completed"
  BY DEF TimelineInv, CurrentIsNewest, OpenRowStops, RowStops, Terminal
<1>2. scan[s].status \in Status
  BY RowFields DEF FencingInv
<1>3. \A i \in ingested : i[1] # s
  BY <1>2 DEF FencingInv, OpenIsUningested, OpenRowStops, Status
<1>4. CancelledIngestsNothing'
  BY <1>3 DEF FencingInv, TypeOK, TimelineInv, CancelledIngestsNothing, OpenRowStops, RowStops
<1>5. CurrentScans' = CurrentScans
  BY <1>1 DEF CurrentScans, OpenRowStops, RowStops
<1>6. CurrentIsNewest' /\ NoInventoryNoTime'
  BY <1>1, <1>5 DEF TimelineInv, CurrentIsNewest, NoInventoryNoTime, OpenRowStops, RowStops
<1>7. QED
  BY <1>4, <1>6 DEF InventoryInv

LEMMA ClaimKeepsInventory ==
    ASSUME FencingInv, TimelineInv, NEW w \in Workers, NEW s \in Scans, Claim(w, s)
    PROVE  InventoryInv'
<1>1. /\ scan[s].status \in {"queued", "running"} /\ scan'[s].status = "running"
      /\ scan'[s].gen = scan[s].gen
      /\ \A t \in Scans \ {s} : scan'[t] = scan[t]
      /\ ingested' = ingested /\ newest' = newest
  BY ClaimFrame DEF Claim, Runnable, FencingInv
<1>2. ~ scan[s].gen.current
  BY <1>1 DEF TimelineInv, CurrentIsNewest
<1>3. \A i \in ingested : i[1] # s
  BY <1>1 DEF FencingInv, OpenIsUningested
<1>4. CancelledIngestsNothing'
  BY <1>1, <1>3 DEF FencingInv, TypeOK, TimelineInv, CancelledIngestsNothing
<1>5. CurrentScans' = CurrentScans
  BY <1>1, <1>2 DEF CurrentScans
<1>6. CurrentIsNewest' /\ NoInventoryNoTime'
  BY <1>1, <1>2, <1>5 DEF TimelineInv, CurrentIsNewest, NoInventoryNoTime
<1>7. QED
  BY <1>4, <1>6 DEF InventoryInv

LEMMA KeptInventory ==
    ASSUME FencingInv, TimelineInv, RowsKept
    PROVE  InventoryInv'
<1>1. CurrentScans' = CurrentScans
  BY DEF CurrentScans, RowsKept
<1>2. CancelledIngestsNothing'
  BY DEF FencingInv, TypeOK, TimelineInv, CancelledIngestsNothing, RowsKept
<1>3. CurrentIsNewest' /\ NoInventoryNoTime'
  BY <1>1 DEF TimelineInv, CurrentIsNewest, NoInventoryNoTime, RowsKept
<1>4. QED
  BY <1>2, <1>3 DEF InventoryInv

(* An ingestion that becomes current is newer than what it replaces.       *)
LEMMA IngestionTime ==
    ASSUME TypeOK, TimelineInv, NEW s, NEW gen, NEW token, IngestsOnce(s, gen, token)
    PROVE  /\ gen.current => gen.observed > newest /\ newest' = gen.observed
           /\ ~ gen.current => newest' = newest
<1>1. gen.current => gen.observed > newest
  BY SuccessorTime DEF IngestsOnce, TimelineInv, SuccessorIsNewer
<1>2. QED
  BY <1>1 DEF IngestsOnce

LEMMA IngestKeepsInventory ==
    ASSUME FencingInv, TimelineInv, NEW s \in Scans, NEW gen, NEW token,
           IngestsOnce(s, gen, token)
    PROVE  InventoryInv'
<1>0. /\ gen.current \in BOOLEAN /\ scan[s].status \in {"absent", "running"}
      /\ scan'[s].status = "completed" /\ scan'[s].gen = gen
      /\ \A t \in Scans \ {s} :
           /\ scan'[t].status = scan[t].status
           /\ scan'[t].gen.observed = scan[t].gen.observed
           /\ scan'[t].gen.current <=> (~ gen.current /\ scan[t].gen.current)
      /\ ingested' = ingested \cup {<<s, token>>}
  BY DEF IngestsOnce, Generation
<1>1. ~ scan[s].gen.current /\ \A i \in ingested : i[1] # s
  BY <1>0 DEF TimelineInv, CurrentIsNewest, FencingInv, OpenIsUningested
<1>2. /\ gen.current => newest' = gen.observed
      /\ ~ gen.current => newest' = newest
  BY IngestionTime DEF FencingInv
<1>3. CancelledIngestsNothing'
  BY <1>0, <1>1 DEF FencingInv, TypeOK, TimelineInv, CancelledIngestsNothing
<1>4. CurrentIsNewest'
  BY <1>0, <1>2 DEF TimelineInv, CurrentIsNewest
<1>5. NoInventoryNoTime'
  <2>1. CASE gen.current
    BY <1>0, <2>1 DEF NoInventoryNoTime, CurrentScans
  <2>2. CASE ~ gen.current
    <3>1. CurrentScans \subseteq CurrentScans'
      BY <1>0, <1>1, <2>2 DEF CurrentScans
    <3>2. QED
      BY <1>2, <2>2, <3>1 DEF TimelineInv, NoInventoryNoTime
  <2>3. QED
    BY <2>1, <2>2
<1>6. QED
  BY <1>3, <1>4, <1>5 DEF InventoryInv

LEMMA TimelineInductive ==
    ASSUME FencingInv, TimelineInv, [SerialNext]_vars
    PROVE  TimelineInv'
<1>0. TypeOK /\ LoadedIsOpen /\ [Next]_vars
  BY DEF FencingInv, TimelineInv, SerialNext, Next
<1>1. LoadedIsOpen'
  BY <1>0, LoadedInductive
<1>2. InventoryInv'
  BY <1>0, SerialKinds, KeptInventory, StopKeepsInventory, ClaimKeepsInventory,
     IngestKeepsInventory
<1>3. SuccessorIsNewer'
  <2>1. ASSUME NEW s \in Scans, NEW gen, NEW token, IngestsOnce(s, gen, token)
        PROVE  SuccessorIsNewer'
    BY <2>1 DEF IngestsOnce, SuccessorIsNewer
  <2>2. CASE newest' = newest
    BY <1>0, <2>2, SuccessorInductive
  <2>3. QED
    BY <1>0, <2>1, <2>2, SerialKinds DEF RowsKept, OpenRowStops, RowStops, Claim
<1>4. QED
  BY <1>1, <1>2, <1>3 DEF TimelineInv, InventoryInv

(* The flagged row is completed and carries the newest time accepted, and  *)
(* whatever is about to replace it is newer.                               *)
THEOREM Timeline == SerialSpec => []TimelineInv
<1>1. Init => TimelineInv
  BY DEF Init, TimelineInv, LoadedIsOpen, CancelledIngestsNothing, CurrentIsNewest,
     NoInventoryNoTime, SuccessorIsNewer, IdleClient, IdleWorker, NoRow, NoGeneration
<1>2. FencingInv /\ TimelineInv /\ [SerialNext]_vars => TimelineInv'
  BY TimelineInductive
<1>3. SerialSpec => []FencingInv
  BY SerialIsSpec, Fencing, PTL
<1>4. QED
  BY <1>1, <1>2, <1>3, PTL DEF SerialSpec

(* The current inventory is the newest ever accepted.                      *)
THEOREM InventoryMovesForward == SerialSpec => []InventoryNeverRegresses
<1>1. FencingInv /\ TimelineInv => InventoryNeverRegresses
  BY DEF FencingInv, TypeOK, TimelineInv, CurrentIsNewest, InventoryNeverRegresses
<1>2. SerialSpec => []FencingInv
  BY SerialIsSpec, Fencing, PTL
<1>3. QED
  BY <1>1, <1>2, Timeline, PTL

(* What was ingested belongs to a completed scan.                          *)
THEOREM CancelledScansLeaveNothing == SerialSpec => []CancelledIngestsNothing
  BY Timeline, PTL DEF TimelineInv

(* Beyond the times: the inventory's rows change in no step but an         *)
(* ingestion.                                                              *)
InventoryKept ==
    CurrentScans' = CurrentScans /\ \A s \in CurrentScans : scan'[s].gen = scan[s].gen

LEMMA InventoryKinds ==
    ASSUME FencingInv, TimelineInv, [SerialNext]_vars
    PROVE  InventoryKept \/ \E s \in Scans : \E gen, token : IngestsOnce(s, gen, token)
<1>1. CASE RowsKept
  BY <1>1 DEF RowsKept, InventoryKept, CurrentScans
<1>2. ASSUME NEW s \in Scans, OpenRowStops(s) PROVE InventoryKept
  <2>1. ~ scan[s].gen.current /\ ~ scan'[s].gen.current
    BY <1>2 DEF TimelineInv, CurrentIsNewest, OpenRowStops, RowStops, Terminal
  <2>2. \A t \in Scans \ {s} : scan'[t] = scan[t]
    BY <1>2 DEF OpenRowStops, RowStops
  <2>3. QED
    BY <2>1, <2>2 DEF InventoryKept, CurrentScans
<1>3. ASSUME NEW w \in Workers, NEW s \in Scans, Claim(w, s) PROVE InventoryKept
  <2>1. /\ scan[s].status \in {"queued", "running"} /\ scan'[s].status = "running"
        /\ \A t \in Scans \ {s} : scan'[t] = scan[t]
    BY <1>3, ClaimFrame DEF Claim, Runnable, FencingInv
  <2>2. QED
    BY <2>1 DEF InventoryKept, CurrentScans
<1>4. QED
  BY <1>1, <1>2, <1>3, SerialKinds DEF TimelineInv

(* What is prepared without a time of its own found no dated inventory.    *)
UndatedFollowsUndated ==
    \A w \in Workers :
        worker[w].pc = "prepared" /\ worker[w].gen.current /\ worker[w].gen.clock = "missing"
        => \A s \in CurrentScans : scan[s].gen.clock = "missing"

LEMMA UndatedGeneration ==
    ASSUME NEW r \in Reports, GenerationOf(r).current, GenerationOf(r).clock = "missing"
    PROVE  \A s \in CurrentScans : scan[s].gen.clock = "missing"
  BY DEF GenerationOf, CanBeAuthoritative

LEMMA UndatedInductive ==
    ASSUME FencingInv, TimelineInv, UndatedFollowsUndated, [SerialNext]_vars
    PROVE  UndatedFollowsUndated'
<1>0. TypeOK /\ [Next]_vars
  BY DEF FencingInv, SerialNext, Next
<1>1. ASSUME NEW s \in Scans, NEW gen, NEW token, IngestsOnce(s, gen, token)
      PROVE  UndatedFollowsUndated'
  BY <1>1 DEF IngestsOnce, UndatedFollowsUndated
<1>2. ASSUME InventoryKept,
             \A s \in CurrentScans : scan[s].gen.clock = "missing"
      PROVE  \A s \in CurrentScans' : scan'[s].gen.clock = "missing"
  BY <1>2 DEF InventoryKept
<1>3. CASE InventoryKept
  <2>1. CASE WorkersKept
    BY <1>2, <1>3, <2>1 DEF WorkersKept, UndatedFollowsUndated
  <2>2. ASSUME NEW w \in Workers, NEW r \in Reports, Prepare(w, r)
        PROVE  UndatedFollowsUndated'
    BY <1>0, <1>2, <1>3, <2>2, PrepareFrame, UndatedGeneration DEF UndatedFollowsUndated
  <2>3. ASSUME NEW w \in Workers, NEW s \in Scans, Claim(w, s)
        PROVE  UndatedFollowsUndated'
    BY <1>0, <1>2, <1>3, <2>3 DEF Claim, TypeOK, UndatedFollowsUndated
  <2>4. QED
    BY <1>0, <2>1, <2>2, <2>3, WorkerKinds
<1>4. QED
  BY <1>1, <1>3, InventoryKinds

LEMMA UndatedStep ==
    ASSUME FencingInv, TimelineInv, UndatedFollowsUndated, [SerialNext]_vars,
           NEW s \in CurrentScans, NEW t \in CurrentScans', s # t, scan'[t].gen.clock = "missing"
    PROVE  scan[s].gen.clock = "missing"
<1>1. s \in Scans /\ scan[s].gen.current /\ t \in Scans /\ scan'[t].gen.current
  BY DEF CurrentScans
<1>2. \A u \in Scans : scan[u].gen.current => u = s
  BY <1>1 DEF FencingInv, OneGeneration
<1>3. ~ InventoryKept
  BY <1>1, <1>2 DEF InventoryKept, CurrentScans
<1>4. PICK u \in Scans : \E gen, token : IngestsOnce(u, gen, token)
  BY <1>3, InventoryKinds
<1>5. PICK gen, token : IngestsOnce(u, gen, token)
  BY <1>4
<1>6. t = u /\ scan'[t].gen = gen
  BY <1>1, <1>2, <1>5 DEF IngestsOnce
<1>7. \/ \E r \in Reports : gen = GenerationOf(r)
      \/ \E w \in Workers : worker[w].pc = "prepared" /\ worker[w].gen = gen
  BY <1>5 DEF IngestsOnce
<1>8. QED
  BY <1>1, <1>6, <1>7, UndatedGeneration DEF UndatedFollowsUndated

(* A scan that reports no time of its own never takes the place of an      *)
(* inventory with one, not even if it decided its generation before that   *)
(* inventory was committed (prepare_scan_generation).                      *)
THEOREM DatedInventoryStays == SerialSpec => UndatedNeverDisplacesDated
<1>1. Init => UndatedFollowsUndated
  <2>1. Init => \A w \in Workers : worker[w].pc = "idle"
    BY DEF Init, IdleWorker
  <2>2. QED
    BY <2>1 DEF UndatedFollowsUndated
<1>2. FencingInv /\ TimelineInv /\ UndatedFollowsUndated /\ [SerialNext]_vars
         => UndatedFollowsUndated'
  BY UndatedInductive
<1>3. FencingInv /\ TimelineInv /\ UndatedFollowsUndated /\ [SerialNext]_vars
         => [\A s \in CurrentScans, t \in CurrentScans' :
               s # t /\ scan'[t].gen.clock = "missing" => scan[s].gen.clock = "missing"]_vars
  BY UndatedStep
<1>4. SerialSpec => []FencingInv
  BY SerialIsSpec, Fencing, PTL
<1>5. QED
  BY <1>1, <1>2, <1>3, <1>4, Timeline, PTL DEF SerialSpec, UndatedNeverDisplacesDated

-----------------------------------------------------------------------------
(* The contract.                                                           *)

FateBar == [s \in Scans |-> FateOf(scan[s])]

LEMMA InventoryTimeIsNewest == TimelineInv => InventoryTime = newest
<1> SUFFICES ASSUME TimelineInv PROVE InventoryTime = newest
  OBVIOUS
<1>1. CASE CurrentScans = {}
  BY <1>1 DEF TimelineInv, NoInventoryNoTime, InventoryTime
<1>2. CASE CurrentScans # {}
  <2> DEFINE s == CHOOSE t \in CurrentScans : TRUE
  <2>1. s \in CurrentScans
    BY <1>2
  <2>2. InventoryTime = scan[s].gen.observed
    BY <1>2 DEF InventoryTime
  <2> HIDE DEF s
  <2>3. QED
    BY <2>1, <2>2 DEF TimelineInv, CurrentIsNewest, CurrentScans
<1>3. QED
  BY <1>1, <1>2

(* A step that moves one row to another fate, or none.                     *)
LEMMA FateMove ==
    ASSUME NEW s \in Scans, NEW f, FateOf(scan'[s]) = f,
           \A t \in Scans \ {s} : FateOf(scan'[t]) = FateOf(scan[t])
    PROVE  FateBar' = [FateBar EXCEPT ![s] = f]
  BY DEF FateBar

LEMMA Invisible ==
    ASSUME \A s \in Scans : FateOf(scan'[s]) = FateOf(scan[s]),
           InventoryTime' = InventoryTime
    PROVE  UNCHANGED Contract!vars
  BY DEF Contract!vars

LEMMA StepImplements ==
    ASSUME FencingInv, TimelineInv, TimelineInv', InventoryTime = newest,
           InventoryTime' = newest', [SerialNext]_vars
    PROVE  [Contract!Next]_(Contract!vars)
<1>0. TypeOK /\ LoadedIsOpen
  BY DEF FencingInv, TimelineInv
<1>1. CASE RowsKept
  BY <1>1, Invisible DEF RowsKept, FateOf
<1>2. ASSUME NEW s \in Scans, OpenRowStops(s)
      PROVE  Contract!Submit(s) \/ Contract!Close(s)
  <2>1. /\ InventoryTime' = InventoryTime
        /\ \A t \in Scans \ {s} : FateOf(scan'[t]) = FateOf(scan[t])
    BY <1>2 DEF OpenRowStops, RowStops
  <2>2. CASE scan'[s].status = "queued"
    <3>1. FateOf(scan[s]) = "absent" /\ FateOf(scan'[s]) = "open"
      BY <1>2, <2>2 DEF OpenRowStops, RowStops, FateOf
    <3>2. QED
      BY <2>1, <3>1, FateMove DEF FateBar, Contract!Submit, Contract!Become
  <2>3. CASE scan'[s].status # "queued"
    <3>1. scan[s].status \in {"queued", "running"}
          /\ scan'[s].status \in {"failed", "cancelled"}
      BY <1>0, <1>2, <2>3, RowFields DEF OpenRowStops, RowStops, Status, Terminal
    <3>2. FateOf(scan[s]) = "open" /\ FateOf(scan'[s]) = "closed"
      BY <3>1 DEF FateOf
    <3>3. QED
      BY <2>1, <3>2, FateMove DEF FateBar, Contract!Close, Contract!Become
  <2>4. QED
    BY <2>2, <2>3
<1>3. ASSUME NEW s \in Scans, NEW gen, NEW token, IngestsOnce(s, gen, token)
      PROVE  Contract!Record(s) \/ Contract!Advance(s)
  <2>1. /\ FateOf(scan[s]) \in {"absent", "open"} /\ FateOf(scan'[s]) = "ingested"
        /\ \A t \in Scans \ {s} : FateOf(scan'[t]) = FateOf(scan[t])
    BY <1>3 DEF IngestsOnce, FateOf
  <2>2. FateBar' = [FateBar EXCEPT ![s] = "ingested"]
    BY <2>1, FateMove
  <2>3. CASE gen.current
    <3>1. InventoryTime' > InventoryTime /\ InventoryTime' \in Nat
      BY <1>0, <1>3, <2>3, IngestionTime DEF IngestsOnce, Generation
    <3>2. QED
      BY <2>1, <2>2, <3>1 DEF FateBar, Contract!Advance, Contract!Become
  <2>4. CASE ~ gen.current
    <3>1. InventoryTime' = InventoryTime
      BY <1>0, <1>3, <2>4, IngestionTime
    <3>2. QED
      BY <2>1, <2>2, <3>1 DEF FateBar, Contract!Record, Contract!Become
  <2>5. QED
    BY <2>3, <2>4
<1>4. ASSUME NEW w \in Workers, NEW s \in Scans, Claim(w, s)
      PROVE  UNCHANGED Contract!vars
  <2>1. /\ scan[s].status \in {"queued", "running"} /\ scan'[s].status = "running"
        /\ \A t \in Scans \ {s} : scan'[t] = scan[t]
        /\ newest' = newest
    BY <1>0, <1>4, ClaimFrame DEF Claim, Runnable
  <2>2. \A t \in Scans : FateOf(scan'[t]) = FateOf(scan[t])
    BY <2>1 DEF FateOf
  <2>3. QED
    BY <2>1, <2>2, Invisible
<1>5. QED
  <2>1. CASE RowsKept
    BY <1>1, <2>1
  <2>2. ASSUME NEW s \in Scans, OpenRowStops(s) PROVE Contract!Next
    BY <1>2, <2>2 DEF Contract!Next
  <2>3. ASSUME NEW s \in Scans, NEW gen, NEW token, IngestsOnce(s, gen, token)
        PROVE  Contract!Next
    BY <1>3, <2>3 DEF Contract!Next
  <2>4. ASSUME NEW w \in Workers, NEW s \in Scans, Claim(w, s)
        PROVE  UNCHANGED Contract!vars
    BY <1>4, <2>4
  <2>5. QED
    BY <1>0, <2>1, <2>2, <2>3, <2>4, SerialKinds

(* When no cancellation acts on a stale read, a scan has one final fate    *)
(* and each new inventory is newer than the one it replaces.               *)
THEOREM Refinement == SerialSpec => ImplementsContract
<1>1. Init => Contract!Init
  BY DEF Init, Contract!Init, FateOf, InventoryTime, CurrentScans, NoRow, NoGeneration
<1>2. SerialSpec => []FencingInv /\ []TimelineInv
  BY SerialIsSpec, Fencing, Timeline, PTL
<1>3. SerialSpec => [](InventoryTime = newest)
  BY <1>2, InventoryTimeIsNewest, PTL
<1>4. /\ FencingInv /\ TimelineInv /\ InventoryTime = newest
      /\ TimelineInv' /\ (InventoryTime = newest)' /\ [SerialNext]_vars
      => [Contract!Next]_(Contract!vars)
  BY StepImplements
<1>5. QED
  BY <1>1, <1>2, <1>3, <1>4, PTL DEF SerialSpec, ImplementsContract, Contract!Spec
=============================================================================
