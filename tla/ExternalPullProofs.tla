------------------------- MODULE ExternalPullProofs -------------------------
(***************************************************************************)
(* Proofs about the external pull, for every set of pullers, runs and      *)
(* records, every page limit and every number of faults and edits.         *)
(***************************************************************************)
EXTENDS ExternalPull, TLAPS

-----------------------------------------------------------------------------
(* The inductive invariant.                                                *)

ConnectorOK ==
    /\ connector \in Connector
    /\ connector.next = "none" <=> ~ (connector.enabled /\ connector.scheduled)
    /\ connector.claim # Nobody => connector.next # "none"

RowsOK ==
    /\ run \in [Runs -> RunRow]
    /\ \A i \in Runs : run[i].lease = "none" <=> run[i].status # "running"

StoreOK ==
    /\ strays \in SUBSET Records
    /\ checkpoint \in Checkpoint
    /\ Resumable \/ checkpoint = NoCheckpoint
    /\ subscription \in {"none", "held", "expired"}
    /\ hub \in SUBSET Records
    /\ faults \in 0..MaxFaults
    /\ edits \in 0..MaxEdits

Unemployed == {"idle", "claimed", "complete", "partial", "retry"}

PullersOK ==
    /\ puller \in [Pullers -> PullerState]
    /\ \A p \in Pullers : (puller[p].run = NoRun) <=> puller[p].pc \in Unemployed

(* A call that may still fetch has pages left, and they fit; one that has  *)
(* stopped fetching has a page; one that was promised more has room for it.*)
Fits(state) ==
    /\ state.pc \in {"started", "fetching"} =>
          state.left >= 1 /\ state.at + state.left <= MaxPages
    /\ state.pc \in {"fetched", "importing"} => state.at >= 1
    /\ state.run # NoRun /\ state.more => state.at < MaxPages

PagesFit == \A p \in Pullers : Fits(puller[p])

(* Configuration versions are counted by the changes of the connector.     *)
VersionsCounted == connector.version <= edits + 1

(* The row a puller works on is never forgotten.                           *)
RowsKept ==
    \A p \in Pullers : puller[p].run # NoRun => run[puller[p].run].status # "absent"

OneRunning == \A i, j \in Running : i = j

OnePuller ==
    \A p, q \in Pullers :
        puller[p].run # NoRun /\ puller[p].run = puller[q].run => p = q

Inv ==
    /\ ConnectorOK /\ RowsOK /\ StoreOK /\ PullersOK
    /\ PagesFit /\ VersionsCounted /\ RowsKept /\ OneRunning /\ OnePuller

LEMMA Parts == Inv => TypeOK /\ OneOwner
  BY DEF Inv, TypeOK, OneOwner, ConnectorOK, RowsOK, StoreOK, PullersOK,
         Unemployed, OneRunning, OnePuller

-----------------------------------------------------------------------------
(* Typing of what a step writes.                                           *)

LEMMA RowFields ==
    ASSUME RowsOK, NEW i \in Runs
    PROVE  /\ run[i].status \in {"absent", "running", "partial", "completed", "failed"}
           /\ run[i].lease \in {"none", "valid", "expired"}
           /\ run[i].version \in 0..(MaxEdits + 1)
           /\ run[i].snapshot \in Runs \cup {NoRun}
           /\ run[i].pages \in SUBSET PageRow
           /\ run[i].lease = "none" <=> run[i].status # "running"
  BY DEF RowsOK, RunRow

LEMMA PullerFields ==
    ASSUME PullersOK, NEW p \in Pullers
    PROVE  /\ puller[p] \in PullerState
           /\ puller[p].sched \in BOOLEAN
           /\ puller[p].at \in 0..MaxPages
           /\ puller[p].left \in 0..MaxPages
           /\ puller[p].more \in BOOLEAN
           /\ puller[p].reset \in BOOLEAN
           /\ puller[p].pc \notin Unemployed => puller[p].run \in Runs
  BY DEF PullersOK, PullerState, Unemployed

LEMMA IdentitiesTyped ==
    ASSUME RowsOK, NEW rows \in SUBSET Runs
    PROVE  IdentitiesOf(rows) \in SUBSET Records
<1>1. \A i \in rows : run[i].pages \in SUBSET PageRow
  BY RowFields
<1>2. PagesOf(rows) \in SUBSET PageRow
  BY <1>1 DEF PagesOf
<1>3. QED
  BY <1>2 DEF IdentitiesOf, PageRow

LEMMA EndedTyped ==
    ASSUME NEW row \in RunRow, NEW status \in {"partial", "completed", "failed"},
           NEW pages \in SUBSET PageRow
    PROVE  /\ Ended(row, status, pages) \in RunRow
           /\ Ended(row, status, pages).status = status
           /\ Ended(row, status, pages).lease = "none"
  BY DEF Ended, RunRow

LEMMA EmptyRowTyped == NoRow \in RunRow /\ NoRow.status = "absent" /\ NoRow.lease = "none"
  BY BoundsAssumption DEF NoRow, RunRow

LEMMA RestingTyped ==
    ASSUME NEW pc \in Unemployed, NEW sched \in BOOLEAN
    PROVE  /\ Resting(pc, sched) \in PullerState
           /\ Resting(pc, sched).run = NoRun
           /\ Resting(pc, sched).pc = pc
<1>1. 0 \in 0..MaxPages
  BY BoundsAssumption
<1>2. QED
  BY <1>1 DEF Resting, PullerState, Unemployed

LEMMA IdleTyped ==
    /\ IdlePuller \in PullerState
    /\ IdlePuller.run = NoRun
    /\ IdlePuller.pc = "idle"
  BY RestingTyped DEF IdlePuller, Unemployed

-----------------------------------------------------------------------------
(* A step starts a run or does something else.                             *)

Starts ==
    \E p \in Pullers, budget \in 1..MaxPages :
        StartRun(p, NewRow, budget) /\ puller[p].pc \in {"idle", "claimed"}

PullerActs(p) ==
    \/ StartRefused(p) \/ FirstBeat(p) \/ Fetch(p) \/ FetchRefused(p) \/ Disowned(p)
    \/ BeginImport(p) \/ Finalize(p) \/ Fail(p) \/ Reschedule(p) \/ Claim(p)
    \/ WorkFails(p) \/ Crash(p)

Surroundings ==
    (\E i \in Runs : LeaseExpires(i)) \/ BecomesDue \/ CursorExpires \/ SyncTokenExpires \/ Edit

LEMMA Steps ==
    ASSUME [Next]_vars
    PROVE  UNCHANGED vars \/ Starts \/ (\E p \in Pullers : PullerActs(p)) \/ Surroundings
<1>1. ASSUME NEW p \in Pullers, StartManual(p) PROVE Starts
  BY <1>1 DEF StartManual, Starts
<1>2. ASSUME NEW p \in Pullers, StartScheduled(p) PROVE Starts
  <2>1. MaxPages \in 1..MaxPages
    BY BoundsAssumption
  <2>2. QED
    BY <1>2, <2>1 DEF StartScheduled, Starts
<1>3. QED
  BY <1>1, <1>2 DEF Next, Work, PullerActs, Surroundings

-----------------------------------------------------------------------------
(* Rows.                                                                   *)

(* What every step but a start does to the rows: none starts to run, none  *)
(* is forgotten.                                                           *)
RowsMove ==
    /\ RowsOK'
    /\ \A i \in Runs : /\ run'[i].status = "running" => run[i].status = "running"
                       /\ run'[i].status = "absent" => run[i].status = "absent"

LEMMA SameRows ==
    ASSUME RowsOK, UNCHANGED run
    PROVE  RowsMove
  BY DEF RowsOK, RowsMove

LEMMA RowReplaced ==
    ASSUME RowsOK, NEW i \in Runs, NEW row \in RunRow,
           row.lease = "none" <=> row.status # "running",
           row.status = "running" => run[i].status = "running",
           row.status # "absent",
           run' = [run EXCEPT ![i] = row]
    PROVE  RowsMove
<1>1. run' \in [Runs -> RunRow]
  BY DEF RowsOK
<1>2. \A j \in Runs : run'[j] = IF j = i THEN row ELSE run[j]
  BY DEF RowsOK
<1>3. QED
  BY <1>1, <1>2 DEF RowsOK, RowsMove

LEMMA PageRecorded ==
    ASSUME RowsOK, PullersOK, PagesFit, NEW p \in Pullers,
           NEW items \in PageItems, NEW more, NEW reset, FetchPage(p, items, more, reset)
    PROVE  RowsMove
<1> DEFINE i == puller[p].run
           page == [number |-> puller[p].at + 1, items |-> items]
           row == WithPage(run[i], puller[p].at + 1, items)
<1>1. puller[p].pc = "fetching" /\ run[i].status = "running" /\ run' = [run EXCEPT ![i] = row]
  BY DEF FetchPage, Owns
<1>2. i \in Runs
  BY <1>1, PullerFields DEF Unemployed
<1>3. puller[p].at \in 0..MaxPages /\ puller[p].left \in 0..MaxPages
  BY PullerFields
<1>4. puller[p].at + 1 \in 1..MaxPages
  BY <1>1, <1>3, BoundsAssumption DEF PagesFit, Fits
<1>5. items \in SUBSET Records
  BY DEF PageItems
<1>6. page \in PageRow
  BY <1>4, <1>5 DEF PageRow
<1>7. run[i] \in RunRow /\ run[i].pages \in SUBSET PageRow
  BY <1>2, RowFields DEF RowsOK
<1>8. run[i].pages \cup {page} \in SUBSET PageRow
  BY <1>6, <1>7
<1>9. row = [run[i] EXCEPT !.pages = run[i].pages \cup {page}]
  BY DEF WithPage
<1>10. row \in RunRow /\ row.status = run[i].status /\ row.lease = run[i].lease
  BY <1>7, <1>8, <1>9 DEF RunRow
<1> HIDE DEF row, i
<1>11. QED
  BY <1>1, <1>2, <1>10, RowReplaced, RowFields

(* A puller's own run ends.                                                *)
LEMMA OwnRunEnds ==
    ASSUME RowsOK, NEW i \in Runs, NEW status \in {"partial", "completed", "failed"},
           NEW pages \in SUBSET PageRow,
           run' = [run EXCEPT ![i] = Ended(run[i], status, pages)]
    PROVE  RowsMove
<1>1. run[i] \in RunRow
  BY DEF RowsOK
<1>2. Ended(run[i], status, pages) \in RunRow
      /\ Ended(run[i], status, pages).status = status
      /\ Ended(run[i], status, pages).lease = "none"
  BY <1>1, EndedTyped
<1> DEFINE row == Ended(run[i], status, pages)
<1>3. run' = [run EXCEPT ![i] = row]
  OBVIOUS
<1>4. row \in RunRow /\ row.status = status /\ row.lease = "none"
  BY <1>2
<1> HIDE DEF row
<1>5. QED
  BY <1>3, <1>4, RowReplaced

LEMMA LeaseTaken ==
    ASSUME RowsOK, NEW i \in Runs, LeaseExpires(i)
    PROVE  RowsMove
<1>1. run[i] \in RunRow /\ run[i].lease = "valid" /\ run[i].status = "running"
  BY RowFields DEF RowsOK, LeaseExpires
<1> DEFINE row == [run[i] EXCEPT !.lease = "expired"]
<1>2. row \in RunRow /\ row.status = "running" /\ row.lease = "expired"
  BY <1>1 DEF RunRow
<1>3. run' = [run EXCEPT ![i] = row]
  BY DEF LeaseExpires
<1> HIDE DEF row
<1>4. QED
  BY <1>1, <1>2, <1>3, RowReplaced

(* Disabling a connector ends its run.                                     *)
LEMMA RunsDisabled ==
    ASSUME RowsOK, NEW enabled, NEW scheduled, NEW retimed, NEW identityChanges,
           Upsert(enabled, scheduled, retimed, identityChanges)
    PROVE  RowsMove
<1>1. \A i \in Runs :
          \/ run'[i] = run[i]
          \/ run'[i] = Ended(run[i], "failed", {}) /\ run[i].status = "running"
  <2>1. run' = [i \in Runs |-> IF (connector.enabled /\ ~ enabled) /\ i \in Running
                               THEN Ended(run[i], "failed", {}) ELSE run[i]]
    BY DEF Upsert
  <2>2. QED
    BY <2>1 DEF Running
<1>2. \A i \in Runs : /\ run[i] \in RunRow
                      /\ Ended(run[i], "failed", {}) \in RunRow
                      /\ Ended(run[i], "failed", {}).status = "failed"
                      /\ Ended(run[i], "failed", {}).lease = "none"
  <2>1. {} \in SUBSET PageRow
    OBVIOUS
  <2>2. QED
    BY <2>1, EndedTyped DEF RowsOK
<1>3. run' \in [Runs -> RunRow]
  <2>1. run' = [i \in Runs |-> run'[i]]
    BY DEF Upsert
  <2>2. \A i \in Runs : run'[i] \in RunRow
    BY <1>1, <1>2
  <2>3. QED
    BY <2>1, <2>2
<1>4. QED
  BY <1>1, <1>2, <1>3 DEF RowsOK, RowsMove

LEMMA OtherRows ==
    ASSUME Inv, NEW p \in Pullers, PullerActs(p)
    PROVE  RowsMove
<1> USE DEF Inv
<1>1. CASE Fetch(p)
  BY <1>1, PageRecorded DEF Fetch
<1>2. CASE Finalize(p)
  <2>1. puller[p].run \in Runs
    BY <1>2, PullerFields DEF Finalize, Unemployed
  <2>2. run[puller[p].run].pages \in SUBSET PageRow
    BY <2>1, RowFields
  <2>3. QED
    BY <1>2, <2>1, <2>2, OwnRunEnds DEF Finalize
<1>3. CASE Fail(p)
  <2>1. puller[p].run \in Runs
    BY <1>3, PullerFields DEF Fail, Unemployed
  <2>2. {} \in SUBSET PageRow
    OBVIOUS
  <2>3. CASE Owns(p)
    BY <1>3, <2>1, <2>2, <2>3, OwnRunEnds DEF Fail
  <2>4. CASE ~ Owns(p)
    BY <1>3, <2>4, SameRows DEF Fail
  <2>5. QED
    BY <2>3, <2>4
<1>4. CASE UNCHANGED run
  BY <1>4, SameRows
<1>5. QED
  BY <1>1, <1>2, <1>3, <1>4
     DEF PullerActs, StartRefused, FirstBeat, FetchRefused, Disowned, BeginImport,
         Reschedule, Claim, WorkFails, Crash

LEMMA SurroundingRows ==
    ASSUME Inv, Surroundings
    PROVE  RowsMove
<1> USE DEF Inv
<1>1. ASSUME NEW i \in Runs, LeaseExpires(i) PROVE RowsMove
  BY <1>1, LeaseTaken
<1>2. CASE Edit
  BY <1>2, RunsDisabled DEF Edit
<1>3. CASE UNCHANGED run
  BY <1>3, SameRows
<1>4. QED
  BY <1>1, <1>2, <1>3 DEF Surroundings, BecomesDue, CursorExpires, SyncTokenExpires

-----------------------------------------------------------------------------
(* Pullers.                                                                *)

Consistent(state) ==
    /\ state \in PullerState
    /\ (state.run = NoRun) <=> state.pc \in Unemployed
    /\ Fits(state)

(* What every step but a start does to the pullers: none takes up a run.   *)
PullersMove ==
    /\ PullersOK' /\ PagesFit'
    /\ \A p \in Pullers : puller'[p].run \in {NoRun, puller[p].run}

LEMMA PullerReplaced ==
    ASSUME PullersOK, PagesFit, NEW p \in Pullers, NEW state,
           Consistent(state), state.run \in {NoRun, puller[p].run},
           puller' = [puller EXCEPT ![p] = state]
    PROVE  PullersMove
<1>1. state \in PullerState
  BY DEF Consistent
<1>2. puller' \in [Pullers -> PullerState]
  BY <1>1 DEF PullersOK
<1>3. \A q \in Pullers : puller'[q] = IF q = p THEN state ELSE puller[q]
  BY DEF PullersOK
<1>4. \A q \in Pullers : (puller'[q].run = NoRun) <=> puller'[q].pc \in Unemployed
  BY <1>3 DEF PullersOK, Consistent
<1>5. PagesFit'
  BY <1>3 DEF PagesFit, Consistent, Fits
<1>6. QED
  BY <1>2, <1>3, <1>4, <1>5 DEF PullersOK, PullersMove

LEMMA SamePullers ==
    ASSUME PullersOK, PagesFit, UNCHANGED puller
    PROVE  PullersMove
  BY DEF PullersOK, PagesFit, PullersMove

LEMMA RestingConsistent ==
    ASSUME NEW pc \in Unemployed, NEW sched \in BOOLEAN
    PROVE  /\ Consistent(Resting(pc, sched)) /\ Resting(pc, sched).run = NoRun
           /\ Consistent(IdlePuller) /\ IdlePuller.run = NoRun
  BY RestingTyped, IdleTyped DEF Consistent, Fits, Unemployed

LEMMA PullerRests ==
    ASSUME PullersOK, PagesFit, NEW p \in Pullers,
           NEW pc \in Unemployed, NEW sched \in BOOLEAN,
           puller' = [puller EXCEPT ![p] = Resting(pc, sched)]
    PROVE  PullersMove
  BY RestingConsistent, PullerReplaced

LEMMA PullerEnds ==
    ASSUME PullersOK, PagesFit, NEW p \in Pullers, NEW outcome \in Unemployed, Ends(p, outcome)
    PROVE  PullersMove
<1> DEFINE state == IF puller[p].sched THEN Resting(outcome, TRUE) ELSE IdlePuller
<1>1. puller' = [puller EXCEPT ![p] = state]
  BY DEF Ends
<1>2. Consistent(state) /\ state.run = NoRun
  BY RestingConsistent
<1> HIDE DEF state
<1>3. QED
  BY <1>1, <1>2, PullerReplaced

LEMMA PullerGoes ==
    ASSUME PullersOK, PagesFit, NEW p \in Pullers, puller[p].pc \notin Unemployed,
           NEW pc \in {"fetching", "importing", "failing"},
           pc = "fetching" => puller[p].pc = "started",
           pc = "importing" => puller[p].pc = "fetched", Goto(p, pc)
    PROVE  PullersMove
<1> DEFINE state == [puller[p] EXCEPT !.pc = pc]
<1>1. puller[p] \in PullerState
  BY PullerFields
<1>2. state \in PullerState /\ state.pc = pc /\ state.run = puller[p].run
      /\ state.at = puller[p].at /\ state.left = puller[p].left
      /\ state.more = puller[p].more
  BY <1>1 DEF PullerState
<1>3. puller[p].run # NoRun
  BY DEF PullersOK
<1>4. puller' = [puller EXCEPT ![p] = state]
  BY DEF Goto
<1> HIDE DEF state
<1>5. Consistent(state)
  BY <1>2, <1>3 DEF Consistent, Fits, Unemployed, PagesFit
<1>6. QED
  BY <1>2, <1>4, <1>5, PullerReplaced

(* After a page the call has one page less, and stops when none is left.   *)
LEMMA PullerFetches ==
    ASSUME PullersOK, PagesFit, NEW p \in Pullers, NEW items,
           NEW more \in BOOLEAN, NEW reset \in BOOLEAN, FetchPage(p, items, more, reset)
    PROVE  PullersMove
<1> DEFINE me == puller[p]
           next == IF ~ Beats(p) THEN "failing"
                   ELSE IF ~ more \/ me.left = 1 THEN "fetched"
                   ELSE "fetching"
           state == [me EXCEPT !.at = me.at + 1, !.left = me.left - 1,
                               !.more = more, !.reset = reset, !.pc = next]
<1>1. me \in PullerState /\ me.at \in 0..MaxPages /\ me.left \in 0..MaxPages /\ me.run \in Runs
      /\ me.pc = "fetching"
  BY PullerFields DEF FetchPage, Unemployed
<1>2. me.left >= 1 /\ me.at + me.left <= MaxPages
  BY <1>1 DEF PagesFit, Fits
<1>3. puller' = [puller EXCEPT ![p] = state]
  BY DEF FetchPage
<1>4. /\ next \in {"failing", "fetched", "fetching"}
      /\ next = "fetching" => me.left # 1
  OBVIOUS
<1> HIDE DEF next
<1>5. me.at + 1 \in 0..MaxPages /\ me.left - 1 \in 0..MaxPages
  BY <1>1, <1>2, BoundsAssumption
<1>6. state \in PullerState /\ state.pc = next /\ state.run = me.run
      /\ state.at = me.at + 1 /\ state.left = me.left - 1 /\ state.more = more
  BY <1>1, <1>4, <1>5 DEF PullerState
<1> HIDE DEF state
<1>7. Fits(state)
  <2>1. /\ next = "fetching" => me.left - 1 >= 1 /\ (me.at + 1) + (me.left - 1) <= MaxPages
        /\ me.at + 1 >= 1
    BY <1>1, <1>2, <1>4, BoundsAssumption
  <2>2. more => me.at + 1 < MaxPages
    BY DEF FetchPage, Acceptable
  <2>3. QED
    BY <1>4, <1>6, <2>1, <2>2 DEF Fits
<1>8. Consistent(state)
  BY <1>1, <1>4, <1>6, <1>7, BoundsAssumption DEF Consistent, Unemployed
<1>9. QED
  BY <1>3, <1>6, <1>8, PullerReplaced

LEMMA OtherPullers ==
    ASSUME Inv, NEW p \in Pullers, PullerActs(p)
    PROVE  PullersMove
<1> USE DEF Inv
<1>1. CASE Fetch(p)
  BY <1>1, PullerFetches DEF Fetch
<1>2. CASE StartRefused(p) \/ Finalize(p) \/ Fail(p)
  <2>1. PICK outcome \in {"retry", "partial", "complete"} : Ends(p, outcome)
    BY <1>2 DEF StartRefused, Finalize, Fail
  <2>2. QED
    BY <2>1, PullerEnds DEF Unemployed
<1>3. CASE Reschedule(p) \/ Claim(p) \/ Crash(p)
  BY <1>3, PullerRests DEF Reschedule, Claim, Crash, IdlePuller, Unemployed
<1>4. CASE FirstBeat(p)
  BY <1>4, PullerGoes DEF FirstBeat, Unemployed
<1>5. CASE FetchRefused(p) \/ Disowned(p) \/ WorkFails(p) \/ BeginImport(p)
  <2>1. PICK pc \in {"importing", "failing"} :
           Goto(p, pc) /\ (pc = "importing" => puller[p].pc = "fetched")
    BY <1>5 DEF FetchRefused, Disowned, WorkFails, BeginImport
  <2>2. puller[p].pc \notin Unemployed
    BY <1>5 DEF FetchRefused, Disowned, WorkFails, BeginImport, Unemployed
  <2>3. QED
    BY <2>1, <2>2, PullerGoes
<1>6. QED
  BY <1>1, <1>2, <1>3, <1>4, <1>5 DEF PullerActs

LEMMA SurroundingPullers ==
    ASSUME Inv, Surroundings
    PROVE  PullersMove
<1>1. UNCHANGED puller
  BY DEF Surroundings, LeaseExpires, BecomesDue, CursorExpires, SyncTokenExpires, Edit, Upsert
<1>2. QED
  BY <1>1, SamePullers DEF Inv

-----------------------------------------------------------------------------
(* Starting a run.                                                         *)

LEMMA CheckpointFields ==
    ASSUME StoreOK
    PROVE  /\ checkpoint.run \in Runs \cup {NoRun}
           /\ checkpoint.version \in 0..(MaxEdits + 1)
           /\ checkpoint.snapshot \in Runs \cup {NoRun}
           /\ checkpoint.pages \in 0..MaxPages
           /\ checkpoint.records \in SUBSET Records
           /\ checkpoint.reset \in BOOLEAN
           /\ checkpoint.honoured \in BOOLEAN
           /\ ~ Resumable => checkpoint.pages = 0
<1>1. NoCheckpoint.pages = 0
  BY DEF NoCheckpoint
<1>2. QED
  BY <1>1 DEF StoreOK, Checkpoint

LEMMA ConnectorFields ==
    ASSUME ConnectorOK
    PROVE  /\ connector.enabled \in BOOLEAN
           /\ connector.scheduled \in BOOLEAN
           /\ connector.version \in 1..(MaxEdits + 1)
           /\ connector.next \in {"none", "later", "due"}
           /\ connector.claim \in Pullers \cup {Nobody}
  BY DEF ConnectorOK, Connector

LEMMA StartedRow ==
    ASSUME Inv, NEW p \in Pullers, NEW i, NEW budget, StartRun(p, i, budget)
    PROVE  \E row \in RunRow :
             /\ row.status = "running" /\ row.lease = "valid"
             /\ row.version = connector.version /\ row.pages = {}
             /\ Resumable => row.snapshot = checkpoint.snapshot
             /\ ~ Resumable => row.snapshot = i
             /\ run' = [j \in Runs |-> IF j = i THEN row
                                      ELSE IF j \in Running THEN Reclaimed(run[j])
                                      ELSE IF Forgettable(j) THEN NoRow
                                      ELSE run[j]]
<1> DEFINE snapshot == IF Resumable THEN checkpoint.snapshot ELSE i
           row == [status |-> "running", lease |-> "valid", version |-> connector.version,
                   snapshot |-> snapshot, pages |-> {}]
<1>1. snapshot \in Runs \cup {NoRun}
  BY CheckpointFields DEF StartRun, Inv
<1>2. connector.version \in 0..(MaxEdits + 1)
  BY ConnectorFields, BoundsAssumption DEF Inv
<1>3. row \in RunRow
  BY <1>1, <1>2 DEF RunRow
<1>4. run' = [j \in Runs |-> IF j = i THEN row
                           ELSE IF j \in Running THEN Reclaimed(run[j])
                           ELSE IF Forgettable(j) THEN NoRow
                           ELSE run[j]]
  BY DEF StartRun
<1>5. /\ row.status = "running" /\ row.lease = "valid" /\ row.version = connector.version
      /\ row.pages = {} /\ row.snapshot = snapshot
  OBVIOUS
<1> HIDE DEF row
<1>6. QED
  BY <1>3, <1>4, <1>5

(* Of the rows only the new one runs, and those in use are kept.           *)
LEMMA StartRows ==
    ASSUME Inv, NEW p \in Pullers, NEW i, NEW budget, StartRun(p, i, budget)
    PROVE  /\ i \in Runs
           /\ RowsOK'
           /\ \A j \in Runs : run'[j].status = "running" <=> j = i
           /\ \A j \in Runs : /\ run[j].status # "absent" /\ Live(j)
                             => run'[j].status # "absent"
<1> USE DEF Inv
<1>1. i \in Runs
  BY DEF StartRun
<1>2. PICK row \in RunRow :
        /\ row.status = "running" /\ row.lease = "valid"
        /\ run' = [j \in Runs |-> IF j = i THEN row
                                 ELSE IF j \in Running THEN Reclaimed(run[j])
                                 ELSE IF Forgettable(j) THEN NoRow
                                 ELSE run[j]]
  BY StartedRow
<1>3. ASSUME NEW j \in Runs
      PROVE  /\ Reclaimed(run[j]) \in RunRow
             /\ Reclaimed(run[j]).status = "failed"
             /\ Reclaimed(run[j]).lease = "none"
  <2>1. run[j] \in RunRow /\ {} \in SUBSET PageRow
    BY DEF RowsOK
  <2>2. QED
    BY <2>1, EndedTyped DEF Reclaimed
<1>4. ASSUME NEW j \in Runs
      PROVE  \/ j = i /\ run'[j] = row
             \/ j # i /\ j \in Running /\ run'[j] = Reclaimed(run[j])
             \/ j # i /\ j \notin Running /\ Forgettable(j) /\ run'[j] = NoRow
             \/ j # i /\ j \notin Running /\ run'[j] = run[j]
  BY <1>2
<1>5. \A j \in Runs : /\ run'[j] \in RunRow
                      /\ run'[j].lease = "none" <=> run'[j].status # "running"
  BY <1>2, <1>3, <1>4, EmptyRowTyped, RowFields DEF RowsOK
<1>6. run' \in [Runs -> RunRow]
  <2>1. run' = [j \in Runs |-> run'[j]]
    BY <1>2
  <2>2. \A j \in Runs : run'[j] \in RunRow
    BY <1>5
  <2>3. QED
    BY <2>1, <2>2
<1>7. \A j \in Runs : run'[j].status = "running" <=> j = i
  BY <1>2, <1>3, <1>4, EmptyRowTyped DEF Running
<1>8. \A j \in Runs : Live(j) => ~ Forgettable(j)
  BY DEF Live, Forgettable
<1>9. \A j \in Runs : /\ run[j].status # "absent" /\ Live(j)
                      => run'[j].status # "absent"
  BY <1>2, <1>3, <1>4, <1>8
<1>10. QED
  BY <1>1, <1>5, <1>6, <1>7, <1>9 DEF RowsOK

(* The new run was nobody's.                                               *)
LEMMA FreshIsFree ==
    ASSUME Inv, NEW i \in Runs, Fresh(i)
    PROVE  \A q \in Pullers : puller[q].run # i
  BY BoundsAssumption DEF Inv, Fresh, Forgettable, RowsKept

LEMMA StartPuller ==
    ASSUME Inv, NEW p \in Pullers, NEW i, NEW budget \in 1..MaxPages, StartRun(p, i, budget)
    PROVE  /\ PullersOK' /\ PagesFit'
           /\ \A q \in Pullers : puller'[q].run = IF q = p THEN i ELSE puller[q].run
           /\ puller'[p].at = checkpoint.pages
<1> USE DEF Inv
<1> DEFINE at == checkpoint.pages
           left == IF budget <= MaxPages - at THEN budget ELSE MaxPages - at
           state == [pc    |-> IF puller[p].sched THEN "started" ELSE "fetching",
                     sched |-> puller[p].sched,
                     run   |-> i,
                     at    |-> at,
                     left  |-> left,
                     more  |-> TRUE,
                     reset |-> checkpoint.reset]
<1>1. i \in Runs
  BY DEF StartRun
<1>2. at \in 0..MaxPages /\ at < MaxPages
  BY CheckpointFields, BoundsAssumption DEF StartRun, CanStart
<1>3. left \in 1..MaxPages /\ at + left <= MaxPages
  BY <1>2, BoundsAssumption
<1>4. puller' = [puller EXCEPT ![p] = state]
  BY DEF StartRun
<1> HIDE DEF left, at
<1>5. puller[p].sched \in BOOLEAN /\ checkpoint.reset \in BOOLEAN
  BY PullerFields, CheckpointFields
<1>6. state \in PullerState
  BY <1>1, <1>2, <1>3, <1>5 DEF PullerState
<1>7. state.run = i /\ state.at = at /\ state.left = left /\ state.pc \in {"started", "fetching"}
  OBVIOUS
<1> HIDE DEF state
<1>8. \A q \in Pullers : puller'[q] = IF q = p THEN state ELSE puller[q]
  BY <1>4 DEF PullersOK
<1>9. puller' \in [Pullers -> PullerState]
  BY <1>4, <1>6 DEF PullersOK
<1>10. \A q \in Pullers : (puller'[q].run = NoRun) <=> puller'[q].pc \in Unemployed
  BY <1>1, <1>7, <1>8, BoundsAssumption DEF PullersOK, Unemployed
<1>11. PagesFit'
  BY <1>2, <1>3, <1>7, <1>8 DEF PagesFit, Fits
<1>12. QED
  BY <1>7, <1>8, <1>9, <1>10, <1>11 DEF PullersOK, at

-----------------------------------------------------------------------------
(* The connector and what is stored beside it.                             *)

LEMMA ConnectorTyped ==
    ASSUME Inv, [Next]_vars
    PROVE  ConnectorOK' /\ VersionsCounted' /\ (connector'.version # connector.version => edits' = edits + 1)
<1> USE DEF Inv
<1>1. /\ connector \in Connector
      /\ connector.version \in 1..(MaxEdits + 1)
      /\ edits \in 0..MaxEdits
  BY ConnectorFields DEF ConnectorOK, StoreOK
<1>2. CASE UNCHANGED <<connector, edits>>
  BY <1>1, <1>2, BoundsAssumption DEF ConnectorOK, VersionsCounted
<1>3. ASSUME NEW p \in Pullers, Claim(p)
      PROVE  ConnectorOK' /\ VersionsCounted' /\ connector'.version = connector.version
  <2>1. connector' = [connector EXCEPT !.claim = p, !.next = "later"] /\ edits' = edits
        /\ connector.next = "due"
    BY <1>3 DEF Claim, ClaimedBy
  <2>2. QED
    BY <1>1, <2>1 DEF ConnectorOK, Connector, VersionsCounted
<1>4. ASSUME NEW p \in Pullers, Reschedule(p)
      PROVE  ConnectorOK' /\ VersionsCounted' /\ connector'.version = connector.version
  <2>1. CASE UNCHANGED connector
    BY <1>4, <2>1 DEF Reschedule, ConnectorOK, VersionsCounted
  <2>2. CASE ~ UNCHANGED connector
    <3>1. PICK next \in {"due", "later"} :
              connector' = [connector EXCEPT !.claim = Nobody, !.next = next]
      BY <1>4, <2>2 DEF Reschedule
    <3>2. connector.next = "later" /\ edits' = edits
      BY <1>4, <2>2 DEF Reschedule, MayReschedule, ClaimHeld
    <3>3. QED
      BY <1>1, <3>1, <3>2 DEF ConnectorOK, Connector, VersionsCounted
  <2>3. QED
    BY <2>1, <2>2
<1>5. CASE BecomesDue
  <2>1. connector' = [connector EXCEPT !.next = "due"] /\ edits' = edits
        /\ connector.next = "later"
    BY <1>5 DEF BecomesDue
  <2>2. QED
    BY <1>1, <2>1 DEF ConnectorOK, Connector, VersionsCounted
<1>6. ASSUME NEW enabled \in BOOLEAN, NEW scheduled \in BOOLEAN, NEW retimed \in BOOLEAN,
             NEW identityChanges \in BOOLEAN,
             Upsert(enabled, scheduled, retimed, identityChanges)
      PROVE  ConnectorOK' /\ VersionsCounted' /\ edits' = edits + 1
  <2> DEFINE version == IF identityChanges THEN connector.version + 1 ELSE connector.version
             next == IF ~ (enabled /\ scheduled) THEN "none"
                     ELSE IF ~ connector.enabled \/ ~ connector.scheduled \/ retimed THEN "later"
                     ELSE connector.next
  <2>1. connector' = [enabled |-> enabled, scheduled |-> scheduled, version |-> version,
                      claim |-> Nobody, next |-> next]
    BY <1>6 DEF Upsert
  <2>2. edits' = edits + 1 /\ edits < MaxEdits
    BY <1>6 DEF Upsert
  <2>3. version \in 1..(MaxEdits + 1) /\ version <= edits + 2
    BY <1>1, <2>2, BoundsAssumption DEF VersionsCounted
  <2>4. next \in {"none", "later", "due"} /\ (next = "none" <=> ~ (enabled /\ scheduled))
    BY ConnectorFields DEF ConnectorOK
  <2> HIDE DEF version, next
  <2>5. connector' \in Connector
    BY <2>1, <2>3, <2>4 DEF Connector
  <2>6. /\ connector'.enabled <=> enabled
        /\ connector'.scheduled <=> scheduled
        /\ connector'.version = version
        /\ connector'.claim = Nobody
        /\ connector'.next = next
    BY <2>1
  <2>7. QED
    BY <1>1, <2>2, <2>3, <2>4, <2>5, <2>6, BoundsAssumption DEF ConnectorOK, VersionsCounted
<1>7. CASE Edit
  BY <1>6, <1>7 DEF Edit
<1>8. CASE Starts
  BY <1>2, <1>8 DEF Starts, StartRun
<1>9. ASSUME NEW p \in Pullers, PullerActs(p), ~ Claim(p), ~ Reschedule(p)
      PROVE  UNCHANGED <<connector, edits>>
  BY <1>9 DEF PullerActs, StartRefused, FirstBeat, Fetch, FetchPage, FetchRefused, Disowned,
              BeginImport, Finalize, Fail, WorkFails, Crash
<1>10. CASE Surroundings /\ ~ Edit /\ ~ BecomesDue
  BY <1>2, <1>10 DEF Surroundings, LeaseExpires, CursorExpires, SyncTokenExpires
<1>11. CASE UNCHANGED vars
  BY <1>2, <1>11 DEF vars
<1>12. CASE \E p \in Pullers : PullerActs(p)
  BY <1>2, <1>3, <1>4, <1>9, <1>12
<1>13. QED
  BY <1>5, <1>7, <1>8, <1>10, <1>11, <1>12, Steps, <1>2 DEF Surroundings, BecomesDue

LEMMA SeenTyped ==
    ASSUME Inv, NEW p \in Pullers, puller[p].run \in Runs
    PROVE  Seen(p) \in SUBSET Records /\ IdentitiesOf({puller[p].run}) \in SUBSET Records
<1>1. Accepted(run[puller[p].run].snapshot) \in SUBSET Runs
  BY DEF Accepted
<1>2. QED
  BY <1>1, IdentitiesTyped DEF Seen, Inv

(* The commit that ends a run.                                             *)
LEMMA FinalStoreTyped ==
    ASSUME Inv, NEW p \in Pullers, Finalize(p)
    PROVE  StoreOK'
<1> USE DEF Inv
<1> DEFINE me == puller[p]
<1>1. me.run \in Runs /\ me.run # NoRun
  BY PullerFields, BoundsAssumption DEF Finalize, Unemployed
<1>2. Seen(p) \in SUBSET Records /\ IdentitiesOf({me.run}) \in SUBSET Records
  BY <1>1, SeenTyped
<1>3. hub' \in SUBSET Records
  <2>1. hub' = Imported(p)
    BY DEF Finalize
  <2>2. hub \in SUBSET Records
    BY DEF StoreOK
  <2>3. QED
    BY <1>2, <2>1, <2>2 DEF Imported
<1>4. strays' \in SUBSET Records
  BY DEF Finalize, StoreOK
<1>5. subscription' \in {"none", "held", "expired"}
  BY DEF Finalize, StoreOK
<1>6. checkpoint' = NextCheckpoint(p)
  BY DEF Finalize
<1>7. NoCheckpoint \in Checkpoint
  BY BoundsAssumption DEF NoCheckpoint, Checkpoint
<1>8. ASSUME me.more PROVE checkpoint' \in Checkpoint /\ Resumable'
  <2>1. NextCheckpoint(p) =
          [run |-> me.run, version |-> run[me.run].version,
           snapshot |-> run[me.run].snapshot, pages |-> me.at, records |-> Seen(p),
           reset |-> me.reset, honoured |-> TRUE]
    BY <1>8 DEF NextCheckpoint
  <2>2. run[me.run].version \in 0..(MaxEdits + 1) /\ run[me.run].snapshot \in Runs \cup {NoRun}
    BY <1>1, RowFields
  <2>3. me.at \in 0..MaxPages /\ me.reset \in BOOLEAN
    BY PullerFields
  <2>4. NextCheckpoint(p) \in Checkpoint /\ NextCheckpoint(p).run # NoRun
    BY <1>1, <1>2, <2>1, <2>2, <2>3 DEF Checkpoint
  <2>5. checkpoint' \in Checkpoint /\ Resumable'
    BY <1>6, <2>4 DEF Resumable
  <2>6. QED
    BY <2>5
<1>9. checkpoint' \in Checkpoint /\ (Resumable' \/ checkpoint' = NoCheckpoint)
  <2>1. CASE ~ me.more
    BY <1>6, <1>7, <2>1 DEF NextCheckpoint
  <2>2. CASE me.more
    BY <1>8, <2>2, <1>6
  <2>3. QED
    BY <2>1, <2>2
<1>10. QED
  BY <1>3, <1>4, <1>5, <1>9 DEF Finalize, StoreOK

LEMMA StoreTyped ==
    ASSUME Inv, [Next]_vars
    PROVE  StoreOK'
<1> USE DEF Inv
<1>1. CASE UNCHANGED <<strays, checkpoint, subscription, hub, faults, edits>>
  BY <1>1 DEF StoreOK, Resumable
<1>2. Running \in SUBSET Runs
  BY DEF Running
<1>3. CASE Starts
  <2>1. /\ strays' = IF Resumable THEN strays \cup IdentitiesOf(Running) ELSE {}
        /\ UNCHANGED <<checkpoint, subscription, hub, faults, edits>>
    BY <1>3 DEF Starts, StartRun
  <2>2. QED
    BY <1>2, <2>1, IdentitiesTyped DEF StoreOK, Resumable
<1>4. ASSUME NEW p \in Pullers, Fail(p) PROVE StoreOK'
  <2>1. puller[p].run \in Runs
    BY <1>4, PullerFields DEF Fail, Unemployed
  <2>2. IdentitiesOf({puller[p].run}) \in SUBSET Records
    BY <2>1, SeenTyped
  <2>3. /\ strays' \in {strays, StraysWith(puller[p].run)}
        /\ UNCHANGED <<checkpoint, subscription, hub, faults, edits>>
    BY <1>4 DEF Fail
  <2>4. QED
    BY <2>2, <2>3 DEF StoreOK, Resumable, StraysWith
<1>5. ASSUME NEW enabled \in BOOLEAN, NEW scheduled \in BOOLEAN, NEW retimed \in BOOLEAN,
             NEW identityChanges \in BOOLEAN,
             Upsert(enabled, scheduled, retimed, identityChanges)
      PROVE  StoreOK'
  <2>1. /\ strays' \in {strays, strays \cup IdentitiesOf(Running)}
        /\ edits' = edits + 1 /\ edits < MaxEdits
        /\ UNCHANGED <<checkpoint, subscription, hub, faults>>
    BY <1>5 DEF Upsert
  <2>2. QED
    BY <1>2, <2>1, IdentitiesTyped, BoundsAssumption DEF StoreOK, Resumable
<1>6. CASE CursorExpires
  <2>1. /\ checkpoint' = [checkpoint EXCEPT !.honoured = FALSE]
        /\ UNCHANGED <<strays, subscription, hub, faults, edits>>
        /\ Resumable
    BY <1>6 DEF CursorExpires
  <2>2. checkpoint' \in Checkpoint /\ checkpoint'.run = checkpoint.run
    BY <2>1 DEF StoreOK, Checkpoint
  <2>3. QED
    BY <2>1, <2>2 DEF StoreOK, Resumable
<1>7. CASE SyncTokenExpires
  BY <1>7 DEF SyncTokenExpires, StoreOK, Resumable
<1>8. ASSUME UNCHANGED <<strays, checkpoint, subscription, hub, edits>>, faults' = faults \/ Fault
      PROVE  StoreOK'
  BY <1>8, BoundsAssumption DEF StoreOK, Resumable, Fault
<1>9. ASSUME NEW p \in Pullers, PullerActs(p) PROVE StoreOK'
  <2>1. CASE Finalize(p)
    BY <2>1, FinalStoreTyped
  <2>2. CASE Fail(p)
    BY <2>2, <1>4
  <2>3. CASE PullerActs(p) /\ ~ Finalize(p) /\ ~ Fail(p)
    BY <1>8, <2>3 DEF PullerActs, StartRefused, FirstBeat, Fetch, FetchPage, FetchRefused,
                      Disowned, BeginImport, Reschedule, Claim, WorkFails, Crash
  <2>4. QED
    BY <1>9, <2>1, <2>2, <2>3
<1>10. CASE Surroundings
  <2>1. CASE Edit
    BY <2>1, <1>5 DEF Edit
  <2>2. CASE BecomesDue \/ \E i \in Runs : LeaseExpires(i)
    BY <2>2, <1>8 DEF BecomesDue, LeaseExpires
  <2>3. QED
    BY <1>6, <1>7, <1>10, <2>1, <2>2 DEF Surroundings
<1>11. CASE UNCHANGED vars
  BY <1>1, <1>11 DEF vars
<1>12. QED
  BY <1>3, <1>9, <1>10, <1>11, Steps

-----------------------------------------------------------------------------
(* The invariant is inductive.                                             *)

LEMMA InitInv == Init => Inv
<1> SUFFICES ASSUME Init PROVE Inv
  OBVIOUS
<1>1. RowsOK /\ OneRunning /\ \A i \in Runs : run[i].status = "absent"
  BY EmptyRowTyped DEF Init, RowsOK, OneRunning, Running
<1>2. /\ PullersOK
      /\ \A p \in Pullers : puller[p].run = NoRun /\ puller[p].pc = "idle"
  BY IdleTyped DEF Init, PullersOK, Unemployed
<1>3. PagesFit /\ RowsKept /\ OnePuller
  BY <1>2 DEF PagesFit, Fits, RowsKept, OnePuller
<1>4. ConnectorOK /\ VersionsCounted
  <2>1. PICK scheduled \in BOOLEAN :
          connector = [enabled |-> TRUE, scheduled |-> scheduled, version |-> 1,
                       next |-> IF scheduled THEN "later" ELSE "none",
                       claim |-> Nobody]
    BY DEF Init
  <2>2. 1 \in 1..(MaxEdits + 1) /\ edits = 0
    BY BoundsAssumption DEF Init
  <2>3. QED
    BY <2>1, <2>2, BoundsAssumption DEF ConnectorOK, Connector, VersionsCounted
<1>5. StoreOK
  BY BoundsAssumption DEF Init, StoreOK, NoCheckpoint, Checkpoint
<1>6. QED
  BY <1>1, <1>2, <1>3, <1>4, <1>5 DEF Inv

LEMMA StartInv ==
    ASSUME Inv, Starts
    PROVE  PullersOK' /\ PagesFit' /\ RowsOK' /\ RowsKept' /\ OneRunning' /\ OnePuller'
<1>1. PICK p \in Pullers, budget \in 1..MaxPages : StartRun(p, NewRow, budget)
  BY DEF Starts
<1> DEFINE i == NewRow
<1>2. StartRun(p, i, budget)
  BY <1>1
<1> HIDE DEF i
<1>3. i \in Runs /\ Fresh(i)
  BY <1>2 DEF StartRun
<1>4. RowsOK' /\ PullersOK' /\ PagesFit'
  BY <1>2, StartRows, StartPuller
<1>5. \A j \in Runs : run'[j].status = "running" <=> j = i
  BY <1>2, StartRows
<1>6. \A q \in Pullers : puller'[q].run = IF q = p THEN i ELSE puller[q].run
  BY <1>2, StartPuller
<1>7. OneRunning'
  BY <1>5 DEF OneRunning, Running
<1>8. OnePuller'
  <2>1. \A q \in Pullers : puller[q].run # i
    BY <1>3, FreshIsFree
  <2>2. \A q, r \in Pullers : puller[q].run # NoRun /\ puller[q].run = puller[r].run => q = r
    BY DEF Inv, OnePuller
  <2>3. QED
    BY <1>6, <2>1, <2>2 DEF OnePuller
<1>9. RowsKept'
  <2>1. ASSUME NEW q \in Pullers, q # p, puller[q].run # NoRun
        PROVE  run'[puller[q].run].status # "absent"
    <3>1. puller[q].run \in Runs /\ Live(puller[q].run) /\ run[puller[q].run].status # "absent"
      BY <2>1 DEF Inv, PullersOK, PullerState, Live, RowsKept
    <3>2. QED
      BY <1>2, <3>1, StartRows
  <2>2. run'[i].status # "absent"
    BY <1>3, <1>5
  <2>3. QED
    BY <1>6, <2>1, <2>2 DEF RowsKept
<1>10. QED
  BY <1>4, <1>7, <1>8, <1>9

LEMMA MoveInv ==
    ASSUME Inv, RowsMove, PullersMove
    PROVE  PullersOK' /\ PagesFit' /\ RowsOK' /\ RowsKept' /\ OneRunning' /\ OnePuller'
<1>1. RowsOK' /\ PullersOK' /\ PagesFit'
  BY DEF RowsMove, PullersMove
<1>2. OneRunning'
  BY DEF Inv, RowsMove, OneRunning, Running
<1>3. \A p \in Pullers : puller'[p].run \in {NoRun, puller[p].run}
  BY DEF PullersMove
<1>4. OnePuller'
  BY <1>3 DEF Inv, OnePuller
<1>5. \A p \in Pullers : puller[p].run \in Runs \cup {NoRun}
  BY DEF Inv, PullersOK, PullerState
<1>6. RowsKept'
  BY <1>3, <1>5 DEF Inv, RowsMove, RowsKept
<1>7. QED
  BY <1>1, <1>2, <1>4, <1>6

LEMMA NextInv == Inv /\ [Next]_vars => Inv'
<1> SUFFICES ASSUME Inv, [Next]_vars PROVE Inv'
  OBVIOUS
<1>1. ConnectorOK' /\ VersionsCounted' /\ StoreOK'
  BY ConnectorTyped, StoreTyped
<1>2. CASE Starts
  BY <1>1, <1>2, StartInv DEF Inv
<1>3. CASE RowsMove /\ PullersMove
  BY <1>1, <1>3, MoveInv DEF Inv
<1>4. CASE UNCHANGED vars
  BY <1>3, <1>4, SameRows, SamePullers DEF Inv, vars
<1>5. CASE \E p \in Pullers : PullerActs(p)
  BY <1>3, <1>5, OtherRows, OtherPullers
<1>6. CASE Surroundings
  BY <1>3, <1>6, SurroundingRows, SurroundingPullers
<1>7. QED
  BY <1>2, <1>4, <1>5, <1>6, Steps

THEOREM Invariance == Spec => []Inv
  BY InitInv, NextInv, PTL DEF Spec

-----------------------------------------------------------------------------
(* What follows.                                                           *)

(* Rows, pullers, connector and checkpoint always have the values the      *)
(* schema of the connector tables allows.                                  *)
THEOREM TypeCorrect == Spec => []TypeOK
<1>1. Inv => TypeOK
  BY Parts
<1>2. QED
  BY <1>1, Invariance, PTL

(* One run of a connector runs at a time, and no two calls ever work on    *)
(* the same run, however leases expire and stale runs are reclaimed        *)
(* (_lock_connector_for_sync, _update_owned_run).                          *)
THEOREM SingleOwner == Spec => []OneOwner
<1>1. Inv => OneOwner
  BY Parts
<1>2. QED
  BY <1>1, Invariance, PTL

(* Only the commit that ends an owned run writes the hub, moves the        *)
(* checkpoint or stores a sync token (_finalize_owned_run).                *)
WritesHub ==
    \/ hub' # hub
    \/ checkpoint'.run # checkpoint.run
    \/ subscription' = "held" /\ subscription # "held"

EndsOwnedRun ==
    \E i \in Runs :
        /\ run[i].status = "running" /\ run[i].lease = "valid"
        /\ run[i].version = connector.version /\ connector.enabled
        /\ run'[i].status \in {"partial", "completed"}

LEMMA FinalizeEndsOwnedRun ==
    ASSUME Inv, NEW p \in Pullers, Finalize(p)
    PROVE  EndsOwnedRun
<1> DEFINE i == puller[p].run
<1>1. i \in Runs
  BY PullerFields DEF Finalize, Unemployed, Inv
<1>2. /\ run[i].status = "running" /\ run[i].lease = "valid"
      /\ run[i].version = connector.version /\ connector.enabled
  BY DEF Finalize, Owns
<1>3. PICK status \in {"partial", "completed"} :
        run' = [run EXCEPT ![i] = Ended(run[i], status, run[i].pages)]
  BY DEF Finalize
<1>4. run'[i].status = status
  <2>1. run[i] \in RunRow /\ run[i].pages \in SUBSET PageRow
    BY <1>1, RowFields DEF Inv, RowsOK
  <2>2. Ended(run[i], status, run[i].pages).status = status
    BY <2>1, EndedTyped
  <2>3. QED
    BY <1>1, <1>3, <2>2 DEF Inv, RowsOK
<1>5. QED
  BY <1>1, <1>2, <1>4 DEF EndsOwnedRun

LEMMA OthersDoNotWrite ==
    ASSUME Inv, [Next]_vars, \A p \in Pullers : ~ Finalize(p)
    PROVE  ~ WritesHub
<1>1. CASE UNCHANGED <<hub, checkpoint, subscription>>
  BY <1>1 DEF WritesHub
<1>2. CASE CursorExpires
  BY <1>2 DEF CursorExpires, WritesHub, Inv, StoreOK, Checkpoint
<1>3. CASE SyncTokenExpires
  BY <1>3 DEF SyncTokenExpires, WritesHub
<1>4. CASE Starts
  BY <1>1, <1>4 DEF Starts, StartRun
<1>5. ASSUME NEW p \in Pullers, PullerActs(p) PROVE UNCHANGED <<hub, checkpoint, subscription>>
  BY <1>5 DEF PullerActs, StartRefused, FirstBeat, Fetch, FetchPage, FetchRefused,
              Disowned, BeginImport, Fail, Reschedule, Claim, WorkFails, Crash
<1>6. CASE Surroundings
  BY <1>1, <1>2, <1>3, <1>6 DEF Surroundings, LeaseExpires, BecomesDue, Edit, Upsert
<1>7. CASE UNCHANGED vars
  BY <1>1, <1>7 DEF vars
<1>8. QED
  BY <1>1, <1>4, <1>5, <1>6, <1>7, Steps

THEOREM StalePullsWriteNothing == Spec => OnlyOwnersWrite
<1>1. Inv /\ [Next]_vars => (WritesHub => EndsOwnedRun)
  BY FinalizeEndsOwnedRun, OthersDoNotWrite
<1>2. Inv /\ [Next]_vars =>
        [\/ hub' # hub
         \/ checkpoint'.run # checkpoint.run
         \/ subscription' = "held" /\ subscription # "held"
         => \E i \in Runs :
              /\ run[i].status = "running" /\ run[i].lease = "valid"
              /\ run[i].version = connector.version /\ connector.enabled
              /\ run'[i].status \in {"partial", "completed"}]_vars
  BY <1>1 DEF WritesHub, EndsOwnedRun
<1>3. QED
  BY <1>2, Invariance, PTL DEF Spec, OnlyOwnersWrite

(* While a scheduler holds its claim nobody but an administrator takes it  *)
(* away: not even a scheduler whose own claim has expired and who is about *)
(* to reschedule the connector (_reschedule_connector).                    *)
StandingClaim(p) == ClaimHeld(p) /\ puller[p].sched /\ ~ UNCHANGED connector
Released(p) ==
    \/ puller'[p].pc = "idle"
    \/ connector' = [connector EXCEPT !.next = "due"]
    \/ edits' # edits

LEMMA ClaimKept ==
    ASSUME Inv, [Next]_vars, NEW p \in Pullers, StandingClaim(p)
    PROVE  Released(p)
<1>1. /\ connector.claim = p /\ connector.next = "later"
      /\ connector' # connector
  BY DEF StandingClaim, ClaimHeld
<1>2. ~ Starts
  BY <1>1 DEF Starts, StartRun
<1>3. ASSUME NEW q \in Pullers, PullerActs(q) PROVE Released(p)
  <2>1. Reschedule(q)
    BY <1>1, <1>3
       DEF PullerActs, StartRefused, FirstBeat, Fetch, FetchPage, FetchRefused, Disowned,
           BeginImport, Finalize, Fail, Claim, WorkFails, Crash
  <2>2. connector.claim = q
    BY <1>1, <2>1 DEF Reschedule, MayReschedule, ClaimHeld
  <2>3. puller' = [puller EXCEPT ![q] = IdlePuller]
    BY <2>1 DEF Reschedule
  <2>4. puller'[p].pc = "idle"
    BY <1>1, <2>2, <2>3, IdleTyped DEF Inv, PullersOK
  <2>5. QED
    BY <2>4 DEF Released
<1>4. CASE Surroundings
  <2>1. CASE BecomesDue
    BY <2>1 DEF BecomesDue, Released
  <2>2. CASE Edit
    <3>1. edits' = edits + 1 /\ edits \in 0..MaxEdits
      BY <2>2 DEF Edit, Upsert, Inv, StoreOK
    <3>2. QED
      BY <3>1, BoundsAssumption DEF Released
  <2>3. QED
    BY <1>1, <1>4, <2>1, <2>2
       DEF Surroundings, LeaseExpires, CursorExpires, SyncTokenExpires
<1>5. QED
  BY <1>1, <1>2, <1>3, <1>4, Steps DEF vars

THEOREM ClaimsStand == Spec => ClaimStands
<1>1. Inv /\ [Next]_vars => \A p \in Pullers : StandingClaim(p) => Released(p)
  BY ClaimKept
<1>2. Inv /\ [Next]_vars =>
        [\A p \in Pullers :
            /\ ClaimHeld(p) /\ puller[p].sched /\ ~ UNCHANGED connector
            => \/ puller'[p].pc = "idle"
               \/ connector' = [connector EXCEPT !.next = "due"]
               \/ edits' # edits]_vars
  BY <1>1 DEF StandingClaim, Released
<1>3. QED
  BY <1>2, Invariance, PTL DEF Spec, ClaimStands

-----------------------------------------------------------------------------
(* What the rows record.                                                   *)

(* In a table of rows: the pages of some rows are numbered 1 to n, each in *)
(* one row and once, and no two of them share an identity.                 *)
PagesApart(table, rows) ==
    \A i, j \in rows : \A one \in table[i].pages, two \in table[j].pages :
        \/ i = j /\ one = two
        \/ one.number # two.number /\ one.items \cap two.items = {}

Laid(table, rows, n) ==
    /\ \A i \in rows : \A page \in table[i].pages : page.number \in 1..n
    /\ \A m \in 1..n : \E i \in rows : \E page \in table[i].pages : page.number = m
    /\ PagesApart(table, rows)

(* The identity of a connector is pinned while a run is running.           *)
RunningPinned == \A i \in Running : run[i].version = connector.version

CheckpointLaid ==
    Resumable =>
        /\ checkpoint.version = connector.version
        /\ checkpoint.run \in Accepted(checkpoint.snapshot)
        /\ checkpoint.pages < MaxPages
        /\ checkpoint.records = IdentitiesOf(Accepted(checkpoint.snapshot))
        /\ Laid(run, Accepted(checkpoint.snapshot), checkpoint.pages)

(* A running run continues the accepted pages of its snapshot; without a   *)
(* checkpoint there are none, because the name of the snapshot was free.   *)
Continues(i) ==
    /\ Resumable => run[i].snapshot = checkpoint.snapshot
    /\ ~ Resumable => Accepted(run[i].snapshot) = {}

WorkLaid(p) ==
    puller[p].run \in Running =>
        /\ Continues(puller[p].run)
        /\ Laid(run, Accepted(run[puller[p].run].snapshot) \cup {puller[p].run}, puller[p].at)

Provenance == RunningPinned /\ CheckpointLaid /\ \A p \in Pullers : WorkLaid(p)

LEMMA LaidSame ==
    ASSUME NEW table, NEW other, NEW rows, NEW n, Laid(table, rows, n),
           \A i \in rows : other[i].pages = table[i].pages
    PROVE  Laid(other, rows, n)
<1>1. PagesApart(other, rows)
  BY DEF Laid, PagesApart
<1>2. QED
  BY <1>1 DEF Laid

(* A row without pages adds nothing.                                       *)
LEMMA LaidBegins ==
    ASSUME NEW table, NEW rows, NEW n, NEW i, Laid(table, rows, n), table[i].pages = {}
    PROVE  Laid(table, rows \cup {i}, n)
<1>1. PagesApart(table, rows \cup {i})
  BY DEF Laid, PagesApart
<1>2. QED
  BY <1>1 DEF Laid

LEMMA LaidEmpty ==
    ASSUME NEW table
    PROVE  Laid(table, {}, 0)
<1>1. PagesApart(table, {})
  BY DEF PagesApart
<1>2. 1..0 = {}
  OBVIOUS
<1>3. QED
  BY <1>1, <1>2 DEF Laid

(* One more page, with the next number and new identities.                 *)
Adds(table, other, rows, i, page) ==
    /\ other[i].pages = table[i].pages \cup {page}
    /\ \A j \in rows : j # i => other[j].pages = table[j].pages
    /\ \A j \in rows : \A old \in table[j].pages : old.items \cap page.items = {}

LEMMA LaidNext ==
    ASSUME NEW table, NEW other, NEW rows, NEW i \in rows, NEW n \in Nat, NEW page,
           Laid(table, rows, n), Adds(table, other, rows, i, page), page.number = n + 1
    PROVE  Laid(other, rows, n + 1)
<1>1. \A j \in rows : \A one \in other[j].pages : one \in table[j].pages \/ (j = i /\ one = page)
  BY DEF Adds
<1>2. \A j \in rows : \A one \in table[j].pages : one \in other[j].pages
  BY DEF Adds
<1>3. \A j \in rows : \A old \in table[j].pages : old.number \in 1..n
  BY DEF Laid
<1>4. \A j \in rows : \A old \in table[j].pages : old.number # page.number
  BY <1>3
<1>5. PagesApart(table, rows)
  BY DEF Laid
<1>6. PagesApart(other, rows)
  <2> SUFFICES ASSUME NEW j \in rows, NEW k \in rows,
                      NEW one \in other[j].pages, NEW two \in other[k].pages
               PROVE  \/ j = k /\ one = two
                      \/ one.number # two.number /\ one.items \cap two.items = {}
    BY DEF PagesApart
  <2>1. CASE one \in table[j].pages /\ two \in table[k].pages
    BY <1>5, <2>1 DEF PagesApart
  <2>2. CASE one \in table[j].pages /\ two = page
    BY <1>4, <2>2 DEF Adds
  <2>3. CASE one = page /\ two \in table[k].pages
    BY <1>4, <2>3 DEF Adds
  <2>4. CASE j = i /\ one = page /\ k = i /\ two = page
    BY <2>4
  <2>5. QED
    BY <1>1, <2>1, <2>2, <2>3, <2>4
<1>7. \A j \in rows : \A one \in other[j].pages : one.number \in 1..(n + 1)
  BY <1>1, <1>3
<1>8. \A m \in 1..(n + 1) : \E j \in rows : \E one \in other[j].pages : one.number = m
  <2> TAKE m \in 1..(n + 1)
  <2>1. CASE m = n + 1
    BY <2>1 DEF Adds
  <2>2. CASE m \in 1..n
    BY <1>2, <2>2 DEF Laid
  <2>3. QED
    BY <2>1, <2>2
<1>9. QED
  BY <1>6, <1>7, <1>8 DEF Laid

LEMMA SamePages ==
    ASSUME NEW CONSTANT rows, \A i \in rows : run'[i].pages = run[i].pages
    PROVE  PagesOf(rows)' = PagesOf(rows) /\ IdentitiesOf(rows)' = IdentitiesOf(rows)
<1>1. PagesOf(rows)' = PagesOf(rows)
  BY DEF PagesOf
<1>2. QED
  BY <1>1 DEF IdentitiesOf

(* The validation of a checkpoint accepts what is laid out this way.       *)
LEMMA LaidIsAccepted ==
    ASSUME Inv, CheckpointLaid
    PROVE  CheckpointIsAccepted
<1> SUFFICES ASSUME Resumable
             PROVE  ProvenanceHolds /\ checkpoint.pages < MaxPages
  BY DEF CheckpointIsAccepted
<1> DEFINE accepted == Accepted(checkpoint.snapshot)
           Recorded(n) == {i \in accepted : \E page \in run[i].pages : page.number = n}
<1>1. /\ checkpoint.version = connector.version
      /\ checkpoint.run \in accepted
      /\ checkpoint.pages < MaxPages
      /\ checkpoint.records = IdentitiesOf(accepted)
      /\ Laid(run, accepted, checkpoint.pages)
  BY DEF CheckpointLaid
<1>2. checkpoint.pages \in 0..MaxPages
  BY CheckpointFields DEF Inv
<1> HIDE DEF accepted
<1>3. PagesApart(run, accepted)
  BY <1>1 DEF Laid
<1>4. ASSUME NEW n \in 1..MaxPages
      PROVE  IF n <= checkpoint.pages THEN \E i \in accepted : Recorded(n) = {i}
             ELSE Recorded(n) = {}
  <2>1. CASE n <= checkpoint.pages
    <3>1. n \in 1..checkpoint.pages
      BY <1>2, <2>1
    <3>2. PICK i \in accepted : \E page \in run[i].pages : page.number = n
      BY <1>1, <3>1 DEF Laid
    <3>3. \A j \in accepted : (\E page \in run[j].pages : page.number = n) => j = i
      BY <1>3, <3>2 DEF PagesApart
    <3>4. Recorded(n) = {i}
      BY <3>2, <3>3
    <3>5. QED
      BY <2>1, <3>4
  <2>2. CASE ~ (n <= checkpoint.pages)
    <3>1. \A i \in accepted : \A page \in run[i].pages : page.number \in 1..checkpoint.pages
      BY <1>1 DEF Laid
    <3>2. n \notin 1..checkpoint.pages
      BY <1>2, <2>2
    <3>3. Recorded(n) = {}
      BY <3>1, <3>2
    <3>4. QED
      BY <2>2, <3>3
  <2>3. QED
    BY <2>1, <2>2
<1>5. \A one, two \in PagesOf(accepted) :
         one.number # two.number => one.items \cap two.items = {}
  BY <1>3 DEF PagesOf, PagesApart
<1>6. QED
  BY <1>1, <1>4, <1>5 DEF ProvenanceHolds, accepted

-----------------------------------------------------------------------------
(* Steps that neither start nor finish a run leave what was accepted alone.*)

RowsSteady ==
    \A j \in Runs :
        /\ run[j].status = "partial" \/ run'[j].status = "partial" => run'[j] = run[j]
        /\ run'[j].status = "running" =>
              /\ run[j].status = "running"
              /\ run'[j].version = run[j].version
              /\ run'[j].snapshot = run[j].snapshot

PagesSteady == \A j \in Runs : run'[j].status = "running" => run'[j].pages = run[j].pages

CheckpointSteady ==
    /\ checkpoint'.run = checkpoint.run
    /\ checkpoint'.version = checkpoint.version
    /\ checkpoint'.snapshot = checkpoint.snapshot
    /\ checkpoint'.pages = checkpoint.pages
    /\ checkpoint'.records = checkpoint.records

VersionSteady == Resumable \/ Running # {} => connector'.version = connector.version

CallSteady(p) ==
    puller'[p].run # NoRun => puller'[p].run = puller[p].run /\ puller'[p].at = puller[p].at

LEMMA RowSteady ==
    ASSUME RowsOK, NEW i \in Runs, NEW row, run[i].status = "running",
           row.status # "partial", row.snapshot = run[i].snapshot,
           row.version = run[i].version, run' = [run EXCEPT ![i] = row]
    PROVE  /\ RowsSteady
           /\ (row.status = "running" => row.pages = run[i].pages) => PagesSteady
<1>1. \A j \in Runs : run'[j] = IF j = i THEN row ELSE run[j]
  BY DEF RowsOK
<1>2. QED
  BY <1>1 DEF RowsSteady, PagesSteady

LEMMA SameSteady ==
    ASSUME UNCHANGED run
    PROVE  RowsSteady /\ PagesSteady
  BY DEF RowsSteady, PagesSteady

LEMMA EndedFields ==
    ASSUME NEW row \in RunRow, NEW status \in {"partial", "completed", "failed"}, NEW pages
    PROVE  /\ Ended(row, status, pages).status = status
           /\ Ended(row, status, pages).pages = pages
           /\ Ended(row, status, pages).version = row.version
           /\ Ended(row, status, pages).snapshot = row.snapshot
  BY DEF Ended, RunRow

LEMMA EndsSteady ==
    ASSUME RowsOK, NEW i \in Runs, run[i].status = "running",
           NEW status \in {"completed", "failed"}, NEW pages,
           run' = [run EXCEPT ![i] = Ended(run[i], status, pages)]
    PROVE  RowsSteady /\ PagesSteady
<1> DEFINE row == Ended(run[i], status, pages)
<1>1. run[i] \in RunRow
  BY DEF RowsOK
<1>2. row.status = status /\ row.version = run[i].version /\ row.snapshot = run[i].snapshot
  BY <1>1, EndedFields
<1>3. run' = [run EXCEPT ![i] = row]
  OBVIOUS
<1> HIDE DEF row
<1>4. QED
  BY <1>2, <1>3, RowSteady

(* What FetchPage does to the row and to the call.                         *)
LEMMA Fetched ==
    ASSUME Inv, NEW p \in Pullers, NEW items \in PageItems,
           NEW more \in BOOLEAN, NEW reset \in BOOLEAN, FetchPage(p, items, more, reset)
    PROVE  /\ puller[p].run \in Running
           /\ RowsSteady
           /\ run' = [run EXCEPT ![puller[p].run] = run'[puller[p].run]]
           /\ run'[puller[p].run].status = "running"
           /\ run'[puller[p].run].pages =
                 run[puller[p].run].pages \cup {[number |-> puller[p].at + 1, items |-> items]}
           /\ puller' = [puller EXCEPT ![p] = puller'[p]]
           /\ puller'[p].run = puller[p].run
           /\ puller'[p].at = puller[p].at + 1
<1> USE DEF Inv
<1> DEFINE i == puller[p].run
           pages == run[i].pages \cup {[number |-> puller[p].at + 1, items |-> items]}
           row == [run[i] EXCEPT !.pages = pages]
           pc == IF ~ Beats(p) THEN "failing"
                 ELSE IF ~ more \/ puller[p].left = 1 THEN "fetched"
                 ELSE "fetching"
           state == [puller[p] EXCEPT !.at = puller[p].at + 1, !.left = puller[p].left - 1,
                                      !.more = more, !.reset = reset, !.pc = pc]
<1>1. i \in Runs
  BY PullerFields DEF FetchPage, Unemployed
<1>2. run[i] \in RunRow /\ run[i].status = "running"
  BY <1>1 DEF FetchPage, Owns, RowsOK
<1>3. run' = [run EXCEPT ![i] = row]
  BY DEF FetchPage, WithPage
<1>4. /\ row.status = "running" /\ row.version = run[i].version
      /\ row.snapshot = run[i].snapshot /\ row.pages = pages
  BY <1>2 DEF RunRow
<1>5. puller' = [puller EXCEPT ![p] = state]
  BY DEF FetchPage
<1> HIDE DEF pc
<1>6. state.run = i /\ state.at = puller[p].at + 1
  BY PullerFields DEF PullerState
<1> HIDE DEF row, state
<1>7. RowsSteady
  BY <1>1, <1>2, <1>3, <1>4, RowSteady
<1>8. run'[i] = row /\ puller'[p] = state
  BY <1>1, <1>3, <1>5 DEF RowsOK, PullersOK
<1>9. QED
  BY <1>1, <1>2, <1>3, <1>4, <1>5, <1>6, <1>7, <1>8 DEF Running

LEMMA ActsKeepRows ==
    ASSUME Inv, NEW p \in Pullers, PullerActs(p), ~ Fetch(p), ~ Finalize(p)
    PROVE  RowsSteady /\ PagesSteady
<1> USE DEF Inv
<1>1. CASE Fail(p)
  <2>1. CASE Owns(p)
    <3>1. puller[p].run \in Runs /\ run[puller[p].run].status = "running"
      BY <1>1, <2>1, PullerFields DEF Fail, Owns, Unemployed
    <3>2. run' = [run EXCEPT ![puller[p].run] = Ended(run[puller[p].run], "failed", {})]
      BY <1>1, <2>1 DEF Fail
    <3>3. QED
      BY <3>1, <3>2, EndsSteady
  <2>2. CASE ~ Owns(p)
    BY <1>1, <2>2, SameSteady DEF Fail
  <2>3. QED
    BY <2>1, <2>2
<1>2. CASE UNCHANGED run
  BY <1>2, SameSteady
<1>3. QED
  BY <1>1, <1>2
     DEF PullerActs, StartRefused, FirstBeat, FetchRefused, Disowned, BeginImport,
         Reschedule, Claim, WorkFails, Crash

LEMMA SurroundingsKeepRows ==
    ASSUME Inv, Surroundings
    PROVE  RowsSteady /\ PagesSteady
<1> USE DEF Inv
<1>1. ASSUME NEW i \in Runs, LeaseExpires(i) PROVE RowsSteady /\ PagesSteady
  <2> DEFINE row == [run[i] EXCEPT !.lease = "expired"]
  <2>1. run[i] \in RunRow /\ run[i].status = "running"
    BY <1>1, RowFields DEF RowsOK, LeaseExpires
  <2>2. /\ row.status = "running" /\ row.version = run[i].version
        /\ row.snapshot = run[i].snapshot /\ row.pages = run[i].pages
    BY <2>1 DEF RunRow
  <2>3. run' = [run EXCEPT ![i] = row]
    BY <1>1 DEF LeaseExpires
  <2> HIDE DEF row
  <2>4. QED
    BY <2>1, <2>2, <2>3, RowSteady
<1>2. CASE Edit
  <2>1. PICK enabled \in BOOLEAN, scheduled \in BOOLEAN, retimed \in BOOLEAN,
             identityChanges \in BOOLEAN : Upsert(enabled, scheduled, retimed, identityChanges)
    BY <1>2 DEF Edit
  <2>2. run' = [i \in Runs |-> IF (connector.enabled /\ ~ enabled) /\ i \in Running
                               THEN Ended(run[i], "failed", {}) ELSE run[i]]
    BY <2>1 DEF Upsert
  <2>3. \A i \in Runs :
          \/ run'[i] = run[i]
          \/ run'[i] = Ended(run[i], "failed", {}) /\ run[i].status = "running"
    BY <2>2 DEF Running
  <2>4. \A i \in Runs : Ended(run[i], "failed", {}).status = "failed"
    BY EndedFields DEF RowsOK
  <2>5. QED
    BY <2>3, <2>4 DEF RowsSteady, PagesSteady
<1>3. CASE UNCHANGED run
  BY <1>3, SameSteady
<1>4. QED
  BY <1>1, <1>2, <1>3 DEF Surroundings, BecomesDue, CursorExpires, SyncTokenExpires

LEMMA ActsKeepCalls ==
    ASSUME Inv, NEW p \in Pullers, PullerActs(p), ~ Fetch(p), NEW q \in Pullers
    PROVE  CallSteady(q)
<1> USE DEF Inv
<1>1. ASSUME NEW state, puller' = [puller EXCEPT ![p] = state],
             state.run = NoRun \/ (state.run = puller[p].run /\ state.at = puller[p].at)
      PROVE  CallSteady(q)
  <2>1. puller'[q] = IF q = p THEN state ELSE puller[q]
    BY <1>1 DEF PullersOK
  <2>2. QED
    BY <1>1, <2>1 DEF CallSteady
<1>2. ASSUME NEW pc, Goto(p, pc) PROVE CallSteady(q)
  <2> DEFINE state == [puller[p] EXCEPT !.pc = pc]
  <2>1. puller' = [puller EXCEPT ![p] = state]
    BY <1>2 DEF Goto
  <2>2. state.run = puller[p].run /\ state.at = puller[p].at
    BY PullerFields DEF PullerState
  <2> HIDE DEF state
  <2>3. QED
    BY <1>1, <2>1, <2>2
<1>3. ASSUME NEW pc, NEW sched, puller' = [puller EXCEPT ![p] = Resting(pc, sched)]
      PROVE  CallSteady(q)
  <2>1. Resting(pc, sched).run = NoRun
    BY DEF Resting
  <2>2. QED
    BY <1>1, <1>3, <2>1
<1>4. ASSUME NEW outcome, Ends(p, outcome) PROVE CallSteady(q)
  <2>1. \/ puller' = [puller EXCEPT ![p] = Resting(outcome, TRUE)]
        \/ puller' = [puller EXCEPT ![p] = Resting("idle", FALSE)]
    BY <1>4 DEF Ends, IdlePuller
  <2>2. QED
    BY <1>3, <2>1
<1>5. CASE StartRefused(p) \/ Finalize(p) \/ Fail(p)
  BY <1>4, <1>5 DEF StartRefused, Finalize, Fail
<1>6. CASE Reschedule(p) \/ Claim(p) \/ Crash(p)
  BY <1>3, <1>6 DEF Reschedule, Claim, Crash, IdlePuller
<1>7. CASE FirstBeat(p) \/ FetchRefused(p) \/ Disowned(p) \/ WorkFails(p) \/ BeginImport(p)
  BY <1>2, <1>7 DEF FirstBeat, FetchRefused, Disowned, WorkFails, BeginImport
<1>8. QED
  BY <1>5, <1>6, <1>7 DEF PullerActs

LEMMA OthersKeepCheckpoint ==
    ASSUME Inv, (\E p \in Pullers : PullerActs(p) /\ ~ Finalize(p)) \/ Surroundings
    PROVE  CheckpointSteady
<1>1. CASE UNCHANGED checkpoint
  BY <1>1 DEF CheckpointSteady
<1>2. CASE CursorExpires
  BY <1>2 DEF CursorExpires, CheckpointSteady, Inv, StoreOK, Checkpoint
<1>3. QED
  BY <1>1, <1>2
     DEF PullerActs, StartRefused, FirstBeat, Fetch, FetchPage, FetchRefused, Disowned,
         BeginImport, Fail, Reschedule, Claim, WorkFails, Crash, Surroundings,
         LeaseExpires, BecomesDue, SyncTokenExpires, Edit, Upsert

(* The identity changes only when no run and no checkpoint needs it.       *)
LEMMA IdentityPinned ==
    ASSUME Inv, [Next]_vars
    PROVE  VersionSteady
<1>1. edits' = edits => connector'.version = connector.version
  <2>1. edits \in Nat
    BY DEF Inv, StoreOK
  <2>2. QED
    BY <2>1, ConnectorTyped
<1>2. CASE Edit
  <2>1. PICK enabled \in BOOLEAN, scheduled \in BOOLEAN, retimed \in BOOLEAN,
             identityChanges \in BOOLEAN : Upsert(enabled, scheduled, retimed, identityChanges)
    BY <1>2 DEF Edit
  <2>2. identityChanges => ~ Resumable /\ Running = {}
    BY <2>1 DEF Upsert, NothingNeedsIdentity
  <2>3. ~ identityChanges => connector'.version = connector.version
    BY <2>1 DEF Upsert
  <2>4. QED
    BY <2>2, <2>3 DEF VersionSteady
<1>3. UNCHANGED edits \/ Edit
  BY Steps
     DEF Starts, StartRun, PullerActs, StartRefused, FirstBeat, Fetch, FetchPage, FetchRefused,
         Disowned, BeginImport, Finalize, Fail, Reschedule, Claim, WorkFails, Crash,
         Surroundings, LeaseExpires, BecomesDue, CursorExpires, SyncTokenExpires, vars
<1>4. QED
  BY <1>1, <1>2, <1>3 DEF VersionSteady

-----------------------------------------------------------------------------
(* Provenance is kept.                                                     *)

LEMMA AcceptedSteady ==
    ASSUME RowsSteady, connector'.version = connector.version, NEW CONSTANT s
    PROVE  /\ Accepted(s)' = Accepted(s)
           /\ \A j \in Accepted(s) : run'[j].pages = run[j].pages
  BY DEF RowsSteady, Accepted

LEMMA PinnedSteady ==
    ASSUME RunningPinned, RowsSteady, VersionSteady
    PROVE  RunningPinned'
<1> SUFFICES ASSUME NEW j \in Runs, run'[j].status = "running"
             PROVE  run'[j].version = connector'.version
  BY DEF RunningPinned, Running
<1>1. run[j].status = "running" /\ run'[j].version = run[j].version
  BY DEF RowsSteady
<1>2. j \in Running
  BY <1>1 DEF Running
<1>3. QED
  BY <1>1, <1>2 DEF RunningPinned, VersionSteady

LEMMA CheckpointKept ==
    ASSUME CheckpointLaid, RowsSteady, VersionSteady, CheckpointSteady
    PROVE  /\ CheckpointLaid'
           /\ Resumable' = Resumable
           /\ Resumable => PagesOf(Accepted(checkpoint.snapshot))' = PagesOf(Accepted(checkpoint.snapshot))
<1>1. Resumable' = Resumable
  BY DEF CheckpointSteady, Resumable
<1>2. ASSUME Resumable
      PROVE  /\ CheckpointLaid'
             /\ PagesOf(Accepted(checkpoint.snapshot))' = PagesOf(Accepted(checkpoint.snapshot))
  <2>1. PICK s : s = checkpoint.snapshot
    OBVIOUS
  <2>2. checkpoint'.snapshot = s /\ connector'.version = connector.version
    BY <1>2, <2>1 DEF CheckpointSteady, VersionSteady
  <2>3. PICK rows : rows = Accepted(s)
    OBVIOUS
  <2>4. Accepted(s)' = rows /\ \A j \in rows : run'[j].pages = run[j].pages
    BY <2>2, <2>3, AcceptedSteady
  <2>5. PagesOf(rows)' = PagesOf(rows) /\ IdentitiesOf(rows)' = IdentitiesOf(rows)
    BY <2>4, SamePages
  <2>6. Accepted(checkpoint.snapshot) = rows
    BY <2>1, <2>3
  <2>7. Accepted(checkpoint.snapshot)' = rows
    BY <2>2, <2>4 DEF Accepted
  <2>8. /\ checkpoint.version = connector.version
        /\ checkpoint.run \in rows
        /\ checkpoint.pages < MaxPages
        /\ checkpoint.records = IdentitiesOf(rows)
        /\ Laid(run, rows, checkpoint.pages)
    BY <1>2, <2>6 DEF CheckpointLaid
  <2>9. Laid(run', rows, checkpoint.pages)
    BY <2>4, <2>8, LaidSame
  <2>10. PagesOf(Accepted(checkpoint.snapshot))' = PagesOf(rows)'
    BY <2>7 DEF PagesOf
  <2>11. IdentitiesOf(Accepted(checkpoint.snapshot))' = IdentitiesOf(rows)'
    BY <2>10 DEF IdentitiesOf
  <2>12. CheckpointLaid'
    BY <2>2, <2>5, <2>7, <2>8, <2>9, <2>11 DEF CheckpointLaid, CheckpointSteady
  <2>13. QED
    BY <2>5, <2>6, <2>10, <2>12
<1>3. ~ Resumable => CheckpointLaid'
  BY <1>1 DEF CheckpointLaid
<1>4. QED
  BY <1>1, <1>2, <1>3

(* A run that goes on running goes on continuing its snapshot.             *)
LEMMA StillContinues ==
    ASSUME RowsSteady, VersionSteady, CheckpointSteady, NEW CONSTANT i \in Runs,
           run'[i].status = "running", Continues(i)
    PROVE  /\ i \in Running
           /\ Continues(i)'
           /\ Accepted(run[i].snapshot)' = Accepted(run[i].snapshot)
           /\ \A j \in Accepted(run[i].snapshot) : run'[j].pages = run[j].pages
<1>1. i \in Running /\ run'[i].snapshot = run[i].snapshot
  BY DEF RowsSteady, Running
<1>2. connector'.version = connector.version
  BY <1>1 DEF VersionSteady
<1>3. PICK s : s = run[i].snapshot
  OBVIOUS
<1>4. Accepted(s)' = Accepted(s) /\ \A j \in Accepted(s) : run'[j].pages = run[j].pages
  BY <1>2, AcceptedSteady
<1>5. Accepted(run[i].snapshot) = Accepted(s)
  BY <1>3
<1>6. Accepted(run[i].snapshot)' = Accepted(s)'
  BY <1>1, <1>3 DEF Accepted
<1>7. Resumable' = Resumable /\ checkpoint'.snapshot = checkpoint.snapshot
  BY DEF CheckpointSteady, Resumable
<1>8. Continues(i)'
  BY <1>1, <1>4, <1>5, <1>6, <1>7 DEF Continues
<1>9. QED
  BY <1>1, <1>3, <1>4, <1>5, <1>6, <1>8

LEMMA WorkKept ==
    ASSUME Inv, RowsSteady, VersionSteady, CheckpointSteady, PagesSteady,
           NEW p \in Pullers, CallSteady(p), WorkLaid(p)
    PROVE  WorkLaid(p)'
<1> SUFFICES ASSUME puller'[p].run \in Runs, run'[puller'[p].run].status = "running"
             PROVE  /\ Continues(puller[p].run)'
                    /\ Laid(run', (Accepted(run[puller[p].run].snapshot) \cup {puller[p].run})',
                            puller'[p].at)
  BY DEF WorkLaid, Running
<1>1. puller'[p].run = puller[p].run /\ puller'[p].at = puller[p].at
  BY BoundsAssumption DEF CallSteady
<1>2. PICK i \in Runs : i = puller[p].run
  BY <1>1
<1>3. run'[i].status = "running" /\ i \in Running
  BY <1>1, <1>2 DEF RowsSteady, Running
<1>4. Continues(i) /\ Laid(run, Accepted(run[i].snapshot) \cup {i}, puller[p].at)
  BY <1>2, <1>3 DEF WorkLaid
<1>5. /\ Continues(i)'
      /\ Accepted(run[i].snapshot)' = Accepted(run[i].snapshot)
      /\ \A j \in Accepted(run[i].snapshot) : run'[j].pages = run[j].pages
  BY <1>3, <1>4, StillContinues
<1>6. run'[i].pages = run[i].pages
  BY <1>3 DEF PagesSteady
<1>7. PICK rows : rows = Accepted(run[i].snapshot) \cup {i}
  OBVIOUS
<1>8. Laid(run', rows, puller[p].at)
  BY <1>4, <1>5, <1>6, <1>7, LaidSame
<1>9. Continues(puller[p].run)'
  BY <1>1, <1>2, <1>5 DEF Continues, Accepted
<1>10. (Accepted(run[puller[p].run].snapshot) \cup {puller[p].run})' = rows
  <2>1. puller'[p].run = i
    BY <1>1, <1>2
  <2>2. Accepted(run[puller[p].run].snapshot)' = Accepted(run[i].snapshot)'
    BY <2>1 DEF Accepted
  <2>3. QED
    BY <1>5, <1>7, <2>1, <2>2
<1>11. QED
  BY <1>1, <1>8, <1>9, <1>10

LEMMA SteadyProvenance ==
    ASSUME Inv, Provenance, RowsSteady, PagesSteady, VersionSteady, CheckpointSteady,
           \A p \in Pullers : CallSteady(p)
    PROVE  Provenance'
<1>1. RunningPinned' /\ CheckpointLaid'
  BY PinnedSteady, CheckpointKept DEF Provenance
<1>2. \A p \in Pullers : WorkLaid(p)'
  BY WorkKept DEF Provenance
<1>3. QED
  BY <1>1, <1>2 DEF Provenance

(* A page is recorded by the owner of the running run only.                *)
LEMMA FetchProvenance ==
    ASSUME Inv, Provenance, [Next]_vars, NEW p \in Pullers, Fetch(p)
    PROVE  Provenance' /\ RowsSteady /\ CheckpointSteady
<1> USE DEF Inv
<1>1. PICK items \in PageItems, more \in BOOLEAN, reset \in BOOLEAN :
        FetchPage(p, items, more, reset)
  BY DEF Fetch
<1>2. PICK i \in Runs : i = puller[p].run
  BY <1>1, Fetched DEF Running
<1> DEFINE page == [number |-> puller[p].at + 1, items |-> items]
<1>3. /\ i \in Running
      /\ RowsSteady
      /\ run' = [run EXCEPT ![i] = run'[i]]
      /\ run'[i].status = "running"
      /\ run'[i].pages = run[i].pages \cup {page}
      /\ puller' = [puller EXCEPT ![p] = puller'[p]]
      /\ puller'[p].run = i
      /\ puller'[p].at = puller[p].at + 1
  BY <1>1, <1>2, Fetched
<1>4. UNCHANGED <<connector, checkpoint>>
  BY <1>1 DEF FetchPage
<1>5. VersionSteady /\ CheckpointSteady
  BY <1>4 DEF VersionSteady, CheckpointSteady
<1>6. RunningPinned' /\ CheckpointLaid'
  BY <1>3, <1>5, PinnedSteady, CheckpointKept DEF Provenance
<1>7. WorkLaid(p)'
  <2>1. Continues(i) /\ Laid(run, Accepted(run[i].snapshot) \cup {i}, puller[p].at)
    BY <1>2, <1>3 DEF Provenance, WorkLaid
  <2>2. /\ Continues(i)'
        /\ Accepted(run[i].snapshot)' = Accepted(run[i].snapshot)
        /\ \A j \in Accepted(run[i].snapshot) : run'[j].pages = run[j].pages
    BY <1>3, <1>5, <2>1, StillContinues
  <2>3. PICK rows : rows = Accepted(run[i].snapshot) \cup {i}
    OBVIOUS
  <2>4. \A j \in rows : \A old \in run[j].pages : old.items \cap page.items = {}
    <3>1. items \cap IdentitiesOf(rows) = {}
      BY <1>1, <1>2, <2>3 DEF FetchPage, Acceptable, Seen
    <3>2. \A j \in rows : \A old \in run[j].pages : old.items \subseteq IdentitiesOf(rows)
      BY DEF IdentitiesOf, PagesOf
    <3>3. page.items = items
      OBVIOUS
    <3> HIDE DEF page
    <3>4. QED
      BY <3>1, <3>2, <3>3
  <2>5. puller[p].at \in Nat /\ page.number = puller[p].at + 1
    BY PullerFields
  <2> HIDE DEF page
  <2>6. \A j \in rows : j # i => run'[j].pages = run[j].pages
    BY <2>2, <2>3
  <2>7. Laid(run', rows, puller[p].at + 1)
    <3>1. i \in rows /\ Laid(run, rows, puller[p].at)
      BY <2>1, <2>3
    <3>2. run'[i].pages = run[i].pages \cup {page}
      BY <1>3
    <3>3. Adds(run, run', rows, i, page)
      BY <2>4, <2>6, <3>2 DEF Adds
    <3>4. QED
      BY <2>5, <3>1, <3>3, LaidNext
  <2>8. (Accepted(run[puller[p].run].snapshot) \cup {puller[p].run})' = rows
    <3>1. Accepted(run[puller[p].run].snapshot)' = Accepted(run[i].snapshot)'
      BY <1>3 DEF Accepted
    <3>2. QED
      BY <1>3, <2>2, <2>3, <3>1
  <2>9. Continues(puller[p].run)'
    BY <1>3, <2>2 DEF Continues, Accepted
  <2>10. QED
    BY <1>3, <2>7, <2>8, <2>9 DEF WorkLaid
<1>8. ASSUME NEW q \in Pullers, q # p PROVE WorkLaid(q)'
  <2> SUFFICES ASSUME puller'[q].run \in Runs, run'[puller'[q].run].status = "running" PROVE FALSE
    BY DEF WorkLaid, Running
  <2>1. puller'[q] = puller[q]
    BY <1>3, <1>8 DEF PullersOK
  <2>2. puller[q].run \in Running
    BY <1>3, <2>1 DEF RowsSteady, Running
  <2>3. puller[q].run = i
    BY <1>3, <2>2 DEF OneRunning
  <2>4. puller[p].run # NoRun /\ puller[p].run = puller[q].run
    BY <1>2, <2>3, BoundsAssumption
  <2>5. QED
    BY <1>8, <2>4 DEF OnePuller
<1>9. QED
  BY <1>3, <1>5, <1>6, <1>7, <1>8 DEF Provenance

(* A run that starts with a checkpoint continues its snapshot; without one *)
(* it opens a snapshot of which no partial row is left.                    *)
LEMMA StartProvenance ==
    ASSUME Inv, Provenance, Starts
    PROVE  /\ Provenance'
           /\ UNCHANGED <<hub, checkpoint>>
           /\ Resumable => PagesOf(Accepted(checkpoint.snapshot))' = PagesOf(Accepted(checkpoint.snapshot))
<1> USE DEF Inv
<1>1. PICK p \in Pullers, budget \in 1..MaxPages : StartRun(p, NewRow, budget)
  BY DEF Starts
<1> DEFINE i == NewRow
<1>2. StartRun(p, i, budget)
  BY <1>1
<1> HIDE DEF i
<1>3. PICK new \in Runs : new = i
  BY <1>2 DEF StartRun
<1>4. StartRun(p, new, budget) /\ Fresh(new) /\ UNCHANGED <<connector, checkpoint, hub>>
  BY <1>2, <1>3 DEF StartRun
<1>5. PICK row \in RunRow :
         /\ row.status = "running" /\ row.version = connector.version /\ row.pages = {}
         /\ Resumable => row.snapshot = checkpoint.snapshot
         /\ ~ Resumable => row.snapshot = new
         /\ run' = [j \in Runs |-> IF j = new THEN row
                                  ELSE IF j \in Running THEN Reclaimed(run[j])
                                  ELSE IF Forgettable(j) THEN NoRow
                                  ELSE run[j]]
  BY <1>4, StartedRow
<1>6. ASSUME NEW j \in Runs
      PROVE  \/ j = new /\ run'[j] = row
             \/ j # new /\ j \in Running /\ run'[j] = Reclaimed(run[j])
             \/ j # new /\ j \notin Running /\ Forgettable(j) /\ run'[j] = NoRow
             \/ j # new /\ j \notin Running /\ ~ Forgettable(j) /\ run'[j] = run[j]
  BY <1>5
<1>7. \A j \in Runs : Reclaimed(run[j]).status = "failed"
  BY EndedFields DEF RowsOK, Reclaimed
<1>8. \A j \in Runs : run'[j].status = "partial" =>
         j # new /\ ~ Forgettable(j) /\ run'[j] = run[j]
  BY <1>5, <1>6, <1>7, EmptyRowTyped
<1>9. \A j \in Runs : run'[j].status = "running" <=> j = new
  BY <1>4, StartRows
<1>10. run'[new] = row
  BY <1>6
<1>11. RunningPinned'
  BY <1>4, <1>5, <1>9, <1>10 DEF RunningPinned, Running
<1>12. Resumable' = Resumable
  BY <1>4 DEF Resumable
<1>13. PICK s : s = row.snapshot
  OBVIOUS
<1>14. PICK rows : rows = Accepted(s)'
  OBVIOUS
<1>15. ASSUME Resumable
       PROVE  /\ s = checkpoint.snapshot
              /\ rows = Accepted(s)
              /\ \A j \in rows : run'[j] = run[j]
              /\ new \notin rows
  <2>1. s = checkpoint.snapshot
    BY <1>5, <1>13, <1>15
  <2>2. \A j \in Accepted(s) : j # new /\ j \notin Running /\ ~ Forgettable(j)
    BY <1>4, <1>15, <2>1 DEF Accepted, Running, Fresh, Forgettable
  <2>3. \A j \in Accepted(s) : run'[j] = run[j]
    BY <1>6, <2>2 DEF Accepted
  <2>4. \A j \in Runs : j \in rows <=> j \in Accepted(s)
    BY <1>4, <1>8, <1>14, <2>3 DEF Accepted
  <2>5. rows \subseteq Runs /\ Accepted(s) \subseteq Runs
    BY <1>14 DEF Accepted
  <2>6. rows = Accepted(s)
    BY <2>4, <2>5
  <2>7. QED
    BY <2>1, <2>2, <2>3, <2>6
<1>16. ASSUME ~ Resumable PROVE rows = {}
  <2>1. ASSUME NEW j \in rows PROVE FALSE
    <3>1. j \in Runs /\ run'[j].status = "partial" /\ run'[j].snapshot = new
      BY <1>5, <1>13, <1>14, <1>16, <2>1 DEF Accepted
    <3>2. j # new /\ ~ Forgettable(j) /\ run[j].status = "partial" /\ run[j].snapshot = new
      BY <1>8, <3>1
    <3>3. QED
      BY <1>4, <1>16, <3>1, <3>2 DEF Fresh
  <2>2. QED
    BY <2>1
<1>17. ASSUME Resumable
       PROVE  /\ CheckpointLaid' /\ Laid(run', rows, checkpoint.pages)
              /\ PagesOf(Accepted(checkpoint.snapshot))' = PagesOf(Accepted(checkpoint.snapshot))
  <2>1. Accepted(checkpoint.snapshot) = rows
    BY <1>15, <1>17
  <2>2. Accepted(checkpoint.snapshot)' = rows
    BY <1>4, <1>14, <1>15, <1>17 DEF Accepted
  <2>3. /\ checkpoint.version = connector.version
        /\ checkpoint.run \in rows
        /\ checkpoint.pages < MaxPages
        /\ checkpoint.records = IdentitiesOf(rows)
        /\ Laid(run, rows, checkpoint.pages)
    BY <1>17, <2>1 DEF Provenance, CheckpointLaid
  <2>4. \A j \in rows : run'[j].pages = run[j].pages
    BY <1>15, <1>17
  <2>5. PagesOf(rows)' = PagesOf(rows) /\ IdentitiesOf(rows)' = IdentitiesOf(rows)
    BY <2>4, SamePages
  <2>6. Laid(run', rows, checkpoint.pages)
    BY <2>3, <2>4, LaidSame
  <2>7. PagesOf(Accepted(checkpoint.snapshot))' = PagesOf(rows)'
    BY <2>2 DEF PagesOf
  <2>8. IdentitiesOf(Accepted(checkpoint.snapshot))' = IdentitiesOf(rows)'
    BY <2>7 DEF IdentitiesOf
  <2>9. CheckpointLaid'
    BY <1>4, <2>2, <2>3, <2>5, <2>6, <2>8 DEF CheckpointLaid
  <2>10. QED
    BY <2>1, <2>5, <2>6, <2>7, <2>9
<1>18. ~ Resumable => CheckpointLaid'
  BY <1>12 DEF CheckpointLaid
<1>19. Laid(run', rows \cup {new}, checkpoint.pages)
  <2>1. Laid(run', rows, checkpoint.pages)
    <3>1. CASE Resumable
      BY <1>17, <3>1
    <3>2. CASE ~ Resumable
      <4>1. checkpoint.pages = 0
        BY <3>2, CheckpointFields
      <4>2. Laid(run', {}, 0)
        BY LaidEmpty
      <4>3. QED
        BY <1>16, <3>2, <4>1, <4>2
    <3>3. QED
      BY <3>1, <3>2
  <2>2. run'[new].pages = {}
    BY <1>5, <1>10
  <2>3. QED
    BY <2>1, <2>2, LaidBegins
<1>20. ASSUME NEW q \in Pullers PROVE WorkLaid(q)'
  <2> SUFFICES ASSUME puller'[q].run \in Runs, run'[puller'[q].run].status = "running"
               PROVE  /\ Continues(puller[q].run)'
                      /\ Laid(run', (Accepted(run[puller[q].run].snapshot) \cup {puller[q].run})',
                              puller'[q].at)
    BY DEF WorkLaid, Running
  <2>1. puller'[q].run = new
    BY <1>9
  <2>2. q = p /\ puller'[q].at = checkpoint.pages
    <3>1. \A r \in Pullers : puller[r].run # new
      BY <1>4, FreshIsFree
    <3>2. QED
      BY <1>4, <2>1, <3>1, StartPuller
  <2>3. run'[new].snapshot = s
    BY <1>10, <1>13
  <2>4. Accepted(run[puller[q].run].snapshot)' = rows
    BY <1>14, <2>1, <2>3 DEF Accepted
  <2>5. Continues(puller[q].run)'
    BY <1>4, <1>12, <1>15, <1>16, <2>1, <2>3, <2>4 DEF Continues
  <2>6. QED
    BY <1>19, <2>1, <2>2, <2>4, <2>5
<1>21. Provenance'
  BY <1>11, <1>17, <1>18, <1>20 DEF Provenance
<1>22. QED
  BY <1>4, <1>17, <1>21

(* The row of an owned run that is finished.                               *)
LEMMA Finalized ==
    ASSUME Inv, NEW p \in Pullers, Finalize(p)
    PROVE  LET i == puller[p].run IN
           /\ i \in Running
           /\ run[i].version = connector.version /\ UNCHANGED connector
           /\ \A j \in Runs : j # i => run'[j] = run[j]
           /\ run'[i].status = IF puller[p].more THEN "partial" ELSE "completed"
           /\ run'[i].version = run[i].version
           /\ run'[i].snapshot = run[i].snapshot
           /\ run'[i].pages = run[i].pages
<1> USE DEF Inv
<1> DEFINE i == puller[p].run
           status == IF puller[p].more THEN "partial" ELSE "completed"
           row == Ended(run[i], status, run[i].pages)
<1>1. i \in Runs
  BY PullerFields DEF Finalize, Unemployed
<1>2. run[i] \in RunRow /\ i \in Running /\ run[i].version = connector.version /\ UNCHANGED connector
  BY <1>1 DEF Finalize, Owns, RowsOK, Running
<1>3. run' = [run EXCEPT ![i] = row]
  BY DEF Finalize
<1>4. status \in {"partial", "completed", "failed"}
  OBVIOUS
<1> HIDE DEF status
<1>5. /\ row.status = status /\ row.version = run[i].version
      /\ row.snapshot = run[i].snapshot /\ row.pages = run[i].pages
  BY <1>2, <1>4, EndedFields
<1> HIDE DEF row
<1>6. \A j \in Runs : run'[j] = IF j = i THEN row ELSE run[j]
  BY <1>3 DEF RowsOK
<1>7. QED
  BY <1>1, <1>2, <1>5, <1>6 DEF status

(* The commit of a partial pull adds its run to the accepted ones.         *)
LEMMA FinalizeAccepts ==
    ASSUME Inv, Provenance, NEW p \in Pullers, Finalize(p), puller[p].more
    PROVE  /\ CheckpointLaid' /\ Resumable'
           /\ PagesOf(Accepted(checkpoint.snapshot))' = PagesOf(Accepted(run[puller[p].run].snapshot) \cup {puller[p].run})
<1> USE DEF Inv
<1>1. PICK i \in Runs : i = puller[p].run
  BY Finalized DEF Running
<1>2. /\ i \in Running
      /\ run[i].version = connector.version /\ UNCHANGED connector
      /\ \A j \in Runs : j # i => run'[j] = run[j]
      /\ run'[i].status = "partial"
      /\ run'[i].version = run[i].version
      /\ run'[i].snapshot = run[i].snapshot
      /\ run'[i].pages = run[i].pages
  BY <1>1, Finalized
<1>3. PICK s : s = run[i].snapshot
  OBVIOUS
<1>4. PICK rows : rows = Accepted(s) \cup {i}
  OBVIOUS
<1>5. Accepted(s)' = rows
  <2>1. i \notin Accepted(s) /\ i \in Accepted(s)'
    BY <1>2, <1>3 DEF Accepted, Running
  <2>2. \A j \in Runs : j # i => (j \in Accepted(s)' <=> j \in Accepted(s))
    BY <1>2 DEF Accepted
  <2>3. Accepted(s)' \subseteq Runs /\ rows \subseteq Runs
    BY <1>4 DEF Accepted
  <2>4. QED
    BY <1>4, <2>1, <2>2, <2>3
<1>6. rows \subseteq Runs /\ \A j \in rows : run'[j].pages = run[j].pages
  BY <1>2, <1>4 DEF Accepted
<1>7. PagesOf(rows)' = PagesOf(rows) /\ IdentitiesOf(rows)' = IdentitiesOf(rows)
  BY <1>6, SamePages
<1>8. checkpoint' = [run |-> i, version |-> run[i].version, snapshot |-> s,
                     pages |-> puller[p].at, records |-> Seen(p),
                     reset |-> puller[p].reset, honoured |-> TRUE]
  BY <1>1, <1>3 DEF Finalize, NextCheckpoint
<1>9. /\ checkpoint'.run = i /\ checkpoint'.version = run[i].version /\ checkpoint'.snapshot = s
      /\ checkpoint'.pages = puller[p].at /\ checkpoint'.records = Seen(p)
  BY <1>8
<1>10. Resumable'
  BY <1>9, BoundsAssumption DEF Resumable
<1>11. Seen(p) = IdentitiesOf(rows)
  BY <1>1, <1>3, <1>4 DEF Seen
<1>12. Laid(run, rows, puller[p].at)
  BY <1>1, <1>2, <1>3, <1>4 DEF Provenance, WorkLaid
<1>13. Laid(run', rows, puller[p].at)
  BY <1>6, <1>12, LaidSame
<1>14. puller[p].at < MaxPages
  BY <1>1, BoundsAssumption DEF PagesFit, Fits
<1>15. Accepted(checkpoint.snapshot)' = rows
  BY <1>5, <1>9 DEF Accepted
<1>16. PagesOf(Accepted(checkpoint.snapshot))' = PagesOf(rows)'
  BY <1>15 DEF PagesOf
<1>17. IdentitiesOf(Accepted(checkpoint.snapshot))' = IdentitiesOf(rows)'
  BY <1>16 DEF IdentitiesOf
<1>18. CheckpointLaid'
  <2>1. checkpoint'.version = connector'.version
    BY <1>2, <1>9
  <2>2. checkpoint'.run \in Accepted(checkpoint.snapshot)'
    BY <1>4, <1>9, <1>15
  <2>3. checkpoint'.pages < MaxPages
    BY <1>9, <1>14
  <2>4. checkpoint'.records = IdentitiesOf(Accepted(checkpoint.snapshot))'
    BY <1>7, <1>9, <1>11, <1>17
  <2>5. Laid(run', Accepted(checkpoint.snapshot)', checkpoint'.pages)
    BY <1>9, <1>13, <1>15
  <2>6. QED
    BY <2>1, <2>2, <2>3, <2>4, <2>5 DEF CheckpointLaid
<1>19. QED
  BY <1>1, <1>3, <1>4, <1>7, <1>10, <1>16, <1>18

LEMMA FinalizeProvenance ==
    ASSUME Inv, Provenance, NEW p \in Pullers, Finalize(p)
    PROVE  Provenance'
<1>1. \A j \in Runs : run'[j].status # "running"
  BY Finalized DEF Inv, OneRunning, Running
<1>2. RunningPinned' /\ \A q \in Pullers : WorkLaid(q)'
  BY <1>1 DEF RunningPinned, WorkLaid, Running
<1>3. CASE puller[p].more
  BY <1>2, <1>3, FinalizeAccepts DEF Provenance
<1>4. CASE ~ puller[p].more
  <2>1. checkpoint' = NoCheckpoint
    BY <1>4 DEF Finalize, NextCheckpoint
  <2>2. ~ Resumable'
    BY <2>1 DEF Resumable, NoCheckpoint
  <2>3. QED
    BY <1>2, <2>2 DEF Provenance, CheckpointLaid
<1>5. QED
  BY <1>3, <1>4

LEMMA InitProvenance == Init => Provenance
<1> SUFFICES ASSUME Init PROVE Provenance
  OBVIOUS
<1>1. \A j \in Runs : run[j].status = "absent"
  BY EmptyRowTyped DEF Init
<1>2. ~ Resumable
  BY DEF Init, Resumable, NoCheckpoint
<1>3. QED
  BY <1>1, <1>2 DEF Provenance, RunningPinned, CheckpointLaid, WorkLaid, Running

LEMMA NextProvenance == Inv /\ Provenance /\ [Next]_vars => Provenance'
<1> SUFFICES ASSUME Inv, Provenance, [Next]_vars PROVE Provenance'
  OBVIOUS
<1>1. VersionSteady
  BY IdentityPinned
<1>2. CASE Starts
  BY <1>2, StartProvenance
<1>3. ASSUME NEW p \in Pullers, PullerActs(p) PROVE Provenance'
  <2>1. CASE Fetch(p)
    BY <2>1, FetchProvenance
  <2>2. CASE Finalize(p)
    BY <2>2, FinalizeProvenance
  <2>3. CASE ~ Fetch(p) /\ ~ Finalize(p)
    <3>1. RowsSteady /\ PagesSteady
      BY <1>3, <2>3, ActsKeepRows
    <3>2. \A q \in Pullers : CallSteady(q)
      BY <1>3, <2>3, ActsKeepCalls
    <3>3. CheckpointSteady
      BY <1>3, <2>3, OthersKeepCheckpoint
    <3>4. QED
      BY <1>1, <3>1, <3>2, <3>3, SteadyProvenance
  <2>4. QED
    BY <2>1, <2>2, <2>3
<1>4. CASE Surroundings
  <2>1. \A q \in Pullers : CallSteady(q)
    BY <1>4 DEF Surroundings, LeaseExpires, BecomesDue, CursorExpires, SyncTokenExpires,
                Edit, Upsert, CallSteady
  <2>2. QED
    BY <1>1, <1>4, <2>1, SurroundingsKeepRows, OthersKeepCheckpoint, SteadyProvenance
<1>5. CASE UNCHANGED vars
  <2>1. CheckpointSteady /\ \A q \in Pullers : CallSteady(q)
    BY <1>5 DEF vars, CheckpointSteady, CallSteady
  <2>2. UNCHANGED run
    BY <1>5 DEF vars
  <2>3. QED
    BY <1>1, <2>1, <2>2, SameSteady, SteadyProvenance
<1>6. QED
  BY <1>2, <1>3, <1>4, <1>5, Steps

THEOREM ProvenanceInvariant == Spec => [](Inv /\ Provenance)
<1>1. Spec => []Provenance
  BY InitProvenance, NextProvenance, Invariance, PTL DEF Spec
<1>2. QED
  BY <1>1, Invariance, PTL

(* A stored checkpoint always passes the validation a resumed pull begins  *)
(* with and leaves room for another page, whatever runs failed, were       *)
(* reclaimed or disabled in between (_validate_checkpoint_provenance).     *)
THEOREM CheckpointsResume == Spec => []CheckpointIsAccepted
<1>1. Inv /\ Provenance => CheckpointIsAccepted
  BY LaidIsAccepted DEF Provenance
<1>2. QED
  BY <1>1, ProvenanceInvariant, PTL

-----------------------------------------------------------------------------
(* Refinement.                                                             *)

TakenBar == IF Resumable THEN PagesOf(Accepted(checkpoint.snapshot)) ELSE {}

(* The pages of one row follow those of the other rows in the contract.    *)
LEMMA LaidFollows ==
    ASSUME NEW rows, NEW i, NEW n \in Nat, i \notin rows, Laid(run, rows \cup {i}, n)
    PROVE  /\ run[i].pages \cap PagesOf(rows) = {}
           /\ PagesOf(rows \cup {i}) = PagesOf(rows) \cup run[i].pages
           /\ {page.number : page \in PagesOf(rows) \cup run[i].pages} = 1..n
           /\ \A one, two \in PagesOf(rows) \cup run[i].pages : one # two =>
                 one.number # two.number /\ one.items \cap two.items = {}
<1> DEFINE all == rows \cup {i}
<1>1. PagesOf(all) = PagesOf(rows) \cup run[i].pages
  BY DEF PagesOf
<1>2. \A page \in PagesOf(all) : \E j \in all : page \in run[j].pages
  BY DEF PagesOf
<1>3. \A j \in all : \A page \in run[j].pages : page \in PagesOf(all)
  BY DEF PagesOf
<1>4. PagesApart(run, all)
  BY DEF Laid
<1>5. run[i].pages \cap PagesOf(rows) = {}
  BY <1>4 DEF PagesOf, PagesApart
<1>6. \A one, two \in PagesOf(all) : one # two =>
         one.number # two.number /\ one.items \cap two.items = {}
  BY <1>2, <1>4 DEF PagesApart
<1>7. \A page \in PagesOf(all) : page.number \in 1..n
  BY <1>2 DEF Laid
<1>8. \A m \in 1..n : \E page \in PagesOf(all) : page.number = m
  BY <1>3 DEF Laid
<1>9. {page.number : page \in PagesOf(all)} = 1..n
  BY <1>7, <1>8
<1>10. QED
  BY <1>1, <1>5, <1>6, <1>9

LEMMA OthersStutter ==
    ASSUME Inv, Provenance, [Next]_vars, \A p \in Pullers : ~ Finalize(p)
    PROVE  UNCHANGED <<TakenBar, hub>>
<1>1. VersionSteady
  BY IdentityPinned
<1>2. ASSUME RowsSteady, CheckpointSteady PROVE TakenBar' = TakenBar
  BY <1>1, <1>2, CheckpointKept DEF Provenance, TakenBar
<1>3. CASE Starts
  <2>1. Resumable' = Resumable
    BY <1>3, StartProvenance DEF Resumable
  <2>2. QED
    BY <1>3, <2>1, StartProvenance DEF TakenBar
<1>4. ASSUME NEW p \in Pullers, PullerActs(p) PROVE UNCHANGED <<TakenBar, hub>>
  <2>1. RowsSteady /\ CheckpointSteady
    BY <1>4, FetchProvenance, ActsKeepRows, OthersKeepCheckpoint
  <2>2. UNCHANGED hub
    BY <1>4 DEF PullerActs, StartRefused, FirstBeat, Fetch, FetchPage, FetchRefused,
                Disowned, BeginImport, Fail, Reschedule, Claim, WorkFails, Crash
  <2>3. QED
    BY <1>2, <2>1, <2>2
<1>5. CASE Surroundings
  <2>1. RowsSteady /\ CheckpointSteady
    BY <1>5, SurroundingsKeepRows, OthersKeepCheckpoint
  <2>2. UNCHANGED hub
    BY <1>5 DEF Surroundings, LeaseExpires, BecomesDue, CursorExpires, SyncTokenExpires,
                Edit, Upsert
  <2>3. QED
    BY <1>2, <2>1, <2>2
<1>6. CASE UNCHANGED vars
  BY <1>6 DEF vars, TakenBar, Resumable, PagesOf, Accepted
<1>7. QED
  BY <1>3, <1>4, <1>5, <1>6, Steps

(* The commit of a pull takes the pages of its run as one batch.           *)
LEMMA FinalizeImplements ==
    ASSUME Inv, Provenance, NEW p \in Pullers, Finalize(p)
    PROVE  Contract!Next
<1> USE DEF Inv
<1>1. PICK i \in Runs : i = puller[p].run
  BY Finalized DEF Running
<1>2. i \in Running
  BY <1>1, Finalized
<1>3. PICK rows : rows = Accepted(run[i].snapshot)
  OBVIOUS
<1>4. PICK batch : batch = run[i].pages
  OBVIOUS
<1>5. batch \in SUBSET PageRow
  BY <1>4, RowFields
<1>6. puller[p].at \in 1..MaxPages /\ (puller[p].more => puller[p].at < MaxPages)
  <2>1. puller[p].at \in 0..MaxPages /\ puller[p].pc = "importing"
    BY PullerFields DEF Finalize
  <2>2. puller[p].at >= 1 /\ (puller[p].more => puller[p].at < MaxPages)
    BY <1>1, <2>1, BoundsAssumption DEF PagesFit, Fits
  <2>3. QED
    BY <2>1, <2>2
<1>7. i \notin rows
  BY <1>2, <1>3 DEF Accepted, Running
<1>8. Laid(run, rows \cup {i}, puller[p].at) /\ Continues(i)
  BY <1>1, <1>2, <1>3 DEF Provenance, WorkLaid
<1>9. TakenBar = PagesOf(rows)
  <2>1. CASE Resumable
    BY <1>3, <1>8, <2>1 DEF TakenBar, Continues
  <2>2. CASE ~ Resumable
    <3>1. rows = {}
      BY <1>3, <1>8, <2>2 DEF Continues
    <3>2. PagesOf({}) = {}
      BY DEF PagesOf
    <3>3. QED
      BY <2>2, <3>1, <3>2 DEF TakenBar
  <2>3. QED
    BY <2>1, <2>2
<1>10. /\ batch \cap TakenBar = {}
       /\ PagesOf(rows \cup {i}) = TakenBar \cup batch
       /\ {page.number : page \in TakenBar \cup batch} = 1..puller[p].at
       /\ \A one, two \in TakenBar \cup batch : one # two =>
             one.number # two.number /\ one.items \cap two.items = {}
  <2>1. puller[p].at \in Nat
    BY <1>6
  <2>2. /\ run[i].pages \cap PagesOf(rows) = {}
        /\ PagesOf(rows \cup {i}) = PagesOf(rows) \cup run[i].pages
        /\ {page.number : page \in PagesOf(rows) \cup run[i].pages} = 1..puller[p].at
        /\ \A one, two \in PagesOf(rows) \cup run[i].pages : one # two =>
              one.number # two.number /\ one.items \cap two.items = {}
    BY <1>7, <1>8, <2>1, LaidFollows
  <2>3. QED
    BY <1>4, <1>9, <2>2
<1>11. Contract!Follows(batch, puller[p].at)
  BY <1>10 DEF Contract!Follows, TakenBar
<1>12. IdentitiesOf({i}) = Contract!ItemsOf(batch)
  <2>1. PagesOf({i}) = batch
    BY <1>4 DEF PagesOf
  <2>2. QED
    BY <2>1 DEF IdentitiesOf, Contract!ItemsOf
<1>13. Seen(p) = Contract!ItemsOf(TakenBar \cup batch)
  BY <1>1, <1>3, <1>10 DEF Seen, IdentitiesOf, Contract!ItemsOf
<1>14. batch \in SUBSET Contract!PageRow
  BY <1>5 DEF PageRow, Contract!PageRow
<1>15. hub' = Imported(p) /\ strays \in SUBSET Records
  BY DEF Finalize, StoreOK
<1>16. CASE puller[p].more
  <2>1. hub' = hub \cup Contract!ItemsOf(batch)
    BY <1>1, <1>12, <1>15, <1>16 DEF Imported
  <2>2. TakenBar' = TakenBar \cup batch
    BY <1>1, <1>3, <1>10, <1>16, FinalizeAccepts DEF TakenBar
  <2>3. puller[p].at \in 1..(MaxPages - 1)
    BY <1>6, <1>16, BoundsAssumption
  <2>4. Contract!Take(batch)
    BY <1>11, <2>1, <2>2, <2>3 DEF Contract!Take, TakenBar
  <2>5. QED
    BY <1>14, <2>4 DEF Contract!Next
<1>17. CASE ~ puller[p].more
  <2> DEFINE all == hub \cup Contract!ItemsOf(batch)
  <2>1. hub' = IF puller[p].reset THEN all \cap (Contract!ItemsOf(TakenBar \cup batch) \cup strays)
               ELSE all
    BY <1>1, <1>12, <1>13, <1>15, <1>17 DEF Imported
  <2>2. TakenBar' = {}
    <3>1. checkpoint' = NoCheckpoint
      BY <1>17 DEF Finalize, NextCheckpoint
    <3>2. ~ Resumable'
      BY <3>1 DEF Resumable, NoCheckpoint
    <3>3. QED
      BY <3>2 DEF TakenBar
  <2>3. Contract!Complete(batch, puller[p].reset, strays)
    BY <1>6, <1>11, <2>1, <2>2 DEF Contract!Complete, TakenBar
  <2>4. puller[p].reset \in BOOLEAN
    BY PullerFields
  <2>5. QED
    BY <1>14, <1>15, <2>3, <2>4 DEF Contract!Next
<1>18. QED
  BY <1>16, <1>17

(* Every pull, over however many calls, crashes and reclaimed runs, is a   *)
(* delivery of the contract: pages in order, each once, in whole batches,  *)
(* and complete when it ends (_finalize_owned_run).                        *)
THEOREM Refinement == Spec => ImplementsContract
<1>1. Init => Contract!Init
  <2> SUFFICES ASSUME Init PROVE Contract!Init
    OBVIOUS
  <2>1. ~ Resumable /\ hub = {}
    BY DEF Init, Resumable, NoCheckpoint
  <2>2. QED
    BY <2>1 DEF Contract!Init
<1>2. Inv /\ Provenance /\ [Next]_vars => [Contract!Next]_(Contract!vars)
  <2> SUFFICES ASSUME Inv, Provenance, [Next]_vars
               PROVE  Contract!Next \/ UNCHANGED Contract!vars
    OBVIOUS
  <2>1. CASE \E p \in Pullers : Finalize(p)
    BY <2>1, FinalizeImplements
  <2>2. CASE \A p \in Pullers : ~ Finalize(p)
    <3>1. UNCHANGED <<TakenBar, hub>>
      BY <2>2, OthersStutter
    <3>2. QED
      BY <3>1 DEF Contract!vars, TakenBar
  <2>3. QED
    BY <2>1, <2>2
<1>3. QED
  BY <1>1, <1>2, ProvenanceInvariant, PTL DEF Spec, ImplementsContract, Contract!Spec
=============================================================================
