------------------------------ MODULE Findings ------------------------------
(***************************************************************************)
(* The life of one vulnerability finding: a CVE at one endpoint of one     *)
(* asset.  Scanner reports, NVD snapshots, records of the intelligence hub *)
(* and analysts all speak about it, at times of their own, while the       *)
(* inventory decides whether the endpoint is there at all.  A finding      *)
(* carries one piece of evidence per source, a lifecycle status derived    *)
(* from them, and a risk that follows the status.                          *)
(*                                                                         *)
(* Imports, inventory generations, NVD, KEV and EPSS synchronisation and   *)
(* analysts' decisions hold the row lock of the system, so each is one     *)
(* step.  Correlation with the intelligence hub, and the withdrawal of its *)
(* records, take no such lock: they read the finding, then its risk, and   *)
(* write what changed, as three steps.                                     *)
(*                                                                         *)
(* "accepted" stands for the three statuses only an analyst may leave, and *)
(* the states a vendor reports are reduced to open and fixed, the two that *)
(* are told apart.  Titles, scores and other technical fields are reduced  *)
(* to the kind of source they were taken from.                             *)
(***************************************************************************)
EXTENDS Integers, Sequences, FiniteSetsExt

CONSTANTS
    Series,         \* scanner evidence keys: a provider, a scan series, a plugin
    SnapshotSeries, \* those whose exports name their scope, and can be complete
    Analysts,
    MaxImports,     \* bound on stored scanner reports
    MaxTime         \* bound on the clock

ASSUME SeriesAssumption == SnapshotSeries \subseteq Series
ASSUME BoundsAssumption == MaxImports \in Nat /\ MaxTime \in Nat

VARIABLES
    now,        \* the clock of the service
    endpoint,   \* what the current inventory says of the endpoint
    imports,    \* stored scanner reports, in the order they were imported
    life,       \* lifecycle_status of the finding, "none" before there is one
    primary,    \* the kind of source the technical fields were taken from
    scanner,    \* scanner evidence, one row per series
    intel,      \* intelligence evidence, from NVD and from the hub
    manual,     \* manual evidence, one row per analyst
    risk,       \* status of the finding's risk
    nvdMark,    \* source_updated_at of the last accepted NVD snapshot
    session,    \* the hub's transaction on the finding, if one is open
    overtaken   \* the last reassessment was made from a finding read too early

vars == <<now, endpoint, imports, life, primary, scanner, intel, manual, risk,
          nvdMark, session, overtaken>>

Never == -1
Times == 0..MaxTime

Active == {"open", "reopened"}
Protected == {"accepted"}
Feeds == {"nvd", "hub"}
Strength == [scanner |-> 95, hub |-> 65, nvd |-> 45, none |-> 0]

(* A report observes the finding as open or fixed, or is a complete        *)
(* snapshot of its series from which it is absent; an incomplete report    *)
(* without it says nothing of it.  at is the time the source gives for the *)
(* observation and for the completion of the scan; future marks a time     *)
(* over 24 hours ahead of its reception.                                   *)
Report == [series: Series, state: {"open", "fixed", "absent"}, at: Times,
           future: BOOLEAN, received: Times]

(* obs is the report the row represents; resolved the completion time of   *)
(* the snapshot that omitted the finding, and uncorrelated the annotation  *)
(* that the endpoint left the inventory.                                   *)
Evidence == [obs: 0..MaxImports, life: {"open", "fixed"}, last: Times,
             future: BOOLEAN, ingested: Times, resolved: Times \cup {Never},
             uncorrelated: BOOLEAN]
NoEvidence == [obs |-> 0, life |-> "fixed", last |-> 0, future |-> FALSE,
               ingested |-> 0, resolved |-> Never, uncorrelated |-> FALSE]

(* listed: finding.sources holds an entry of this feed, of revision rev.   *)
IntelEvidence == [life: {"none", "open", "fixed"}, last: Times,
                  listed: BOOLEAN, rev: Times]
NoIntel == [life |-> "none", last |-> 0, listed |-> FALSE, rev |-> 0]

Decision == [life: {"none", "open", "fixed", "accepted"}, at: Times \cup {Never}]
Undecided == [life |-> "none", at |-> Never]

(* overlapped: somebody else wrote the finding since it was read.          *)
Idle == [kind |-> "idle"]
Overlap == session' = IF session = Idle THEN Idle ELSE [session EXCEPT !.overlapped = TRUE]

Init ==
    /\ now = 0
    /\ endpoint = "none"
    /\ imports = <<>>
    /\ life = "none"
    /\ primary = "none"
    /\ scanner = [s \in Series |-> NoEvidence]
    /\ intel = [f \in Feeds |-> NoIntel]
    /\ manual = [a \in Analysts |-> Undecided]
    /\ risk = "none"
    /\ nvdMark = Never
    /\ session = Idle
    /\ overtaken = FALSE

-----------------------------------------------------------------------------
(* Evidence, aggregation and risk *)

(* A clock far in the future counts as the time of reception.              *)
EffectiveTime(o) == IF o.future THEN o.received ELSE o.at

Revision(e) == IF e.resolved # Never THEN e.resolved ELSE e.last

LastDecision == Max({manual[a].at : a \in Analysts} \cup {Never})

(* Upsert(e, i): the row e of its series after report i, which observes    *)
(* the finding.  A newer observation replaces the row and its annotations, *)
(* an older or quarantined one is kept as history, and the row's own       *)
(* observation only takes back the annotation of a lost endpoint.          *)
Replaces(o, e) ==
    ~o.future /\ (e.obs = 0 \/ e.future \/ EffectiveTime(o) >= Revision(e))
Revisited(e, o) ==
    IF e.uncorrelated THEN [e EXCEPT !.life = o.state, !.uncorrelated = FALSE] ELSE e
Represents(i, o, last) ==
    [obs |-> i, life |-> IF o.future THEN "open" ELSE o.state, last |-> last,
     future |-> o.future, ingested |-> o.received, resolved |-> Never,
     uncorrelated |-> FALSE]
Upsert(e, i, o) ==
    CASE e.obs = 0 -> Represents(i, o, EffectiveTime(o))
      [] e.obs = i -> Revisited(e, o)
      [] e.obs \notin {0, i} /\ Replaces(o, e) ->
            Represents(i, o, Max({e.last, EffectiveTime(o)}))
      [] OTHER ->
            IF o.future THEN e ELSE [e EXCEPT !.last = Max({e.last, EffectiveTime(o)})]

(* The status the scanner evidence ev asks for.  After a decision only     *)
(* evidence observed and ingested after it is heard.                       *)
Heard(ev) ==
    {s \in Series : /\ ev[s].obs # 0
                    /\ \/ LastDecision = Never
                       \/ ev[s].ingested > LastDecision /\ Revision(ev[s]) > LastDecision}
(* Mutant: one fixed source is enough.                                     *)
AggregatedAny(l, ev) ==
    IF l \in Protected \/ Heard(ev) = {} THEN l
    ELSE IF \E s \in Heard(ev) : ev[s].life # "open" THEN "fixed"
    ELSE IF l = "fixed" THEN "reopened"
    ELSE l
(* Mutant: a protected status is not looked at.                            *)
AggregatedAll(l, ev) ==
    IF Heard(ev) = {} THEN l
    ELSE IF \A s \in Heard(ev) : ev[s].life # "open" THEN "fixed"
    ELSE IF l = "fixed" THEN "reopened"
    ELSE l
Aggregated(l, ev) ==
    IF l \in Protected \/ Heard(ev) = {} THEN l
    ELSE IF \A s \in Heard(ev) : ev[s].life # "open" THEN "fixed"
    ELSE IF l = "fixed" THEN "reopened"
    ELSE l

(* The strongest active source, or the resolved scanner's description when *)
(* nothing is active.                                                      *)
Selected(ev, in) ==
    LET reported == {s \in Series : ev[s].obs # 0}
    IN  CASE \E s \in reported : ev[s].life = "open" -> "scanner"
          [] in["hub"].life = "open" /\ \A s \in reported : ev[s].life # "open" -> "hub"
          [] /\ in["nvd"].life = "open"
             /\ in["hub"].life # "open"
             /\ \A s \in reported : ev[s].life # "open" -> "nvd"
          [] OTHER -> IF \E s \in reported : ~ev[s].future THEN "scanner" ELSE "none"

Assessed(l) == IF l = "none" THEN "none" ELSE IF l \in Active THEN "open" ELSE "closed"

AnyActive(ev, in) ==
    \/ \E s \in Series : ev[s].obs # 0 /\ ev[s].life = "open"
    \/ \E f \in Feeds : in[f].life = "open"
    \/ \E a \in Analysts : manual[a].life = "open"

(* Close a finding whose last active evidence was withdrawn.               *)
(* Mutant: only the scanners are asked.                                    *)
RetiredUnscanned(l, ev, in) ==
    IF (\E s \in Series : ev[s].obs # 0) \/ l \in Protected THEN l ELSE "fixed"
Retired(l, ev, in) ==
    IF AnyActive(ev, in) \/ l \in Protected THEN l ELSE "fixed"

-----------------------------------------------------------------------------
(* Scanner reports and the inventory *)

(* What an inventory says of the endpoint: the report's host and port are  *)
(* in it ("open"), or are not although it covered them ("missing").        *)
Matches(at) == at = "open"
Misses(at) == at = "missing"

(* The finding as report i and what it says change it: b = [life, scanner, *)
(* primary].  at is what the inventory says of the endpoint.               *)
Promote(b, i, o, at) ==
    IF o.state = "absent" \/ ~Matches(at) THEN b
    ELSE LET ev == [b.scanner EXCEPT ![o.series] = Upsert(@, i, o)]
             created == IF b.life # "none" THEN b.life
                        ELSE IF o.future THEN "open" ELSE o.state
         IN  [life |-> Aggregated(created, ev), scanner |-> ev,
              primary |-> Selected(ev, intel)]

(* A later complete snapshot of the series without the finding fixes it.   *)
ResolveAbsent(b, i, o) ==
    LET e == b.scanner[o.series]
        ev == [b.scanner EXCEPT ![o.series] = [@ EXCEPT !.life = "fixed", !.resolved = o.at]]
    IN  IF \/ o.state # "absent"
           \/ e.obs = 0 \/ e.future \/ o.at <= Revision(e)
        THEN b
        ELSE [life |-> Aggregated(b.life, ev), scanner |-> ev,
              primary |-> Selected(ev, intel)]

(* Evidence whose endpoint left the covered inventory is annotated.        *)
Annotate(b, i, o, at) ==
    IF o.state = "absent" \/ ~Misses(at) \/ b.scanner[o.series].obs # i THEN b
    ELSE [b EXCEPT !.scanner[o.series].uncorrelated = TRUE]

Applied(b, i, o, at) == ResolveAbsent(Promote(Annotate(b, i, o, at), i, o, at), i, o)

Book == [life |-> life, scanner |-> scanner, primary |-> primary]
Write(b) ==
    /\ life' = b.life
    /\ scanner' = b.scanner
    /\ primary' = b.primary
    /\ risk' = Assessed(b.life)
    /\ overtaken' = FALSE
    /\ Overlap

(* import_vulnerability_scan.  Reports may carry any time up to the 24     *)
(* hours of tolerance, here one unit ahead of the clock, or beyond it.     *)
ImportScan(s, state, at, future) ==
    LET i == Len(imports) + 1
        o == [series |-> s, state |-> state, at |-> at, future |-> future,
              received |-> now]
    IN  /\ i <= MaxImports
        /\ at <= now + 1
        /\ state = "absent" => s \in SnapshotSeries /\ ~future
        /\ future => at = now
        /\ imports' = Append(imports, o)
        /\ Write(ResolveAbsent(Promote(Book, i, o, endpoint), i, o))
        /\ UNCHANGED <<now, endpoint, intel, manual, nvdMark>>

(* A scan becomes the inventory and every stored report is read again, in  *)
(* order (recorrelate_vulnerability_observations).                         *)
Recorrelated(at) ==
    LET after[i \in 0..Len(imports)] ==
            IF i = 0 THEN Book ELSE Applied(after[i - 1], i, imports[i], at)
    IN  after[Len(imports)]
(* Mutant: the findings that recorrelation changed are not reassessed.     *)
IngestUnassessed(at) ==
    LET b == Recorrelated(at)
    IN  /\ endpoint' = at
        /\ life' = b.life /\ scanner' = b.scanner /\ primary' = b.primary
        /\ Overlap
        /\ UNCHANGED <<now, imports, intel, manual, risk, nvdMark, overtaken>>
IngestInventory(at) ==
    /\ endpoint' = at
    /\ Write(Recorrelated(at))
    /\ UNCHANGED <<now, imports, intel, manual, nvdMark>>

(* update_finding_lifecycle.  The clock moves on: whatever is ingested     *)
(* next is ingested after the decision.                                    *)
Decide(a, l) ==
    /\ life # "none"
    /\ now < MaxTime
    /\ now' = now + 1
    /\ life' = IF l = "open" /\ life = "fixed" THEN "reopened" ELSE l
    /\ manual' = [manual EXCEPT ![a] = [life |-> l, at |-> now]]
    /\ risk' = Assessed(l)
    /\ overtaken' = FALSE
    /\ Overlap
    /\ UNCHANGED <<endpoint, imports, primary, scanner, intel, nvdMark>>

-----------------------------------------------------------------------------
(* Intelligence *)

(* A record of feed f of revision at, on an existing finding: stale ones   *)
(* are skipped, and one evidence row is refreshed.                         *)
Refreshed(e, at) ==
    IF at >= e.last \/ e.life = "none"
    THEN [life |-> "open", last |-> at, listed |-> TRUE, rev |-> at]
    ELSE [e EXCEPT !.listed = TRUE, !.rev = at]
SourceIsCurrent(e, at) == ~(e.listed /\ e.rev > at)

(* A fixed finding is reopened by intelligence newer than the decision.    *)
Reactivated(l, e, at) ==
    IF l = "fixed" /\ e.life = "open" /\ at > LastDecision THEN "reopened" ELSE l

(* The finding, its evidence of feed f and its primary source, after a     *)
(* record of feed f of revision at was applied at an open endpoint.        *)
WithRecord(f, at, l, in, p) ==
    LET e == Refreshed(in[f], at)
    IN  IF l = "none" THEN [life |-> "open", intel |-> e, primary |-> f]
        ELSE IF ~SourceIsCurrent(in[f], at) THEN [life |-> l, intel |-> in[f], primary |-> p]
        ELSE [life |-> Reactivated(l, e, at), intel |-> e,
              primary |-> IF Strength[f] >= Strength[p] THEN f ELSE p]

Withdrawn(e) == [e EXCEPT !.life = "fixed", !.listed = FALSE, !.rev = 0]

(* sync_nvd for the CPE of the endpoint: a complete snapshot newer than    *)
(* the last accepted one, listing the CVE with a revision or not (Never).  *)
SyncNvd(at, rev) ==
    /\ endpoint # "none"
    /\ at <= now /\ at > nvdMark /\ rev <= at
    /\ nvdMark' = at
    /\ IF rev # Never
       THEN IF ~Matches(endpoint)
            THEN UNCHANGED <<life, primary, intel, risk, overtaken>>
            ELSE LET w == WithRecord("nvd", rev, life, intel, primary)
                 IN  /\ life' = w.life
                     /\ primary' = w.primary
                     /\ intel' = [intel EXCEPT !["nvd"] = w.intel]
                     /\ IF life = "none" \/ SourceIsCurrent(intel["nvd"], rev)
                        THEN risk' = Assessed(w.life) /\ overtaken' = FALSE
                        ELSE UNCHANGED <<risk, overtaken>>
       ELSE IF intel["nvd"].life = "none"
            THEN UNCHANGED <<life, primary, intel, risk, overtaken>>
            ELSE /\ intel' = [intel EXCEPT !["nvd"] = Withdrawn(@)]
                 /\ life' = Retired(life, scanner, intel')
                 /\ primary' = Selected(scanner, intel')
                 /\ risk' = Assessed(life')
                 /\ overtaken' = FALSE
    /\ Overlap
    /\ UNCHANGED <<now, endpoint, imports, scanner, manual>>

(* A KEV or EPSS batch that names the CVE reassesses the finding.          *)
ReassessFinding ==
    /\ life # "none"
    /\ risk' = Assessed(life)
    /\ overtaken' = FALSE
    /\ Overlap
    /\ UNCHANGED <<now, endpoint, imports, life, primary, scanner, intel, manual,
                   nvdMark>>

(* The hub's transactions: a correlation applies an approved record of     *)
(* revision at (import_cve_enrichment), a review or a later feed withdraws *)
(* it (retire_record_effects).  Each reads the finding and its evidence,   *)
(* then the risk, then writes the columns it changed.                      *)
FirstRead(target) ==
    [kind |-> "read", life |-> life, primary |-> primary, to |-> target,
     risk |-> "none", overlapped |-> FALSE]

BeginCorrelation(at) ==
    /\ session = Idle
    /\ Matches(endpoint)
    /\ at <= now /\ at >= intel["hub"].last
    /\ session' = FirstRead(WithRecord("hub", at, life, intel, primary))
    /\ UNCHANGED <<now, endpoint, imports, life, primary, scanner, intel, manual,
                   risk, nvdMark, overtaken>>

BeginWithdrawal ==
    /\ session = Idle
    /\ intel["hub"].listed
    /\ LET in == [intel EXCEPT !["hub"] = Withdrawn(@)]
       IN  session' = FirstRead([life |-> Retired(life, scanner, in), intel |-> in["hub"],
                                 primary |-> Selected(scanner, in)])
    /\ UNCHANGED <<now, endpoint, imports, life, primary, scanner, intel, manual,
                   risk, nvdMark, overtaken>>

ReadRisk ==
    /\ session.kind = "read"
    /\ session' = [session EXCEPT !.kind = "assessed", !.risk = risk]
    /\ UNCHANGED <<now, endpoint, imports, life, primary, scanner, intel, manual,
                   risk, nvdMark, overtaken>>

(* Only changed columns are written.  A finding created meanwhile violates *)
(* the unique key and the transaction is rolled back.                      *)
Changed(old, new, current) == IF old = new THEN current ELSE new
Commit ==
    /\ session.kind = "assessed"
    /\ session' = Idle
    /\ IF session.life = "none" /\ life # "none"
       THEN UNCHANGED <<life, primary, intel, risk, overtaken>>
       ELSE /\ life' = Changed(session.life, session.to.life, life)
            /\ primary' = Changed(session.primary, session.to.primary, primary)
            /\ intel' = [intel EXCEPT !["hub"] = session.to.intel]
            /\ risk' = Changed(session.risk, Assessed(session.to.life), risk)
            /\ overtaken' = session.overlapped
    /\ UNCHANGED <<now, endpoint, imports, scanner, manual, nvdMark>>

Tick == /\ now < MaxTime
        /\ now' = now + 1
        /\ UNCHANGED <<endpoint, imports, life, primary, scanner, intel, manual, risk,
                       nvdMark, session, overtaken>>

Next ==
    \/ \E s \in Series, state \in {"open", "fixed", "absent"}, at \in Times,
          future \in BOOLEAN : ImportScan(s, state, at, future)
    \/ \E at \in {"open", "missing", "uncovered"} : IngestInventory(at)
    \/ \E a \in Analysts, l \in {"open", "fixed", "accepted"} : Decide(a, l)
    \/ \E at \in Times, rev \in Times \cup {Never} : SyncNvd(at, rev)
    \/ ReassessFinding
    \/ \E at \in Times : BeginCorrelation(at)
    \/ BeginWithdrawal
    \/ ReadRisk
    \/ Commit
    \/ Tick

Spec == Init /\ [][Next]_vars

-----------------------------------------------------------------------------
(* Properties *)

TypeOK ==
    /\ now \in Times
    /\ endpoint \in {"none", "open", "missing", "uncovered"}
    /\ imports \in Seq(Report) /\ Len(imports) <= MaxImports
    /\ life \in {"none", "open", "reopened", "fixed", "accepted"}
    /\ primary \in DOMAIN Strength
    /\ scanner \in [Series -> Evidence]
    /\ intel \in [Feeds -> IntelEvidence]
    /\ manual \in [Analysts -> Decision]
    /\ risk \in {"none", "open", "closed"}
    /\ nvdMark \in Times \cup {Never}
    /\ session.kind \in {"idle", "read", "assessed"}
    /\ overtaken \in BOOLEAN

(* The risk is open exactly while the finding is active, whatever closed   *)
(* or reopened it, until the hub assesses it from a finding it read before *)
(* somebody else changed it.                                               *)
RiskFollowsFinding == (risk = Assessed(life)) \/ overtaken

(* A step of the hub that acts on a finding somebody changed meanwhile.    *)
StaleCommit ==
    session.kind = "assessed" /\ session' = Idle
        /\ session.overlapped

(* A finding is not left active without a source, or an analyst, that says *)
(* so: the step that withdraws the last word closes it.  Only a scanner    *)
(* row that an analyst overruled may stand behind it alone.  Two           *)
(* withdrawals that overlap each take the other's evidence for active.     *)
Evidenced ==
    life \in Active =>
        \/ AnyActive(scanner, intel)
        \/ \E s \in Series : scanner[s].obs # 0 /\ s \notin Heard(scanner)
LastWordCloses == [][Evidenced /\ ~StaleCommit => Evidenced']_vars

(* While a finding has the status an analyst decided, only evidence newer  *)
(* than the decision changes it, and nothing at all does when the status   *)
(* is protected.  A transaction of the hub that read the finding before    *)
(* the decision is the exception: it takes no lock.                        *)
Decided(l) == \E a \in Analysts : manual[a].at = LastDecision /\ manual[a].life = l
NewerEvidence ==
    \/ Heard(scanner) # {}
    \/ \E f \in Feeds : intel[f].life # "none" /\ intel[f].last > LastDecision
AnalystDecisionStands ==
    [][LastDecision # Never /\ life' # life /\ manual' = manual /\ ~StaleCommit
         => life \notin Protected /\ (Decided(life) => NewerEvidence')]_vars

(* Evidence closed by a complete snapshot. *)
ResolvedBySnapshot(e) == e.obs # 0 /\ e.life = "fixed" /\ e.resolved # Never

(* What the comment at operational_repository.py:2030 says of it: "a later *)
(* complete scanner snapshot remains authoritative".                       *)
SnapshotRemainsAuthoritative ==
    [][\A s \in Series :
         ResolvedBySnapshot(scanner[s]) /\ scanner'[s].life = "open" =>
            scanner'[s].obs # scanner[s].obs]_vars

(* Until an analyst decides, no source closes a finding another scanner    *)
(* still reports.                                                          *)
OneSourceNeverClosesAnother ==
    [][LastDecision = Never /\ life \in Active /\ life' = "fixed" /\ manual' = manual
         /\ ~StaleCommit
         => \A s \in Series : scanner'[s].obs # 0 => scanner'[s].life # "open"]_vars

(* docs/vulnerability-scan-imports.md:45: reports kept as history "cannot  *)
(* close or reopen current findings".                                      *)
KeptAsHistory ==
    /\ Len(imports') > Len(imports)
    /\ LET o == imports'[Len(imports')]
       IN  scanner[o.series].obs # 0 /\ scanner'[o.series].obs = scanner[o.series].obs
           /\ o.state # "absent"
HistoryDecidesNothing == [][KeptAsHistory => life' = life]_vars

=============================================================================
